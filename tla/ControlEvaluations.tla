---------------------------- MODULE ControlEvaluations ----------------------------
(***************************************************************************)
(* Control Evaluations of one finished run: an evaluator that receives the  *)
(* run's events in any order prepares, seals and corrects evaluations       *)
(* (ControlEvaluation of _agent_run.py), and a verifier judges whatever     *)
(* evaluations and events a bundle holds (_check_evaluation_v2, _check_policy *)
(* and the evaluation part of verify_agent_run in _agent_verify.py).        *)
(*                                                                         *)
(* The run is a sequence of events a recorder can have sealed; its event s  *)
(* is signed s.  A request to prepare_policy is what the caller passes and  *)
(* nothing else checks: the rules' results and where they arose, the        *)
(* approval record, the timestamps that are not qualified, the gaps.  An    *)
(* evaluation is its envelope; a sealed one is <<envelope, signature>>.     *)
(*                                                                         *)
(* Left out: ids of verifier and engine, the policy document's own rules    *)
(* (one valid document, the one in the Control Artifact), other runs'       *)
(* evaluations, the signer's trust, v2 state evaluations (the SDK makes     *)
(* none).  A v1 evaluation has no kind and takes no part in superseding.    *)
(***************************************************************************)
EXTENDS PolicyFacts

CONSTANTS TheRuns,        \* the runs that may be evaluated: functions from seq to event
          Rules,          \* the Cedar rules of the control set
          MaxPrepared,    \* bound: evaluations prepared
          MaxSigned,      \* bound: evaluations sealed
          MaxLate,        \* bound: events arrive until so many are prepared
          MaxVaried       \* bound: the first so many requests may be other than plain

ASSUME EvaluationAssumption ==
    /\ \A run \in TheRuns :
          /\ MaxSeq(run) \in Nat
          /\ DOMAIN run = 0..MaxSeq(run)
          /\ \A s \in DOMAIN run : run[s].type = "run_end" => s = MaxSeq(run)
    /\ {MaxPrepared, MaxSigned, MaxLate, MaxVaried} \subseteq Nat

VARIABLES run,       \* the events of the run
          received,  \* the seqs the evaluator has received
          prepared,  \* prepared evaluations: their envelopes, in the order prepared
          sealed     \* sealed evaluations, in the order sealed

vars == <<run, received, prepared, sealed>>

LastSeq == MaxSeq(run)
Part(seqs) == [s \in seqs |-> run[s]]

-----------------------------------------------------------------------------
(* Approval records and timestamps.where.                                    *)

NoApproval  == [given |-> FALSE, record |-> TRUE, scope |-> TRUE, agent |-> TRUE, qualified |-> FALSE]
NotRequired == <<-9>>          \* not_qualified is None
Approval    == -4              \* the entries of timestamps.where that are no seq
Control     == -3
RunEnd      == LastSeq + 2     \* comes after every seq

PASS == [result |-> "PASS", where |-> {}]
Worst(rules) ==
    IF \E r \in Rules : rules[r].result = "FAIL" THEN "FAIL"
    ELSE IF \E r \in Rules : rules[r].result = "INDETERMINATE" THEN "INDETERMINATE" ELSE "PASS"

HasRunEnd(through) == \E s \in 0..through : run[s].type = "run_end"
RunEndSeq(seqs) == Max({s \in seqs : run[s].type = "run_end"} \cup {-1})

(* What the code in prepare_policy asks of a request.                        *)
MissingSeqsFit(through, missing) == missing # <<>> => Head(missing) = through + 1

Accepts(request) ==
    LET events == Part(request.prefix)
    IN  /\ request.prefix # {}
        /\ FactsDefined(events, request.missing)
        /\ MissingSeqsFit(ThroughSeq(request.prefix), request.missing)
        /\ (request.status = "unapproved") <=> ~request.approval.given
        /\ \A r \in Rules : (request.rules[r].result = "PASS") <=> (request.rules[r].where = {})
        /\ request.approval.qualified <=> (request.notQualified # NotRequired)

PolicyEnvelope(id, request) ==
    LET facts == BuildFacts(Part(request.prefix), request.missing)
        final == HasRunEnd(facts.through) /\ request.missing = <<>>
    IN  [id |-> id, kind |-> "policy", supersedes |-> request.supersedes,
         through |-> facts.through, named |-> facts.through,
         runEnd |-> IF final THEN RunEndSeq(request.prefix) ELSE -1,
         finalSeq |-> RunEndSeq(request.prefix),
         missing |-> request.missing,
         state |-> IF final THEN "finalized" ELSE "partial",
         facts |-> facts, rules |-> request.rules, overall |-> Worst(request.rules),
         status |-> request.status, approval |-> request.approval,
         notQualified |-> request.notQualified]

OtherEnvelope(id, kind, supersedes) ==
    [id |-> id, kind |-> kind, supersedes |-> supersedes, runEnd |-> LastSeq]

-----------------------------------------------------------------------------
(* What a verifier finds, given the events seqs of the run and the bytes of  *)
(* the objects in payloads.                                                  *)

SubjectBound(e, seqs) ==
    IF e.kind = "policy"
    THEN /\ e.through \in seqs
         /\ e.named = e.through
         /\ e.state = "finalized" => e.runEnd = RunEndSeq(seqs) /\ e.runEnd >= 0
    ELSE RunEndSeq(seqs) >= 0 /\ e.runEnd = RunEndSeq(seqs)

Ascending(missing) == \A i \in 1..(Len(missing) - 1) : missing[i] < missing[i + 1]

MissingOk(e) == Ascending(e.missing) /\ MissingSeqsFit(e.through, e.missing)

PrefixOk(e, seqs) ==
    LET prefix == {s \in seqs : s <= e.through}
    IN  /\ MissingOk(e)
        /\ e.finalSeq = RunEndSeq(prefix)
        /\ (e.state = "finalized") <=> (RunEndSeq(prefix) >= 0 /\ e.missing = <<>>)

(* The facts are rebuilt from the events of the prefix; each where is one of *)
(* their requests.                                                           *)
FactsOk(e, seqs) ==
    LET prefix == {s \in seqs : s <= e.through}
    IN  /\ prefix = 0..e.through
        /\ BuildFacts(Part(prefix), e.missing) = e.facts
        /\ \A r \in Rules : e.rules[r].where \subseteq RequestNames(e.facts)

(* mutant: entries past the prefix are not looked for                        *)
QualifiedOk_AnySeq(e) ==
    LET w == e.notQualified
    IN  (e.notQualified # NotRequired) =>
           /\ \A i \in 1..(Len(w) - 1) : w[i] < w[i + 1]
           /\ RunEnd \in ToSet(w) => e.state = "finalized"

QualifiedOk(e) ==
    LET w == e.notQualified
    IN  (e.notQualified # NotRequired) =>
           /\ \A i \in 1..(Len(w) - 1) : w[i] < w[i + 1]
           /\ \A i \in DOMAIN w : w[i] # RunEnd => w[i] <= e.through
           /\ RunEnd \in ToSet(w) => e.state = "finalized"

ApprovalOk(e, payloads) ==
    IF e.status = "unapproved" THEN e.notQualified = NotRequired
    ELSE /\ "policy-approval" \in payloads
         /\ e.approval.qualified <=> (e.notQualified # NotRequired)
         /\ QualifiedOk(e)
         /\ e.approval.record /\ e.approval.scope /\ e.approval.agent

RulesOk(e) ==
    /\ e.overall = Worst(e.rules)
    /\ \A r \in Rules : (e.rules[r].result = "PASS") <=> (e.rules[r].where = {})

(* The checks of a v2 evaluation that look into its objects.                 *)
EvaluationV2Ok(e, seqs, payloads) ==
    /\ e.kind = "attested" => "control-set" \in payloads
    /\ e.kind = "policy" =>
         /\ {"control-set", "evaluation-facts"} \subseteq payloads
         /\ RulesOk(e)
         /\ PrefixOk(e, seqs)
         /\ FactsOk(e, seqs)
         /\ ApprovalOk(e, payloads)

(* One evaluation's verdict: valid.  Its signer, envelope, objects and        *)
(* control set are what they should be here.                                 *)
Valid(signed, seqs, payloads) ==
    LET e == signed.envelope
    IN  /\ signed.timestamped
        /\ SubjectBound(e, seqs)
        /\ e.kind # "v1" => EvaluationV2Ok(e, seqs, payloads)

(* v2, section 6: whatever a valid evaluation names is superseded, by its id *)
(* alone; among the others of a kind, a second valid one is a finding.       *)
(* verified is the evaluations of a bundle that are valid.                   *)
(* mutant: an evaluation that fails still supersedes                         *)
Superseded_ByAny(bundle, verified) == {sealed[i].envelope.supersedes : i \in bundle} \ {0}

Superseded(bundle, verified) == {sealed[i].envelope.supersedes : i \in verified} \ {0}

(* mutant: an evaluation never stops being current                           *)
Current_AllValid(bundle, verified, kind) ==
    {i \in verified : sealed[i].envelope.kind = kind}

Current(bundle, verified, kind) ==
    {i \in verified : /\ sealed[i].envelope.kind = kind
                      /\ sealed[i].envelope.id \notin Superseded(bundle, verified)}

-----------------------------------------------------------------------------
Init == /\ run \in TheRuns
        /\ received = {}
        /\ prepared = <<>>
        /\ sealed = <<>>

(* What is still missing after the first evaluation comes all at once.       *)
Arrive(seqs) ==
    /\ seqs # {} /\ seqs \cap received = {} /\ Len(prepared) < MaxLate
    /\ prepared # <<>> => received \cup seqs = DOMAIN run
    /\ received' = received \cup seqs
    /\ UNCHANGED <<run, prepared, sealed>>

(* The sealed evaluations a request may name as its predecessor.             *)
Predecessors ==
    {0} \cup {sealed[i].envelope.id : i \in {j \in DOMAIN sealed : sealed[j].envelope.kind # "v1"}}

(* A request of an evaluator that does everything as the documents say, and  *)
(* the fields in which a caller may differ from it.                          *)
Honest(supersedes) ==
    [prefix |-> 0..ThroughSeq(received), missing |-> MissingSeqs(received),
     rules |-> [r \in Rules |-> PASS], status |-> "unapproved",
     approval |-> NoApproval, notQualified |-> NotRequired, supersedes |-> supersedes]

Approved(request, notQualified) ==
    [request EXCEPT !.status = "approved_before_run", !.notQualified = notQualified,
                    !.approval = [given |-> TRUE, record |-> TRUE, scope |-> TRUE, agent |-> TRUE,
                                  qualified |-> notQualified # NotRequired]]

Failed(request, where) ==
    [request EXCEPT !.rules = [r \in Rules |-> [result |-> "FAIL", where |-> {where}]]]

Varied(supersedes) ==
    LET request  == Honest(supersedes)
        through  == ThroughSeq(received)
        final    == HasRunEnd(through) /\ request.missing = <<>>
        approved == Approved(request, NotRequired)
    IN  {Failed(approved, IF final THEN RunRequest ELSE through),
         Approved(request, <<Control, through>> \o (IF final THEN <<RunEnd>> ELSE <<>>)),
         [request EXCEPT !.missing = @ \o @],
         [request EXCEPT !.missing = <<>>],
         [request EXCEPT !.missing = <<through + 1>>],
         [request EXCEPT !.missing = <<through + 1, through + 3, through + 2>>],
         [request EXCEPT !.prefix = received],
         Failed(request, through + 1), Failed(request, RunRequest),
         Approved(request, <<Control, Approval>>), Approved(request, <<through + 1>>),
         Approved(request, <<RunEnd>>),
         [approved EXCEPT !.approval.record = FALSE],
         [approved EXCEPT !.approval.scope = FALSE],
         [approved EXCEPT !.approval.agent = FALSE]}

(* One never sealed has no effect: the next is prepared after it was.        *)
Add(envelope) ==
    /\ Len(prepared) < MaxPrepared
    /\ \A i \in DOMAIN prepared : \E j \in DOMAIN sealed : sealed[j].envelope = prepared[i]
    /\ prepared' = Append(prepared, envelope)
    /\ UNCHANGED <<run, received, sealed>>

PreparePolicy ==
    \E supersedes \in Predecessors :
      \E request \in {Honest(supersedes)} \cup
                     (IF Len(prepared) < MaxVaried THEN Varied(supersedes) ELSE {}) :
         /\ Accepts(request)
         /\ Add(PolicyEnvelope(Len(prepared) + 1, request))

PrepareAttested ==
    /\ RunEndSeq(received) >= 0
    /\ \E supersedes \in Predecessors :
          Add(OtherEnvelope(Len(prepared) + 1, "attested", supersedes))

(* seal: an answer without a timestamp raises, a lost one leaves nothing     *)
(* either, and the prepared evaluation may be sealed again.  complete takes  *)
(* any signature made elsewhere, one without a timestamp as well (at most    *)
(* one here).                                                                *)
(* mutant: the evidence id is made when sealing                              *)
Keep_FreshId(envelope, timestamped) ==
    /\ Len(sealed) < MaxSigned
    /\ sealed' = Append(sealed, [envelope |-> [envelope EXCEPT !.id = MaxPrepared + 2 + Len(sealed)],
                                 timestamped |-> timestamped])
    /\ UNCHANGED <<run, received, prepared>>

Keep(envelope, timestamped) ==
    /\ Len(sealed) < MaxSigned
    /\ sealed' = Append(sealed, [envelope |-> envelope, timestamped |-> timestamped])
    /\ UNCHANGED <<run, received, prepared>>

Seal(envelope) == Keep(envelope, TRUE)
Complete(envelope) ==
    /\ \A i \in DOMAIN sealed : sealed[i].timestamped
    /\ Keep(envelope, FALSE)

(* A v1 request is built and sealed in one call, under an id of its own.  It *)
(* supersedes nothing and nothing names it, so here it comes before others.  *)
SealV1 ==
    /\ sealed = <<>>
    /\ RunEndSeq(received) >= 0
    /\ Keep(OtherEnvelope(MaxPrepared + Len(sealed) + 1, "v1", 0), TRUE)

Next == \/ \E seqs \in SUBSET DOMAIN run : Arrive(seqs)
        \/ PreparePolicy
        \/ PrepareAttested
        \/ SealV1
        \/ \E i \in DOMAIN prepared : Seal(prepared[i]) \/ Complete(prepared[i])

Spec == Init /\ [][Next]_vars

-----------------------------------------------------------------------------
(* Properties.                                                               *)

Kinds == {"policy", "attested", "v1"}
Roles == {"control-set", "evaluation-facts", "policy-approval"}
Bundles == SUBSET DOMAIN sealed

TypeOK ==
    /\ received \subseteq DOMAIN run
    /\ \A i \in DOMAIN prepared :
          /\ prepared[i].id = i /\ prepared[i].kind \in Kinds
          /\ prepared[i].supersedes \in 0..(i - 1)
    /\ \A i \in DOMAIN sealed :
          \/ sealed[i].envelope \in ToSet(prepared)
          \/ sealed[i].envelope.kind = "v1"

(* An evaluator that gives build_facts everything it has received, gaps and  *)
(* all, evaluates the rules on the very facts prepare_policy then signs for  *)
(* the prefix and the gaps it reports.                                       *)
FactsAgree ==
    BuildFacts(Part(received), NotClaimed)
        = BuildFacts(Part(0..ThroughSeq(received)), MissingSeqs(received))

(* What a rule found in the request of one event stays found: late events    *)
(* and filled gaps only add requests, and the run-level one comes when the   *)
(* whole run is there.                                                       *)
FactsGrow ==
    LET mine  == BuildFacts(Part(received), NotClaimed)
        whole == BuildFacts(run, NotClaimed)
    IN  /\ \A n \in 1..(mine.through + 1) : mine.requests[n] = whole.requests[n]
        /\ mine.runLevel <=> received = DOMAIN run /\ whole.runLevel

(* No consequential call hides behind another's result: those not counted as *)
(* unpaired are no more than the results there are for them.                 *)
UnpairedCountsAll ==
    LET facts   == BuildFacts(Part(received), NotClaimed)
        level   == Last(facts.requests)
        calls   == {s \in Calls(run, facts.through) : run[s].consequential}
        results == {s \in 0..facts.through : run[s].type = "tool_result"}
    IN  facts.runLevel => Cardinality(calls) <= level.unpaired + Cardinality(results)

(* An envelope no verifier accepts, whatever it is given.                    *)
Unfit(e) ==
    /\ e.kind = "policy"
    /\ \/ ~Ascending(e.missing)
       \/ \E r \in Rules : ~(e.rules[r].where \subseteq
                0..e.through \cup (IF e.runEnd >= 0 THEN {RunRequest} ELSE {}))
       \/ e.notQualified # NotRequired
             /\ ~(/\ Ascending(e.notQualified)
                  /\ ToSet(e.notQualified) \subseteq {Approval, Control} \cup 0..e.through
                        \cup (IF e.runEnd >= 0 THEN {RunEnd} ELSE {}))
       \/ ~(e.approval.record /\ e.approval.scope /\ e.approval.agent)

Supplied(e, seqs, payloads) ==
    IF e.kind = "policy"
    THEN /\ 0..e.through \subseteq seqs
         /\ {"control-set", "evaluation-facts"} \subseteq payloads
         /\ e.status # "unapproved" => "policy-approval" \in payloads
    ELSE LastSeq \in seqs /\ (e.kind = "attested" => "control-set" \in payloads)

Copies == {0..s : s \in DOMAIN run} \cup {DOMAIN run \ {s} : s \in DOMAIN run}

(* What prepare_policy and prepare_attested accepted verifies in every       *)
(* bundle (here: a prefix of the run, or the run without one event) that has *)
(* a timestamped signature, the events it is about and its objects, however  *)
(* much arrived since; except for the fields prepare_policy takes over        *)
(* unchecked.  (A verdict depends on nothing sealed later.)                  *)
PreparedVerifies ==
    sealed # <<>> =>
        LET signed == Last(sealed)
            e      == signed.envelope
            fit    == signed.timestamped /\ ~Unfit(e)
        IN  \A seqs \in Copies, payloads \in SUBSET Roles :
                Valid(signed, seqs, payloads) <=> fit /\ Supplied(e, seqs, payloads)

Corrected == {"policy", "attested"}
OfKind(kind) == {i \in DOMAIN sealed : sealed[i].envelope.kind = kind}
NamesKind(e, kind) == \E i \in OfKind(kind) : sealed[i].envelope.id = e.supersedes

(* What verifies with the first n + 1 events and every object.               *)
ValidAt(n) == {i \in DOMAIN sealed : Valid(sealed[i], 0..n, Roles)}

(* Every evaluation of a kind was sealed once, names the one sealed before   *)
(* it, and none of another kind names one of it.                             *)
Linear(kind) ==
    LET chain == OfKind(kind)
    IN  /\ \A i \in chain : sealed[i].envelope.supersedes =
               LET before == {j \in chain : j < i}
               IN  IF before = {} THEN 0 ELSE sealed[Max(before)].envelope.id
        /\ \A i \in DOMAIN sealed \ chain : ~NamesKind(sealed[i].envelope, kind)

(* Corrections made one after another: of those a bundle has and that verify *)
(* with the events it has (a prefix of the run), the last is current, and it *)
(* is the only one exactly when none between two of them is missing or       *)
(* invalid.                                                                  *)
CurrentIsLatest ==
    \A kind \in Corrected : Linear(kind) =>
        \A n \in DOMAIN run :
            LET valid == ValidAt(n)
            IN  \A bundle \in Bundles :
                    LET verified == valid \cap bundle
                        mine     == OfKind(kind) \cap verified
                        current  == Current(bundle, verified, kind)
                    IN  mine # {} =>
                            /\ Max(mine) \in current
                            /\ current = {Max(mine)} <=>
                                   OfKind(kind) \cap (Min(mine)..Max(mine)) = mine

(* However evaluations were corrected, sealed twice or left out: some valid  *)
(* one of a kind is current, unless a valid one of another kind names one of *)
(* them; the verifier does not compare kinds.                                *)
SomeoneIsCurrent ==
    \A n \in DOMAIN run :
        LET valid == ValidAt(n)
        IN  \A kind \in Corrected, bundle \in Bundles :
                LET verified == valid \cap bundle
                    mine     == OfKind(kind) \cap verified
                IN  mine # {} => \/ Current(bundle, verified, kind) # {}
                                 \/ \E i \in verified \ mine : NamesKind(sealed[i].envelope, kind)
================================================================================
