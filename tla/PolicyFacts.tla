------------------------------- MODULE PolicyFacts -------------------------------
(***************************************************************************)
(* The facts a policy is evaluated on: _build_facts of _agent_policy.py.    *)
(*                                                                         *)
(* Events are a function from seq to [type, consequential, use, child]: the *)
(* typed fields the facts are built from.  use is the tool's useId, 0 for   *)
(* none; child says that run_start names a parent run.  Left out: the tool's *)
(* name and operation, which are copied into the request as they are, and   *)
(* the agent and correlation ids, the same in every request.               *)
(***************************************************************************)
EXTENDS Integers, SequencesExt

NotClaimed == <<-1>>     \* claimed_missing is None
RunRequest == -2         \* the request "run": no seq

MaxSeq(events) == Max(DOMAIN events \cup {-1})

Gaps(seqs) == (0..Max(seqs \cup {-1})) \ seqs

ThroughSeq(seqs) == IF Gaps(seqs) # {} THEN Min(Gaps(seqs)) - 1 ELSE Max(seqs \cup {-1})

(* What build_facts reports, and what the caller then claims: in order.      *)
MissingSeqs(seqs) ==
    LET gaps == Gaps(seqs)
    IN  [n \in 1..Cardinality(gaps) |->
            CHOOSE s \in gaps : Cardinality({g \in gaps : g < s}) = n - 1]

(* A claim of missing seqs comes with a contiguous prefix, or is refused.    *)
FactsDefined(events, claimed) == claimed # NotClaimed => Gaps(DOMAIN events) = {}

Consequential(events, through) == {s \in 0..through : events[s].consequential}

-----------------------------------------------------------------------------
(* mutant: an approval later in the run counts                               *)
EventRequest_AnyApproval(events, s) ==
    [seq          |-> s,
     action       |-> events[s].type,
     consequential |-> events[s].consequential,
     stepsSoFar   |-> s,
     approval     |-> IF \E t \in DOMAIN events : events[t].type = "human_approval"
                      THEN "unbound" ELSE "none",
     child        |-> events[0].type = "run_start" /\ events[0].child,
     count        |-> Cardinality(Consequential(events, s))]

EventRequest(events, s) ==
    [seq          |-> s,
     action       |-> events[s].type,
     consequential |-> events[s].consequential,
     stepsSoFar   |-> s,
     approval     |-> IF \E t \in 0..(s - 1) : events[t].type = "human_approval"
                      THEN "unbound" ELSE "none",
     child        |-> events[0].type = "run_start" /\ events[0].child,
     count        |-> Cardinality(Consequential(events, s))]

Calls(events, through) == {s \in 0..through : events[s].type = "tool_call"}

(* A result later in the run with the call's useId answers it, unless        *)
(* another call has that useId too.                                          *)
(* mutant: two calls with one useId are both answered by its result          *)
Paired_Shared(events, through, s) ==
    /\ events[s].use > 0
    /\ \E t \in (s + 1)..through : events[t].type = "tool_result" /\ events[t].use = events[s].use

Paired(events, through, s) ==
    /\ events[s].use > 0
    /\ {c \in Calls(events, through) : events[c].use = events[s].use} = {s}
    /\ \E t \in (s + 1)..through : events[t].type = "tool_result" /\ events[t].use = events[s].use

Unpaired(events, through) ==
    {s \in Calls(events, through) : events[s].consequential /\ ~Paired(events, through, s)}

RunLevel(events, through, missing) ==
    missing = <<>> /\ \E s \in 0..through : events[s].type = "run_end"

RunLevelRequest(events, through) ==
    [seq      |-> RunRequest,
     total    |-> Min({s \in 0..through : events[s].type = "run_end"}),
     child    |-> events[0].type = "run_start" /\ events[0].child,
     count    |-> Cardinality(Consequential(events, through)),
     unpaired |-> Cardinality(Unpaired(events, through))]

(* mutant: steps are counted over what was received, gaps left out           *)
BuildFacts_AllReceived(events, claimed) ==
    LET missing == IF claimed = NotClaimed THEN MissingSeqs(DOMAIN events) ELSE claimed
        through == ThroughSeq(DOMAIN events)
        runLevel == \E s \in DOMAIN events : events[s].type = "run_end"
        each    == [n \in 1..(through + 1) |-> EventRequest(events, n - 1)]
    IN  [through |-> through, missing |-> missing, runLevel |-> runLevel, requests |-> each]

BuildFacts(events, claimed) ==
    LET seqs    == DOMAIN events
        missing == IF claimed = NotClaimed THEN MissingSeqs(seqs) ELSE claimed
        through == ThroughSeq(seqs)
        each    == [n \in 1..(through + 1) |-> EventRequest(events, n - 1)]
        level   == RunLevel(events, through, missing)
    IN  [through  |-> through,
         missing  |-> missing,
         runLevel |-> level,
         requests |-> IF level THEN Append(each, RunLevelRequest(events, through)) ELSE each]

RequestNames(facts) == {facts.requests[n].seq : n \in DOMAIN facts.requests}
================================================================================
