------------------------------- MODULE RunCopies -------------------------------
(***************************************************************************)
(* Recorded runs and the copies that reach a verifier.  Runs are recorded  *)
(* by the rules of _seal_event, timestamps included (module AgentRun shows *)
(* that threads, callbacks and failures leave such a chain and nothing     *)
(* else); at any moment a copy of one of them is handed out, and the copy  *)
(* may lose, repeat, reorder or mix up items, or have one of them damaged. *)
(* What verify_agent_run says of the copy is compared with what the copy   *)
(* really is.                                                              *)
(***************************************************************************)
EXTENDS RunVerifier

CONSTANTS Runs,        \* correlation ids
          SignerOf,    \* the certificate each run is sealed with
          Uri, Contents,  \* the object the first two events bind, and what it may contain
          ForeignUri,  \* a URI no artifact signs
          Plans        \* bounds, chosen between at the start: the events of each run,
                       \* the clock readings (the clock may go back), and the number
                       \* of things that happen to one copy

ASSUME CopiesAssumption ==
    /\ SignerOf \in [Runs -> STRING]
    /\ Cardinality(Contents) >= 2
    /\ \A p \in Plans : p.events \in [Runs -> Nat] /\ p.times \subseteq Nat /\ p.damage \in Nat

VARIABLES plan,      \* the bounds of this behaviour; never changes
          sealed,    \* sealed[r]: the events sealed in r, _artifacts
          coverage,  \* coverage[r]: the recorder's walk of the policy, _coverage
          copy,      \* the bundle under verification, or NoCopy
          damage     \* the number of things that have happened to it

vars == <<plan, sealed, coverage, copy, damage>>
---------------------------------------------------------------------------------
Original == CHOOSE c \in Contents : TRUE
Other    == CHOOSE c \in Contents : c # Original

SigOf(r, seq) == <<r, seq>>

ControlArtifact(r) == [run |-> r, seq |-> -1, sig |-> SigOf(r, -1), signer |-> SignerOf[r],
                       objects |-> {}]

\* The signed envelope of the event at the next position (_seal_event).
\* "declared" is what the envelope says of its timestamp.
Envelope(r, type, consequential, asked, time) ==
    LET seq  == Len(sealed[r])
        link == IF seq = 0 THEN NoSig ELSE SigOf(r, seq - 1)
        e    == [type |-> type, seq |-> seq, consequential |-> consequential,
                 declared |-> asked, time |-> time]
        stamp == Required(coverage[r], TRUE, e)
    IN  [run |-> r, seq |-> seq, type |-> type, link |-> link, sig |-> SigOf(r, seq),
         signer |-> SignerOf[r], declared |-> stamp, consequential |-> consequential, time |-> time,
         binds |-> IF seq = 0 THEN SigOf(r, -1) ELSE NoSig,
         finalSeq |-> IF type = "run_end" THEN seq ELSE -1,
         finalPrev |-> IF type = "run_end" THEN link ELSE NoSig,
         objects |-> IF seq <= 1 THEN {<<Uri, Original>>} ELSE {}]

Item(artifact, stamp) ==
    [art |-> artifact, state |-> "intact", stamp |-> stamp, digests |-> artifact.objects]

EventItem(a)   == Item(a, IF a.declared THEN "valid" ELSE "none")
ControlItem(r) == Item(ControlArtifact(r), "valid")
NoControl(r)   == [Item(ControlArtifact(r), "none") EXCEPT !.state = "absent"]

Bundle(r) == [control  |-> ControlItem(r),
              events   |-> [k \in DOMAIN sealed[r] |-> EventItem(sealed[r][k])],
              payloads |-> {}]

\* No copy yet: a bundle of nothing.
NoCopy == [control  |-> NoControl(CHOOSE r \in Runs : TRUE), events |-> <<>>, payloads |-> {}]

\* Mutant: a finished run is recorded into.
Ended_Never(r) == FALSE

Ended(r) == sealed[r] # <<>> /\ sealed[r][Len(sealed[r])].type = "run_end"
---------------------------------------------------------------------------------
Init == /\ plan \in Plans
        /\ sealed = [r \in Runs |-> <<>>]
        /\ coverage = [r \in Runs |-> Fresh]
        /\ copy = NoCopy
        /\ damage = 0

\* The coverage reached by sealing a is committed with the event.
Append1(r, a) ==
    /\ sealed' = [sealed EXCEPT ![r] = Append(@, a)]
    /\ coverage' = [coverage EXCEPT ![r] = Walked(@, TRUE, a)]
    /\ UNCHANGED <<plan, copy, damage>>

Recording(r) == copy = NoCopy /\ ~Ended(r) /\ Len(sealed[r]) < plan.events[r]

SealStart(r) ==
    /\ Recording(r) /\ sealed[r] = <<>>
    /\ \E t \in plan.times : Append1(r, Envelope(r, "run_start", FALSE, FALSE, t))

SealEvent(r) ==
    /\ Recording(r) /\ sealed[r] # <<>>
    /\ \E t \in plan.times, consequential, asked \in BOOLEAN :
          Append1(r, Envelope(r, "event", consequential, asked, t))

SealEnd(r) ==
    /\ Recording(r) /\ sealed[r] # <<>>
    /\ \E t \in plan.times : Append1(r, Envelope(r, "run_end", FALSE, FALSE, t))

\* Mutant: an event that is refused counts for the coverage rule.
Refuse_Counted(r) ==
    /\ Recording(r) /\ sealed[r] # <<>>
    /\ \E t \in plan.times :
          coverage' = [coverage EXCEPT ![r] = Walked(@, TRUE, Envelope(r, "event", FALSE, TRUE, t))]
    /\ UNCHANGED <<plan, sealed, copy, damage>>

\* record raises ValueError: the coverage was walked on a copy of itself, which
\* is thrown away.
Refuse(r) ==
    /\ Recording(r) /\ sealed[r] # <<>>
    /\ UNCHANGED vars

\* to_bundle, at any point of the run.
HandOut(r) ==
    /\ copy = NoCopy
    /\ copy' = Bundle(r)
    /\ UNCHANGED <<plan, sealed, coverage, damage>>
---------------------------------------------------------------------------------
(* What can happen to a copy. *)

Damaged(c) ==
    /\ copy # NoCopy
    /\ damage < plan.damage
    /\ damage' = damage + 1
    /\ copy' = c
    /\ UNCHANGED <<plan, sealed, coverage>>

Without(s, k) == SubSeq(s, 1, k - 1) \o SubSeq(s, k + 1, Len(s))

Withhold == \E k \in DOMAIN copy.events : Damaged([copy EXCEPT !.events = Without(@, k)])

Repeat == \E k \in DOMAIN copy.events : Damaged([copy EXCEPT !.events = Append(@, copy.events[k])])

Reorder == \E k \in DOMAIN copy.events :
              Damaged([copy EXCEPT !.events = <<copy.events[k]>> \o Without(@, k)])

\* An event of a run, of this one or of another, is put into the copy.
MixIn == \E r \in Runs : \E k \in DOMAIN sealed[r] :
            Damaged([copy EXCEPT !.events = Append(@, EventItem(sealed[r][k]))])

DamageEvent == \E k \in DOMAIN copy.events, state \in States \ {"intact", "absent"} :
                  Damaged([copy EXCEPT !.events[k].state = state])

LoseStamp == \E k \in DOMAIN copy.events, stamp \in {"none", "invalid"} :
                Damaged([copy EXCEPT !.events[k].stamp = stamp])

LoseDigest == \E k \in DOMAIN copy.events : Damaged([copy EXCEPT !.events[k].digests = {}])

SupplyPayload == \E o \in {<<Uri, Original>>, <<Uri, Other>>, <<ForeignUri, Original>>} :
                    Damaged([copy EXCEPT !.payloads = {o}])

DamageControl == \E state \in States \ {"intact"} : Damaged([copy EXCEPT !.control.state = state])

SwapControl == \E r \in Runs : Damaged([copy EXCEPT !.control = ControlItem(r)])

Next == \/ \E r \in Runs : \/ SealStart(r) \/ SealEvent(r) \/ SealEnd(r)
                           \/ Refuse(r) \/ HandOut(r)
        \/ Withhold \/ Repeat \/ Reorder \/ MixIn
        \/ DamageEvent \/ LoseStamp \/ LoseDigest \/ SupplyPayload
        \/ DamageControl \/ SwapControl

Spec == Init /\ [][Next]_vars
---------------------------------------------------------------------------------
(* What a copy is, told without the verifier: by comparing it with the runs. *)

IntactItem(s, payloads) ==
    s.state = "intact" /\ \A o \in s.art.objects : Given(s, payloads, o[1]) = {o[2]}

\* The copy is the first n events of run r, each once, in any order, with r's
\* Control Artifact and nothing foreign; a timestamp may be gone where the
\* signed envelope asks for none.
IsPrefix(c, r, n) ==
    /\ c.control.state = "intact" /\ c.control.art.run = r
    /\ Len(c.events) = n
    /\ \A k \in 1..n :
          /\ \E i \in DOMAIN c.events : c.events[i].art = sealed[r][k]
          /\ \A i \in DOMAIN c.events :
                c.events[i].art = sealed[r][k] =>
                   /\ IntactItem(c.events[i], c.payloads)
                   /\ c.events[i].stamp \in IF sealed[r][k].declared THEN {"valid"}
                                                                     ELSE {"none", "valid"}
    /\ \A p \in c.payloads : \E k \in 1..n : \E o \in sealed[r][k].objects : o[1] = p[1]

Is(c, kind) ==
    \E r \in Runs : \E n \in 0..Len(sealed[r]) :
       /\ IsPrefix(c, r, n)
       /\ kind = IF n > 0 /\ sealed[r][n].type = "run_end" THEN "whole" ELSE "prefix"

\* The types of the variables; a run has nothing after run_end.
TypeOK ==
    /\ plan \in Plans
    /\ DOMAIN sealed = Runs /\ DOMAIN coverage = Runs
    /\ \A r \in Runs : /\ Len(sealed[r]) <= plan.events[r]
                       /\ \A k \in 1..Len(sealed[r])-1 : sealed[r][k].type # "run_end"
                       /\ coverage[r].since \in Nat /\ coverage[r].last \in Nat \cup {NoTime}
    /\ copy.control.state \in States
    /\ \A k \in DOMAIN copy.events : copy.events[k].state \in States /\ copy.events[k].stamp \in Stamps
    /\ damage \in 0..plan.damage

\* A copy passes only if it is what was recorded: whatever was lost, repeated,
\* mixed in or damaged, a verdict other than run_invalid means an undamaged
\* prefix of one run with its Control Artifact (verify_agent_run).
OnlyPrefixesPass == RunVerdict(copy) # "run_invalid" => Is(copy, "prefix") \/ Is(copy, "whole")

\* Every prefix of a run verifies: a crash, a clock that went back, an event
\* that was refused or a lost item order never make an honest record invalid.
PrefixesPass == Is(copy, "prefix") => RunVerdict(copy) = "run_open"

\* run_finalized is said of whole runs, and of every whole run.
FinalizedMeansWhole == (RunVerdict(copy) = "run_finalized") <=> Is(copy, "whole")

\* The missing positions a result lists are the first ones missing below the
\* highest position received, up to the limit of the list.
MissingSeqsExact ==
    LET seqs   == {copy.events[k].art.seq : k \in {i \in DOMAIN copy.events : Readable(copy.events[i])}}
        absent == (UNION {0..s-1 : s \in seqs}) \ seqs
    IN  MissingSeqs(copy) = {n \in absent : Cardinality({m \in absent : m < n}) < MaxMissingListed}

\* How long a passing copy goes unanchored: of EveryEvents events in a row one
\* is timestamped, from run_start on, and no event EverySeconds or more after the
\* last timestamped one (after run_start, before there is one) is without.
UnanchoredBounded ==
    RunVerdict(copy) # "run_invalid" =>
       LET arts == Arts(copy)
           stamped(k) == arts[k].art.declared
       IN  \A i, k \in DOMAIN arts :
              i <= k /\ (\A j \in i+1..k : ~stamped(j)) =>
                 /\ EveryEvents > 0 /\ ~stamped(i) => k - i + 1 < EveryEvents
                 /\ EverySeconds > 0 /\ i < k /\ (i = 1 \/ stamped(i)) =>
                       arts[k].art.time - arts[i].art.time < EverySeconds
================================================================================
