--------------------------- MODULE TimestampCoverage ---------------------------
(***************************************************************************)
(* The coverage rule of the signed timestamp policy (_TimestampCoverage in *)
(* _agent_profiles.py): which events of a run must carry a timestamp.  The *)
(* recorder walks it while it seals and the verifier walks it again over   *)
(* the events it was given, in seq order.                                  *)
(***************************************************************************)
EXTENDS Integers

CONSTANTS PerEvent,         \* profile "per-event": every event
          OnConsequential,  \* consequential events
          EveryEvents,      \* at least every n-th event; 0: no such rule
          EverySeconds      \* at least every n seconds; 0: no such rule

ASSUME PolicyAssumption ==
    /\ PerEvent \in BOOLEAN /\ OnConsequential \in BOOLEAN
    /\ EveryEvents \in Nat /\ EverySeconds \in Nat

NoTime == -1

\* The walk's state: events since the last required one, and the time of that
\* one (of run_start before there is one).
Fresh == [since |-> 0, last |-> NoTime]

\* Mutant: the count starts one event late.
Required_OneLate(cov, known, e) ==
    \/ e.type = "run_end"
    \/ e.declared
    \/ known /\ \/ PerEvent
                \/ OnConsequential /\ e.consequential
                \/ EveryEvents > 0 /\ cov.since >= EveryEvents
                \/ /\ EverySeconds > 0 /\ e.seq > 0 /\ cov.last # NoTime
                   /\ e.time - cov.last >= EverySeconds

\* What a policy asks for; known is FALSE when there is no Control Artifact.
Required(cov, known, e) ==
    \/ e.type = "run_end"
    \/ e.declared
    \/ known /\ \/ PerEvent
                \/ OnConsequential /\ e.consequential
                \/ EveryEvents > 0 /\ cov.since + 1 >= EveryEvents
                \/ /\ EverySeconds > 0 /\ e.seq > 0 /\ cov.last # NoTime
                   /\ e.time - cov.last >= EverySeconds

Walked(cov, known, e) ==
    LET required == Required(cov, known, e)
    IN  [since |-> IF required THEN 0 ELSE cov.since + 1,
         last  |-> IF required \/ (e.seq = 0 /\ cov.last = NoTime) THEN e.time ELSE cov.last]
================================================================================
