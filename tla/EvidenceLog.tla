------------------------------ MODULE EvidenceLog ------------------------------
(***************************************************************************)
(* What a recorded run promises whoever holds its artifacts: a log that    *)
(* only grows, one artifact at a time, each artifact naming its position   *)
(* and the signature of the one before it, and that never changes again    *)
(* once a run_end closed it or a failed seal stopped it.                   *)
(*                                                                         *)
(* The abstract specification of the recorder: module AgentRun implements  *)
(* it.  It leaves open what is recorded, so a step is a relation between   *)
(* entries and entries', not a choice from a given set of artifacts.       *)
(***************************************************************************)
EXTENDS Naturals, Sequences

VARIABLES entries,   \* the artifacts sealed so far, in chain order
          status     \* "open", "closed" (run_end sealed) or "stopped" (a seal failed)

vars == <<entries, status>>

\* The signature the first artifact links to: the Control Artifact's.
ControlSig == 1

HeadSig == IF entries = <<>> THEN ControlSig ELSE entries[Len(entries)].sig

Signatures == {ControlSig} \cup {entries[i].sig : i \in DOMAIN entries}

Init == /\ entries = <<>>
        /\ status = "open"

\* e names its own position and its predecessor's signature, and carries a
\* signature no earlier artifact has.
Continues(e) == /\ e.seq = Len(entries)
                /\ e.link = HeadSig
                /\ e.sig \notin Signatures

Grow == /\ status = "open"
        /\ \E e \in {entries'[i] : i \in DOMAIN entries'} :
              /\ entries' = Append(entries, e)
              /\ Continues(e)
              /\ status' \in IF e.type = "run_end" THEN {"closed"} ELSE {"open", "stopped"}

Stop == /\ status = "open"
        /\ status' = "stopped"
        /\ UNCHANGED entries

Next == Grow \/ Stop

Spec == Init /\ [][Next]_vars
================================================================================
