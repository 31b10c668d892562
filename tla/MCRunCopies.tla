------------------------------ MODULE MCRunCopies ------------------------------
(* RunCopies for TLC: two runs of one agent, sealed with one certificate, so    *)
(* that nothing but their artifacts' content tells them apart.                  *)
EXTENDS RunCopies

MCRuns     == {"a", "b"}
MCSignerOf == [r \in MCRuns |-> "certificate"]

\* A run that closes and the beginning of another one, to be damaged; and one
\* run, longer than every interval of the policy, under a clock that goes back.
MCPlans == {[events |-> [r \in MCRuns |-> IF r = "a" THEN 4 ELSE 2], times |-> {0}, damage |-> 2],
            [events |-> [r \in MCRuns |-> IF r = "a" THEN 5 ELSE 0], times |-> 0..2, damage |-> 0]}
================================================================================
