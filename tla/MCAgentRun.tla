------------------------------- MODULE MCAgentRun -------------------------------
(* AgentRun for TLC: the symmetry its runs may use. *)
EXTENDS AgentRun, TLC

\* Children and contents are interchangeable.  Threads are not: one of them may
\* be interruptible.
DataSymmetry == Permutations(Children) \cup Permutations(Contents)
=================================================================================
