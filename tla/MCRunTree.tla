------------------------------- MODULE MCRunTree -------------------------------
(* RunTree for TLC: a root and children that may be delegated to by it or by    *)
(* each other.                                                                  *)
EXTENDS RunTree, TLC

CONSTANTS r1, c1, c2

MCChildren == {c1, c2}
Symmetry   == Permutations(MCChildren)
================================================================================
