\* One root and two children, whose ids the callers choose, with callbacks that
\* lag behind: every selection of prefixes of every tree they can record.
SPECIFICATION Spec
CONSTANTS
  r1 = r1
  c1 = c1
  c2 = c2
  Roots = {r1}
  Children <- MCChildren
  MaxRuns = 3
  MaxDepth = 1
  MaxTreeArtifacts = 10
  MaxBehind = 3
  MaxSealed = 14
SYMMETRY Symmetry
CHECK_DEADLOCK FALSE
INVARIANTS
  TypeOK
  CutVerdict
  PersistedTreeVerifies
PROPERTIES
  FinalizedIsFinal
