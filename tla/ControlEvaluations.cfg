\* Three runs of three to five events, received in any order; up to three
\* evaluations, the first of them any but plain.
SPECIFICATION Spec
CONSTANTS
  rule1 = rule1
  rule2 = rule2
  Rules = {rule1, rule2}
  TheRuns <- MCRuns
  MaxPrepared = 3
  MaxSigned = 3
  MaxLate = 2
  MaxVaried = 1
CHECK_DEADLOCK FALSE
INVARIANTS
  TypeOK
  FactsAgree
  FactsGrow
  UnpairedCountsAll
  
  CurrentIsLatest
  SomeoneIsCurrent
