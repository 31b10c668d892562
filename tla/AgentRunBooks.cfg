\* The chain, the budget and the delegation books: two threads, one of them
\* interruptible, two children, room for six events.
SPECIFICATION Spec
CONSTANTS
  t1 = t1
  t2 = t2
  Threads = {t1, t2}
  Interruptible = {t1}
  c1 = c1
  c2 = c2
  Children = {c1, c2}
  NoChild = NoChild
  u1 = u1
  x = x
  y = y
  Uris = {u1}
  Contents = {x, y}
  MaxObjects = 1
  MaxArtifacts = 6
  MaxPayloads = 0
  MaxNesting = 0
  Retain = TRUE
SYMMETRY DataSymmetry
CHECK_DEADLOCK FALSE
INVARIANTS
  TypeOK
  RequestsStayCurrent
  ChainLinked
  AlwaysRoomToClose
  DelegationsAccounted
  CompletedMeansAnswered
  UriNamesOneContent
PROPERTY ImplementsEvidenceLog
