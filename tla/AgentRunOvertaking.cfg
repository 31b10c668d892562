\* A thread that is not nested overtakes one that waits: three threads, one nested call.
SPECIFICATION Spec
CONSTANTS
  t1 = t1
  t2 = t2
  t3 = t3
  Threads = {t1, t2, t3}
  Interruptible = {}
  Children = {}
  NoChild = NoChild
  Uris = {}
  Contents = {}
  MaxObjects = 0
  MaxArtifacts = 6
  MaxPayloads = 0
  MaxNesting = 1
  Retain = FALSE
CHECK_DEADLOCK FALSE
INVARIANT OnlyNestedOvertakes
