\* The main thread is interrupted while it waits for its turn: nobody after it returns.
SPECIFICATION FairSpec
CONSTANTS
  t1 = t1
  t2 = t2
  t3 = t3
  Threads = {t1, t2, t3}
  Interruptible = {t1}
  Children = {}
  NoChild = NoChild
  Uris = {}
  Contents = {}
  MaxObjects = 0
  MaxArtifacts = 5
  MaxPayloads = 0
  MaxNesting = 0
  Retain = FALSE
CHECK_DEADLOCK FALSE
PROPERTY UninterruptedCallsReturn
