\* The callbacks: three threads, callbacks that record, no delegation.
SPECIFICATION FairSpec
CONSTANTS
  t1 = t1
  t2 = t2
  t3 = t3
  Threads = {t1, t2, t3}
  Interruptible = {}
  Children = {}
  NoChild = NoChild
  Uris = {}
  Contents = {}
  MaxObjects = 0
  MaxArtifacts = 6
  MaxPayloads = 0
  MaxNesting = 2
  Retain = FALSE
CHECK_DEADLOCK FALSE
INVARIANTS
  HolesOnlyBehindNested
  CallbacksSerialised
  BrokenNeverFinalized
PROPERTIES
  SealedEventsDelivered
  UninterruptedCallsReturn
