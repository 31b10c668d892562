\* Retained payloads outgrow the bundle: more objects than MaxPayloads.
SPECIFICATION Spec
CONSTANTS
  t1 = t1
  t2 = t2
  Threads = {t1, t2}
  Interruptible = {}
  c1 = c1
  c2 = c2
  Children = {c1, c2}
  NoChild = NoChild
  u1 = u1
  u2 = u2
  u3 = u3
  x = x
  y = y
  Uris = {u1, u2, u3}
  Contents = {x, y}
  MaxObjects = 1
  MaxArtifacts = 6
  MaxPayloads = 2
  MaxNesting = 0
  Retain = TRUE
CHECK_DEADLOCK FALSE
INVARIANT BundleAvailable
