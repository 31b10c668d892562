\* Two synchronous calls and an asynchronous one, any of them from inside a
\* callback, beside a thread that finishes the run.
SPECIFICATION Spec
CONSTANTS
  c1 = c1
  c2 = c2
  a1 = a1
  Calls = {c1, c2, a1}
  Async = {a1}
  Api <- MCApi
  Responses <- MCResponses
  closer = closer
  nobody = nobody
CHECK_DEADLOCK FALSE
INVARIANTS
  TypeOK
  ReturnedIsRecorded
  FailsOnItsOwn
PROPERTY
  EverythingEnds
