\* Two runs, up to four and two events, and copies two things happened to; and
\* one run of up to five events with a clock that may go back, whole copies of it
\* handed out at any moment.  The policy has every rule.
SPECIFICATION Spec
CONSTANTS
  PerEvent = FALSE
  OnConsequential = TRUE
  EveryEvents = 3
  EverySeconds = 2
  MaxMissingListed = 1
  Runs <- MCRuns
  SignerOf <- MCSignerOf
  Plans <- MCPlans
  Uri = "uri"
  ForeignUri = "other uri"
  Contents = {"original", "other"}
CHECK_DEADLOCK FALSE
INVARIANTS
  TypeOK
  OnlyPrefixesPass
  FinalizedMeansWhole
  MissingSeqsExact
  PrefixesPass
  UnanchoredBounded
