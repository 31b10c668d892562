\* Six PDFs, two operations, a revision of another tool in between.
SPECIFICATION Spec
CONSTANTS
  Sources <- MCSources
  Answers <- MCAnswers
  Escrow = TRUE
  MaxHops = 2
  MaxPrepared = 2
  MaxOps = 2
  MaxResults = 2
  MaxEdits = 1
CHECK_DEADLOCK FALSE
INVARIANTS
  TypeOK
  SealsVerify
  FormatTellsContents
  EscrowRestores
  SignedIsFinished
PROPERTY SealKeepsDocument
