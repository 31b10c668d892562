\* Two PDFs, one operation more than a seal needs.
SPECIFICATION Spec
CONSTANTS
  Sources <- Classic
  Answers <- MCAnswers
  Escrow = TRUE
  MaxHops = 2
  MaxPrepared = 2
  MaxOps = 2
  MaxResults = 2
  MaxEdits = 0
CHECK_DEADLOCK FALSE
INVARIANT OnlyPreparedSigned
