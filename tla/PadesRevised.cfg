\* One PDF, which another tool has revised with packed objects.
SPECIFICATION Spec
CONSTANTS
  Sources <- Revised
  Answers <- MCAnswers
  Escrow = TRUE
  MaxHops = 2
  MaxPrepared = 1
  MaxOps = 1
  MaxResults = 1
  MaxEdits = 0
CHECK_DEADLOCK FALSE
INVARIANT NewestDefinitionsKept
