SPECIFICATION MCSpec
CONSTANTS
  TooLong <- MCTooLong
  MaxTables = 2
  MaxText = 1
INVARIANTS WritesInTable TablesHold
CHECK_DEADLOCK FALSE
