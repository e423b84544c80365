SPECIFICATION DocSpec
CONSTANTS
  Documents <- MCDocuments
  TooLong <- MCTooLong
INVARIANTS BlocksInv Nested NothingLost WritesInTable TablesHold AsAnnounced TablesMatch
CHECK_DEADLOCK FALSE
