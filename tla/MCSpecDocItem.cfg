SPECIFICATION DocSpec
CONSTANTS
  Documents <- MCDocuments
  TooLong <- MCTooLong
PROPERTY EmptyItemEnds
CHECK_DEADLOCK FALSE
