SPECIFICATION Spec
CONSTANTS
  MaxFd = 4
  MaxCalls = 2
  MaxText = 2
  Lines <- Stdout
  Chunks <- Writes
INVARIANTS ProcessInv OneAnswer FdsPartitioned LinesKept
PROPERTIES SettledStays CallsReturn
CHECK_DEADLOCK FALSE
