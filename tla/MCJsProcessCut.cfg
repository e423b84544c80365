SPECIFICATION Spec
CONSTANTS
  MaxFd = 4
  MaxCalls = 2
  MaxText = 2
  Lines <- Stdout
  Chunks <- Halves
INVARIANT CharactersKept
CHECK_DEADLOCK FALSE
