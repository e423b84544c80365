SPECIFICATION Spec
CONSTANTS
  h1 = h1
  h2 = h2
  p1 = p1
  Handles <- MCHandles
  Data <- MCData
  Regions <- MCRegions
  Zero = 0
  Uname <- MCUname
  Page = 2
  MaxLen = 2
  MaxSize = 4
  MaxChunk = 2
  MaxBytes = 3
  MaxWrites = 2
INVARIANT CommitsWritten
CHECK_DEADLOCK FALSE
