SPECIFICATION Spec
CONSTANTS
  Word = 32
  InitCap = 4
  MaxCap = 8
  Growths <- EitherWay
  b1 = b1
  b2 = b2
  Bytes <- MCBytes
  Junk = Junk
  MaxLen = 2
INVARIANTS BufferInv
PROPERTIES ImplementsByteQueue
