SPECIFICATION Spec
CONSTANTS
  Word = 32
  InitCap = 4
  MaxCap = 8
  Growths <- ByMessage
  b1 = b1
  b2 = b2
  Bytes <- MCBytes
  Junk = Junk
  MaxLen = 2
PROPERTIES MoveKeepsAll
