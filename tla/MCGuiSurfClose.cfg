SPECIFICATION Spec
CONSTANTS
  s1 = s1
  s2 = s2
  Surfs <- One
  InitCap = 2
  MaxCap = 6
  MaxSizes = 3
  MaxEvents = 2
  ReadSizes <- Sizes
PROPERTIES TakenIsReturned
CHECK_DEADLOCK FALSE
