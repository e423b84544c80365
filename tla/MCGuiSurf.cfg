SPECIFICATION LivelySpec
CONSTANTS
  s1 = s1
  s2 = s2
  Surfs <- Two
  InitCap = 2
  MaxCap = 6
  MaxSizes = 2
  MaxEvents = 2
  ReadSizes <- SizesAndZero
INVARIANTS WindowInv StreamIntact
PROPERTIES Delivered
CHECK_DEADLOCK FALSE
