SPECIFICATION Spec
CONSTANTS
  MaxCols = 3
  Configs <- MCConfigs
  Texts <- MCTexts
  MaxWrites = 4
INVARIANTS TableInv Rendered
CHECK_DEADLOCK FALSE
