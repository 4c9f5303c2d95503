SPECIFICATION Spec
CONSTANTS
  MaxCells = 12
  Bottom = 64
  Limit = 76
  VariableCount = 2
  Tasks <- MCCallbackInBranch
CHECK_DEADLOCK FALSE
PROPERTIES
  OnlyDeclarationsStore
