SPECIFICATION Spec
CONSTANTS
  MaxCells = 12
  Bottom = 64
  Limit = 76
  VariableCount = 2
  Tasks <- MCTasks
CHECK_DEADLOCK FALSE
INVARIANTS
  TypeOK
PROPERTIES
  ImplementsForth
