SPECIFICATION Spec
CONSTANTS
  Jobs <- MCJobs
CHECK_DEADLOCK FALSE
INVARIANTS
  TypeOK
  MeasuredIsWritten
  TablesRestored
  MemoryKept
  LoadsIffPossible
  InstructionsDecoded
