CONSTANTS
    Backends = {"vm", "x86_32", "esp32s3"}
    Programs <- AllPrograms
SPECIFICATION FairSpec
INVARIANTS
    TypeOK
    DumpFits
    LeastLayout
PROPERTIES
    Terminates
CHECK_DEADLOCK FALSE
