CONSTANTS
    Backends = {"esp32s3"}
    Programs <- ShortPrograms
SPECIFICATION FairSpec
INVARIANTS
    AssertedRanges
CHECK_DEADLOCK FALSE
