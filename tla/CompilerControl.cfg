CONSTANTS
    Vocabulary <- ControlWords
    Names = {"w"}
    Signatures <- StackComments
    Strings = {}
    Length <- StringLength
    TracksLr = TRUE
    NoName = NoName
    MaxWords = 7
SPECIFICATION Spec
INVARIANTS
    TypeOK
    Placement
    WordIndexAgrees
    WhileOnBegin
    Structured
    Regions
    FlagsExact
CHECK_DEADLOCK FALSE
