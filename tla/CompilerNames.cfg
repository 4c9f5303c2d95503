CONSTANTS
    Vocabulary <- NameWords
    Names = {"type", "dup", "w"}
    Signatures <- StackComments
    Strings = {"ab", "c", "empty"}
    Length <- StringLength
    TracksLr = FALSE
    NoName = NoName
    MaxWords = 4
SPECIFICATION Spec
INVARIANTS
    TypeOK
    CallbackSignatures
    StringAddresses
PROPERTIES
    NameKeepsMeaning
CHECK_DEADLOCK FALSE
