SPECIFICATION ReaderSpec
CONSTANTS
    Texts <- MCTexts
    Addresses <- MCAddresses
    Slots = 2
    MaxErrors = 10
INVARIANTS
    StaysInText
    ReadsGrammar
    LocationsKept
PROPERTIES
    FindsTokens
    ReadingEnds
CHECK_DEADLOCK FALSE
