SPECIFICATION BothSpec
CONSTANTS
    Texts <- MCTexts
    Before <- Kept
    Numbers = {"0", "30", "60"}
    Classes = {"IN", "CH"}
    Types = {"A", "OPT"}
    Encodable = {"A"}
    Absolute = {".", "a.", "b.", "e.", "f.", "b.."}
    Unnamed = {"b.."}
    Malformed = {"!"}
CHECK_DEADLOCK FALSE
INVARIANTS
    TypeOK
    TextMeans
    FaultsLocated
    UnmatchedRefused
    ReadersAgree
