SPECIFICATION Spec
CONSTANTS
    Keys = {"req-id", "get-stats", "other"}
    Inputs <- MCInputs
    Shortened <- MCShortened
    LongTexts = {"aaa"}
    UuidOf <- MCUuidOf
    NoUuid = NoUuid
    NotAnObject = NotAnObject
    MaxTokens = 10
INVARIANT
    ParsesAsMeant
CHECK_DEADLOCK FALSE
