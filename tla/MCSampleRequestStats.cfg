SPECIFICATION Spec
CONSTANTS
    Keys = {"stats"}
    Inputs <- MCInputs
    Shortened <- MCShortened
    LongTexts = {"aaa"}
    UuidOf <- MCUuidOf
    NoUuid = NoUuid
    NotAnObject = NotAnObject
    MaxTokens = 10
INVARIANT
    StatsKeyChecked
CHECK_DEADLOCK FALSE
