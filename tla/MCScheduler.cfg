SPECIFICATION FairSpec
CONSTANTS
    Timers = {a, b, c}
    Periodic = {c}
INVARIANT
    QuietAfterStop
PROPERTIES
    SilentAfterDel
    DelPrecise
    Rescheduled
    StopReturns
CHECK_DEADLOCK FALSE
