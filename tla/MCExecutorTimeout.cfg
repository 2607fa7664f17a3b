SPECIFICATION FairSpec
CONSTANTS
    N = 1
    MaxTasks = 1
    Tasks = {k1, k2}
    Timed = {k1, k2}
    Oversized = {}
    Hanging = {k1, k2}
    Standalone = FALSE
    Stop = Stop
    NoTask = NoTask
    MaxThreads = 3
INVARIANTS
    TypeOK
    TaskAccounting
    PoolCapacity
    TimeoutsBacked
    ExactTimers
    CrashOnlyInDiscard
PROPERTIES
    ImplementsPool
    TasksServed
CHECK_DEADLOCK FALSE
