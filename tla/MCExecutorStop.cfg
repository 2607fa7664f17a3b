SPECIFICATION FairSpec
CONSTANTS
    N = 2
    MaxTasks = 4
    Tasks = {k1, k2, k3}
    Timed = {}
    Oversized = {k3}
    Hanging = {}
    Standalone = FALSE
    Stop = Stop
    NoTask = NoTask
    MaxThreads = 2
INVARIANTS
    DrainedOnStop
PROPERTIES
    StopCompletes
CHECK_DEADLOCK FALSE
