SPECIFICATION FairSpec
CONSTANTS
    N = 1
    MaxTasks = 2
    Tasks = {k1}
    Timed = {k1}
    Oversized = {}
    Hanging = {}
    Standalone = TRUE
    Stop = Stop
    NoTask = NoTask
    MaxThreads = 2
PROPERTIES
    StopCompletes
CHECK_DEADLOCK FALSE
