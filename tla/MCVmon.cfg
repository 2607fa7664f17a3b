SPECIFICATION FairSpec
CONSTANTS
    Confs <- MCConfs
    MaxWorkers = 2
    MaxThreads = 3
    MaxDispatch = 3
INVARIANTS
    Released
    ServedByWorker
    StaysListening
    NoLateUse
PROPERTY
    EndOfInputEnds
CHECK_DEADLOCK FALSE
