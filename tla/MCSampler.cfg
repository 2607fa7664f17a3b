SPECIFICATION FairSpec
CONSTANTS
    Requests = {r1, r2}
    Domains = {d1, d2}
    MaxTasks = 1
    NoDom = NoDom
    Stop = Stop
INVARIANTS
    TypeOK
    RefsHeld
    
PROPERTY
    RequestsFinish
CHECK_DEADLOCK FALSE
