SPECIFICATION FairSpec
CONSTANTS
    Threads = {t1, t2, t3}
    Clock <- MCClock
    Timeouts = {2, 3}
    MsPerSec = 2
    NsPerMs = 3
INVARIANTS
    WaitersCounted
    SetServesOne
    DeadlineExact
PROPERTY
    WaitEnds
