SPECIFICATION FairSpec
CONSTANTS
    Values = {v1, v2}
    NoValue = NoValue
    Getters = {g1, g2, g3}
    size = 3
    OffLimit = 4
INVARIANTS
    TypeOK
    IndicesAgree
    WaitersCounted
    NoLostWakeup
PROPERTIES
    ImplementsQueue
    ServesBlocked
