SPECIFICATION Spec
CONSTANTS
    Records <- MCRecords
    Embedded <- MCEmbedded
    Percs = {0, 1, 2}
    IntBits = 8
    LongBits = 16
INVARIANTS
    MemorySafe
    NoLeak
    ReportsRecord
    QuietWhenOff
