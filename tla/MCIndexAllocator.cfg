SPECIFICATION AllocatorSpec
CONSTANTS
    BitsPerChunk = 4
    MaxChunks = 4
    InitialMaximum = 5
    MaxHeld = 5
INVARIANTS
    AllocatorInv
    FindFreeMatchesScan
PROPERTIES
    ReusePostponed
    ImplementsPool
