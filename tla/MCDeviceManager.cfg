SPECIFICATION Spec
CONSTANTS
    Uids = {u1, u2, u3}
    NoUid = NoUid
    NoDevice = NoDevice
    Endpoints = {e1}
    Faults = {"construct"}
    BitsPerChunk = 2
    MaxChunks = 2
    InitialMaximum = 2
    MaxHeld = 4
SYMMETRY UidSymmetry
INVARIANTS
    TypeOK
    StorageFollows
PROPERTIES
    ImplementsRegistry
