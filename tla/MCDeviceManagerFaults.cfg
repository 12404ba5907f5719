SPECIFICATION FairSpec
CONSTANTS
    Uids = {u1, u2}
    NoUid = NoUid
    NoDevice = NoDevice
    Endpoints = {}
    Faults = {"construct", "load", "save", "unreadable", "early_restart"}
    BitsPerChunk = 2
    MaxChunks = 2
    InitialMaximum = 2
    MaxHeld = 3
INVARIANTS
    TablesAgree
    IndicesHeld
    PublishedIfEnabled
    LoadingIsFresh
PROPERTIES
    EventuallyServes
