SPECIFICATION Spec
CONSTANTS
    BufSize = 5
    Silence <- MCSilence
    MaxRead = 2
    MaxLag = 1
    MaxAdvance = 7
    Starts = {5}
    MaxClock = 12
    MaxFetched = 20
    Faults = {}
    Untouched = Untouched
INVARIANTS
    AlwaysServed
