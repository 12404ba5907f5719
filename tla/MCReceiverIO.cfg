SPECIFICATION Spec
CONSTANTS
    BufSize = 4
    Silence <- MCSilence
    MaxRead = 2
    MaxLag = 1
    MaxAdvance = 1
    Starts = {2, 4}
    MaxClock = 6
    MaxFetched = 8
    Faults = {"network"}
    Untouched = Untouched
INVARIANTS
    TypeOK
    RequestsServed
    NetworkKeepsPace
PROPERTIES
    ClientsAgree
