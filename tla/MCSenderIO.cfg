SPECIFICATION Spec
CONSTANTS
    BufSize = 5
    Silence <- MCSilence
    MaxWrite = 3
    MaxLag = 2
    MaxGap = 0
    MaxPosition = 12
INVARIANTS
    TypeOK
    SentInOrder
    AllSent
    RequestsFit
