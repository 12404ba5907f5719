SPECIFICATION Spec
CONSTANTS
    BufSize = 4
    Silence <- MCSilence
    MaxWrite = 3
    MaxLag = 2
    MaxGap = 0
    MaxPosition = 10
    Takes = {1, 2}
INVARIANTS
    TypeOK
    HoldsLastSamples
    WritesFit
    ReadsWhatWasWritten
