SPECIFICATION Spec
CONSTANTS
    Unset = Unset
    NoDevice = NoDevice
    SampleFormats = {"s16", "s24"}
    TicksPerSecond = 1000
    Indices = {1, 2}
    GeneratedUids = {"g1"}
    Commands <- MCCommands
    Requests <- MCRequests
    NewEndpoints <- MCNewEndpoints
INVARIANTS
    TypeOK
PROPERTIES
    RestartKeepsDevice
    OptionsTakeEffect
