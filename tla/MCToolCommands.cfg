SPECIFICATION Spec
CONSTANTS
    Tools = {t1, t2}
    Commands <- MCCommands
    Indices = {1, 2}
    Uids = {"u1", "u2"}
    MaxDevices = 2
    NoDevice = NoDevice
INVARIANTS
    TypeOK
    ReportsWhatWasDone
    OneDevice
    OneWinner
    ToolOutlivesDriver
\* Once the tool and the driver are uninstalled nothing more happens.
CHECK_DEADLOCK FALSE
