SPECIFICATION Spec
CONSTANTS
    DeviceTimeouts <- Supported
    NoWayOut = FALSE
    CommandLines <- Lines
    Files <- SomeFiles
    MaxClockStep = 2
    MaxMissed = 6
INVARIANTS
    Guarded
    ExitDisarms
    InTime
    IInv
\* The process exits, or the machine is reset.
CHECK_DEADLOCK FALSE
