SPECIFICATION Spec
CONSTANTS
    Setups <- Groups
    Hosts <- TwoHosts
    NumPidFiles = 2
    PingRetries = 1
    LinkRetries = 1
    NumInterfaces = 2
    TestExeCodes <- TwoCodes
INVARIANTS
    IInv
    CurrentReason
    RepairFirst
    LinkNoticed
PROPERTIES
    Escalates
