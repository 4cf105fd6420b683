SPECIFICATION Spec
CONSTANTS
    Setups <- LoadLink
    Hosts <- NoHosts
    NumPidFiles = 1
    PingRetries = 1
    LinkRetries = 1
    NumInterfaces = 1
    TestExeCodes <- NoCodes
INVARIANTS
    ProblemReachesManager
