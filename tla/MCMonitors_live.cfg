SPECIFICATION FairSpec
CONSTANTS
    Setups <- LoadSync
    Hosts <- NoHosts
    NumPidFiles = 1
    PingRetries = 1
    LinkRetries = 1
    NumInterfaces = 1
    TestExeCodes <- NoCodes
PROPERTIES
    KeepsTesting
    LoadHandled
    TerminationTaken
    ManagerLeaves
