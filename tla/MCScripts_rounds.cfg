SPECIFICATION FairSpec
CONSTANTS
    NumScripts = 2
    MaxWorkers = 1
PROPERTIES
    FailureReported
    FailureForgotten
