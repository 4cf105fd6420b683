SPECIFICATION FairSpec
\* kill(-1, SIGKILL) ends every process.
CHECK_DEADLOCK FALSE
CONSTANTS
    manager = manager
    script = script
    Callers <- Both
    Limited <- Limit
    MaxFailures = 2
INVARIANTS
    KillsOnlyOwn
    NothingLeft
    ResultTrue
PROPERTIES
    CallReturns
