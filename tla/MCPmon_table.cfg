SPECIFICATION FairSpec
\* The process may be lost past the end of its table.
CHECK_DEADLOCK FALSE
CONSTANTS
    MaxClientId = 3
    Periods <- Short
INVARIANTS
    IInv
PROPERTIES
    Implements
    SilenceNoticed
