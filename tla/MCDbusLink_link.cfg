SPECIFICATION FairSpec
\* Everything ends.
CHECK_DEADLOCK FALSE
CONSTANTS
    Methods <- Asked
    MaxStarts = 2
    MaxAlarms = 1
    MaxCalls = 3
    IntSize = 2
    Length <- Lengths
    Size <- Sizes
INVARIANTS
    StreamOK
    FreshAnswers
PROPERTIES
    MethodReturns
    ReloadReturns
