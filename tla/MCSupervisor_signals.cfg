SPECIFICATION FairSpec
\* Everything ends.
CHECK_DEADLOCK FALSE
CONSTANTS
    MaxReloads = 2
    MaxEnds = 1
INVARIANTS
    NoOrphan
    DeathNoticed
    OneAtATime
    
PROPERTIES
    TerminationTaken
    AllEnd
    DaemonDetaches
