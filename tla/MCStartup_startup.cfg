SPECIFICATION FairSpec
CONSTANTS
    MaxEntries = 4
    Paths <- SomePaths
    Starts <- SomeStarts
INVARIANTS
    ListAsPromised
    AskedIsReady
PROPERTIES
    StartEnds
