SPECIFICATION Spec
CONSTANTS
    NumScripts = 2
    MaxWorkers = 2
INVARIANTS
    TakenAndExecuted
    Quiet
    CountExact
    NoLostWakeup
