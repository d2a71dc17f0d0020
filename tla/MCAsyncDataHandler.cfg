SPECIFICATION FairSpec
CONSTANTS
    Workers = {w1, w2, w3}
    MaxRequests = 4
    WorkerLogger = TRUE
INVARIANTS
    ExactlyOnce
    NoLostWakeUp
    ShutdownDrains
PROPERTIES
    ShutdownEnds
    EveryRequestServed
