SPECIFICATION FairSpec
CONSTANTS
    Threads = {t1, t2}
    MaxPackets = 2
    MayExit = TRUE
INVARIANTS
    FifoPerThread
PROPERTY EveryPacketSent
CHECK_DEADLOCK FALSE
