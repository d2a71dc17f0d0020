SPECIFICATION Spec
CONSTANTS
    Threads = {t1, t2}
    MaxPackets = 2
    MayExit = FALSE
INVARIANT FlushIsNotified
