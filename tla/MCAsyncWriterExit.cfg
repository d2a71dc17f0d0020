SPECIFICATION Spec
CONSTANTS
    Threads = {t1, t2}
    MaxPackets = 2
    MayExit = TRUE
INVARIANT NoDeletedWriterUsed
