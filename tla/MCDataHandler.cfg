SPECIFICATION FairSpec
CONSTANTS
    HEADER_SIZE = 2
    MaxInput = 5
    Limits = {0, 4}
    Lengths = {1, 2, 4, 6}
    Cmds = {c1, c2}
    ProcMod = 2
    MaxPackets = 3
INVARIANTS
    RequestsAreThePackets
    NoPacketWaits
    ClosedForAReason
    CountersAddUp
PROPERTY EveryPacketDispatched
