SPECIFICATION WriterSpec
CONSTANTS
    Conns = {c1, c2, c3}
    Peers = {p1, p2}
    CidMod = 4
    LinkEvents = {e1}
    MaxIssued = 5
    None = None
    MaxPackets = 2
SYMMETRY Symmetry
INVARIANTS
    TypeOK
    NoDanglingEntry
    ReachableById
    LostOnlyByClobber
    ListenersUpToDate
    NothingOvertaken
