SPECIFICATION Spec
CONSTANTS
    BlockSize = 2
    MinBlock = 1
    Byte = {1, 2, 3}
    Junk = Junk
    MemcpyIsMemmove = FALSE
    MaxOutput = 2
    MaxInput = 2
    BaseRead = 2
    SndBuf = 1
    Messages <- MCMessages
    PeerChunks <- MCPeerChunks
    MaxSent = 5
    MaxPeer = 3
    CloseSends = TRUE
INVARIANT FreedIsInert
CHECK_DEADLOCK FALSE
