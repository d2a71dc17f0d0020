SPECIFICATION MCSpec
CONSTANTS
    BlockSize = 3
    MinBlock = 2
    Byte = {1, 2, 3}
    Junk = Junk
    MemcpyIsMemmove = FALSE
    Chunks <- MCChunks
    MaxBytes = 7
    Heads = {h1, h2}
    Nodes = {1, 2, 3, 4}
    NodeKey <- MCNodeKey
    TreeNodes = {1, 2, 3, 4, 5, 6, 7}
    TreeKey <- MCTreeKey
    KeyMod = 16
    Now = 13
    Sentinel = Sentinel
    Null = Null
    Kinds <- MCKinds
    Deals <- MCDeals
    MaxTurns = 2
INVARIANTS
    TailInsideAllocation
    IntactUnlessTorn
    RingIsList
    MiddleIsMiddle
    WalkInOrder
    RedBlack
    CardsAddUp
    ChecksHold
