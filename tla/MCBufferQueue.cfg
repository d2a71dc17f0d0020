SPECIFICATION Spec
CONSTANTS
    BlockSize = 3
    MinBlock = 2
    Byte = {1, 2, 3}
    Junk = Junk
    MemcpyIsMemmove = TRUE
    Chunks <- MCChunks
    MaxBytes = 7
PROPERTY ImplementsByteQueue
