SPECIFICATION SafeSpec
CONSTANTS
    NBlocks = 7
    B = 2
    P = 3
    INODES_PER_BLOCK = 3
    BUFFER = 4
    Files = {1}
    MaxCopies = 1
INVARIANTS
    SuperblockReserved
CHECK_DEADLOCK FALSE
