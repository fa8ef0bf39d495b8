SPECIFICATION Spec
CONSTANTS
    NBlocks = 9
    B = 2
    P = 3
    INODES_PER_BLOCK = 3
    BUFFER = 4
    Files = {3, 13}
    MaxCopies = 3
INVARIANTS
    NoSharedBlocks
    UsedBlocksMarked
    ContentsIntact
PROPERTIES
    SizeNeverShrinks
    CommandsEnd
CHECK_DEADLOCK FALSE
