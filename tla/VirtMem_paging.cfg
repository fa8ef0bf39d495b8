SPECIFICATION Spec
CONSTANTS
    NPages = 3
    NFrames = 2
    Values = {0, 1}
    Policies = {"rand", "fifo", "lru"}
    Ops = {"read", "write"}
    HeapInts <- IllegalInts
    HeapBits <- ZeroBits
    MaxFaults = 8
INVARIANTS
    TablesAgree
    CleanFramesOnDisk
    CountersAgree
    NoPagingWhileAllFits
    TwoFaultsPerAccess
PROPERTIES
    ImplementsFlatMemory
CHECK_DEADLOCK FALSE
