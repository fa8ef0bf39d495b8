SPECIFICATION HSpec
CONSTANTS
    NPages = 4
    NFrames = 2
    Values = {0}
    Policies = {"fifo", "lru"}
    Ops = {"read", "write"}
    HeapInts <- AnyInts
    HeapBits <- ZeroBits
    MaxFaults = 8
PROPERTIES
    FifoEvictsOldestAtFirst
    LruEvictsLongestUnfaulted
CHECK_DEADLOCK FALSE
