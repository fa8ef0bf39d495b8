SPECIFICATION Spec
CONSTANTS
    FileLists <- Lists
    None = None
    Lengths <- SomeLengths
    MIN_PACKET = 7
    MAX_PACKET = 9
    PAYLOAD = 2
INVARIANTS
    PacketsInOrder
    OnePhantom
PROPERTIES
    AllPacketsPushed
    ReadingEnds
CHECK_DEADLOCK FALSE
