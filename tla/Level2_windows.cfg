SPECIFICATION Level2Spec
CONSTANTS
    Packets <- TwoPayloads
    Length <- Lengths
    WINDOW_SIZE = 2
    Hash <- Hashes
    ARR_SIZE = 4
    Consumers = {c1, c2}
    None = None
    MaxPackets = 3
    MaxSpurious = 0
INVARIANTS
    RedundancyBounded
PROPERTIES
    AddsMatchedBytes
    OnlyLastRunIsLost
    ImplementsPacketQueue
CHECK_DEADLOCK FALSE
