SPECIFICATION Level1Spec
CONSTANTS
    p1 = p1
    p2 = p2
    p3 = p3
    p4 = p4
    Packets = {p1, p2, p3, p4}
    Length <- Payloads
    Hash <- Hashes
    ARR_SIZE = 2
    Consumers = {c1, c2}
    None = None
    MaxPackets = 4
    MaxSpurious = 0
INVARIANTS
    HitsAreRepeats
    EveryRepeatHits
PROPERTIES
    HitCountsItsBytes
    ImplementsPacketQueue
CHECK_DEADLOCK FALSE
