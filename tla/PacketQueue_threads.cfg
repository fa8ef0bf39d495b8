SPECIFICATION Spec
CONSTANTS
    p1 = p1
    p2 = p2
    Packets = {p1, p2}
    Length <- ShortAndLong
    Consumers = {c1, c2, c3}
    None = None
    MaxPackets = 3
    MaxSpurious = 1
INVARIANTS
    NoSleepOnWork
    LeavesNothingBehind
PROPERTIES
    AllPacketsProcessed
    ImplementsWorkQueue
CHECK_DEADLOCK FALSE
