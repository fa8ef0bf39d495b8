SPECIFICATION Spec
CONSTANTS
    p1 = p1
    p2 = p2
    Packets = {p1, p2}
    Length <- ShortAndLong
    Consumers = {c1}
    None = None
    MaxPackets = 2
    MaxSpurious = 0
PROPERTIES
    MainExits
CHECK_DEADLOCK FALSE
