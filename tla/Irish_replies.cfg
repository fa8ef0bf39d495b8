SPECIFICATION Spec
CONSTANTS
    Pids <- TwoPids
    Clients = {c1, c2}
    None = None
INVARIANTS
    RepliesBeforeReceive
CHECK_DEADLOCK FALSE
