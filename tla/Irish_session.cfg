SPECIFICATION Spec
CONSTANTS
    Pids <- TwoPids
    Clients = {c1, c2}
    None = None
INVARIANTS
    ListedProcessesExist
    TerminatedIsOver
    FgHangsOnlyOnStop
    QuitLeavesNothingRunning
PROPERTIES
    CompletedIsFinal
    ClientsServed
CHECK_DEADLOCK FALSE
