SPECIFICATION FairSpec
CONSTANTS
    c1 = c1
    c2 = c2
    c3 = c3
    p1 = p1
    p2 = p2
    None = None
    Clients = {c1, c2, c3}
    CommandOf <- MCCommandOf
    Configs = {p1, p2}
    MAX_RESTART_ATTEMPTS = 2
    MaxFaults = 2
    RestartWhileStarting = FALSE
CHECK_DEADLOCK FALSE
INVARIANTS
    NoOrphan
    OneConversation
    ClosedLeavesNoStray
PROPERTIES
    DegradedIsTerminal
    CommandsRunOnce
    CallsAnswered
    BringUpResolves
