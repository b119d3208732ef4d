SPECIFICATION FairSpec
CONSTANTS
    f1 = f1
    f2 = f2
    None = None
    Files = {f1, f2}
    Full = 2
    MaxRewrites = 1
    MaxStall = 1
    MaxLag = 1
    Interval = 1
    Settle = 3
    Timeout = 7
    Detached = TRUE
    RequestTimeout = 3
    Watchdog = 10
    MaxTime = 11
CHECK_DEADLOCK FALSE
INVARIANTS
    SettledMeansFinished
    OutcomeIsHonest
PROPERTIES
    HookEnds
