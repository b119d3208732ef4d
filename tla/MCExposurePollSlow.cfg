SPECIFICATION Spec
CONSTANTS
    f1 = f1
    f2 = f2
    None = None
    Files = {f1, f2}
    Full = 2
    MaxRewrites = 1
    MaxStall = 2
    MaxLag = 3
    Interval = 1
    Settle = 3
    Timeout = 8
    Detached = TRUE
    RequestTimeout = 3
    Watchdog = 11
    MaxTime = 12
CHECK_DEADLOCK FALSE
INVARIANTS
    SettledMeansFinished
