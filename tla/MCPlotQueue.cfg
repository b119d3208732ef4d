SPECIFICATION FairSpec
CONSTANTS
    pf1 = pf1
    pf2 = pf2
    j1 = j1
    j2 = j2
    j3 = j3
    j4 = j4
    None = None
    Flights = {pf1, pf2}
    Jobs = {j1, j2, j3, j4}
    PLOT_MAX_RETRIES = 3
    PLOT_ERROR_CAP = 2
CHECK_DEADLOCK FALSE
INVARIANTS
    OnePlace
    OutcomesAreOver
    WorkIsAttended
PROPERTIES
    NothingDropped
    QuietDrains
