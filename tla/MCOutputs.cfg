SPECIFICATION FairSpec
CONSTANTS
    j1 = j1
    j2 = j2
    None = None
    Jobs = {j1, j2}
    Earlier = {j2}
    Selection = {j1}
    PlotFlights = TRUE
    PLOT_ERROR_CAP = 1
    MaxWaiting = 2
    MaxFaults = 1
CHECK_DEADLOCK FALSE
INVARIANTS
    VisibleIsWhole
    FailedJobsLeaveNoTable
    CutDrawsAreKnown
PROPERTIES
    ImagesArrive
    RenderSettles
