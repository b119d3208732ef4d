SPECIFICATION FairSpec
CONSTANTS
    Dets = {1, 2}
    Exposures <- MCExposures
    Emulated = "stand"
    FilterOf <- MCFilterOf
    KnownFilters = {"r", "g"}
    ShardsOf <- MCShardsOf
    ReplayTree <- MCReplayTree
    PinnedExposure = "e1"
    None = None
    Raised = Raised
    Malformed = Malformed
    HEADER_SIZE = 1
    DESC_SIZE = 1
    Dirs <- MCDirs
    ImgSize = 2
    MetaSize <- MCMetaSize
    MetaAllowance = 3
    MAX_PUSH_BYTES = 13
    SHM_SIZE = 14
    ShmRoom = 1
    MaxJobs = 2
    MaxMishaps = 1
INVARIANTS OwnPixels NoStaleBytes SegmentsReturned
PROPERTY EveryJobEnds
CHECK_DEADLOCK FALSE
