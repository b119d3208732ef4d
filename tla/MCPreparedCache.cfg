SPECIFICATION Spec
CONSTANTS
    o1 = o1
    o2 = o2
    f1 = f1
    f2 = f2
    t1 = t1
    b1 = b1
    b2 = b2
    b3 = b3
    v1 = v1
    v2 = v2
    None = None
    Overrides = {o1, o2}
    Filters = {f1, f2}
    Times = {t1}
    Boresights = {b1, b2, b3}
    ShardIds <- MCShardIds
    Fields <- MCFields
    Commands <- MCCommands
    Versions = {v1, v2}
    PREPARED_CACHE_CAP = 2
    CALIB_CACHE_CAP = 2
SYMMETRY MCSymmetry
INVARIANTS
    RunsOwnConfig
    CachesMatchKeys
    MirrorsAgree
    CalibBoundIsReal
PROPERTIES
    FailedPrepareKeepsActive
    EvictedStaysReloadable
    RunsOnCertifiedCalibs
    CachesAreInvisible
