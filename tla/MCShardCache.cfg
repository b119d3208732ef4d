SPECIFICATION ShardSpec
CONSTANTS
    Stores = {s1, s2}
    Pointings = {"a", "b", "c", "pole"}
    ParentIds <- MCParentIds
    Children <- MCChildren
    SHARD_CACHE_CAP = 3
INVARIANTS CoverageIsHonest LastPointingStays
