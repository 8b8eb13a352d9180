SPECIFICATION Spec
CONSTANTS
    Pushers = {p1, p2}
    Fetchers = {f1, f2}
    Keys = {k1, k2}
    Bars = {1, 2}
    MaxBars = 1
    PushMax = 2
    Sent <- SomeSent
    BridgeFresh = 0
    PruneAge = 1
    BridgeMax = 2
    CacheTtl = 1
    CacheMax = 2
    MaxCached = 1
    MinInterval = 1
    PollMax = 1
    MaxPushes = 2
    MaxTouches = 1
    MaxFetches = 2
    None = None
    Unknown = Unknown
CHECK_DEADLOCK FALSE
INVARIANTS AgesBounded NewestKept MarksOwned
SYMMETRY Symmetry
