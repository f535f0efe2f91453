SPECIFICATION FairSpec
CONSTANTS
    Caller = {c1, c2, c3}
    Ip = {i1}
    Key = {k1, k2}
    Null = Null
    FailureThreshold = 2
    OpenFor = 3
    SlowAfter = 1
    MaxConcurrent = 2
    RateLimit = 4
    RateWindow = 3
    Ttl = 1
    CacheLimit = 1
    MaxCall = 2
INVARIANTS
    OneProbe
    Capped
    AtMostTwiceTheLimit
PROPERTIES
    Recovers
