SPECIFICATION Spec
CONSTANTS
    Map = {anzio}
    Null = Null
    ResetThreshold = 1
    StragglerWall = 4
    StragglerTick = 4
    CoastGrace = 4
    FallbackDelay = 2
    BoardLag = 2
    Delay = 2
    BoardFlag = {TRUE, FALSE}
    Offset = {}
    HeartbeatEvery = 2
    Failing = TRUE
    EarlyRequests = FALSE
    MaxLatency = 0
    MaxStall = 0
    ReloadTime = 1
    FirstAge = 12
    MinAge = 3
    MaxLevels = 2
    MaxEvents = 4
    LastEvent = 4
    Horizon = 9
INVARIANTS
    NeverEarly
    BoundedLateness
    FiredInOrder
    OnlyOldIsDrained
CHECK_DEADLOCK FALSE
