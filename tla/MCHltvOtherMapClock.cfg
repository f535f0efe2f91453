SPECIFICATION Spec
CONSTANTS
    Map = {anzio, avalanche}
    Null = Null
    ResetThreshold = 1
    StragglerWall = 4
    StragglerTick = 4
    CoastGrace = 4
    FallbackDelay = 2
    BoardLag = 0
    Delay = 2
    BoardFlag = {FALSE}
    Offset = {}
    HeartbeatEvery = 2
    Failing = FALSE
    EarlyRequests = FALSE
    MaxLatency = 0
    MaxStall = 0
    ReloadTime = 1
    FirstAge = 12
    MinAge = 3
    MaxLevels = 2
    MaxEvents = 3
    LastEvent = 6
    Horizon = 10
INVARIANTS
    NeverEarly
CHECK_DEADLOCK FALSE
