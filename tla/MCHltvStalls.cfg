SPECIFICATION Spec
CONSTANTS
    Map = {anzio, avalanche}
    Null = Null
    ResetThreshold = 1
    StragglerWall = 4
    StragglerTick = 4
    CoastGrace = 4
    FallbackDelay = 2
    BoardLag = 0
    Delay = 2
    BoardFlag = {FALSE}
    Offset = {0}
    HeartbeatEvery = 3
    Failing = TRUE
    EarlyRequests = TRUE
    MaxLatency = 0
    MaxStall = 1
    ReloadTime = 1
    FirstAge = 12
    MinAge = 3
    MaxLevels = 2
    MaxEvents = 3
    LastEvent = 5
    Horizon = 9
INVARIANTS
    TypeOK
PROPERTIES
    NothingLost
CHECK_DEADLOCK FALSE
