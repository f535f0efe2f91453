SPECIFICATION FairSpec
CONSTANTS
    Match = {m1, m2}
    Server = {s1}
    Map = {unknown}
    Unknown = unknown
    Null = Null
    Torn = Torn
    SettleWindow = 1
    StaleAfter = 0
    FlushInterval = 2
    TornWrites = TRUE
    MaxRows = 2
    MaxCrashes = 1
    LastPost = 0
    Horizon = 2
    LastCrash = 1
PROPERTIES
    LogOnlyGrows
    EveryMatchEnds
CHECK_DEADLOCK FALSE
