SPECIFICATION Spec
CONSTANTS
    Flag = {first, middle, last}
    AlliesHome = {first}
    AxisHome = {last}
    AlliesPlayer = {al}
    AxisPlayer = {ax}
    Allies = Allies
    Axis = Axis
    Neutral = Neutral
    Spectator = Spectator
    Null = Null
    DeferDelay = 2
    ResetWindow = 3
    HealAfter = 4
    MaxCaptors = 12
    ScoreDelay = 1
    InitDelay = 4
    Gap = 6
    HomeFirst = TRUE
    MaxTime = 14
    LaterTime = 8
    MaxLevel = 1
INVARIANT CapoutStaysDue
CHECK_DEADLOCK FALSE
