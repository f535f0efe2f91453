SPECIFICATION Spec
CONSTANTS
    first = first
    last = last
    al = al
    ax = ax
    Flag = {first, middle, last}
    AlliesHome = {first}
    AxisHome = {last}
    AlliesPlayer = {al}
    AxisPlayer = {ax}
    Allies = Allies
    Axis = Axis
    Neutral = Neutral
    Spectator = Spectator
    Null = Null
    DeferDelay = 2
    ResetWindow = 3
    HealAfter = 4
    MaxCaptors = 12
    ScoreDelay = 1
    InitDelay = 4
    Gap = 6
    HomeFirst = FALSE
    MaxTime = 12
    LaterTime = 8
    MaxLevel = 2
INVARIANTS
    BarWrongIsTemporary
    NeutralIsTold
    CapturesStayDue
PROPERTIES
    DropsNoCapture
    NothingInvented
    CreditIsEarned
SYMMETRY Mirror
CHECK_DEADLOCK FALSE
