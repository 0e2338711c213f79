\* One position from its entry to its exit; any sale may fail.
CONSTANTS
    Price <- MCPrice
    Entry = 9
    R = 2
    TakeProfit = 5
    Trail = 3
    RiskOffTrail = 2
    Rungs <- MCRungs
    PctRungs <- MCPctRungs
    FloorAt = 3
    FloorGain = 1
    TimeStop = 3
    Atr <- MCAtr
SPECIFICATION FairSpec
CHECK_DEADLOCK FALSE
INVARIANT
    LevelsBelowPeak
    RungsStayReached
PROPERTY
    LevelsNeverFall
    EventuallyOut
