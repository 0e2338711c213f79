\* Two coins, three snapshots, three lines of the log, two trades, one transfer.
CONSTANTS
    a = a
    b = b
    Coins = {a, b}
    Quotes <- MC_Quotes
    Prices = {20, 30}
    Qty = 1
    Amounts <- MC_Amounts
    StartEquity = 100
    BuyFee = 1
    SellFee = 3
    Tolerance = 5
    DecisionTime = 4
    MinTrades = 1
    TrueWinFloor = 35
    DayLength = 2
    MaxNow = 5
    MaxSnapshots = 3
    MaxLines = 3
    MaxTrades = 2
    MaxTransfers = 1
    MaxRecords = 2
SPECIFICATION Spec
INVARIANTS
    CurveIsAccount
    GapsFound
    IdleEarnsNothing
    PageAddsUp
    VerdictsAgree
CHECK_DEADLOCK FALSE
