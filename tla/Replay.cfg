SPECIFICATION Spec

CONSTANTS
    btc = btc
    alt = alt
    Coins = {btc, alt}
    Btc = btc
    Quotes <- MC_Quotes
    Atrs = {1, 2}
    Readings <- MC_Readings
    Gates = {"current", "confirmed", "union", "always"}
    PolicyLog <- MC_PolicyLog
    StartCash = 100
    Whole = 100
    Fee = 1
    MaxPositions = 2
    RiskParts = 10
    StopMult = 2
    MinOrder = 10
    BreakerParts = 20
    Throttle = 2
    Day = 3
    Confirm = 2
    MaxHour = 5
    MaxQty = 12

CHECK_DEADLOCK FALSE

INVARIANTS
    RInv
    BooksBalance
    NoLookahead
