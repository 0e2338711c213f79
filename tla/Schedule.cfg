\* The shipped timeouts and the distance from the watcher's :10 to the trader's :14, in
\* ticks of 20 seconds; an hour has one pass of the watcher.
SPECIFICATION Spec

CONSTANTS
    Hour = 15
    SnapAt = 9
    TradeAt = 12
    WatchEvery = 15
    Wait = 6
    CallMax = 1
    SaleWait = 4
    PollEvery = 1
    TellMax = 2
    MaxAge = 20
    MaxSales = 2
    MaxHand = 1
    MaxNow = 30

CHECK_DEADLOCK FALSE

INVARIANT
    SInv
    PricesAreFresh

PROPERTY
    LostBehindSales
