\* No faults: two coins, one slot, the trader and two watchers.
CONSTANTS
    btc = btc
    doge = doge
    t1 = t1
    w1 = w1
    w2 = w2
    nobody = nobody
    Symbol <- MCSymbols
    Trader <- MCTrader
    Watcher <- MCTwoWatchers
    NoProc = nobody
    Day = 2
    MaxPositions = 1
    BreakerLosses = 1
    Lot = 1
    DustQty = 0
    Faults <- MCNoFaults
    MaxFaults = 0
    MaxStop = 0
    MaxHour = 3
    MaxOrders = 4
    MaxTrades = 4
SPECIFICATION Spec
SYMMETRY MCSymmetry
INVARIANTS
    SalesAreCovered
    HeldIsManaged
    SoldIsBooked
    ThrottleHonoured
    CapRespected
PROPERTIES
    LossHaltsEntries
