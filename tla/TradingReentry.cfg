\* The throttle counts from the entry, so a coin just left may be bought again.
CONSTANTS
    btc = btc
    doge = doge
    t1 = t1
    w1 = w1
    w2 = w2
    nobody = nobody
    Symbol <- MCSymbols
    Trader <- MCTrader
    Watcher <- MCOneWatcher
    NoProc = nobody
    Day = 1
    MaxPositions = 1
    BreakerLosses = 3
    Lot = 1
    DustQty = 0
    Faults <- MCNoFaults
    MaxFaults = 0
    MaxStop = 0
    MaxHour = 1
    MaxOrders = 3
    MaxTrades = 4
SPECIFICATION Spec
PROPERTIES
    NoReentryAfterExit
