\* Every fault but a crash: the ledger file still only grows.
CONSTANTS
    btc = btc
    doge = doge
    t1 = t1
    w1 = w1
    w2 = w2
    nobody = nobody
    Symbol <- MCSymbols
    Trader <- MCTrader
    Watcher <- MCOneWatcher
    NoProc = nobody
    Day = 1
    MaxPositions = 1
    BreakerLosses = 1
    Lot = 2
    DustQty = 1
    Faults <- MCAllButCrash
    MaxFaults = 1
    MaxStop = 1
    MaxHour = 1
    MaxOrders = 2
    MaxTrades = 2
SPECIFICATION Spec
SYMMETRY MCSymmetry
INVARIANTS
    IInv
PROPERTIES
    SavesExtend
