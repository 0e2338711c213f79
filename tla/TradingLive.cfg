\* Crashes, lost calls and fills in part: the ledger catches up with the account.
CONSTANTS
    btc = btc
    doge = doge
    t1 = t1
    w1 = w1
    w2 = w2
    nobody = nobody
    Symbol <- MCOneSymbol
    Trader <- MCTrader
    Watcher <- MCOneWatcher
    NoProc = nobody
    Day = 1
    MaxPositions = 1
    BreakerLosses = 1
    Lot = 2
    DustQty = 0
    Faults <- MCCrashes
    MaxFaults = 2
    MaxStop = 0
    MaxHour = 0
    MaxOrders = 2
    MaxTrades = 3
SPECIFICATION FairSpec
INVARIANTS
    OneOrderer
PROPERTIES
    HeldBecomesManaged
    GoneIsDropped
    CyclesComplete
