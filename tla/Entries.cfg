\* Two coins, two slots, every policy and every kind of reading.
CONSTANTS
    btc = btc
    doge = doge
    Symbol <- MCSymbol
    Btc = btc
    Reading <- MCReading
    PolicyFile <- MCPolicyFile
    MaxPositions = 2
    RiskParts = 3
    StopMult = 1
    Whole = 10
    Buffer = 1
    Fee = 1
    MinOrder = 1
    AdxMin = 1
    AdxMinCautious = 2
    RsiMin = 1
    RsiMax = 2
    RsiMaxOff = 1
    LateDay = 1
    MinAtr = 1
    MaxAge = 1
    MaxMoney = 8
SPECIFICATION Spec
INVARIANTS
    IInv
    CycleRisk
    CapHeld
    PolicyTightens
PROPERTIES
    RefusedForWant
