--------------------------- MODULE MC_EntryGate ---------------------------
EXTENDS EntryGate

CONSTANTS btc, doge

MCSymbol == {btc, doge}

Coin(adx, rsi, day, stack) ==
    [known |-> TRUE, price |-> 2, atr |-> 1, adx |-> adx, rsi |-> rsi,
     stack |-> stack, stack4 |-> "UP", day |-> day, green |-> TRUE]

\* A trend that always passes, one that only passes in an uptrend of Btc, one
\* that does not pass in a downtrend, and a downtrend.
MCReading == {Coin(2, 1, 1, "UP"), Coin(1, 1, 1, "UP"), Coin(2, 2, 0, "UP"),
              Coin(2, 1, 1, "DOWN")}

Advice(age, hint, blocked, cap) ==
    [readable |-> TRUE, age |-> age, hint |-> hint, blocked |-> blocked, cap |-> cap]

\* Nothing of use, an optimist, a pessimist, and one that has grown old.
MCPolicyFile == {Advice(0, "auto", {}, 0), Advice(1, "risk_on", {}, 9),
                 Advice(1, "risk_off", {doge}, 1), Advice(2, "risk_off", MCSymbol, 1)}
=============================================================================
