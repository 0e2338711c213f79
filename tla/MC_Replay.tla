----------------------------- MODULE MC_Replay -----------------------------
EXTENDS Replay

CONSTANTS btc, alt

\* The closes of a snapshot: both flat, both up, one of them missing.
MC_Quotes == {[c \in Coins |-> 10], [c \in Coins |-> 12],
              [c \in Coins |-> IF c = btc THEN 0 ELSE 13]}

Reading(live, rsi, breadth, ema20) ==
    [live |-> live, rsi |-> rsi, breadth |-> breadth, ema20 |-> ema20]

MC_Readings == {Reading("risk_on", "high", "low", "below"),
                Reading("neutral", "low", "high", "above")}

\* A policy whose cap is above the engine's, then one that cautions, blocks and
\* caps below the positions there may be.
MC_PolicyLog == <<[at |-> 2, hint |-> "auto", blocked |-> {}, cap |-> 3],
                  [at |-> 4, hint |-> "neutral", blocked |-> {btc}, cap |-> 1]>>
=============================================================================
