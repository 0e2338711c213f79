---------------------------- MODULE MC_Trading ----------------------------
(* Model values for the runs of module Trading. *)
EXTENDS Trading, TLC

CONSTANTS btc, doge, t1, w1, w2, nobody

MCTrader == {t1}
MCOneWatcher == {w1}
MCTwoWatchers == {w1, w2}
MCSymbols == {btc, doge}
MCNoFaults == {}
MCAllButCrash == AllFaults \ {"crash"}
MCCrashes == {"crash", "replyLost", "pollFailed", "cancelLost", "owner", "partial"}
MCLostCall == {"pollFailed"}
MCOneSymbol == {btc}
MCSymmetry == Permutations({btc, doge}) \cup Permutations({w1, w2})
=============================================================================
