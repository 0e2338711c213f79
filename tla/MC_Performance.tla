--------------------------- MODULE MC_Performance ---------------------------
(* Two coins, one of which is not always priced, and a deposit and a       *)
(* withdrawal that are larger than the tolerance.                          *)
EXTENDS Performance, TLC

CONSTANTS a, b

MC_Quotes == {a :> 20 @@ b :> 20, a :> 30 @@ b :> 20, a :> 0 @@ b :> 30}
MC_Amounts == {-40, 60}
=============================================================================
