-------------------------- MODULE MC_PositionLevels --------------------------
(* Prices around an entry at 9, and ladders scaled down to them. *)
EXTENDS PositionLevels

MCPrice == 6..14
MCRungs == {[arm |-> 4, trail |-> 1]}
MCPctRungs == {[arm |-> 2, hold |-> 1], [arm |-> 4, hold |-> 3]}
MCAtr == {0, 1, 4}
=============================================================================
