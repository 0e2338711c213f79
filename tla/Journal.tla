------------------------------ MODULE Journal ------------------------------
(***************************************************************************)
(* What the ledger file promises to everything that reads it (the breaker, *)
(* the throttle, the digest, the scorecard and the dashboard): each saved  *)
(* book continues the one before it.  Module Trading implements this with  *)
(* two programs that load, change and save whole copies of the file.       *)
(***************************************************************************)
EXTENDS Ledger

VARIABLE book

JInit == book = Empty

JNext == book' \in Book /\ Extends(book, book')

JSpec == JInit /\ [][JNext]_book
=============================================================================
