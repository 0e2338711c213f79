------------------------------- MODULE Ledger -------------------------------
(***************************************************************************)
(* The trade ledger of ledger.py as a value, and the operations that       *)
(* rewrite it in memory.  The file it is loaded from and saved to belongs  *)
(* to module Trading.                                                      *)
(*                                                                         *)
(* The open list is a function from symbols: open_position is only reached *)
(* for a symbol outside the list and reconcile adopts only unknown ones,   *)
(* so a symbol occurs in it at most once.  A position of quantity 0 stands *)
(* for a symbol that is not in the list.                                   *)
(*                                                                         *)
(* Prices are abstracted away.  stop counts how often the exit levels of a *)
(* position have been ratcheted since it was opened, and a closed trade    *)
(* keeps of its net pnl only the sign.  Time is in hours.                  *)
(***************************************************************************)
EXTENDS Integers, Sequences, FiniteSets

CONSTANTS
    Symbol,         \* the watchlist
    Day             \* REENTRY_THROTTLE_HOURS, also the breaker's 24 h window

ASSUME SymbolAssumption == IsFiniteSet(Symbol)
ASSUME DayAssumption == Day \in Nat \ {0}

Never == -1         \* no entry attempt on record for a symbol

Position == [qty : Nat, stop : Nat, hour : Nat, id : Nat]
Trade    == [symbol : Symbol, qty : Nat, loss : BOOLEAN, hour : Nat]
Book     == [open    : [Symbol -> Position],
             closed  : Seq(Trade),
             attempt : [Symbol -> Nat \cup {Never}]]

NoPos == [qty |-> 0, stop |-> 0, hour |-> 0, id |-> 0]

\* ledger.EMPTY: also what load() returns for a missing or unreadable file.
Empty == [open    |-> [s \in Symbol |-> NoPos],
          closed  |-> <<>>,
          attempt |-> [s \in Symbol |-> Never]]

OpenSymbols(led) == {s \in Symbol : led.open[s].qty > 0}

-----------------------------------------------------------------------------
\* What a spot balance says about one symbol: how much is held, how much of
\* it is free to sell, and whether a price for it is known.
Balance == [qty : Nat, free : Nat, priced : BOOLEAN]

OpenPosition(led, s, qty, hour, id) ==
    [led EXCEPT !.open[s] = [qty |-> qty, stop |-> 0, hour |-> hour, id |-> id]]

\* Mutant: the position leaves the open list and no trade is booked.
ClosePositionUnbooked(led, s, loss, hour) == [led EXCEPT !.open[s] = NoPos]

ClosePosition(led, s, loss, hour) ==
    [led EXCEPT !.open[s] = NoPos,
                !.closed  = Append(@, [symbol |-> s, qty |-> led.open[s].qty,
                                       loss |-> loss, hour |-> hour])]

UpdatePosition(led, s, stop) == [led EXCEPT !.open[s].stop = stop]

RecordEntryAttempt(led, s, hour) == [led EXCEPT !.attempt[s] = hour]

\* Mutant: the throttle window ends an hour early.
ThrottledEarly(led, s, hour) ==
    /\ led.attempt[s] # Never
    /\ hour - led.attempt[s] < Day - 1

Throttled(led, s, hour) ==
    /\ led.attempt[s] # Never
    /\ hour - led.attempt[s] < Day

\* A balance the ledger does not know starts a position of its own, with a
\* synthetic stop and no order id.
Adopted(live, hour) == [qty |-> live.qty, stop |-> 0, hour |-> hour, id |-> 0]

\* Mutant: a balance the ledger does not know stays unknown.
ReconciledUnadopted(pos, live, hour) ==
    IF pos.qty > 0 /\ live.qty > 0 THEN [pos EXCEPT !.qty = live.qty] ELSE NoPos

\* Mutant: a position whose coins are gone stays.
ReconciledUndropped(pos, live, hour) ==
    CASE pos.qty > 0 /\ live.qty > 0                -> [pos EXCEPT !.qty = live.qty]
      [] pos.qty = 0 /\ live.qty > 0 /\ live.priced -> Adopted(live, hour)
      [] OTHER                                      -> pos

ReconciledPosition(pos, live, hour) ==
    CASE pos.qty > 0 /\ live.qty = 0                -> NoPos
      [] pos.qty > 0 /\ live.qty > 0                -> [pos EXCEPT !.qty = live.qty]
      [] pos.qty = 0 /\ live.qty > 0 /\ live.priced -> Adopted(live, hour)
      [] OTHER                                      -> NoPos

Reconcile(led, seen, hour) ==
    [led EXCEPT !.open =
        [s \in Symbol |-> ReconciledPosition(led.open[s], seen[s], hour)]]

-----------------------------------------------------------------------------
\* Mutant: a trade exactly a day old no longer counts.
RecentOpen(closed, hour) == {i \in DOMAIN closed : hour - closed[i].hour < Day}

\* The closed trades of the trailing 24 hours, the boundary included.
Recent(closed, hour) == {i \in DOMAIN closed : hour - closed[i].hour <= Day}

\* What some trades lost on balance, each losing or winning one unit.
NetLoss(trades, some) ==
    Cardinality({i \in some : trades[i].loss}) - Cardinality({i \in some : ~trades[i].loss})

\* risk.circuit_breaker_tripped; limit units are CIRCUIT_BREAKER_PCT of equity.
CircuitBreakerTripped(led, hour, limit) ==
    NetLoss(led.closed, Recent(led.closed, hour)) >= limit

-----------------------------------------------------------------------------
(***************************************************************************)
(* When one book continues another: module Journal asks it of every save.  *)
(***************************************************************************)

\* The trades of old are the first trades of new.
KeepsTrades(old, new) ==
    /\ Len(old.closed) <= Len(new.closed)
    /\ \A i \in 1..Len(old.closed) : new.closed[i] = old.closed[i]

\* An entry attempt, once recorded, is only replaced by a later one.
KeepsAttempts(old, new) == \A s \in Symbol : old.attempt[s] <= new.attempt[s]

\* A position is the same one when its order and its time of entry are.
SamePosition(a, b) ==
    /\ a.qty > 0 /\ b.qty > 0
    /\ a.id = b.id
    /\ a.hour = b.hour

\* The levels of a position that stays open are never lowered.
KeepsLevels(old, new) ==
    \A s \in Symbol : SamePosition(old.open[s], new.open[s])
                         => old.open[s].stop <= new.open[s].stop

Extends(old, new) ==
    /\ KeepsTrades(old, new)
    /\ KeepsAttempts(old, new)
    /\ KeepsLevels(old, new)
=============================================================================
