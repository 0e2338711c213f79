------------------------------ MODULE Trading ------------------------------
(***************************************************************************)
(* The two programs that may place an order, the hourly trader (trader.py) *)
(* and the five-minute exit watcher (watchdog.py), sharing the ledger file *)
(* (ledger.py), the order lock (lock.py) and the spot account at the       *)
(* exchange (broker.py).  Each process is cut at the points where another  *)
(* one, or the exchange, can act: its HTTP calls, the lock and the two     *)
(* system calls behind Path.write_text.                                    *)
(*                                                                         *)
(* Prices are not modelled: which positions breach a level, which symbols  *)
(* pass the entry filters and whether a sale makes a loss are chosen       *)
(* freely.  The dry-run mode and TRADING_ENABLED=false change no state and *)
(* are left out.                                                           *)
(***************************************************************************)
EXTENDS Ledger

CONSTANTS
    Trader, Watcher,    \* runs of the two programs; cron starts each of them
    NoProc,             \* nobody holds the lock
    MaxPositions,       \* MAX_POSITIONS
    BreakerLosses,      \* the net number of losing trades that make up
                        \* CIRCUIT_BREAKER_PCT of the equity
    Lot,                \* what a full entry buys
    DustQty,            \* the largest quantity that may be worth less than
                        \* DUST_IDR or the pair's minimum order
    Faults,             \* which of AllFaults may happen
    MaxFaults,          \* bound: how many of them, over a behaviour
    MaxStop,            \* bound: ratchets of one position's levels
    MaxHour,            \* bound: hours that pass
    MaxOrders,          \* bound: orders accepted by the exchange
    MaxTrades           \* bound: closed trades booked without an order

Proc == Trader \cup Watcher

AllFaults == {"crash",        \* a process dies; the kernel frees its lock
              "replyLost",    \* an order is accepted but its POST raises
              "pollFailed",   \* get_order raises while wait_for_fill polls
              "cancelLost",   \* the cancel after the timeout has no effect
              "partial",      \* an order fills in parts
              "owner",        \* the owner trades by hand on the exchange
              "noData"}       \* no 1H data for a symbol this hour

ASSUME ProcAssumption ==
    /\ Trader \cap Watcher = {}
    /\ NoProc \notin Proc
ASSUME SizeAssumption ==
    /\ MaxPositions \in Nat \ {0}
    /\ Lot \in Nat \ {0}
    /\ DustQty \in Nat
    /\ BreakerLosses \in Nat \ {0}
ASSUME FaultAssumption == Faults \subseteq AllFaults
ASSUME BoundAssumption ==
    /\ MaxFaults \in Nat
    /\ MaxStop \in Nat
    /\ MaxHour \in Nat
    /\ MaxOrders \in Nat
    /\ MaxTrades \in Nat

VARIABLES
    disk,       \* trades.json: the book of the last completed write
    torn,       \* the file is truncated: a write was begun and not finished
    lock,       \* who holds trader.lock
    hour,       \* the clock
    pc,         \* where each process is
    led,        \* the book each process has in memory
    seen,       \* the balances it has read
    todo,       \* positions left to exit, or candidates left to enter
    slots,      \* entries it may still make
    mine,       \* the order it waits for, 0 for none
    free,       \* coins at the exchange that no live order holds
    locked,     \* coins held by live sell orders
    orders,     \* every order the exchange accepted
    faults      \* how many faults have happened

file     == <<disk, torn>>
local    == <<led, seen, todo, slots, mine>>
exchange == <<free, locked, orders>>
vars     == <<disk, torn, lock, hour, pc, led, seen, todo, slots, mine,
              free, locked, orders, faults>>

Order == [side : {"buy", "sell"}, symbol : Symbol, qty : Nat, filled : Nat,
          cancelled : BOOLEAN, loss : BOOLEAN, hour : Nat]

Live(o) == ~o.cancelled /\ o.filled < o.qty

Label == {"idle", "waiting", "begin", "load", "read", "exits", "selling",
          "entries", "buying", "save", "writing", "report"}

\* Where a process has the lock.
Locked == Label \ {"idle", "waiting"}
\* Where it has a book in memory that it goes on to save.
Working == {"read", "exits", "selling", "entries", "buying", "save", "writing"}

Unread == [s \in Symbol |-> [qty |-> 0, free |-> 0, priced |-> TRUE]]

Init ==
    /\ disk = Empty
    /\ torn = FALSE
    /\ lock = NoProc
    /\ hour = 0
    /\ pc = [p \in Proc |-> "idle"]
    /\ led = [p \in Proc |-> Empty]
    /\ seen = [p \in Proc |-> Unread]
    /\ todo = [p \in Proc |-> {}]
    /\ slots = [p \in Proc |-> 0]
    /\ mine = [p \in Proc |-> 0]
    /\ free = [s \in Symbol |-> 0]
    /\ locked = [s \in Symbol |-> 0]
    /\ orders = <<>>
    /\ faults = 0

Fault(f) ==
    /\ f \in Faults
    /\ faults < MaxFaults
    /\ faults' = faults + 1

Goto(p, l) == pc' = [pc EXCEPT ![p] = l]

\* Mutant: the lock file is freed whoever holds it.
EndFreeing(p) ==
    /\ Goto(p, "idle")
    /\ lock' = NoProc
    /\ UNCHANGED <<led, seen, todo, slots, mine>>

\* The process ends: the lock is released and its memory is gone.
End(p) ==
    /\ Goto(p, "idle")
    /\ lock' = IF lock = p THEN NoProc ELSE lock
    /\ led' = [led EXCEPT ![p] = Empty]
    /\ seen' = [seen EXCEPT ![p] = Unread]
    /\ todo' = [todo EXCEPT ![p] = {}]
    /\ slots' = [slots EXCEPT ![p] = 0]
    /\ mine' = [mine EXCEPT ![p] = 0]

\* ledger.load: a file that does not parse counts as no file.
Load == IF torn THEN Empty ELSE disk

-----------------------------------------------------------------------------
(***************************************************************************)
(* The account at the exchange.                                            *)
(***************************************************************************)

\* What get_positions reports: a balance with a price and a value below
\* DUST_IDR is left out, one without a price (unpriced) is not.
Visible(dust, unpriced) ==
    [s \in Symbol |->
        IF s \in dust
        THEN [qty |-> 0, free |-> 0, priced |-> TRUE]
        ELSE [qty |-> free[s] + locked[s], free |-> free[s],
              priced |-> s \notin unpriced]]

MayBeDust == {s \in Symbol : free[s] + locked[s] \in 1..DustQty}

\* The exchange accepts a market order.  A sell sets its coins aside.
Accept(side, s, qty, loss) ==
    /\ Len(orders) < MaxOrders
    /\ orders' = Append(orders, [side |-> side, symbol |-> s, qty |-> qty,
                                 filled |-> 0, cancelled |-> FALSE,
                                 loss |-> loss, hour |-> hour])
    /\ IF side = "sell"
       THEN /\ qty <= free[s]
            /\ free' = [free EXCEPT ![s] = @ - qty]
            /\ locked' = [locked EXCEPT ![s] = @ + qty]
       ELSE UNCHANGED <<free, locked>>

\* k more coins of order i are traded.
Execute(i, k) ==
    LET o == orders[i] IN
    /\ Live(o)
    /\ orders' = [orders EXCEPT ![i].filled = @ + k]
    /\ IF o.side = "sell"
       THEN /\ k <= locked[o.symbol]
            /\ locked' = [locked EXCEPT ![o.symbol] = @ - k]
            /\ free' = free
       ELSE /\ free' = [free EXCEPT ![o.symbol] = @ + k]
            /\ locked' = locked

Fill(i) ==
    /\ Live(orders[i])
    /\ Execute(i, orders[i].qty - orders[i].filled)
    /\ UNCHANGED <<file, lock, hour, pc, local, faults>>

PartialFill(i) ==
    /\ Fault("partial")
    /\ \E k \in 1..(orders[i].qty - orders[i].filled - 1) : Execute(i, k)
    /\ UNCHANGED <<file, lock, hour, pc, local>>

\* What is left of order i is cancelled, rejected or expires.
Withdraw(i) ==
    LET o == orders[i] IN
    /\ Live(o)
    /\ orders' = [orders EXCEPT ![i].cancelled = TRUE]
    /\ IF o.side = "sell"
       THEN /\ o.qty - o.filled <= locked[o.symbol]
            /\ locked' = [locked EXCEPT ![o.symbol] = @ - (o.qty - o.filled)]
            /\ free' = [free EXCEPT ![o.symbol] = @ + (o.qty - o.filled)]
       ELSE UNCHANGED <<free, locked>>

Reject(i) ==
    /\ Withdraw(i)
    /\ UNCHANGED <<file, lock, hour, pc, local, faults>>

\* The owner sells or buys a coin by hand.
OwnerTrades(s) ==
    /\ Fault("owner")
    /\ \/ free[s] > 0 /\ free' = [free EXCEPT ![s] = 0]
       \/ free' = [free EXCEPT ![s] = @ + Lot]
    /\ UNCHANGED <<file, lock, hour, pc, local, locked, orders>>

-----------------------------------------------------------------------------
(***************************************************************************)
(* trader._exit_position, shared by both programs.                         *)
(***************************************************************************)

\* The trader looks at a position only with 1H data for its symbol; the
\* watcher's list holds positions whose ticker breached a level.
Leaving(p, s) ==
    /\ pc[p] = "exits"
    /\ s \in todo[p]
    /\ p \in Trader => seen[p][s].priced

SellableQty(p, s) ==
    LET pos  == led[p].open[s]
        live == seen[p][s]
    IN  IF live.qty = 0 THEN pos.qty
        ELSE IF live.free < pos.qty THEN live.free ELSE pos.qty

Skip(p, s) == todo' = [todo EXCEPT ![p] = @ \ {s}]

\* Nothing free to sell, or less than the pair's minimum order.
DropUnsellable(p, s) ==
    /\ Leaving(p, s)
    /\ SellableQty(p, s) <= DustQty
    /\ Len(led[p].closed) < MaxTrades
    /\ \E loss \in BOOLEAN :
          led' = [led EXCEPT ![p] = ClosePosition(@, s, loss, hour)]
    /\ Skip(p, s)
    /\ UNCHANGED <<file, lock, hour, pc, seen, slots, mine, exchange, faults>>

\* The POST raises and no order exists: the position is kept.
SellRefused(p, s) ==
    /\ Leaving(p, s)
    /\ SellableQty(p, s) > 0
    /\ Skip(p, s)
    /\ UNCHANGED <<file, lock, hour, pc, led, seen, slots, mine, exchange, faults>>

SellAccepted(p, s) ==
    /\ Leaving(p, s)
    /\ SellableQty(p, s) > 0
    /\ \E loss \in BOOLEAN : Accept("sell", s, SellableQty(p, s), loss)
    /\ mine' = [mine EXCEPT ![p] = Len(orders')]
    /\ Goto(p, "selling")
    /\ UNCHANGED <<file, lock, hour, led, seen, todo, slots, faults>>

\* The order exists, but the caller saw a BrokerError and keeps the position.
SellReplyLost(p, s) ==
    /\ Fault("replyLost")
    /\ Leaving(p, s)
    /\ SellableQty(p, s) > 0
    /\ \E loss \in BOOLEAN : Accept("sell", s, SellableQty(p, s), loss)
    /\ Skip(p, s)
    /\ UNCHANGED <<file, lock, hour, pc, led, seen, slots, mine>>

(***************************************************************************)
(* broker.wait_for_fill and what its two callers do with the answer.       *)
(***************************************************************************)

\* The caller stops waiting and goes on with its loop.
Resume(p) ==
    /\ Skip(p, orders[mine[p]].symbol)
    /\ mine' = [mine EXCEPT ![p] = 0]
    /\ Goto(p, IF pc[p] = "selling" THEN "exits" ELSE "entries")

\* The order filled at least in part: the whole position is closed, or what
\* was bought becomes one.  Otherwise the book stays as it is.
Settle(p) ==
    LET o == orders[mine[p]] IN
    /\ \/ /\ o.filled = 0
          /\ UNCHANGED <<led, slots>>
       \/ /\ o.filled > 0
          /\ o.side = "sell"
          /\ led' = [led EXCEPT ![p] = ClosePosition(@, o.symbol, o.loss, hour)]
          /\ UNCHANGED slots
       \/ /\ o.filled > 0
          /\ o.side = "buy"
          /\ led' = [led EXCEPT ![p] =
                        OpenPosition(@, o.symbol, o.filled, hour, mine[p])]
          /\ slots' = [slots EXCEPT ![p] = @ - 1]
    /\ Resume(p)

AwaitsFill(p) == pc[p] \in {"selling", "buying"}

\* get_order says the order is over.
FillAnswered(p) ==
    /\ AwaitsFill(p)
    /\ ~Live(orders[mine[p]])
    /\ Settle(p)
    /\ UNCHANGED <<file, lock, hour, seen, exchange, faults>>

\* The deadline passes and the order is cancelled.
FillTimedOut(p) ==
    /\ AwaitsFill(p)
    /\ Withdraw(mine[p])
    /\ Settle(p)
    /\ UNCHANGED <<file, lock, hour, seen, faults>>

\* The cancel fails, its error is swallowed, and the order lives on.
FillCancelLost(p) ==
    /\ AwaitsFill(p)
    /\ Live(orders[mine[p]])
    /\ Fault("cancelLost")
    /\ Settle(p)
    /\ UNCHANGED <<file, lock, hour, seen, exchange>>

\* get_order raises, or does not find the order: both callers give up on it.
FillPollFailed(p) ==
    /\ AwaitsFill(p)
    /\ Fault("pollFailed")
    /\ Resume(p)
    /\ UNCHANGED <<file, lock, hour, led, seen, slots, exchange>>

-----------------------------------------------------------------------------
(***************************************************************************)
(* The hourly trader: trader.run and trader._run.                          *)
(***************************************************************************)

TraderStart(t) ==
    /\ pc[t] = "idle"
    /\ Goto(t, "waiting")
    /\ UNCHANGED <<file, lock, hour, local, exchange, faults>>

\* Mutant: the trader goes ahead whether or not it got the lock.
TraderAcquireAnyway(t) ==
    /\ pc[t] = "waiting"
    /\ lock' = t
    /\ Goto(t, "begin")
    /\ UNCHANGED <<file, hour, local, exchange, faults>>

TraderAcquire(t) ==
    /\ pc[t] = "waiting"
    /\ lock = NoProc
    /\ lock' = t
    /\ Goto(t, "begin")
    /\ UNCHANGED <<file, hour, local, exchange, faults>>

\* The lock was busy until the deadline: the cycle is skipped.
TraderGiveUp(t) ==
    /\ pc[t] = "waiting"
    /\ lock # NoProc
    /\ Goto(t, "idle")
    /\ UNCHANGED <<file, lock, hour, local, exchange, faults>>

\* No fresh snapshot, or the exchange cannot be reached.
TraderSkip(t) ==
    /\ pc[t] = "begin"
    /\ End(t)
    /\ UNCHANGED <<file, hour, exchange, faults>>

TraderRead(t) ==
    /\ pc[t] = "begin"
    /\ \E unpriced \in IF "noData" \in Faults THEN SUBSET Symbol ELSE {{}} :
       \E dust \in SUBSET (MayBeDust \ unpriced) :
          seen' = [seen EXCEPT ![t] = Visible(dust, unpriced)]
    /\ Goto(t, "load")
    /\ UNCHANGED <<file, lock, hour, led, todo, slots, mine, exchange, faults>>

TraderLoad(t) ==
    /\ pc[t] = "load"
    /\ led' = [led EXCEPT ![t] = Reconcile(Load, seen[t], hour)]
    /\ todo' = [todo EXCEPT ![t] = OpenSymbols(led'[t])]
    /\ Goto(t, "exits")
    /\ UNCHANGED <<file, lock, hour, seen, slots, mine, exchange, faults>>

\* check_exit wants no exit; it may have ratcheted the levels, not without data.
TraderHold(t, s) ==
    /\ pc[t] = "exits"
    /\ s \in todo[t]
    /\ \E stop \in led[t].open[s].stop..(led[t].open[s].stop + 1) :
          /\ stop <= MaxStop
          /\ stop > led[t].open[s].stop => seen[t][s].priced
          /\ led' = [led EXCEPT ![t] = UpdatePosition(@, s, stop)]
    /\ Skip(t, s)
    /\ UNCHANGED <<file, lock, hour, pc, seen, slots, mine, exchange, faults>>

\* No equity, the breaker is tripped, no slot is left or no symbol qualifies.
TraderNoEntries(t) ==
    /\ pc[t] = "exits"
    /\ todo[t] = {}
    /\ Goto(t, "save")
    /\ UNCHANGED <<file, lock, hour, local, exchange, faults>>

\* Mutant: every slot of the cap counts as free.
TraderEntriesEverySlot(t) ==
    /\ pc[t] = "exits"
    /\ todo[t] = {}
    /\ ~CircuitBreakerTripped(led[t], hour, BreakerLosses)
    /\ slots' = [slots EXCEPT ![t] = MaxPositions]
    /\ \E candidates \in SUBSET (Symbol \ OpenSymbols(led[t])) :
          todo' = [todo EXCEPT ![t] = candidates]
    /\ Goto(t, "entries")
    /\ UNCHANGED <<file, lock, hour, led, seen, mine, exchange, faults>>

\* The policy may lower the cap; candidates pass the filters in this regime.
TraderEntries(t) ==
    /\ pc[t] = "exits"
    /\ todo[t] = {}
    /\ ~CircuitBreakerTripped(led[t], hour, BreakerLosses)
    /\ \E cap \in 1..MaxPositions :
          /\ cap > Cardinality(OpenSymbols(led[t]))
          /\ slots' = [slots EXCEPT ![t] = cap - Cardinality(OpenSymbols(led[t]))]
    /\ \E candidates \in SUBSET {s \in Symbol \ OpenSymbols(led[t]) : seen[t][s].priced} :
          todo' = [todo EXCEPT ![t] = candidates]
    /\ Goto(t, "entries")
    /\ UNCHANGED <<file, lock, hour, led, seen, mine, exchange, faults>>

\* The next candidate of the entry loop.
Entering(t, s) ==
    /\ pc[t] = "entries"
    /\ s \in todo[t]
    /\ slots[t] > 0

\* The candidate is throttled, too small to size, or its order is refused.
EntrySkipped(t, s) ==
    /\ Entering(t, s)
    /\ Skip(t, s)
    /\ UNCHANGED <<file, lock, hour, pc, led, seen, slots, mine, exchange, faults>>

BuyAccepted(t, s) ==
    /\ Entering(t, s)
    /\ ~Throttled(led[t], s, hour)
    /\ Accept("buy", s, Lot, FALSE)
    /\ led' = [led EXCEPT ![t] = RecordEntryAttempt(@, s, hour)]
    /\ mine' = [mine EXCEPT ![t] = Len(orders')]
    /\ Goto(t, "buying")
    /\ UNCHANGED <<file, lock, hour, seen, todo, slots, faults>>

\* The order exists, but market_buy_idr raised: no attempt is recorded.
BuyReplyLost(t, s) ==
    /\ Fault("replyLost")
    /\ Entering(t, s)
    /\ ~Throttled(led[t], s, hour)
    /\ Accept("buy", s, Lot, FALSE)
    /\ Skip(t, s)
    /\ UNCHANGED <<file, lock, hour, pc, led, seen, slots, mine>>

TraderEntriesDone(t) ==
    /\ pc[t] = "entries"
    /\ todo[t] = {} \/ slots[t] = 0
    /\ Goto(t, "save")
    /\ UNCHANGED <<file, lock, hour, local, exchange, faults>>

-----------------------------------------------------------------------------
(***************************************************************************)
(* The exit watcher: watchdog.run.                                         *)
(***************************************************************************)

\* The check outside the lock: without an open position nothing is started.
WatcherStart(w) ==
    /\ pc[w] = "idle"
    /\ OpenSymbols(Load) # {}
    /\ Goto(w, "waiting")
    /\ UNCHANGED <<file, lock, hour, local, exchange, faults>>

\* Mutant: the watcher has a lock of its own.
WatcherAcquireOther(w) ==
    /\ pc[w] = "waiting"
    /\ Goto(w, "load")
    /\ UNCHANGED <<file, lock, hour, local, exchange, faults>>

WatcherAcquire(w) ==
    /\ pc[w] = "waiting"
    /\ lock = NoProc
    /\ lock' = w
    /\ Goto(w, "load")
    /\ UNCHANGED <<file, hour, local, exchange, faults>>

WatcherSkip(w) ==
    /\ pc[w] = "waiting"
    /\ lock # NoProc
    /\ Goto(w, "idle")
    /\ UNCHANGED <<file, lock, hour, local, exchange, faults>>

\* The book is read again under the lock; some positions breach a level.
WatcherLoad(w) ==
    /\ pc[w] = "load"
    /\ \E hits \in SUBSET OpenSymbols(Load) :
          /\ hits # {}
          /\ todo' = [todo EXCEPT ![w] = hits]
    /\ led' = [led EXCEPT ![w] = Load]
    /\ Goto(w, "read")
    /\ UNCHANGED <<file, lock, hour, seen, slots, mine, exchange, faults>>

\* Nothing is open, no level is breached, or a request fails.
WatcherLeave(w) ==
    /\ pc[w] \in {"load", "read"}
    /\ End(w)
    /\ UNCHANGED <<file, hour, exchange, faults>>

WatcherRead(w) ==
    /\ pc[w] = "read"
    /\ \E dust \in SUBSET MayBeDust : seen' = [seen EXCEPT ![w] = Visible(dust, {})]
    /\ Goto(w, "exits")
    /\ UNCHANGED <<file, lock, hour, led, todo, slots, mine, exchange, faults>>

\* Mutant: the watcher does not save what it sold.
WatcherExitsUnsaved(w) ==
    /\ pc[w] = "exits"
    /\ todo[w] = {}
    /\ Goto(w, "report")
    /\ UNCHANGED <<file, lock, hour, local, exchange, faults>>

WatcherExitsDone(w) ==
    /\ pc[w] = "exits"
    /\ todo[w] = {}
    /\ Goto(w, "save")
    /\ UNCHANGED <<file, lock, hour, local, exchange, faults>>

-----------------------------------------------------------------------------
(***************************************************************************)
(* ledger.save: Path.write_text truncates the file, then writes it.        *)
(***************************************************************************)

SaveTruncate(p) ==
    /\ pc[p] = "save"
    /\ torn' = TRUE
    /\ Goto(p, "writing")
    /\ UNCHANGED <<disk, lock, hour, local, exchange, faults>>

SaveWrite(p) ==
    /\ pc[p] = "writing"
    /\ disk' = led[p]
    /\ torn' = FALSE
    /\ Goto(p, "report")
    /\ UNCHANGED <<lock, hour, local, exchange, faults>>

\* The holdings report; then the lock is released.
Finish(p) ==
    /\ pc[p] = "report"
    /\ End(p)
    /\ UNCHANGED <<file, hour, exchange, faults>>

\* Mutant: the lock is a file that a dead process leaves behind.
CrashLeavingLock(p) ==
    /\ pc[p] # "idle"
    /\ Fault("crash")
    /\ Goto(p, "idle")
    /\ UNCHANGED <<file, lock, hour, local, exchange>>

Crash(p) ==
    /\ pc[p] # "idle"
    /\ Fault("crash")
    /\ End(p)
    /\ UNCHANGED <<file, hour, exchange>>

\* A cycle of the trader lasts minutes, so the hour does not turn within one,
\* and the wait for a fill lasts seconds, so the hour turns once in it at most.
Tick ==
    /\ hour < MaxHour
    /\ \A t \in Trader : pc[t] = "idle"
    /\ \A w \in Watcher : AwaitsFill(w) => orders[mine[w]].hour = hour
    /\ hour' = hour + 1
    /\ UNCHANGED <<file, lock, pc, local, exchange, faults>>

-----------------------------------------------------------------------------
TraderStep(t) ==
    \/ TraderStart(t) \/ TraderAcquire(t) \/ TraderSkip(t)
    \/ TraderRead(t) \/ TraderLoad(t) \/ TraderNoEntries(t) \/ TraderEntries(t)
    \/ TraderEntriesDone(t)
    \/ \E s \in Symbol : \/ TraderHold(t, s) \/ EntrySkipped(t, s)
                         \/ BuyAccepted(t, s) \/ BuyReplyLost(t, s)

WatcherStep(w) ==
    \/ WatcherStart(w) \/ WatcherAcquire(w) \/ WatcherSkip(w) \/ WatcherLoad(w)
    \/ WatcherLeave(w) \/ WatcherRead(w) \/ WatcherExitsDone(w)

CommonStep(p) ==
    \/ \E s \in Symbol : \/ DropUnsellable(p, s) \/ SellRefused(p, s)
                         \/ SellAccepted(p, s) \/ SellReplyLost(p, s)
    \/ FillAnswered(p) \/ FillTimedOut(p) \/ FillCancelLost(p) \/ FillPollFailed(p)
    \/ SaveTruncate(p) \/ SaveWrite(p) \/ Finish(p)

ExchangeStep ==
    \/ \E i \in DOMAIN orders : Fill(i) \/ PartialFill(i) \/ Reject(i)
    \/ \E s \in Symbol : OwnerTrades(s)

Next ==
    \/ \E t \in Trader : TraderStep(t) \/ TraderGiveUp(t)
    \/ \E w \in Watcher : WatcherStep(w)
    \/ \E p \in Proc : CommonStep(p) \/ Crash(p)
    \/ ExchangeStep
    \/ Tick

Spec == Init /\ [][Next]_vars

-----------------------------------------------------------------------------
(***************************************************************************)
(* Correctness.                                                            *)
(***************************************************************************)

\* The types of all variables, the order a waiting process refers to
\* included.
TypeOK ==
    /\ disk \in Book
    /\ torn \in BOOLEAN
    /\ lock \in Proc \cup {NoProc}
    /\ hour \in Nat
    /\ pc \in [Proc -> Label]
    /\ led \in [Proc -> Book]
    /\ seen \in [Proc -> [Symbol -> Balance]]
    /\ todo \in [Proc -> SUBSET Symbol]
    /\ slots \in [Proc -> Nat]
    /\ mine \in [Proc -> Nat]
    /\ free \in [Symbol -> Nat]
    /\ locked \in [Symbol -> Nat]
    /\ orders \in Seq(Order)
    /\ faults \in Nat

\* Whatever crashes, at most one process is between the lock and the end of
\* its cycle (lock.py: every path that can place an order).
OneOrderer ==
    \A p, q \in Proc : pc[p] \in Locked /\ pc[q] \in Locked => p = q

\* The balances a process decides a sale on are still there when it sends the
\* order, so no sale fails on coins the other program has already sold
\* (lock.py, the double sale; watchdog.py re-reads inside the lock).
SalesAreCovered ==
    \A p \in Proc, s \in Symbol :
        Leaving(p, s) => SellableQty(p, s) <= free[s]

\* Nobody is in a cycle and the last write of the file was completed.
Quiet == ~torn /\ \A p \in Proc : pc[p] \in {"idle", "waiting"}

\* Between cycles the ledger lists exactly the coins that are held, so each
\* is watched by the exits (trader._run saves what its orders did).
HeldIsManaged ==
    Quiet => \A s \in Symbol : disk.open[s].qty = free[s] + locked[s]

FilledSales(s) == {i \in DOMAIN orders : /\ orders[i].side = "sell"
                                         /\ orders[i].symbol = s
                                         /\ orders[i].filled > 0}
BookedSales(s) == {i \in DOMAIN disk.closed : disk.closed[i].symbol = s}

\* Between cycles every sale the exchange executed for the bot is booked as a
\* closed trade, once.
SoldIsBooked ==
    Quiet => \A s \in Symbol : Cardinality(BookedSales(s)) = Cardinality(FilledSales(s))

\* Two entries of one symbol are a throttle window apart, whoever saved the
\* ledger in between (ledger.throttled).
ThrottleHonoured ==
    \A i, j \in DOMAIN orders :
        (/\ i < j
         /\ orders[i].side = "buy" /\ orders[j].side = "buy"
         /\ orders[i].symbol = orders[j].symbol)
        => orders[j].hour - orders[i].hour >= Day

BuysOf(s) == {i \in DOMAIN orders : /\ orders[i].side = "buy"
                                    /\ orders[i].symbol = s
                                    /\ Live(orders[i])}

\* The account never holds, or is about to hold, more coins than the cap
\* (config.MAX_POSITIONS, the hard cap).
CapRespected ==
    Cardinality({s \in Symbol : free[s] + locked[s] > 0 \/ BuysOf(s) # {}})
        <= MaxPositions

\* A new order of the given side, with what holds when it is accepted.
NewOrder(side) == Len(orders') > Len(orders) /\ orders'[Len(orders')].side = side

\* The sales of the last n hours that the exchange executed.
SalesWithin(n) == {i \in DOMAIN orders : /\ orders[i].side = "sell"
                                         /\ orders[i].filled > 0
                                         /\ hour - orders[i].hour <= n}

\* A day's realized loss halts new entries (config.CIRCUIT_BREAKER_PCT): no
\* entry while what the sales placed in the last 24 h lost, less every gain that
\* may have been booked in them, reaches the limit.  A sale placed at the end of
\* an hour is booked in the next, so gains count for an hour more.
LossHaltsEntries ==
    [][NewOrder("buy") =>
          Cardinality({i \in SalesWithin(Day) : orders[i].loss})
            - Cardinality({i \in SalesWithin(Day + 1) : ~orders[i].loss}) < BreakerLosses]_vars

RecentExits(l, s) == {i \in DOMAIN l.closed : /\ l.closed[i].symbol = s
                                                    /\ hour - l.closed[i].hour < Day}

\* The re-entry throttle keeps the bot out of a coin it has just left
\* (trader._enter_position: "to stop the bot re-entering a coin it just left").
NoReentryAfterExit ==
    [][\A t \in Trader, s \in Symbol :
          BuyAccepted(t, s) => RecentExits(led[t], s) = {}]_vars

-----------------------------------------------------------------------------
(***************************************************************************)
(* The ledger file as its readers see it: no save, of either program,      *)
(* discards what another one saved before (watchdog.run re-reads inside    *)
(* the lock).  It holds as long as no process dies inside a write.         *)
(***************************************************************************)
J == INSTANCE Journal WITH book <- disk

\* The detailed specification implements the journal (ledger.save; the second
\* ledger.load of watchdog.run).
SavesExtend == J!JSpec

-----------------------------------------------------------------------------
(***************************************************************************)
(* The inductive invariant behind OneOrderer and SavesExtend.              *)
(***************************************************************************)

\* The exchange executes no order beyond its quantity.
OrdersOK ==
    \A i \in DOMAIN orders : orders[i].filled <= orders[i].qty

\* A process that waits for a fill waits for an order of its own making.
WaitOK ==
    \A p \in Proc :
        AwaitsFill(p) =>
            /\ mine[p] \in DOMAIN orders
            /\ orders[mine[p]].side = IF pc[p] = "selling" THEN "sell" ELSE "buy"
            /\ pc[p] = "buying" => slots[p] > 0

\* Who is in the part of a cycle that needs the lock has it.
LockOK == \A p \in Proc : pc[p] \in Locked => lock = p

\* A book speaks of the past: of the first n orders and the hours up to h.
PastBook(l, n, h) ==
    \A s \in Symbol : l.open[s].id <= n /\ l.attempt[s] <= h

PastOK ==
    /\ PastBook(disk, Len(orders), hour)
    /\ \A p \in Proc : PastBook(led[p], Len(orders), hour)

\* The order a process buys with is newer than every position on disk.
FreshOK ==
    \A p \in Proc : pc[p] = "buying" => \A s \in Symbol : disk.open[s].id < mine[p]

\* Without crashes the file is torn only while its writer is at work, and a
\* book that will be saved continues the one on disk.
BaseOK ==
    "crash" \notin Faults =>
        /\ torn => \E p \in Proc : pc[p] = "writing"
        /\ \A p \in Proc : pc[p] \in Working => Extends(disk, led[p])

\* The inductive invariant: the types and what the steps of a cycle rely on.
IInv == TypeOK /\ OrdersOK /\ WaitOK /\ LockOK /\ PastOK /\ FreshOK /\ BaseOK

-----------------------------------------------------------------------------
(***************************************************************************)
(* The inductive invariant behind ThrottleHonoured and behind what holds   *)
(* without faults.  It speaks of the book in force: the one its writer has *)
(* in memory, from the first change to the write, and the file otherwise.  *)
(***************************************************************************)
Rewriting == Working \ {"read"}

Current == IF lock \in Proc /\ pc[lock] \in Rewriting THEN led[lock] ELSE disk

\* A watcher that has read the file, and changed nothing, has what is in it.
ReadOK == \A p \in Proc : pc[p] = "read" => led[p] = disk

\* Every entry is on record in the book in force, and none is of the future.
AttemptsOK ==
    \A i \in DOMAIN orders :
        /\ orders[i].hour <= hour
        /\ orders[i].side = "buy" => orders[i].hour <= Current.attempt[orders[i].symbol]

\* The invariant behind ThrottleHonoured.
ThrottleInv == ReadOK /\ AttemptsOK /\ ThrottleHonoured

\* Nothing goes wrong but that data are missing, and what an entry buys is worth
\* more than dust.
Undisturbed == Faults \subseteq {"noData"} /\ DustQty < Lot

Held(s) == free[s] + locked[s]

Awaits(p, s) == AwaitsFill(p) /\ orders[mine[p]].symbol = s

\* Orders trade all of a lot or nothing, and one that lives is waited for.
WholeOK ==
    /\ \A i \in DOMAIN orders :
          /\ orders[i].qty = Lot
          /\ orders[i].filled \in {0, Lot}
          /\ Live(orders[i]) => \E p \in Proc : AwaitsFill(p) /\ mine[p] = i
    /\ \A s \in Symbol : Held(s) \in {0, Lot}

\* The order p waits for is booked when it is over.
WaitExact(p) ==
    LET o == orders[mine[p]]
        s == o.symbol
    IN  IF pc[p] = "selling"
        THEN /\ Current.open[s].qty = Lot
             /\ Held(s) = Lot - o.filled
             /\ locked[s] = IF Live(o) THEN Lot ELSE 0
        ELSE /\ Current.open[s].qty = 0
             /\ Held(s) = o.filled
             /\ locked[s] = 0

\* The book in force has what the account has, but for the order waited for.
ExactOK ==
    /\ \A s \in Symbol : (\A p \in Proc : ~Awaits(p, s)) =>
          Current.open[s].qty = Held(s) /\ locked[s] = 0
    /\ \A p \in Proc : AwaitsFill(p) => WaitExact(p)

\* The balances a process has read are those of the account, for every position
\* it has still to look at.
SeenOK(p) ==
    /\ p \in Trader /\ pc[p] = "load" =>
          \A s \in Symbol : seen[p][s].qty = Held(s) /\ seen[p][s].free = free[s]
    /\ pc[p] \in {"read", "exits", "selling"} => todo[p] \subseteq OpenSymbols(led[p])
    /\ pc[p] \in {"exits", "selling"} =>
          \A s \in todo[p] : Awaits(p, s) \/ (/\ seen[p][s].qty = Held(s)
                                            /\ seen[p][s].free = free[s])

\* The slots left of an entry loop are within the cap, and its candidates are not
\* held.
SlotsOK(p) ==
    pc[p] \in {"entries", "buying"} =>
        /\ Cardinality(OpenSymbols(led[p])) + slots[p] <= MaxPositions
        /\ todo[p] \cap OpenSymbols(led[p]) = {}

\* Only a trader makes entries, with the breaker not tripped; an order that is
\* waited for is not older than the hour before.
BreakerOK(p) ==
    /\ pc[p] \in {"entries", "buying"} =>
          p \in Trader /\ ~CircuitBreakerTripped(led[p], hour, BreakerLosses)
    /\ AwaitsFill(p) => /\ orders[mine[p]].hour <= hour
                        /\ hour <= orders[mine[p]].hour + 1

WorkOK(p) == SeenOK(p) /\ SlotsOK(p) /\ BreakerOK(p)

\* The book in force has no more positions than the cap.
BoundOK == Cardinality(OpenSymbols(Current)) <= MaxPositions /\ hour <= MaxHour

CountIn(seq, kind) == Cardinality({i \in DOMAIN seq : seq[i] \in kind})

\* One if a process waits for a sale of some kind, which is then not booked yet.
Unbooked(kind) ==
    IF \E p \in Proc : pc[p] = "selling" /\ orders[mine[p]] \in kind THEN 1 ELSE 0

\* How many sales of some kind were executed, the one that is waited for aside.
Settled(kind) == CountIn(orders, kind) - Unbooked(kind)

Sales       == {o \in Order : o.side = "sell" /\ o.filled > 0}
SalesOf(s)  == {o \in Sales : o.symbol = s}
TradesOf(s) == {t \in Trade : t.symbol = s}

SalesSince(loss, h)  == {o \in Sales : o.loss = loss /\ h <= o.hour}
TradesSince(loss, h) == {t \in Trade : t.loss = loss /\ h <= t.hour}

\* Every sale that was executed is one trade of the book in force, booked in the
\* hour of its order or the next.
BookedOK ==
    /\ \A s \in Symbol : CountIn(Current.closed, TradesOf(s)) = Settled(SalesOf(s))
    /\ \A h \in (0 - Day)..MaxHour :
          /\ Settled(SalesSince(TRUE, h)) <= CountIn(Current.closed, TradesSince(TRUE, h))
          /\ CountIn(Current.closed, TradesSince(FALSE, h)) <= Settled(SalesSince(FALSE, h - 1))

\* The invariant behind the properties that hold without faults.
BooksInv ==
    /\ ReadOK /\ WholeOK /\ ExactOK /\ BookedOK /\ BoundOK
    /\ \A p \in Proc : WorkOK(p)

-----------------------------------------------------------------------------
(***************************************************************************)
(* Progress.  cron starts the trader for ever, a process that runs goes    *)
(* on, and the exchange is not out of reach for ever.  A waiting trader    *)
(* polls the lock twice a second and a watcher comes every five minutes,   *)
(* so it meets the lock free before long; that watchers keep it busy for   *)
(* all the 120 s of the wait happens finitely often, and the faults are    *)
(* finitely many by their bound.                                           *)
(***************************************************************************)
Fairness ==
    /\ \A t \in Trader : /\ WF_vars(TraderStep(t) \/ CommonStep(t))
                         /\ SF_vars(TraderAcquire(t))
                         /\ SF_vars(TraderRead(t))
                         /\ <>[][~TraderGiveUp(t)]_vars
    /\ \A w \in Watcher : WF_vars(pc[w] # "idle" /\ (WatcherStep(w) \/ CommonStep(w)))

FairSpec == Spec /\ Fairness

\* Where the model stops a process that the code does not: a sale is to be
\* dropped and MaxTrades trades are booked.
AtBound == \E p \in Proc, s \in Symbol : /\ Leaving(p, s)
                                        /\ SellableQty(p, s) <= DustQty
                                        /\ Len(led[p].closed) = MaxTrades

\* A coin that is held above dust, for whatever reason the ledger does not know it
\* (a lost save, a late fill, the rest of a sale in part), comes to be managed or
\* is sold (ledger.reconcile adopts unknown balances).
HeldBecomesManaged ==
    \A s \in Symbol :
        (free[s] > DustQty) ~> (disk.open[s].qty > 0 \/ free[s] <= DustQty \/ AtBound)

\* A position whose coins are gone does not stay in the ledger
\* (ledger.reconcile drops it).
GoneIsDropped ==
    \A s \in Symbol : (disk.open[s].qty > 0 /\ free[s] + locked[s] = 0)
                         ~> (disk.open[s].qty = 0 \/ free[s] + locked[s] > 0 \/ AtBound)

\* No crash wedges the bot: the trader keeps completing its cycles
\* (lock.py: flock is released by the kernel when the process dies).
CyclesComplete == \A t \in Trader : []<>(pc[t] = "report" \/ AtBound)
=============================================================================
