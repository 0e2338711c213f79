---------------------------- MODULE Performance -----------------------------
(***************************************************************************)
(* How the account's result is told: the hand-kept record of transfers     *)
(* (cashflow.py), the equity curve rebuilt from snapshots and ledger and   *)
(* the page made of it (dashboard.py), and the verdict (scorecard.py).     *)
(*                                                                         *)
(* Trades, transfers, snapshots and the trader's log lines happen at       *)
(* instants of their own.  Money and prices are whole numbers and every    *)
(* fill is booked at its price; a sale may go unseen, and its position is  *)
(* then dropped by the next cycle.  A rate is a pair <<n, d>>, for n/d.    *)
(***************************************************************************)
EXTENDS Integers, Sequences, FiniteSets, FiniteSetsExt, SequencesExt

CONSTANTS
    Coins,              \* the watchlist
    Quotes,             \* what a snapshot may have of the closes, 0 for none
    Prices, Qty,        \* of fills; the size of an order
    Amounts,            \* of transfers, withdrawals are negative
    StartEquity,        \* START_EQUITY
    BuyFee, SellFee,    \* commissions, in rupiah
    Tolerance,          \* DETECT_TOLERANCE
    DecisionTime,       \* DECISION_DATE, as an instant
    MinTrades,          \* MIN_TRADES
    TrueWinFloor,       \* TRUE_WIN_FLOOR, in percent
    DayLength,          \* instants of a day
    MaxNow, MaxSnapshots, MaxLines, MaxTrades,
    MaxTransfers, MaxRecords        \* bounds

ASSUME PerformanceAssumption ==
    /\ IsFiniteSet(Coins) /\ Quotes \subseteq [Coins -> Nat]
    /\ Prices \subseteq Nat \ {0} /\ Qty \in Nat \ {0}
    /\ Amounts \subseteq Int
    /\ StartEquity \in Nat /\ Tolerance \in Nat
    /\ BuyFee \in Nat /\ SellFee \in Nat /\ (BuyFee + SellFee) % 2 = 0
    /\ DecisionTime \in Nat /\ MinTrades \in Nat /\ TrueWinFloor \in 0..100
    /\ DayLength \in Nat \ {0}
    /\ {MaxNow, MaxSnapshots, MaxLines, MaxTrades, MaxTransfers, MaxRecords} \subseteq Nat

VARIABLES
    now,        \* the last instant at which something happened
    cash,       \* the rupiah at the exchange
    open,       \* the ledger's open positions,
    closed,     \* and its closed trades
    unseen,     \* history: sales that the ledger never booked
    transfers,  \* history: the transfers that were made
    flows,      \* data/cashflows.json
    adds,       \* runs of cashflow.add between load and save
    snaps,      \* the stored snapshots, [at, closes]; a close of 0 is none
    worth,      \* history: what the account was worth at each of them
    lines       \* what the trader's log tells of the cash, [at, cash]

vars == <<now, cash, open, closed, unseen, transfers, flows, adds, snaps, worth, lines>>
book  == <<open, closed, unseen>>
money == <<transfers, flows, adds>>
seen  == <<snaps, worth, lines>>

Sum(f(_), S) == SumFunction([x \in S |-> f(x)])

(***************************************************************************)
(* The recorded transfers.                                                 *)
(***************************************************************************)
NetAt(t) == LET amount(f) == f.amount IN Sum(amount, {f \in flows : f.at <= t})

Pnl(t) == t.qty * (t.exit - t.entry) - BuyFee - SellFee

\* Both fees of a closed trade are one number, of which each side takes half.
HalfFees == (BuyFee + SellFee) \div 2

TradeCash(lo, hi) ==
    LET within(t)  == lo < t /\ t <= hi
        sold(t)    == t.qty * t.exit - HalfFees
        bought(t)  == t.qty * t.entry + HalfFees
        opened(p)  == p.qty * p.entry + BuyFee
    IN  Sum(sold, {t \in closed : within(t.out)})
        - Sum(bought, {t \in closed : within(t.in)})
        - Sum(opened, {p \in open : within(p.in)})

\* Mutant: every transfer of the record counts, whenever it was made.
ResidualOfTotal(k) ==
    LET lo == lines[k].at
        hi == lines[k + 1].at
    IN  lines[k + 1].cash - lines[k].cash - (TradeCash(lo, hi) + NetAt(hi))

\* The interval between the k-th line of the log and the next one.
Residual(k) ==
    LET lo == lines[k].at
        hi == lines[k + 1].at
    IN  lines[k + 1].cash - lines[k].cash
        - (TradeCash(lo, hi) + NetAt(hi) - NetAt(lo))

Abs(x) == IF x < 0 THEN -x ELSE x
Intervals == 1..(Len(lines) - 1)
Unexplained == {k \in Intervals : Abs(Residual(k)) > Tolerance}

(***************************************************************************)
(* The curve.                                                              *)
(***************************************************************************)
\* Mutant: the closes of that snapshot only.
MarksOfOne(n) == [c \in Coins |-> IF n = 0 THEN 0 ELSE snaps[n].closes[c]]

\* The last close of each coin in the first n snapshots, 0 if there is none.
Marks(n) ==
    [c \in Coins |->
        LET priced == {i \in 1..n : snaps[i].closes[c] # 0}
        IN  IF priced = {} THEN 0 ELSE snaps[Max(priced)].closes[c]]

Gain(p, mark) == p.qty * (mark - p.entry)

Profit(n) ==
    LET at         == snaps[n].at
        mark       == Marks(n)
        later(t)   == Gain(t, mark[t.coin])
        current(p) == Gain(p, mark[p.coin]) - BuyFee
    IN  Sum(Pnl, {t \in closed : t.out <= at})
        + Sum(later, {t \in closed : t.in <= at /\ at < t.out /\ mark[t.coin] # 0})
        + Sum(current, {p \in open : p.in <= at /\ mark[p.coin] # 0})

Point(n) ==
    LET capital == StartEquity + NetAt(snaps[n].at)
    IN  [capital |-> capital, equity |-> capital + Profit(n)]
Curve == [n \in DOMAIN snaps |-> Point(n)]

\* Mutant: what the balance gained is the return.
GrowthOfBalance(curve) ==
    LET step(g, n) ==
            IF curve[n - 1].equity > 0
            THEN <<g[1] * curve[n].equity, g[2] * curve[n - 1].equity>>
            ELSE g
    IN  FoldLeft(step, <<1, 1>>, [i \in 1..(Len(curve) - 1) |-> i + 1])

\* The account's growth along a curve, 1 at its first point.
Growth(curve) ==
    LET step(g, n) ==
            LET prev == curve[n - 1]
                base == prev.equity + curve[n].capital - prev.capital
                gain == (curve[n].equity - curve[n].capital) - (prev.equity - prev.capital)
            IN  IF base > 0 THEN <<g[1] * (base + gain), g[2] * base>> ELSE g
    IN  FoldLeft(step, <<1, 1>>, [i \in 1..(Len(curve) - 1) |-> i + 1])

\* The mean growth since the first snapshot of its coins that have a price in mark.
HoldOf(mark) ==
    LET opening == snaps[1].closes
        coins   == {c \in Coins : opening[c] # 0 /\ mark[c] # 0}
        product(S) == FoldFunctionOnSet(LAMBDA x, y : x * y, 1, opening, S)
        share(c)   == mark[c] * product(coins \ {c})
    IN  IF coins = {} THEN <<1, 1>>
        ELSE <<Sum(share, coins), Cardinality(coins) * product(coins)>>

(***************************************************************************)
(* The page and the verdict.                                               *)
(***************************************************************************)
\* Sold at the exchange, still open in the ledger.
Gone(p) == \E u \in unseen : u.in = p.in

\* Mutant: without marks the account reports its cash as equity.
LiveCash(mark) == cash

LiveEquity(mark) ==
    LET value(p) == p.qty * mark[p.coin]
    IN  cash + Sum(value, {p \in open : ~Gone(p)})

\* The last point is pinned to the live balance, if the exchange can be reached.
Anchored(reached) ==
    LET n == Len(snaps)
    IN  IF reached /\ n > 0 THEN [Curve EXCEPT ![n].equity = LiveEquity(Marks(n))]
        ELSE Curve

Due == now >= DecisionTime /\ Cardinality(closed) >= MinTrades
FailsWinFloor == 100 * Cardinality({t \in closed : t.win}) < TrueWinFloor * Cardinality(closed)

Trails(account, hold) == account[1] * hold[2] < hold[1] * account[2]

Verdict(trails) ==
    IF ~Due THEN "COLLECTING"
    ELSE IF FailsWinFloor /\ trails THEN "STOP" ELSE "CONTINUE"

\* As dashboard.build hands it to scorecard.metrics ...
PageVerdict(reached) ==
    Verdict(/\ snaps # <<>>
            /\ Trails(Growth(Anchored(reached)), HoldOf(Marks(Len(snaps)))))

\* ... and as scorecard prints it, from the closes of the last snapshot.
ScoreVerdict ==
    Verdict(/\ snaps # <<>>
            /\ \E c \in Coins : snaps[1].closes[c] # 0 /\ Last(snaps).closes[c] # 0
            /\ Trails(Growth(Curve), HoldOf(Last(snaps).closes)))

\* Mutant: a coin that the last snapshots did not price counts as worthless.
ContributionUnmarked(c) ==
    LET mark == Marks(Len(snaps))
        unrealised(p) == Gain(p, mark[c]) - BuyFee
    IN  Sum(Pnl, {t \in closed : t.coin = c}) + Sum(unrealised, {p \in open : p.coin = c})

\* One row of the page per coin, and one per day.
Contribution(c) ==
    LET mark == Marks(Len(snaps))
        unrealised(p) == Gain(p, mark[c]) - BuyFee
    IN  Sum(Pnl, {t \in closed : t.coin = c})
        + Sum(unrealised, {p \in open : p.coin = c /\ mark[c] # 0})

DailyNet(day) == Sum(Pnl, {t \in closed : t.out \div DayLength = day})

-----------------------------------------------------------------------------
Init ==
    /\ now = 0
    /\ cash = StartEquity
    /\ open = {} /\ closed = {} /\ unseen = {}
    /\ transfers = {} /\ flows = {} /\ adds = {}
    /\ snaps = <<>> /\ worth = <<>> /\ lines = <<>>

Tick == now < MaxNow /\ now' = now + 1

Buy(c, price) ==
    /\ Tick
    /\ Cardinality(open \cup closed) + Cardinality(unseen) < MaxTrades
    /\ \A p \in open : p.coin # c
    /\ cash >= Qty * price + BuyFee
    /\ cash' = cash - Qty * price - BuyFee
    /\ open' = open \cup {[coin |-> c, qty |-> Qty, entry |-> price, in |-> now']}
    /\ UNCHANGED <<closed, unseen, money, seen>>

\* win: a take-profit, or a lock at LOCK_WIN_R or above.
Sell(p, price, win) ==
    /\ Tick
    /\ ~Gone(p)
    /\ cash' = cash + p.qty * price - SellFee
    /\ open' = open \ {p}
    /\ closed' = closed \cup {[coin |-> p.coin, qty |-> p.qty, entry |-> p.entry, in |-> p.in,
                               exit |-> price, out |-> now', win |-> win]}
    /\ UNCHANGED <<unseen, money, seen>>

\* The answer to the order is lost, or the owner sells.
SellUnseen(p, price) ==
    /\ Tick
    /\ ~Gone(p)
    /\ cash' = cash + p.qty * price - SellFee
    /\ unseen' = unseen \cup {[coin |-> p.coin, qty |-> p.qty, entry |-> p.entry, in |-> p.in,
                               exit |-> price, out |-> now']}
    /\ UNCHANGED <<open, closed, money, seen>>

Transfer(amount) ==
    /\ Tick
    /\ Cardinality(transfers) < MaxTransfers
    /\ cash + amount >= 0
    /\ cash' = cash + amount
    /\ transfers' = transfers \cup {[at |-> now', amount |-> amount]}
    /\ UNCHANGED <<book, flows, adds, seen>>

\* The owner records a transfer, with its time (--at) or without.
AddLoad(f, at) ==
    /\ at \in {f.at, now}
    /\ Cardinality(flows) + Cardinality(adds) < MaxRecords
    /\ adds' = adds \cup {[flow |-> [f EXCEPT !.at = at], copy |-> flows]}
    /\ UNCHANGED <<now, cash, book, transfers, flows, seen>>

AddSave(r) ==
    /\ flows' = r.copy \cup {r.flow}
    /\ adds' = adds \ {r}
    /\ UNCHANGED <<now, cash, book, transfers, seen>>

\* A run that dies in write_text leaves a file that load takes for no flows.
AddDies(r) ==
    /\ flows' = {}
    /\ adds' = adds \ {r}
    /\ UNCHANGED <<now, cash, book, transfers, seen>>

Snapshot(closes) ==
    /\ Tick
    /\ Len(snaps) < MaxSnapshots
    /\ snaps' = Append(snaps, [at |-> now', closes |-> closes])
    /\ LET mark(c) == IF closes[c] # 0 THEN closes[c] ELSE Marks(Len(snaps))[c]
           value(p) == p.qty * (IF mark(p.coin) # 0 THEN mark(p.coin) ELSE p.entry)
       IN  worth' = Append(worth, cash + Sum(value, {p \in open : ~Gone(p)}))
    /\ UNCHANGED <<cash, book, money, lines>>

\* The trader reads the account, logs it, and reconciles the ledger with it.
Cycle ==
    /\ Tick
    /\ Len(lines) < MaxLines
    /\ lines' = Append(lines, [at |-> now', cash |-> cash])
    /\ open' = {p \in open : ~Gone(p)}
    /\ UNCHANGED <<cash, closed, unseen, money, snaps, worth>>

Next ==
    \/ \E c \in Coins, price \in Prices : Buy(c, price)
    \/ \E p \in open, price \in Prices, win \in BOOLEAN : Sell(p, price, win)
    \/ \E p \in open, price \in Prices : SellUnseen(p, price)
    \/ \E amount \in Amounts : Transfer(amount)
    \/ \E f \in transfers : \E at \in {f.at, now} : AddLoad(f, at)
    \/ \E r \in adds : AddSave(r)
    \/ \E r \in adds : AddDies(r)
    \/ \E closes \in Quotes : Snapshot(closes)
    \/ Cycle

Spec == Init /\ [][Next]_vars

-----------------------------------------------------------------------------
Flow == [at : Nat, amount : Int]
Position == [coin : Coins, qty : {Qty}, entry : Prices, in : Nat]
Sale == [coin : Coins, qty : {Qty}, entry : Prices, in : Nat, exit : Prices, out : Nat]
Trade == [coin : Coins, qty : {Qty}, entry : Prices, in : Nat, exit : Prices, out : Nat,
          win : BOOLEAN]

(* Types, and the order of the instants: a trade ends after it began, is   *)
(* open or closed but not both, one coin has one open position, and        *)
(* whatever was told is of the past.                                       *)
TypeOK ==
    /\ now \in Nat /\ cash \in Int
    /\ open \subseteq Position /\ closed \subseteq Trade /\ unseen \subseteq Sale
    /\ transfers \subseteq Flow /\ flows \subseteq Flow
    /\ adds \subseteq [flow : Flow, copy : SUBSET Flow]
    /\ snaps \in Seq([at : Nat, closes : Quotes])
    /\ worth \in Seq(Int) /\ Len(worth) = Len(snaps)
    /\ lines \in Seq([at : Nat, cash : Int])
    /\ \A t \in closed \cup unseen : t.in < t.out /\ t.out <= now
    /\ \A t \in closed, p \in open : t.in # p.in
    /\ \A p, q \in open : p.in <= now /\ (p.coin = q.coin => p = q)
    /\ \A i, j \in DOMAIN snaps : snaps[i].at <= now /\ (i < j => snaps[i].at < snaps[j].at)

(***************************************************************************)
(* What the properties rest on: the cash is what the bookings add up to,   *)
(* and the worth at a snapshot what the curve makes of them.               *)
(***************************************************************************)
\* A sale that went unseen is the one of its position.
BooksOK ==
    /\ IsFiniteSet(open) /\ IsFiniteSet(closed) /\ IsFiniteSet(unseen)
    /\ IsFiniteSet(transfers) /\ IsFiniteSet(flows) /\ \A r \in adds : IsFiniteSet(r.copy)
    /\ \A f \in transfers : f.at <= now
    /\ \A u \in unseen :
           /\ \A v \in unseen : u.in = v.in => u = v
           /\ \A p \in open : u.in = p.in => u.qty = p.qty /\ u.entry = p.entry
    /\ \A p, q \in open : p.in = q.in => p = q
    /\ \A j, k \in DOMAIN lines : lines[j].at <= now /\ (j < k => lines[j].at < lines[k].at)

Live == {p \in open : ~Gone(p)}

Paid(p) == p.qty * p.entry + BuyFee
Got(t)  == t.qty * t.exit - SellFee
If(happened, amount) == IF happened THEN amount ELSE 0

\* What had moved the cash by instant a.
Moved(F, a)  == SumFunction([f \in F |-> If(f.at <= a, f.amount)])
Traded(T, a) == SumFunction([t \in T |-> If(t.out <= a, Got(t)) - If(t.in <= a, Paid(t))])
Bought(P, a) == SumFunction([p \in P |-> If(p.in <= a, Paid(p))])

CashAt(a) ==
    StartEquity + Moved(transfers, a) + Traded(closed, a) + Traded(unseen, a) - Bought(Live, a)

Balanced ==
    /\ cash = CashAt(now)
    /\ \A k \in DOMAIN lines : lines[k].cash = CashAt(lines[k].at)

\* What a position, or a trade that was one then, adds to the account at instant a.
Share(p, a, mark) ==
    If(p.in <= a, If(mark[p.coin] # 0, Gain(p, mark[p.coin])) - BuyFee)

Pending(P, a, mark) == SumFunction([p \in P |-> Share(p, a, mark)])
Earned(T, a, mark)  ==
    SumFunction([t \in T |-> IF t.out <= a THEN Pnl(t) ELSE Share(t, a, mark)])

WorthAt(n) ==
    LET at == snaps[n].at
    IN  StartEquity + Moved(transfers, at)
        + Earned(closed, at, Marks(n)) + Pending(open, at, Marks(n))

WorthKept == unseen = {} => \A n \in DOMAIN snaps : worth[n] = WorthAt(n)

AInv == TypeOK /\ BooksOK /\ Balanced /\ WorthKept

(***************************************************************************)
(* Properties.                                                             *)
(***************************************************************************)
(* The record is right: every transfer at its time, and no sale was missed. *)
Recorded == flows = transfers /\ unseen = {}

(* The curve that is rebuilt from the ledger as it is now shows, at every  *)
(* snapshot, what the account was worth then (dashboard.equity_curve).  It *)
(* differs by the entry fee of positions that have been closed since, or   *)
(* had no price yet, for their fee is booked at the exit only.             *)
CurveIsAccount ==
    Recorded =>
        \A n \in DOMAIN snaps :
            LET at == snaps[n].at
                late == {t \in closed : t.in <= at /\ at < t.out}
                unpriced == {p \in open : p.in <= at /\ Marks(n)[p.coin] = 0}
            IN  Point(n).equity
                    = worth[n] + BuyFee * (Cardinality(late) + Cardinality(unpriced))

\* What moved the cash after lo and up to hi and is in no record: transfers and
\* flows that do not match, sales that went unseen, and purchases dropped with them.
Unrecorded(lo, hi) ==
    LET within(t)   == lo < t /\ t <= hi
        amount(f)   == f.amount
        dropped(u)  == \A p \in open : p.in # u.in
    IN  Sum(amount, {f \in transfers : within(f.at)}) - Sum(amount, {f \in flows : within(f.at)})
        + Sum(Got, {u \in unseen : within(u.out)})
        - Sum(Paid, {u \in unseen : within(u.in) /\ dropped(u)})

\* The sides of closed trades after lo and up to hi.
Sides(lo, hi) ==
    LET within(t) == lo < t /\ t <= hi
    IN  Cardinality({t \in closed : within(t.in)}) + Cardinality({t \in closed : within(t.out)})

(* The check for unrecorded moves (cashflow.unexplained) finds what it     *)
(* should.  It errs by the half difference of the fees for each side of a  *)
(* trade.                                                                  *)
GapsFound ==
    \A k \in Intervals :
        LET lo    == lines[k].at
            hi    == lines[k + 1].at
            slack == Sides(lo, hi) * Abs(HalfFees - BuyFee)
        IN  /\ Abs(Unrecorded(lo, hi)) > Tolerance + slack => k \in Unexplained
            /\ k \in Unexplained => Abs(Unrecorded(lo, hi)) > Tolerance - slack

(* Over an interval in which the account held no coin its return is zero,  *)
(* whatever was transferred and recorded (cashflow.twr_series).            *)
IdleEarnsNothing ==
    \A n \in 2..Len(snaps) :
        (\A t \in open \cup closed :
            \/ t.in > snaps[n].at
            \/ t \in closed /\ t.out <= snaps[n - 1].at) =>
        LET before == Growth(SubSeq(Curve, 1, n - 1))
            after  == Growth(SubSeq(Curve, 1, n))
        IN  after[1] * before[2] = before[1] * after[2]

(* The parts of the page add up: when no trade is newer than the last      *)
(* snapshot, the rows per coin sum to the profit of the curve's last point, *)
(* and the rows per day to what was realised.                              *)
PageAddsUp ==
    LET n == Len(snaps)
    IN  /\ Sum(DailyNet, 0..(now \div DayLength)) = Sum(Pnl, closed)
        /\ (n > 0 /\ \A t \in open \cup closed : t.in <= snaps[n].at
                        /\ (t \in closed => t.out <= snaps[n].at)) =>
               Sum(Contribution, Coins) = Point(n).equity - Point(n).capital

(* The page and the scorecard give one verdict, although they take the     *)
(* account from the exchange and from the ledger and the hold from carried *)
(* and from last closes: when the record is right, the last snapshot       *)
(* priced every coin, and nothing has happened since.                      *)
VerdictsAgree ==
    (/\ Recorded
     /\ snaps # <<>> /\ Last(snaps).at = now
     /\ \A c \in Coins : Last(snaps).closes[c] # 0
     /\ \E c \in Coins : snaps[1].closes[c] # 0) =>
    \A reached \in BOOLEAN : PageVerdict(reached) = ScoreVerdict

(* "A deposit on its own returns nothing": without a trade, the published  *)
(* time-weighted return is zero.  It is not while the flow is newer than   *)
(* the last snapshot: the balance has it, the capital of the last point    *)
(* has it not.                                                             *)
DepositReturnsNothing ==
    Recorded /\ open \cup closed = {} =>
        LET g == Growth(Anchored(TRUE)) IN g[1] = g[2]
=============================================================================
