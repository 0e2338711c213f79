------------------------------- MODULE Replay -------------------------------
(***************************************************************************)
(* The replay of stored snapshots through the strategy (replay.run), under *)
(* the policies of the past and under one of the experimental regime gates *)
(* of regime_lab.py.  It keeps its own cash, fees and book in memory.      *)
(*                                                                         *)
(* What the engine decides on its data is a free choice here, within what  *)
(* the replay hands to it: which positions exit, which coins qualify.      *)
(* Quantities count steps of a pair, and money counts 1/Whole rupiah, so   *)
(* that a fee of Fee/Whole on either side of a trade is exact.             *)
(***************************************************************************)
EXTENDS Integers, Sequences, FiniteSets, FiniteSetsExt

CONSTANTS
    Coins, Btc,         \* what the snapshots hold, and the coin of the regime
    Quotes,             \* what a snapshot may have of the closes, 0 for none
    Atrs,               \* and of the ATR of a coin
    Readings,           \* and what the gates read in it
    Gates,              \* the gates that are tried
    PolicyLog,          \* load_policy_history: commits of policy.json, in order
    StartCash,          \* start_equity
    Whole, Fee,         \* a side of a trade costs Fee parts of Whole
    MaxPositions,       \* MAX_POSITIONS
    RiskParts, StopMult, MinOrder,
    BreakerParts,       \* CIRCUIT_BREAKER_PCT is one of so many parts
    Throttle, Day,      \* REENTRY_THROTTLE_HOURS, a UTC day
    Confirm,            \* snapshots that confirm a flip of the gate
    MaxHour,            \* bound: hours replayed
    MaxQty              \* bound: steps in a position, above any size of a run

Regimes == {"risk_on", "neutral", "risk_off"}
Bands == {"none", "low", "middle", "high"}

ASSUME ReplayAssumption ==
    /\ IsFiniteSet(Coins)
    /\ Quotes \subseteq [Coins -> Nat] /\ Atrs \subseteq Nat \ {0}
    /\ Readings \subseteq [live : Regimes, rsi : Bands, breadth : Bands,
                           ema20 : {"none", "below", "above"}]
    /\ PolicyLog \in Seq([at : Nat, hint : STRING, blocked : SUBSET Coins, cap : Int])
    /\ StartCash \in Nat
    /\ Whole \in Nat \ {0} /\ Fee \in 0..Whole
    /\ MaxPositions \in Nat \ {0}
    /\ RiskParts \in Nat \ {0} /\ StopMult \in Nat \ {0} /\ BreakerParts \in Nat \ {0}
    /\ MinOrder \in Nat /\ Throttle \in Nat /\ Day \in Nat \ {0}
    /\ Confirm \in Nat \ {0} /\ MaxHour \in Nat /\ MaxQty \in Nat

VARIABLES
    pc,             \* "next", "exits" or "entries"
    when,           \* the hour of the snapshot
    mark,           \* its closes
    prev, dayOpen,  \* the closes known before it, and before its day
    past,           \* history: the closes of each hour replayed, 0 for none
    gate,           \* the gate of this replay,
    below, above,   \* its counts of snapshots in a row,
    off,            \* whether it is confirmed to be off
    reg,            \* the regime after the policy
    cash,
    open,           \* led["open"], with a quantity of 0 for no position
    closed,         \* led["closed"]
    attempt,        \* led["last_entry_attempt"], -1 for none
    todo,           \* positions to look at, then candidates
    equity, slots   \* of the hour, once its exits are done

vars   == <<pc, when, mark, prev, dayOpen, past, gate, below, above, off, reg,
            cash, open, closed, attempt, todo, equity, slots>>
market == <<when, mark, prev, dayOpen, past>>
rule   == <<gate, below, above, off, reg>>
book   == <<cash, open, closed, attempt>>

NoPos == [qty |-> 0, entry |-> 0, since |-> 0]
OpenCoins == {c \in Coins : open[c].qty > 0}

-----------------------------------------------------------------------------
(***************************************************************************)
(* The gates.                                                              *)
(***************************************************************************)
Severity == [r \in Regimes |-> CASE r = "risk_on"  -> 0
                                 [] r = "neutral"  -> 1
                                 [] r = "risk_off" -> 2]

\* A gate of three bands over an RSI or over the breadth of the watchlist.
Banded(band, live) ==
    CASE band = "low"  -> "risk_off"
      [] band = "high" -> live
      [] OTHER         -> "neutral"

OffBelow(r, isOff) ==
    IF r.ema20 = "none" THEN "neutral" ELSE IF isOff THEN "risk_off" ELSE r.live

MoreSevere(a, b) == IF Severity[a] >= Severity[b] THEN a ELSE b

\* What gate g says of reading r; flipped is the state of the confirmed one.
Says(g, r, flipped) ==
    CASE g = "current"   -> r.live
      [] g = "rsi"       -> Banded(r.rsi, r.live)
      [] g = "ema20"     -> OffBelow(r, r.ema20 = "below")
      [] g = "confirmed" -> OffBelow(r, flipped)
      [] g = "breadth"   -> Banded(r.breadth, r.live)
      [] g = "union"     -> MoreSevere(Banded(r.rsi, r.live), OffBelow(r, r.ema20 = "below"))
      [] OTHER           -> "risk_off"

\* Ema20Confirmed: a reading without data leaves its counts and its state alone.
Count(r, side, n) == IF r.ema20 = "none" THEN n ELSE IF r.ema20 = side THEN n + 1 ELSE 0

-----------------------------------------------------------------------------
(***************************************************************************)
(* The policy of the past, the book and the sizes.                         *)
(***************************************************************************)
NoPolicy == [at |-> 0, hint |-> "auto", blocked |-> {}, cap |-> MaxPositions]

PolicyAt(t) ==
    LET known == {i \in DOMAIN PolicyLog : PolicyLog[i].at <= t}
    IN  IF known = {} THEN NoPolicy ELSE PolicyLog[Max(known)]

\* Mutant: the cap of the policy is taken as it is.
CapUnclamped(pol) == IF pol.cap # 0 THEN pol.cap ELSE MaxPositions

CapNow(pol) ==
    IF pol.cap # 0 /\ pol.cap <= MaxPositions THEN pol.cap ELSE MaxPositions

\* strategy.effective_regime.
Effective(regime, hint) == IF hint \in Regimes THEN MoreSevere(regime, hint) ELSE regime

Cost(p)     == p.qty * p.entry * (Whole + Fee)
Proceeds(t) == t.qty * t.exit * (Whole - Fee)
PnlNet(t)   == Proceeds(t) - Cost(t)

\* A coin without a close counts at its entry.
Value(c) == open[c].qty * (IF mark[c] # 0 THEN mark[c] ELSE open[c].entry) * Whole
EquityNow == cash + MapThenSumSet(Value, OpenCoins)

BreakerTripped(t, money) ==
    \/ money <= 0
    \/ MapThenSumSet(PnlNet, {x \in closed : x.at >= t - Day}) * BreakerParts <= -money

Throttled(c) == attempt[c] # -1 /\ when - attempt[c] < Throttle

\* risk.position_size as it is called here, without cash and never halved.
Fits(n, price, atr) ==
    /\ n * StopMult * atr * RiskParts * Whole <= equity
    /\ n * price * MaxPositions * Whole <= equity

IsSize(n, price, atr) ==
    /\ StopMult * atr < price
    /\ Fits(n, price, atr) /\ ~Fits(n + 1, price, atr)
    /\ n * price >= MinOrder

-----------------------------------------------------------------------------
Nothing == [c \in Coins |-> 0]
Merge(older, newer) == [c \in Coins |-> IF newer[c] # 0 THEN newer[c] ELSE older[c]]

Init ==
    /\ pc = "next" /\ when = 0
    /\ mark = Nothing /\ prev = Nothing /\ dayOpen = Nothing
    /\ past = [h \in 1..MaxHour |-> Nothing]
    /\ gate \in Gates
    /\ below = 0 /\ above = 0 /\ off = FALSE
    /\ reg = "neutral"
    /\ cash = StartCash * Whole
    /\ open = [c \in Coins |-> NoPos] /\ closed = {}
    /\ attempt = [c \in Coins |-> -1]
    /\ todo = {} /\ equity = 0 /\ slots = 0

\* Mutant: the day opens at the closes of its own first snapshot.
DayOpensAtFirst(hour, closes) ==
    IF when = 0 \/ hour \div Day # when \div Day THEN closes ELSE dayOpen

\* build_extras; no closes before this day: those of its first snapshot.
DayOpens(hour, closes) ==
    IF when = 0 \/ hour \div Day # when \div Day
    THEN LET known == Merge(prev, mark) IN IF known = Nothing THEN closes ELSE known
    ELSE dayOpen

\* The next snapshot of the archive, which may miss hours.
Capture(hour, closes, r) ==
    /\ pc = "next"
    /\ when' = hour
    /\ mark' = closes
    /\ prev' = Merge(prev, mark)
    /\ dayOpen' = DayOpens(hour, closes)
    /\ past' = [past EXCEPT ![hour] = closes]
    /\ below' = IF gate = "confirmed" THEN Count(r, "below", below) ELSE 0
    /\ above' = IF gate = "confirmed" THEN Count(r, "above", above) ELSE 0
    /\ off' = IF below' >= Confirm THEN TRUE ELSE IF above' >= Confirm THEN FALSE ELSE off
    /\ reg' = Effective(Says(gate, r, off'), PolicyAt(hour).hint)
    /\ todo' = OpenCoins
    /\ pc' = "exits"
    /\ UNCHANGED <<gate, book, equity, slots>>

\* A position without a close this hour is not looked at; others may stay.
Hold(c) ==
    /\ pc = "exits" /\ c \in todo
    /\ todo' = todo \ {c}
    /\ UNCHANGED <<pc, market, rule, book, equity, slots>>

\* Mutant: the fee is taken at the entry only.
ExitFeeless(c) ==
    /\ pc = "exits" /\ c \in todo
    /\ mark[c] # 0
    /\ LET trade == [coin |-> c, qty |-> open[c].qty, entry |-> open[c].entry,
                     since |-> open[c].since, exit |-> mark[c], at |-> when]
       IN  /\ closed' = closed \cup {trade}
           /\ cash' = cash + trade.qty * trade.exit * Whole
    /\ open' = [open EXCEPT ![c] = NoPos]
    /\ todo' = todo \ {c}
    /\ UNCHANGED <<pc, market, rule, attempt, equity, slots>>

Exit(c) ==
    /\ pc = "exits" /\ c \in todo
    /\ mark[c] # 0
    /\ LET trade == [coin |-> c, qty |-> open[c].qty, entry |-> open[c].entry,
                     since |-> open[c].since, exit |-> mark[c], at |-> when]
       IN  /\ closed' = closed \cup {trade}
           /\ cash' = cash + Proceeds(trade)
    /\ open' = [open EXCEPT ![c] = NoPos]
    /\ todo' = todo \ {c}
    /\ UNCHANGED <<pc, market, rule, attempt, equity, slots>>

NoEntries ==
    /\ pc = "exits" /\ todo = {}
    /\ \/ BreakerTripped(when, EquityNow)
       \/ CapNow(PolicyAt(when)) <= Cardinality(OpenCoins)
    /\ pc' = "next"
    /\ UNCHANGED <<market, rule, book, todo, equity, slots>>

\* strategy._entry_ok, as far as it reads the closes before this hour: the hour
\* is green, and so is the day when the regime is off.
Green(c) ==
    /\ dayOpen[c] # 0 /\ prev[c] # 0 /\ mark[c] > prev[c]
    /\ reg = "risk_off" => mark[c] > dayOpen[c]

\* strategy.entry_candidates: whatever else it asks of a coin may hold or not.
Entries ==
    /\ pc = "exits" /\ todo = {}
    /\ ~BreakerTripped(when, EquityNow)
    /\ equity' = EquityNow
    /\ slots' = CapNow(PolicyAt(when)) - Cardinality(OpenCoins)
    /\ slots' > 0
    /\ todo' \in SUBSET {c \in Coins \ (OpenCoins \cup PolicyAt(when).blocked) :
                            Green(c) /\ ~(c = Btc /\ reg = "risk_off")}
    /\ pc' = "entries"
    /\ UNCHANGED <<market, rule, book>>

\* Throttled, not to be sized (its ATR may be missing), or dearer than the cash.
Pass(c) ==
    /\ pc = "entries" /\ slots > 0 /\ c \in todo
    /\ todo' = todo \ {c}
    /\ UNCHANGED <<pc, market, rule, book, equity, slots>>

Enter(c, n, atr) ==
    /\ pc = "entries" /\ slots > 0 /\ c \in todo
    /\ ~Throttled(c)
    /\ IsSize(n, mark[c], atr)
    /\ LET pos == [qty |-> n, entry |-> mark[c], since |-> when]
       IN  /\ Cost(pos) <= cash
           /\ cash' = cash - Cost(pos)
           /\ open' = [open EXCEPT ![c] = pos]
    /\ attempt' = [attempt EXCEPT ![c] = when]
    /\ todo' = todo \ {c}
    /\ slots' = slots - 1
    /\ UNCHANGED <<pc, market, rule, closed, equity>>

EntriesDone ==
    /\ pc = "entries" /\ (todo = {} \/ slots = 0)
    /\ pc' = "next"
    /\ todo' = {} /\ slots' = 0 /\ equity' = 0
    /\ UNCHANGED <<market, rule, book>>

Next ==
    \/ \E hour \in (when + 1)..MaxHour, closes \in Quotes, r \in Readings :
           Capture(hour, closes, r)
    \/ \E c \in Coins : Hold(c) \/ Exit(c) \/ Pass(c)
    \/ NoEntries \/ Entries
    \/ \E c \in Coins, n \in 1..MaxQty, atr \in Atrs : Enter(c, n, atr)
    \/ EntriesDone

Spec == Init /\ [][Next]_vars

-----------------------------------------------------------------------------
(***************************************************************************)
(* Properties.                                                             *)
(***************************************************************************)
Position == [qty : Nat, entry : Nat, since : 0..MaxHour]
Trade    == [coin : Coins, qty : Nat \ {0}, entry : Nat, since : 0..MaxHour,
             exit : Nat, at : 0..MaxHour]

TypeOK ==
    /\ pc \in {"next", "exits", "entries"}
    /\ when \in 0..MaxHour
    /\ mark \in [Coins -> Nat] /\ prev \in [Coins -> Nat] /\ dayOpen \in [Coins -> Nat]
    /\ past \in [1..MaxHour -> [Coins -> Nat]]
    /\ gate \in Gates /\ reg \in Regimes
    /\ below \in Nat /\ above \in Nat /\ off \in BOOLEAN
    /\ cash \in Int
    /\ open \in [Coins -> Position] /\ closed \subseteq Trade
    /\ attempt \in [Coins -> -1..MaxHour]
    /\ todo \subseteq Coins /\ slots \in Int

\* The slots of the hour stay within the cap of the policy that was in force at
\* that hour, and the book within MAX_POSITIONS whatever a later policy says.
CapKept ==
    /\ Cardinality(OpenCoins) <= MaxPositions
    /\ pc = "exits" => todo \subseteq OpenCoins
    /\ pc = "entries" =>
           /\ todo \cap OpenCoins = {}
           /\ slots >= 0
           /\ Cardinality(OpenCoins) + slots <= MaxPositions
           /\ PolicyAt(when).cap # 0 => Cardinality(OpenCoins) + slots <= PolicyAt(when).cap

\* Two entries of a coin are REENTRY_THROTTLE_HOURS apart, over all the hours
\* replayed; the last attempt is what remembers it.
ThrottleKept ==
    /\ \A c \in OpenCoins : attempt[c] = open[c].since
    /\ \A t \in closed :
           /\ attempt[t.coin] >= t.since
           /\ t.coin \in OpenCoins => t.since + Throttle <= open[t.coin].since
    /\ \A t, u \in closed :
           t.coin = u.coin /\ t.since < u.since => t.since + Throttle <= u.since

\* What the replay may have done to its account at any hour: the cash never goes
\* below zero (replay.py:243-245 spends with the fee), the cap of the day and the
\* re-entry throttle hold.
RInv == TypeOK /\ cash >= 0 /\ CapKept /\ ThrottleKept

\* The cash the replay carries from trade to trade is the one its trades add up
\* to: what it began with, the net result of every closed trade, less what the
\* positions it holds have cost with their fee.  end_equity reads the one, the
\* summary of trades the other (replay.py:217-222 and 250-255).
BooksBalance ==
    cash = StartCash * Whole + SumFunction([t \in closed |-> PnlNet(t)])
         - SumFunction([c \in OpenCoins |-> Cost(open[c])])

\* x is the last close of c in the hours H, 0 when they have none.
IsLast(x, c, H) ==
    IF x = 0 THEN \A h \in H : past[h][c] = 0
    ELSE \E h \in H : past[h][c] = x /\ \A k \in H : k > h => past[k][c] = 0

Before      == {h \in 1..MaxHour : h < when}
BeforeToday == {h \in 1..MaxHour : h \div Day < when \div Day}

\* An entry of the replay is decided on what was known: the close before an hour
\* is the coin's last one at an earlier hour, and the open of its day the last
\* one of an earlier day, over hours the archive misses and closes a snapshot
\* lacks; only the first day of all opens at its own first snapshot.
NoLookahead ==
    when > 0 =>
        /\ \A c \in Coins : IsLast(prev[c], c, Before)
        /\ IF \E h \in BeforeToday : past[h] # Nothing
           THEN \A c \in Coins : IsLast(dayOpen[c], c, BeforeToday)
           ELSE \E h \in 1..when : /\ dayOpen = past[h]
                                   /\ \A k \in 1..h : k # h => past[k] = Nothing
=============================================================================
