------------------------------ MODULE EntryGate ------------------------------
(***************************************************************************)
(* What an hourly cycle may buy and with how much money: the policy        *)
(* overlay (policy.py), the regime and the entry filters (strategy.py),    *)
(* the sizing (risk.py) and the entry loop of trader._run.  Module Trading *)
(* has the processes, the book and the orders around this.                 *)
(*                                                                         *)
(* Money is in rupiah, quantities are in the smallest step of a pair.  The *)
(* coins held are one sum, marked by the market between cycles.  ADX       *)
(* limits of the filters and of the regime have the same two values.       *)
(***************************************************************************)
EXTENDS Integers, FiniteSets

CONSTANTS
    Symbol, Btc,        \* WATCHLIST and the coin that drives the regime
    Reading,            \* what a snapshot may say of a coin
    PolicyFile,         \* what memory/policy.json may hold
    MaxPositions,       \* MAX_POSITIONS
    RiskParts,          \* RISK_PCT is one of so many parts
    StopMult,           \* STOP_ATR_MULT
    Whole, Buffer, Fee, \* parts of Whole: ENTRY_CASH_BUFFER_PCT, taker fee
    MinOrder,           \* the pair's minimum order
    AdxMin, AdxMinCautious,
    RsiMin, RsiMax, RsiMaxOff,
    LateDay,            \* LATE_ENTRY_DAY_PCT
    MinAtr,             \* MIN_ATR_PCT, parts of Whole
    MaxAge,             \* POLICY_MAX_AGE_HOURS
    MaxMoney            \* bound: what deposits and gains add up to

Regimes == {"risk_on", "neutral", "risk_off"}
Stacks == {"UP", "DOWN", "MIXED"}

ASSUME MoneyAssumption ==
    /\ MaxPositions \in Nat \ {0}
    /\ RiskParts \in Nat \ {0}
    /\ StopMult \in Nat \ {0}
    /\ Whole \in Nat \ {0}
    /\ Buffer \in 0..Whole /\ Fee \in Nat
    /\ (Whole - Buffer) * (Whole + Fee) <= Whole * Whole
    /\ MinOrder \in Nat
    /\ MaxMoney \in Nat
ASSUME FilterAssumption ==
    /\ IsFiniteSet(Symbol)
    /\ AdxMin \in Nat /\ AdxMinCautious \in Nat /\ AdxMin <= AdxMinCautious
    /\ RsiMin \in Nat /\ RsiMax \in Nat /\ RsiMaxOff \in Nat
    /\ LateDay \in Nat /\ MinAtr \in Nat /\ MaxAge \in Nat

\* known: no bar, indicator or close is missing.  stack and stack4 are those of
\* the 1H and the 4H bars, day the change on the day, green a rising last close.
ASSUME ReadingAssumption ==
    /\ Reading # {}
    /\ Reading \subseteq [known : BOOLEAN, price : Nat \ {0}, atr : Nat, adx : Nat,
                          rsi : Nat, stack : Stacks, stack4 : Stacks, day : Int,
                          green : BOOLEAN]

\* readable: it parses and has a date.  A hint or a number may be nonsense.
ASSUME PolicyAssumption ==
    PolicyFile \subseteq [readable : BOOLEAN, age : Nat, hint : STRING,
                          blocked : SUBSET Symbol, cap : Int]

VARIABLES
    free, tied,         \* rupiah at the exchange, tied in orders
    worth,              \* what the coins held are worth
    held,               \* the coins held: after reconcile, the open positions
    pc,                 \* "idle", "exits" or "entries"
    cash, equity,       \* get_account, read once
    computed, reg,      \* the regime of the snapshot, and after the policy
    reading,            \* the snapshot
    todo,               \* candidates not tried yet
    slots,              \* entries it may still make
    entered,            \* history: entries of this cycle,
    spent, risked       \* what they cost, and lose when stopped out

account == <<free, tied, worth, held>>
seen    == <<cash, equity, computed, reg, reading>>
tally   == <<entered, spent, risked>>
vars    == <<free, tied, worth, held, pc, cash, equity, computed, reg, reading,
             todo, slots, entered, spent, risked>>

-----------------------------------------------------------------------------
(***************************************************************************)
(* The policy overlay and the regime.                                      *)
(***************************************************************************)
Severity == [r \in Regimes |-> CASE r = "risk_on"  -> 0
                                 [] r = "neutral"  -> 1
                                 [] r = "risk_off" -> 2]

Least(a, b) == IF a <= b THEN a ELSE b

\* policy.load: a file that does not parse or is too old counts as none, and a
\* cap that is no positive number as MAX_POSITIONS.
Usable(file) == file.readable /\ file.age <= MaxAge

Blocked(file) == IF Usable(file) THEN file.blocked ELSE {}

\* Mutant: the cap of the file is taken as it is.
CapUnclamped(file) ==
    IF Usable(file) /\ file.cap > 0 THEN file.cap ELSE MaxPositions

Cap(file) ==
    IF Usable(file) /\ file.cap > 0 THEN Least(file.cap, MaxPositions) ELSE MaxPositions

\* strategy.regime over the daily bars of Btc.
Computed(btc) ==
    CASE btc.known /\ btc.stack = "DOWN" /\ btc.adx >= AdxMinCautious -> "risk_off"
      [] btc.known /\ btc.stack = "UP" /\ btc.adx >= AdxMin           -> "risk_on"
      [] OTHER                                                        -> "neutral"

\* Mutant: the hint decides.
EffectiveHint(regime, file) ==
    IF Usable(file) /\ file.hint \in Regimes THEN file.hint ELSE regime

\* strategy.effective_regime.
Effective(regime, file) ==
    IF /\ Usable(file) /\ file.hint \in Regimes
       /\ Severity[regime] < Severity[file.hint]
    THEN file.hint
    ELSE regime

\* strategy.evaluate_entry.  The blow-off limit is above RsiMax and only changes
\* the reason that is logged.
Passes(r, regime) ==
    /\ r.known
    /\ r.atr > 0 /\ r.atr * Whole >= MinAtr * r.price
    /\ r.adx >= IF regime = "risk_on" THEN AdxMin ELSE AdxMinCautious
    /\ r.stack = "UP" /\ r.stack4 # "DOWN"
    /\ r.rsi \in RsiMin..RsiMax
    /\ r.day <= LateDay
    /\ regime = "risk_off" => r.day > 0 /\ r.rsi <= RsiMaxOff
    /\ r.green

\* Mutant: a coin that is held is a candidate again.
CandidatesHeld(snapshot, open, regime, blocked) ==
    {s \in Symbol \ blocked :
        /\ Passes(snapshot[s], regime)
        /\ ~(s = Btc /\ regime = "risk_off")}

\* strategy.entry_candidates.
Candidates(snapshot, open, regime, blocked) ==
    {s \in Symbol \ (open \cup blocked) :
        /\ Passes(snapshot[s], regime)
        /\ ~(s = Btc /\ regime = "risk_off")}

-----------------------------------------------------------------------------
(***************************************************************************)
(* risk.position_size.                                                     *)
(***************************************************************************)

\* Mutant: a position is sized against the equity only.
FitsEquity(n, r) ==
    /\ n * StopMult * r.atr * RiskParts * (IF reg = "risk_off" THEN 2 ELSE 1) <= equity
    /\ n * r.price * MaxPositions <= equity

\* Mutant: no half size in a downtrend.
FitsFull(n, r) ==
    /\ n * StopMult * r.atr * RiskParts <= equity
    /\ n * r.price * MaxPositions <= equity
    /\ n * r.price * Whole <= cash * (Whole - Buffer)

\* n steps of a coin are within the risk budget, the share of the equity and
\* the cash.
Fits(n, r) ==
    /\ n * StopMult * r.atr * RiskParts * (IF reg = "risk_off" THEN 2 ELSE 1) <= equity
    /\ n * r.price * MaxPositions <= equity
    /\ n * r.price * Whole <= cash * (Whole - Buffer)

\* The quantity is rounded down, and none below the minimum order is bought.
IsSize(n, r) ==
    /\ StopMult * r.atr < r.price
    /\ Fits(n, r) /\ ~Fits(n + 1, r)
    /\ n > 0 /\ n * r.price >= MinOrder

-----------------------------------------------------------------------------
\* No cycle is running: what one knows is gone with its process.
Blank == CHOOSE f \in [Symbol -> Reading] : TRUE

Init ==
    /\ free \in 0..MaxMoney /\ tied = 0
    /\ worth = 0 /\ held = {}
    /\ pc = "idle"
    /\ cash = 0 /\ equity = 0
    /\ computed = "neutral" /\ reg = "neutral"
    /\ reading = Blank
    /\ todo = {} /\ slots = 0
    /\ entered = 0 /\ spent = 0 /\ risked = 0

End ==
    /\ pc' = "idle"
    /\ cash' = 0 /\ equity' = 0
    /\ computed' = "neutral" /\ reg' = "neutral"
    /\ reading' = Blank
    /\ todo' = {} /\ slots' = 0
    /\ entered' = 0 /\ spent' = 0 /\ risked' = 0

\* A new hour: the account is read.  cash counts tied rupiah too.
Start ==
    /\ pc = "idle"
    /\ pc' = "exits"
    /\ cash' = free + tied
    /\ equity' = free + tied + worth
    /\ UNCHANGED <<account, computed, reg, reading, todo, slots, tally>>

\* An exit, of this cycle or of the watcher between two.  In a cycle it brings
\* money that cash and equity do not show.
Exit(s) ==
    /\ pc # "entries"
    /\ s \in held
    /\ held' = held \ {s}
    /\ \E v \in 0..worth : /\ held' = {} => v = worth
                           /\ worth' = worth - v
                           /\ free' = free + v
    /\ UNCHANGED <<tied, pc, seen, todo, slots, tally>>

\* No equity, a tripped breaker or no slot: no entries.
NoEntries ==
    /\ pc = "exits"
    /\ End
    /\ UNCHANGED account

\* What the snapshot says is first looked at here.
Entries(file, btc) ==
    /\ pc = "exits"
    /\ equity > 0
    /\ reading' \in [Symbol -> Reading]
    /\ computed' = Computed(btc)
    /\ reg' = Effective(computed', file)
    /\ slots' = Cap(file) - Cardinality(held)
    /\ slots' > 0
    /\ todo' = Candidates(reading', held, reg', Blocked(file))
    /\ pc' = "entries"
    /\ UNCHANGED <<account, cash, equity, tally>>

\* The candidates are tried by ADX, the highest first.
Entering(s) ==
    /\ pc = "entries"
    /\ slots > 0
    /\ s \in todo
    /\ \A t \in todo : reading[t].adx <= reading[s].adx

\* The exchange takes a market order if its cost, the fee included, is free.
Payable(n, r) == n * r.price * (Whole + Fee) <= free * Whole

\* The candidate is throttled or cannot be sized, or its order does not fill.
Skipped(s) ==
    /\ Entering(s)
    /\ todo' = todo \ {s}
    /\ UNCHANGED <<account, pc, seen, slots, tally>>

Bought(s, n) ==
    /\ Entering(s)
    /\ IsSize(n, reading[s]) /\ Payable(n, reading[s])
    /\ free' = free - n * reading[s].price
    /\ worth' = worth + n * reading[s].price
    /\ held' = held \cup {s}
    /\ todo' = todo \ {s}
    /\ slots' = slots - 1
    /\ entered' = entered + 1
    /\ spent' = spent + n * reading[s].price
    /\ risked' = risked + n * StopMult * reading[s].atr
    /\ UNCHANGED <<tied, pc, seen>>

\* [-2010] Insufficient balance: reported, and not counted as an attempt.
Refused(s, n) ==
    /\ Entering(s)
    /\ IsSize(n, reading[s]) /\ ~Payable(n, reading[s])
    /\ todo' = todo \ {s}
    /\ UNCHANGED <<account, pc, seen, slots, tally>>

Done ==
    /\ pc = "entries"
    /\ slots = 0 \/ todo = {}
    /\ End
    /\ UNCHANGED account

\* The market marks the coins, between cycles.
MarketMoves ==
    /\ pc = "idle"
    /\ held # {}
    /\ worth' \in 0..(MaxMoney - free - tied)
    /\ UNCHANGED <<free, tied, held, pc, seen, todo, slots, tally>>

\* The owner deposits, withdraws or ties rupiah in an order, at any time.
OwnerMoves ==
    /\ \/ \E n \in 1..(MaxMoney - free - tied - worth) : free' = free + n /\ tied' = tied
       \/ \E n \in 1..free : free' = free - n /\ tied' \in {tied, tied + n}
       \/ tied > 0 /\ free' = free + tied /\ tied' = 0
    /\ UNCHANGED <<worth, held, pc, seen, todo, slots, tally>>

Next ==
    \/ Start
    \/ \E s \in Symbol : Exit(s) \/ Skipped(s)
    \/ NoEntries
    \/ \E file \in PolicyFile, btc \in Reading : Entries(file, btc)
    \/ \E s \in Symbol, n \in 1..equity : Bought(s, n) \/ Refused(s, n)
    \/ Done
    \/ MarketMoves
    \/ OwnerMoves

Spec == Init /\ [][Next]_vars

-----------------------------------------------------------------------------
\* The types of all variables.
TypeOK ==
    /\ free \in Nat /\ tied \in Nat /\ worth \in Nat
    /\ held \subseteq Symbol
    /\ pc \in {"idle", "exits", "entries"}
    /\ cash \in Nat /\ equity \in Nat
    /\ computed \in Regimes /\ reg \in Regimes
    /\ reading \in [Symbol -> Reading]
    /\ todo \subseteq Symbol
    /\ slots \in Nat
    /\ entered \in Nat /\ spent \in Nat /\ risked \in Nat

\* What a cycle has entered loses, if every stop is hit, no more than the risk
\* budget of a position for each, half of it in a downtrend, and costs no more
\* than the share of the equity for each (risk.position_size, trader._run).
CycleRisk ==
    /\ risked * RiskParts * (IF reg = "risk_off" THEN 2 ELSE 1) <= entered * equity
    /\ spent * MaxPositions <= entered * equity

\* The positions and the entries still allowed stay within MAX_POSITIONS, in a
\* cycle and between cycles (config.MAX_POSITIONS, the hard cap).
CapHeld == Cardinality(held) + slots <= MaxPositions

\* The inductive invariant: nothing is counted before the first entry.
IInv ==
    /\ TypeOK
    /\ CycleRisk
    /\ CapHeld
    /\ pc # "entries" => slots = 0 /\ entered = 0 /\ spent = 0 /\ risked = 0
    /\ todo \cap held = {}

\* Whatever the policy file holds, it adds no candidate: each one qualifies by
\* the snapshot alone too (policy.py: "only make the engine more conservative").
PolicyTightens ==
    pc = "entries" => todo \subseteq Candidates(reading, {}, computed, {})

\* The exchange refuses an order for want of money only if not all of the cash
\* the cycle has read is free any more: because of an entry before it, an order
\* of the owner or a withdrawal (risk.position_size: "clips the notional to what
\* can be paid for").
RefusedForWant ==
    [][\A s \in Symbol, n \in 1..equity : Refused(s, n) => free < cash]_vars
=============================================================================
