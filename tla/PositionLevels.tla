--------------------------- MODULE PositionLevels ---------------------------
(***************************************************************************)
(* The exit levels of one open position (strategy.py): the hourly cycle    *)
(* ratchets them with check_exit, the watcher only compares prices with    *)
(* them (check_levels), and either may fail to sell.  Module Trading has   *)
(* the processes and the file around this; there the levels are a counter  *)
(* that check_exit may raise.                                              *)
(*                                                                         *)
(* Prices are whole numbers above 0, a level of 0 is one not set.  The     *)
(* rungs of both ladders are records: arm is the gain of the peak over the *)
(* entry that arms a rung, trail a distance in ATR, hold a gain to keep.   *)
(* The hourly snapshot and the cycle that reads it are one step.           *)
(***************************************************************************)
EXTENDS Integers

CONSTANTS
    Price,              \* what the market may trade at
    Entry,              \* entry_price
    R,                  \* 1R, the distance from the entry to initial_stop
    TakeProfit,         \* TP_R, as a gain
    Trail, RiskOffTrail,\* TRAIL_ATR_MULT, RISK_OFF_TRAIL_ATR_MULT
    Rungs,              \* PROFIT_LOCK_RUNGS
    PctRungs,           \* PROFIT_LOCK_PCT_RUNGS
    FloorAt, FloorGain, \* BREAKEVEN_AT_R as a gain, 0 for None, and what
                        \* BREAKEVEN_INCLUDES_FEES adds to the entry
    TimeStop,           \* TIME_STOP_HOURS
    Atr                 \* values of atr14, 0 for a missing one

ASSUME PriceAssumption ==
    /\ Price \subseteq Nat \ {0}
    /\ Entry \in Price
    /\ R \in 1..(Entry - 1)
    /\ Atr \subseteq Nat
ASSUME ConfigAssumption ==
    /\ TakeProfit \in Nat \ {0}
    /\ Trail \in Nat /\ RiskOffTrail \in Nat
    /\ Rungs \subseteq [arm : Nat, trail : Nat]
    /\ PctRungs \subseteq [arm : Nat \ {0}, hold : Nat]
    /\ \A r \in PctRungs : r.hold <= r.arm
    /\ FloorAt \in Nat /\ FloorGain \in 0..FloorAt
    /\ TimeStop \in Nat \ {0}

VARIABLES
    high,       \* high_water
    stop,       \* stop
    lock,       \* lock
    held,       \* hours held, counted up to TimeStop
    exit,       \* "none" while the position is open, then why it was closed
    last,       \* the last price traded
    bar,        \* the high of the hour that is forming
    top,        \* high_1h: the high of the last completed hour
    due,        \* the cycle of this hour is still to come
    shown,      \* history: the highest peak check_exit has been shown
    failed      \* history: a sale the cycle wanted has failed

levels == <<high, stop, lock>>
market == <<last, bar, top>>
vars == <<high, stop, lock, held, exit, last, bar, top, due, shown, failed>>

IsMax(x, S) == x \in S /\ \A y \in S : y <= x

\* The position is opened in an hour that has traded at Entry or above before.
Init ==
    /\ high = Entry
    /\ stop = Entry - R
    /\ lock = 0
    /\ held = 0
    /\ exit = "none"
    /\ last = Entry
    /\ bar \in {p \in Price : p >= Entry}
    /\ top = bar
    /\ due = FALSE
    /\ shown = Entry
    /\ failed = FALSE

-----------------------------------------------------------------------------
Gain(price) == price - Entry

\* Mutant: an armed trail replaces the stop instead of raising it.
StopLevelsReplaced(peak, close, atr, riskOff) ==
    IF atr > 0 /\ Gain(close) >= R
    THEN {peak - (IF riskOff THEN RiskOffTrail ELSE Trail) * atr}
    ELSE {stop}

\* What the stop may be raised to: the +1R trail, below the peak but armed by
\* the close, and the break-even floor, armed by the peak.
StopLevels(peak, close, atr, riskOff) ==
    {stop}
    \cup {peak - m * atr : m \in {m \in {IF riskOff THEN RiskOffTrail ELSE Trail} :
                                     atr > 0 /\ Gain(close) >= R}}
    \cup {Entry + g : g \in {g \in {FloorGain} : FloorAt > 0 /\ Gain(peak) >= FloorAt}}

\* Mutant: the percent ladder is armed by the close.
LockLevelsByClose(peak, close, atr) ==
    {lock}
    \cup {peak - r.trail * atr : r \in {r \in Rungs : atr > 0 /\ Gain(peak) >= r.arm}}
    \cup {Entry + r.hold : r \in {r \in PctRungs : Gain(close) >= r.arm}}

\* What the lock may be raised to: the armed rungs of the R ladder, of which
\* the tightest is the highest, and those of the percent ladder.
LockLevels(peak, close, atr) ==
    {lock}
    \cup {peak - r.trail * atr : r \in {r \in Rungs : atr > 0 /\ Gain(peak) >= r.arm}}
    \cup {Entry + r.hold : r \in {r \in PctRungs : Gain(peak) >= r.arm}}

\* Mutant: the peak is the last hour's, not the position's.
PeaksOfHour == {last, top}

\* What high_water is the highest of (PEAK_FROM_BAR_HIGH).
Peaks == {high, last, top}

\* check_exit's ratchet, with the snapshot's atr14 and the regime.
Ratcheted(atr, riskOff, h, s, l) ==
    /\ IsMax(h, Peaks)
    /\ IsMax(s, StopLevels(h, last, atr, riskOff))
    /\ IsMax(l, LockLevels(h, last, atr))

\* check_levels: the first level a price is at or through.
Breach(s, l, price) ==
    CASE price <= s                               -> "stop"
      [] price > s /\ l > 0 /\ price <= l         -> "lock"
      [] price > s /\ ~(l > 0 /\ price <= l)
                   /\ Gain(price) >= TakeProfit   -> "tp"
      [] OTHER                                    -> "none"

\* Mutant: nothing is sold because of its age.
ActionAgeless(s, l) == Breach(s, l, last)

\* What check_exit wants done after the ratchet.
Action(s, l) ==
    IF Breach(s, l, last) = "none" /\ held >= TimeStop THEN "time" ELSE Breach(s, l, last)

-----------------------------------------------------------------------------
\* The market moves.
Trades(price) ==
    /\ exit = "none"
    /\ last' = price
    /\ IsMax(bar', {bar, price})
    /\ UNCHANGED <<levels, held, exit, top, due, shown, failed>>

HourTurns ==
    /\ exit = "none"
    /\ ~due
    /\ due' = TRUE
    /\ top' = bar
    /\ bar' = last
    /\ held' = IF held < TimeStop THEN held + 1 ELSE held
    /\ UNCHANGED <<levels, exit, last, shown, failed>>

\* The hourly cycle looks at the position (trader._run).
Check(atr, riskOff) ==
    /\ exit = "none"
    /\ due
    /\ due' = FALSE
    /\ IsMax(shown', {shown, last, top})
    /\ \E h \in Peaks :
       \E s \in StopLevels(h, last, atr, riskOff), l \in LockLevels(h, last, atr) :
          /\ Ratcheted(atr, riskOff, h, s, l)
          /\ exit' = Action(s, l)
          /\ high' = h /\ stop' = s /\ lock' = l
    /\ UNCHANGED <<held, market, failed>>

\* A sale that fails leaves the position in the ledger as it was, the ratchet
\* of this hour lost.
SaleFails(atr, riskOff) ==
    /\ exit = "none"
    /\ due
    /\ due' = FALSE
    /\ IsMax(shown', {shown, last, top})
    /\ \E h \in Peaks :
       \E s \in StopLevels(h, last, atr, riskOff), l \in LockLevels(h, last, atr) :
          /\ Ratcheted(atr, riskOff, h, s, l)
          /\ Action(s, l) # "none"
    /\ failed' = TRUE
    /\ UNCHANGED <<levels, exit, held, market>>

\* No fresh snapshot, no 1H data for the coin, or no cycle this hour.
NoCheck ==
    /\ exit = "none"
    /\ due
    /\ due' = FALSE
    /\ UNCHANGED <<levels, held, exit, market, shown, failed>>

\* The watcher sells at a level the cycle has set (watchdog.run); a sale that
\* fails changes nothing.
Watch ==
    /\ exit = "none"
    /\ Breach(stop, lock, last) # "none"
    /\ exit' = Breach(stop, lock, last)
    /\ UNCHANGED <<levels, held, market, due, shown, failed>>

Next ==
    \/ \E price \in Price : Trades(price)
    \/ HourTurns
    \/ \E atr \in Atr, riskOff \in BOOLEAN : Check(atr, riskOff) \/ SaleFails(atr, riskOff)
    \/ NoCheck
    \/ Watch

Spec == Init /\ [][Next]_vars

\* cron keeps running the cycle, 1H data comes back when it was missing, and the
\* exchange does not refuse the sale for ever.
FairSpec ==
    /\ Spec
    /\ WF_vars(HourTurns)
    /\ SF_vars(\E atr \in Atr, riskOff \in BOOLEAN : Check(atr, riskOff))

-----------------------------------------------------------------------------
\* The types of all variables.
TypeOK ==
    /\ high \in Price
    /\ stop \in Nat
    /\ lock \in Nat
    /\ held \in 0..TimeStop
    /\ exit \in {"none", "stop", "lock", "tp", "time"}
    /\ last \in Price /\ bar \in Price /\ top \in Price
    /\ due \in BOOLEAN
    /\ shown \in Price
    /\ failed \in BOOLEAN

\* No level is ever lowered, whatever the regime, the ATR and the order in which
\* cycle, watcher and failed sales come (check_exit: "Raises only").
LevelsNeverFall == [][high' >= high /\ stop' >= stop /\ lock' >= lock]_vars

\* Both levels stay at or below the peak they protect, so no check starts out
\* with a level that no price could clear (check_exit: "always below it").
LevelsBelowPeak == stop <= high /\ lock <= high

\* A rung of either ladder, once the cycle has been shown a peak that reaches
\* it, stays reached by high_water, and one of the percent ladder holds its floor,
\* as long as the position is open (check_exit: "a rung once reached stays
\* reached").  A sale that failed is excepted: the peak it was shown is lost.
RungsStayReached ==
    exit = "none" /\ ~failed =>
        /\ \A r \in Rungs : Gain(shown) >= r.arm => Gain(high) >= r.arm
        /\ \A r \in PctRungs : Gain(shown) >= r.arm => lock >= Entry + r.hold

\* Every position is closed in the end, by the time stop if by nothing else,
\* however many hours had no data and however many sales failed.
EventuallyOut == (exit = "none") ~> (exit # "none")
=============================================================================
