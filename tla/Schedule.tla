------------------------------ MODULE Schedule ------------------------------
(***************************************************************************)
(* The hour as cron runs it: the snapshot (snapshot.run), the trader that  *)
(* waits for the order lock and then loads the newest snapshot             *)
(* (trader.run, trader.load_current_snapshot), and the exit watcher        *)
(* (watchdog.run), which holds the lock through every call it makes: the   *)
(* tickers, the balances and, sale by sale, the order, the wait for its    *)
(* fill, the cancel, the summary of the fill and the message.              *)
(*                                                                         *)
(* What they do to the book is in module Trading; here it is when they do  *)
(* it, and how old the prices are by then.                                 *)
(***************************************************************************)
EXTENDS Integers, FiniteSets

CONSTANTS
    Hour,               \* ticks of an hour
    SnapAt, TradeAt,    \* the minutes of the crontab, in ticks
    WatchEvery,
    Wait,               \* lock.held(wait_s=120)
    CallMax,            \* a call to the exchange is over after so long (timeout=20)
    SaleWait,           \* an order is polled for at most so long (timeout_s=90),
    PollEvery,          \*   with a pause between two polls (poll_s=3)
    TellMax,            \* notify.send: a timeout=15 for each chat
    MaxAge,             \* SNAPSHOT_MAX_AGE_MIN
    MaxSales,           \* positions that may break a level in one pass
    MaxHand,            \* bound: snapshots taken by hand
    MaxNow              \* bound: ticks

ASSUME ScheduleAssumption ==
    /\ Hour \in Nat \ {0} /\ WatchEvery \in Nat \ {0}
    /\ SnapAt \in 0..(Hour - 1) /\ TradeAt \in 0..(Hour - 1)
    /\ Wait \in Nat /\ Wait < Hour
    /\ CallMax \in Nat /\ SaleWait \in Nat /\ PollEvery \in Nat /\ TellMax \in Nat
    /\ MaxAge \in Nat /\ MaxSales \in Nat /\ MaxHand \in Nat /\ MaxNow \in Nat

Jobs    == {"snapshot", "trader", "watcher"}
NoFile  == -2
Torn    == -1
HourOf(t) == t \div Hour

Looking == {"tickers", "balances"}
Selling == {"sell", "fill", "cancel", "last", "fills", "tell"}

\* Mutant: a cancelled order is polled for as long again.
StageMaxPolledTwice ==
    [tickers |-> CallMax, balances |-> CallMax, sell |-> 2 * CallMax,
     fill |-> SaleWait + 2 * CallMax + PollEvery, cancel |-> CallMax,
     last |-> SaleWait + 2 * CallMax + PollEvery, fills |-> CallMax, tell |-> TellMax]

\* How long the watcher may stay in a stage.  sell: the metadata of the pairs,
\* when the process has none yet, and the POST.  fill: the last poll begins before
\* SaleWait is over; a poll is the order and, once something filled, its trades.
StageMax ==
    [tickers |-> CallMax, balances |-> CallMax, sell |-> 2 * CallMax,
     fill |-> SaleWait + 2 * CallMax + PollEvery, cancel |-> CallMax,
     last |-> 2 * CallMax, fills |-> CallMax, tell |-> TellMax]

\* What may follow a stage of a sale.  "over": nothing was sold, no message sent.
After ==
    [sell   |-> {"fill", "tell", "over"},
     fill   |-> {"fills", "tell", "over", "cancel"},
     cancel |-> {"last"},
     last   |-> {"fills", "tell", "over"},
     fills  |-> {"tell"},
     tell   |-> {"over"}]

VARIABLES
    now,
    started,        \* jobs cron has started at this tick
    shots, writing, \* snapshots under way by their captured_at, those being written
    hand,           \* snapshots taken by hand so far
    file,           \* the file of each hour: NoFile, Torn or its captured_at
    lock,           \* who holds trader.lock; "earlier": the cycle of an hour before
    stage, stageFrom, \* what the watcher is waiting for, and since when
    sales,          \* and its sales to go
    trader,         \* "idle", "waiting", "holds", "cycle" or "gaveup"
    asked,          \* its `now`
    used, loaded,   \* captured_at of the snapshot it trades on, and when it read it
    overrun,        \* history: it found the cycle of an hour before still under way
    held            \* history: the passes that kept the lock without a gap, see Streak

vars    == <<now, started, shots, writing, hand, file, lock, stage, stageFrom, sales,
             trader, asked, used, loaded, overrun, held>>
disk    == <<shots, writing, hand, file>>
watch   == <<stage, stageFrom, sales, held>>
cycle   == <<trader, asked, used, loaded, overrun>>

\* When the first and the last of these passes began, and the sales begun in them.
Streak(t) == [from |-> t, pass |-> t, sales |-> 0]

Init ==
    /\ now = 0 /\ started = {}
    /\ shots = {} /\ writing = {} /\ hand = 0
    /\ file = [h \in 0..MaxNow |-> NoFile]
    /\ lock = "free" /\ stage = "none" /\ stageFrom = 0 /\ sales = 0
    /\ trader = "idle" /\ asked = 0 /\ used = 0 /\ loaded = 0
    /\ overrun = FALSE /\ held = Streak(0)

-----------------------------------------------------------------------------
Due == {j \in Jobs : \/ j = "snapshot" /\ now % Hour = SnapAt
                     \/ j = "trader"   /\ now % Hour = TradeAt
                     \/ j = "watcher"  /\ now % WatchEvery = 0}

\* Time passes a job that is due, a call at its timeout, a lock that is polled
\* for and free, and a wait that is over, only once they have been dealt with.
Tick ==
    /\ now < MaxNow
    /\ Due \subseteq started
    /\ lock = "watcher" => now < stageFrom + StageMax[stage]
    /\ trader = "waiting" => lock # "free" /\ now < asked + Wait
    /\ trader # "holds"
    /\ now' = now + 1 /\ started' = {}
    /\ UNCHANGED <<disk, lock, watch, cycle>>

CronSnapshot ==
    /\ "snapshot" \in Due \ started
    /\ started' = started \cup {"snapshot"}
    /\ shots' = shots \cup {now}
    /\ UNCHANGED <<now, writing, hand, file, lock, watch, cycle>>

\* README.md:90.
SnapshotByHand ==
    /\ hand < MaxHand /\ now \notin shots
    /\ hand' = hand + 1
    /\ shots' = shots \cup {now}
    /\ UNCHANGED <<now, started, writing, file, lock, watch, cycle>>

\* write_text empties the file of the hour the snapshot began in, then fills it.
Truncate(t) ==
    /\ t \in shots \ writing
    /\ writing' = writing \cup {t}
    /\ file' = [file EXCEPT ![HourOf(t)] = Torn]
    /\ UNCHANGED <<now, started, shots, hand, lock, watch, cycle>>

\* Two that write one file at once may leave neither of them readable.
Written(t) ==
    /\ t \in writing
    /\ \E left \in {t} \cup {Torn : u \in {w \in writing \ {t} : HourOf(w) = HourOf(t)}} :
           file' = [file EXCEPT ![HourOf(t)] = left]
    /\ shots' = shots \ {t} /\ writing' = writing \ {t}
    /\ UNCHANGED <<now, started, hand, lock, watch, cycle>>

SnapshotDies(t) ==
    /\ t \in shots
    /\ shots' = shots \ {t} /\ writing' = writing \ {t}
    /\ UNCHANGED <<now, started, hand, file, lock, watch, cycle>>

-----------------------------------------------------------------------------
\* A ledger without positions or a lock that is busy ends the pass at once; else
\* the tickers are asked for.  While a trader waits, the pass prolongs what it
\* waits behind.
Watch ==
    /\ "watcher" \in Due \ started
    /\ started' = started \cup {"watcher"}
    /\ \/ UNCHANGED <<lock, watch>>
       \/ /\ lock = "free"
          /\ lock' = "watcher" /\ stage' = "tickers" /\ stageFrom' = now /\ sales' = 0
          /\ held' = IF trader = "waiting" /\ ~overrun THEN [held EXCEPT !.pass = now]
                     ELSE Streak(now)
    /\ UNCHANGED <<now, disk, cycle>>

\* The lock is given back.
Release ==
    /\ lock' = "free" /\ stage' = "none" /\ stageFrom' = 0 /\ sales' = 0
    /\ held' = IF trader = "waiting" /\ ~overrun THEN held ELSE Streak(0)

\* No tickers, no breach or no balances: nothing is sold.
NothingToSell ==
    /\ stage \in Looking
    /\ Release
    /\ UNCHANGED <<now, started, disk, cycle>>

\* n levels are broken.
Breached(n) ==
    /\ stage = "tickers"
    /\ stage' = "balances" /\ stageFrom' = now /\ sales' = n
    /\ UNCHANGED <<now, started, disk, lock, held, cycle>>

SaleBegins == stage' = "sell" /\ stageFrom' = now /\ held' = [held EXCEPT !.sales = @ + 1]

FirstSale ==
    /\ stage = "balances"
    /\ SaleBegins
    /\ UNCHANGED <<now, started, disk, lock, sales, cycle>>

\* A sale goes on to its next stage; the order is cancelled only once the wait is over.
SaleGoesOn(next) ==
    /\ stage \in Selling /\ next \in After[stage] \ {"over"}
    /\ next = "cancel" => now >= stageFrom + SaleWait
    /\ stage' = next /\ stageFrom' = now
    /\ UNCHANGED <<now, started, disk, lock, sales, held, cycle>>

\* A sale is over; the next one begins, or the book is saved and the lock released.
SaleEnds ==
    /\ stage \in Selling /\ "over" \in After[stage]
    /\ IF sales > 1 THEN SaleBegins /\ sales' = sales - 1 /\ UNCHANGED lock ELSE Release
    /\ UNCHANGED <<now, started, disk, cycle>>

\* The kernel takes the lock from a watcher that dies.
WatcherDies ==
    /\ lock = "watcher"
    /\ Release
    /\ UNCHANGED <<now, started, disk, cycle>>

-----------------------------------------------------------------------------
\* The cycle of the hour before may still be under way; it keeps the lock.
CronTrader ==
    /\ "trader" \in Due \ started
    /\ started' = started \cup {"trader"}
    /\ trader' = "waiting" /\ asked' = now /\ used' = 0 /\ loaded' = 0
    /\ overrun' = (lock \in {"trader", "earlier"})
    /\ lock' = IF lock = "trader" THEN "earlier" ELSE lock
    /\ held' = IF lock = "watcher" THEN held ELSE Streak(now)
    /\ UNCHANGED <<now, disk, stage, stageFrom, sales>>

TakeLock ==
    /\ trader = "waiting" /\ lock = "free"
    /\ lock' = "trader" /\ trader' = "holds"
    /\ overrun' = FALSE /\ held' = Streak(0)
    /\ UNCHANGED <<now, started, disk, stage, stageFrom, sales, asked, used, loaded>>

\* Mutant: a busy lock is skipped, as the watcher does.
GiveUpAtOnce ==
    /\ trader = "waiting" /\ lock # "free"
    /\ trader' = "gaveup"
    /\ overrun' = FALSE
    /\ UNCHANGED <<now, started, disk, lock, watch, asked, used, loaded>>

\* The lock is tried once more before the deadline counts.
GiveUp ==
    /\ trader = "waiting" /\ lock # "free"
    /\ now >= asked + Wait
    /\ trader' = "gaveup"
    /\ overrun' = FALSE
    /\ UNCHANGED <<now, started, disk, lock, watch, asked, used, loaded>>

\* Mutant: whatever the hour before left is taken.
UsableOfAnyAge(h) == h >= 0 /\ file[h] >= 0

\* load_current_snapshot, of one of the two hours it tries.
Usable(h) == h >= 0 /\ file[h] >= 0 /\ asked - file[h] <= MaxAge

\* The snapshot of this hour or else of the hour before, by the clock that was
\* read before the wait.
Load ==
    /\ trader = "holds"
    /\ LET tried == {HourOf(asked), HourOf(asked) - 1}
           usable == {h \in tried : Usable(h)}
       IN  IF usable = {}
           THEN trader' = "idle" /\ lock' = "free" /\ UNCHANGED <<used, loaded>>
           ELSE /\ trader' = "cycle" /\ loaded' = now /\ UNCHANGED lock
                /\ used' = IF HourOf(asked) \in usable THEN file[HourOf(asked)]
                           ELSE file[HourOf(asked) - 1]
    /\ UNCHANGED <<now, started, disk, watch, asked, overrun>>

\* However long it took, and also when it dies.
CycleEnds ==
    /\ trader = "cycle"
    /\ trader' = "idle" /\ lock' = "free"
    /\ used' = 0 /\ loaded' = 0
    /\ UNCHANGED <<now, started, disk, watch, asked, overrun>>

EarlierEnds ==
    /\ lock = "earlier"
    /\ lock' = "free"
    /\ UNCHANGED <<now, started, disk, watch, cycle>>

Next ==
    \/ Tick
    \/ CronSnapshot \/ SnapshotByHand
    \/ \E t \in shots : Truncate(t) \/ Written(t) \/ SnapshotDies(t)
    \/ Watch \/ NothingToSell \/ FirstSale
    \/ \E n \in 1..MaxSales : Breached(n)
    \/ \E next \in Selling : SaleGoesOn(next)
    \/ SaleEnds \/ WatcherDies
    \/ CronTrader \/ TakeLock \/ GiveUp \/ Load \/ CycleEnds \/ EarlierEnds

Spec == Init /\ [][Next]_vars

-----------------------------------------------------------------------------
(***************************************************************************)
(* Properties.                                                             *)
(***************************************************************************)
Streaks == [from : Nat, pass : Nat, sales : Nat]

TypeOK ==
    /\ now \in 0..MaxNow /\ started \subseteq Jobs
    /\ shots \subseteq 0..now /\ writing \subseteq shots /\ hand \in Nat
    /\ file \in [0..MaxNow -> {NoFile, Torn} \cup 0..MaxNow]
    /\ lock \in {"free", "watcher", "trader", "earlier"}
    /\ stage \in {"none"} \cup Looking \cup Selling /\ stageFrom \in 0..now
    /\ sales \in Nat /\ held \in Streaks
    /\ trader \in {"idle", "waiting", "holds", "cycle", "gaveup"}
    /\ asked \in 0..now /\ used \in 0..MaxNow /\ loaded \in 0..now
    /\ overrun \in BOOLEAN

\* A cycle trades on the prices of a finished snapshot that began at most
\* SNAPSHOT_MAX_AGE_MIN and the wait for the lock ago: the age is measured with
\* the clock read before the wait (trader.py:25 and 35, trader.py:200), and a
\* file that is missing or torn leaves the hour before or nothing.
PricesAreFresh ==
    trader = "cycle" => loaded - used <= MaxAge + Wait /\ HourOf(asked) - HourOf(used) <= 1

\* From the start of a pass to that of each stage of its first sale, every call
\* before it at its timeout; the longest pass without a sale, and with one.
Before ==
    [tickers |-> 0, balances |-> CallMax, sell |-> 2 * CallMax, fill |-> 4 * CallMax,
     cancel |-> 6 * CallMax + SaleWait + PollEvery,
     last   |-> 7 * CallMax + SaleWait + PollEvery,
     fills  |-> 9 * CallMax + SaleWait + PollEvery,
     tell   |-> 10 * CallMax + SaleWait + PollEvery]
LookMax == 2 * CallMax
PassMax == 10 * CallMax + SaleWait + PollEvery + TellMax

\* The crontab and the timeouts leave room for one sale: a pass with one, that
\* began at the last of the watcher's minutes before the trader's, is over before
\* the trader's deadline, and so is the pass without one that may follow it.
OneSaleFits ==
    /\ Hour % WatchEvery = 0
    /\ LookMax < WatchEvery /\ PassMax < 2 * WatchEvery
    /\ PassMax < Wait + (TradeAt % WatchEvery)
    /\ WatchEvery + LookMax < Wait + (TradeAt % WatchEvery)

\* The hour is given up only behind at least two sales, or a cycle of an hour
\* before: a single one, even with every call at its timeout, the cancel and the
\* message included, never costs the trader its hour (lock.py:8-11,
\* trader.py:203-206).
LostBehindSales ==
    [][trader' = "gaveup" /\ trader # "gaveup" /\ OneSaleFits
           => overrun \/ held.sales > 1]_vars

\* A trader waits behind nothing but passes of the watcher.
Behind == trader = "waiting" /\ ~overrun

\* The passes of a streak begin at minutes of the watcher, each in its turn.
StreakStands ==
    /\ held.from <= held.pass /\ held.pass <= now
    /\ held.from % WatchEvery = 0
    /\ held.pass = now => "watcher" \in started

\* A streak that has sold once at most is one pass, or one that sold and one more
\* that looks.
StreakShort ==
    \/ held.pass = held.from
    \/ held.pass = held.from + WatchEvery /\ held.sales = 1

\* While a pass is under way, and between two of them.
StreakInv ==
    /\ lock = "watcher" =>
           /\ StreakStands /\ held.pass <= stageFrom
           /\ stage \in Selling => held.sales > 0
           /\ OneSaleFits /\ held.sales <= 1 =>
                  /\ StreakShort /\ stageFrom <= held.pass + Before[stage]
                  /\ held.sales = 1 => (stage \in Selling <=> held.pass = held.from)
    /\ lock = "free" /\ Behind /\ held # Streak(now) =>
           /\ StreakStands
           /\ OneSaleFits /\ held.sales <= 1 =>
                  /\ StreakShort
                  /\ now <= held.pass + (IF held.sales = 1 /\ held.pass = held.from
                                        THEN PassMax ELSE LookMax)

\* What both rest on: who holds the lock and until when, which file is of which
\* hour, and how long the passes a trader waits behind can have been.
SInv ==
    /\ TypeOK
    /\ lock = "trader" <=> trader \in {"holds", "cycle"}
    /\ lock = "watcher" <=> stage # "none"
    /\ lock = "watcher" => now <= stageFrom + StageMax[stage]
    /\ Behind => lock # "earlier" /\ held.from <= asked
    /\ trader \in {"waiting", "holds"} =>
           /\ asked % Hour = TradeAt /\ now <= asked + Wait
           /\ asked = now => "trader" \in started
    /\ trader = "cycle" => loaded <= asked + Wait
    /\ \A h \in 0..MaxNow : file[h] >= 0 => HourOf(file[h]) = h /\ file[h] <= now
    /\ StreakInv
=============================================================================
