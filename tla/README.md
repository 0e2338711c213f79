# CryptoIndodaxBot: specification and proofs

CryptoIndodaxBot trades spot coins for rupiah on Indodax. It has no server of its
own: cron starts short Python programs that share a few JSON files, one lock file
and one account at the exchange. This directory holds TLA+ specifications of the
parts of it that place orders, keep the books, set the exit levels, decide what may
be bought, archive minute bars, answer Telegram commands, tell how the account did and
replay the past; of the hour in which cron runs them; TLC configurations that check
them on small instances; and TLAPS proofs of their main properties for every instance.

Paths below are relative to `src/cryptoindodax/` unless they say otherwise.

## 1. Inventory

### 1.1 Components

| Component | State it keeps | Operations | What makes it correct | Here |
|---|---|---|---|---|
| Ledger (`ledger.py`) | `trades.json`: open positions, closed trades, last entry attempt per coin | load, save, open, close, update, reconcile, throttle | no save forgets what another one saved; a sale is booked once; a coin is bought at most once a day | `Ledger`, `Trading` |
| Order lock (`lock.py`) | `trader.lock` (flock) | take, wait up to a deadline, release; the kernel frees it when its holder dies | at most one program is in a cycle; no crash wedges the bot; a single sale never costs the trader its hour | `Trading`; the deadline in `Schedule` |
| Hourly trader (`trader.py`) | one cycle in memory | read the snapshot, the account and the ledger, reconcile, exits, breaker, entries, save | every coin held becomes managed; a cycle respects cap, throttle, breaker and the money there is | `Trading`, `EntryGate`, `Schedule` (when, and on which snapshot) |
| Exit watcher (`watchdog.py`) | one pass in memory | check levels against tickers, sell, save | sells only what the ledger, read again under the lock, still has | `Trading`, `PositionLevels` |
| Exchange client (`broker.py`) | none; orders and balances live at Indodax | balances, account, positions, market orders, wait for a fill with timeout and cancel | whatever answer is lost, a later reconcile repairs the book | `Trading` (orders, balances), `EntryGate` (equity, cash) |
| Exit levels (`strategy.py`, exits) | `high_water`, `stop`, `lock` of a position | ratchet, compare | levels only rise and stay below the peak; a reached rung holds; every position is closed in the end | `PositionLevels` |
| Entry rules (`strategy.py` entries, `risk.py`, `policy.py`) | none; `memory/policy.json` is read | regime, filters, candidates, size, breaker, policy overlay | risk per cycle is bounded; the policy can only tighten; the cap holds; no order without the money for it | `EntryGate`, `Ledger` (breaker) |
| Telegram listener (`saldo.py`) | `telegram_state.json`: update offset | poll: get updates, answer, save the offset | no command is lost; none is answered twice without a fault | `SaldoPoll` |
| Market data and snapshots (`data.py`, `snapshot.py`) | `data/snapshots/DATE/HH.json` | fetch bars and tickers, drop the forming bar, hourly snapshot | the trader never decides on stale data; the high is that of a finished hour | the files and their age in `Schedule`; the reading as an input of `EntryGate` and `PositionLevels`; the bars without the forming one in `BarArchive` |
| Minute archive (`bars1m.py`) | `data/bars1m/DATE/SYM.json` | fetch, merge, prune | every minute is in it as it ended, if it runs once a week; no rewrite of a day loses what the exchange has forgotten | `BarArchive` |
| Cash flows and scorecard (`cashflow.py`, `scorecard.py`) | `data/cashflows.json` | add, net, time-weighted return, unexplained jumps, verdict | a deposit is never a profit; a jump is reported exactly when something is missing from the record | `Performance` |
| Pair metadata (`pairs.py`) | `pairs.json` cache | refresh, round, minimums | a size is on the pair's grid and above its minimum | rounding and minimum in `EntryGate`; the cache is not modelled |
| Dashboard (`dashboard.py`, `../web/`) | `dashboard.json` | rebuild the equity curve, rows per coin and day, verdict; publish | the curve is what the account was worth; the parts add up | `Performance`; publishing is not modelled |
| Reports (`account.py`, `holdings.py`, `digest.py`, `notify.py`, `net.py`, `indicators.py`, `spreads.py`) | none that decides anything | read, format, send, compute indicators | failures never stop trading | not modelled |
| Offline laboratories (`replay.py`, `regime_lab.py`, `limitlab.py`, `ladder_report.py`) | a book and cash of its own, in memory | replay history through the strategy, under other regime gates | reads no close of its own future; its cash is that of its trades; cap and throttle hold | `Replay`; `limitlab`, `ladder_report` and the summaries are not modelled |
| Settings (`config.py`) | constants | | | the CONSTANTS of the modules |

### 1.2 How they interact

* cron starts the snapshot at :07, the trader at :14, the watcher every five minutes,
  the Telegram listener every minute and the publisher at :20 (`src/README.md`,
  `lock.py:5-6`). The programs share no memory: each one loads a file, works on the copy
  and writes all of it back.
* Trader and watcher both sell through `trader._exit_position` and both save the
  ledger. The order lock keeps them apart: the trader waits up to 120 s for it, the
  watcher gives up at once.
* The watcher compares live prices with levels that only the hourly cycle moves.
* The exchange acts by itself: it fills, rejects or part-fills orders while
  `broker.wait_for_fill` polls, and the owner trades on the same account by hand.
* Every cycle begins by making the ledger agree with the balances
  (`ledger.reconcile`). That is the program's answer to every fault: nothing is
  retried, the next hour repairs.
* A daily routine outside the repository writes `memory/policy.json`, which the
  trader reads and clamps; the replay reads its history from the commits.
* The trader waits for the lock with a clock it read before, and picks its snapshot by
  that clock, so the watcher's sales decide how old the prices of the cycle are.
* The page and the scorecard are computed anew each time from the snapshots of the
  past, the ledger of today, the hand-kept record of transfers and, for the last point,
  the account itself. They read what four other programs wrote at four other times.

### 1.3 What is hard

* *Interleaving.* Two programs with copies of one file and of one account; two polls
  of the Telegram listener with no lock at all.
* *Crashes.* One save per cycle, after all its orders; `write_text` truncates before
  it writes; an offset that is saved once per batch.
* *Lost answers.* An order that was accepted although its POST raised, a poll or a
  cancel that failed, a fill that arrives after the program stopped waiting.
* *Values that are old when used.* Balances and cash read once per cycle; a check
  made outside the lock; levels that are a cycle old; the high of an hour that began
  before the position was opened.
* *Times that do not match.* A transfer after the last snapshot, a record entered later
  than the transfer, a coin with no price in some hours, an archive with missing hours,
  a day that turns between two of them.
* *Windows and limits.* The 24 hours of throttle and breaker, the position cap, dust
  and minimum orders, the cash buffer.

`PROJECT.json` lists these hazards one by one at their lines, with the properties
that cover each.

## 2. The modules

| Module | Models | Uses |
|---|---|---|
| `Ledger` | the ledger as a value and its operations; `CircuitBreakerTripped` | |
| `Journal` | abstract specification: each saved book continues the one before | `Ledger` |
| `Trading` | trader, watchers, lock, ledger file, orders and balances; refines `Journal` | `Ledger`, `Journal` |
| `PositionLevels` | one position's levels under market, hourly cycle and watcher | |
| `EntryGate` | policy, regime, filters, sizing and the entry loop of one cycle after the other | |
| `SaldoPoll` | overlapping polls, the offset file, Telegram's queue | |
| `BarArchive` | the minute archive of one coin, the exchange's window, the clock | |
| `Performance` | cash record, equity curve, page and verdict over trades, transfers and snapshots | |
| `Replay` | `replay.run` under the gates of `regime_lab` and the policies of the past | |
| `Schedule` | snapshot, trader and watcher on cron's clock, the lock's deadline, the snapshot files | |
| `MC_*` | model values and small input sets for TLC | |
| `SumTheorems` | facts about sums over finite sets | `FiniteSetsExt`, `TLAPS` |
| `*_proofs` | the theorems | the module of the same name, `TLAPS` |
| `Cron_proofs` | the theorems about what cron starts | `Schedule`, `SaldoPoll`, `TLAPS` |

`Trading` leaves prices out and `PositionLevels` and `EntryGate` leave the processes
out. That is the cut through the program itself: `strategy.py`, `risk.py` and
`policy.py` are functions of one cycle's data, and everything that can interleave is in
`trader.py`, `watchdog.py`, `broker.py`, `lock.py` and `ledger.py`. What the one side
decides is a free choice on the other. `Schedule` has what `Trading` leaves out in
turn, the minutes: what `Trading` lets happen at any time (`TraderGiveUp`, `TraderSkip`)
is there bound to waits and ages. In `Trading` any set of positions may breach a
level and any set of coins may qualify; in `EntryGate` any coin may be sold and any
entry may fail to fill.

A definition introduced by a comment "Mutant:" is a variant of the
definition after it with a plausible mistake in it. No action uses it; `PROJECT.json`
("mutants") names for each property the mistake that breaks it.

### 2.1 `Trading`

A process is one run of `trader.run` or `watchdog.run`; it is started again and again.
It is cut where another process or the exchange can act, at HTTP calls, at the lock
and at the two halves of `Path.write_text`.

| Variable | In the code |
|---|---|
| `disk`, `torn` | `trades.json`: the last complete write; truncated by one that is not complete |
| `lock` | the holder of the flock |
| `hour` | the clock, in hours |
| `pc`, `led`, `seen`, `todo`, `slots`, `mine` | a process: place, ledger in memory, balances read, rest of the loop, entries left, order waited for |
| `free`, `locked`, `orders` | the account |
| `faults` | how many faults there were (bounded) |

`pc` goes waiting, begin, load, exits, selling, entries, buying, save, writing, report
for a trader and waiting, load, read, exits, selling, save, writing, report for a
watcher. `TraderRead` is `get_account` with `get_positions`, `TraderLoad` is
`ledger.load` with `reconcile`, `TraderHold` a turn of the exit loop that sells
nothing, `DropUnsellable`, `SellRefused`, `SellAccepted` and `SellReplyLost` the ways
`_exit_position` can go, `Fill...` the ways `wait_for_fill` can end, with what the
caller books in the same step. `Fill`, `PartialFill`, `Reject` and `OwnerTrades` are
the exchange and the owner. `Crash` is possible anywhere.

### 2.2 `PositionLevels`

Prices are natural numbers; gains are differences to the entry. `Check` is one turn of
the exit loop (`check_exit`, then `_exit_position` or `update_position`), `SaleFails` the
same turn when `_exit_position` does not sell, `Watch` a pass of the watcher that finds a breach, `NoCheck` an hour without data, snapshot or
cycle. `bar` and `top` are the high of the running hour and of the finished one, which
is what `snapshot._completed_high` records. A level is described as the greatest of the
prices it may be raised to, instead of a chain of `max`. `shown` is a history variable:
the best price a cycle was shown; `failed` another: a sale of the cycle has failed.

### 2.3 `EntryGate`

The account is free and tied rupiah, the coins held and what they are worth. A cycle
reads the account (`Start`), may sell (`Exit`), then computes regime, slots and
candidates (`Entries`) and goes through the candidates by ADX (`Bought`, `Refused`,
`Skipped`). A quantity counts steps of the pair's grid; `IsSize` says which one
`position_size` returns: the largest that `Fits`, if it reaches the minimum order.

### 2.4 `SaldoPoll`

Updates are numbers. Telegram forgets what lies below the offset of a request and
returns the oldest `Limit` of the rest. A poll loads its offset, asks, looks at the
updates in order, and writes the offset back. Its initial predicate and next-state
relation are named `PollInit` and `PollNext`, for `Cron_proofs` extends it together with
`Schedule`.

### 2.5 `BarArchive`

The archive is a function from minutes to nothing, a forming bar or a final one; a
missing file, a torn one and an empty one are read alike (`load_day`). A run asks for
its window (`Fetch`), drops the forming bar by the clock after the answer (`Filter`),
and rewrites the days it was sent, the oldest first: `OpenDay` reads the day, merges and
truncates its file, `WriteDay` fills it. `Prune` ends the run. The clock may tick between
any two steps. `Archived` is what the archive will be when the open file is written.
Four history variables say what was ever archived, whether a run came too late for a
minute (`gap`), whether one died inside a write (`dropped`), and count the troubles.

### 2.6 `Performance`

Everything that happens to the money happens at an instant of its own: `Buy`, `Sell`,
`Transfer`, `Snapshot`, and `Cycle`, the trader's log line with the reconcile that
follows it. `SellUnseen` is a sale the ledger never books; `Cycle` then drops the
position. `AddLoad`, `AddSave` and `AddDies` are `cashflow.add`, cut at the file, so that
two runs lose a flow and one that dies loses all. What is computed from that are
operators in the order of the code: `NetAt`, `TradeCash`, `Residual` (cashflow), `Marks`,
`Profit`, `Point`, `Curve`, `Anchored`, `Contribution`, `DailyNet` (dashboard), `Growth`
(`twr_series`), `Due`, `Trails`, `Verdict` (scorecard). A return is a fraction, so that no
rounding is needed to compare two. History variables say what the account was worth at
each snapshot, which transfers were made and which sales went unseen.

### 2.7 `Replay`

`Capture` is the head of the loop for the next snapshot of the archive, `Hold` and `Exit`
its exits, `NoEntries`, `Entries`, `Pass`, `Enter` and `EntriesDone` the rest. The gates are
one operator (`Says`) over a reading whose values are the bands that the limits tell
apart; only the confirmed gate has a state (`below`, `above`, `off`). What the strategy
decides is a free choice among what it is handed: `Entries` picks any set of the coins
that are green by the closes the replay carried along. Money is counted in parts of a
rupiah so that a fee is exact. `past` remembers every hour replayed, for `NoLookahead`.

### 2.8 `Schedule`

Time is a number of ticks; `Tick` lets it pass when what is due has been started, no call
under the lock is past its timeout and no wait past its end. A snapshot starts, empties its
file, fills it, or dies; one taken by hand may overlap it (`SnapshotByHand`), and two that
write one file may leave it unreadable.

`Watch` skips a busy lock or takes it, and the watcher then keeps it from stage to stage,
each for at most `StageMax`:

| Stage | Calls | Ends with |
|---|---|---|
| `tickers` | `fetch_tickers` (`watchdog.py:86`) | no tickers or no breach: `NothingToSell`; n breaches: `Breached` |
| `balances` | `get_positions` (`watchdog.py:100`) | not reachable: `NothingToSell`; else `FirstSale` |
| `sell` | the pairs' metadata if the process has none, the POST (`trader.py:94-110`) | `fill`, an error, or nothing to sell |
| `fill` | the polls of `wait_for_fill`, the last one begun before `SaleWait` is over, and the pause after it (`broker.py:288-296`) | filled or in part: `fills`; nothing filled; an error; the deadline: `cancel` |
| `cancel` | `cancel_order`, its error swallowed (`broker.py:297-300`) | `last` |
| `last` | the order and its trades once more (`broker.py:301-304`) | as `fill` |
| `fills` | `fill_summary` (`trader.py:124`) | `tell` |
| `tell` | `notify.send` (`trader.py:120, 129`) | the end of the sale |

`After` is the last column for the sales; `SaleGoesOn` follows it, `SaleEnds` begins the
next sale or frees the lock, and `WatcherDies` frees it at any stage.

`CronTrader` reads the clock, `TakeLock` or `GiveUp` ends the wait, `Load` picks the snapshot
with the clock of `CronTrader`, `CycleEnds` frees the lock. A cycle may last for any time: if
the next trader finds it under way, it becomes the lock's holder `"earlier"`, and `overrun`
remembers it. `held` remembers the *streak* of passes that have kept the lock from the
trader: when the first and the last of them began, and the sales begun in them.

## 3. The runs

| Run | What it asks | Bounds |
|---|---|---|
| `TradingNoFaults` | do trader and two watchers, left alone by faults, keep ledger and account equal, book every sale once, and honour throttle, cap and breaker? | two coins, one slot, four orders, four hours |
| `TradingFaults` | with every fault but a crash, does every save continue the ledger, and is the invariant of the proof right? | two coins, a lot of two, one fault, two orders |
| `TradingLive` | with crashes, lost answers and an owner who trades, does the ledger catch up with the account, and does the trader go on? | one coin, a lot of two, two faults, two orders, no symmetry |
| `Levels` | with sales that may fail, do the levels only rise and stay below the peak, does a rung once reached hold its floor until a sale fails, and is every position closed? | nine prices, three ATR values, one R rung, two percent rungs, time stop at three hours |
| `Entries` | is a cycle's risk bounded, does the cap hold, does the policy only tighten, is an order refused only when less is free than was read? | two coins, two slots, four readings, four policies, eight units of money |
| `SaldoPoll` | is an update lost, never looked at, or answered twice without a reason? | two polls, three updates, batches of two, one failure |
| `BarArchive` | does the archive keep every minute of its retention as it ended, although days are rewritten from windows that see only a part of them? | days of three minutes, a window of four, ten minutes, retention of a day, one crash or failed request |
| `Performance` | is the curve rebuilt afterwards what the account was worth, does the check for unrecorded cash find exactly what is missing, is an idle account's return zero, do the page's parts add up, and do page and scorecard give one verdict? | two coins, three snapshots and log lines, two trades, one transfer, five instants |
| `Replay` | does the replay spend only what it has, does its cash follow from its trades, do cap and throttle hold when the policy changes, and does it read nothing but the past? | two coins, five hours in days of three, four gates, three sets of closes |
| `Schedule` | how old are the prices a cycle trades on, and what does it take to cost the trader its hour, when every call under the lock may run to its timeout? | two hours of fifteen ticks of 20 s, a pass of the watcher in each, two sales per pass, one snapshot by hand |
| `TradingReentry`, `PerformanceDeposit` | statements of the repository that the code does not keep (section 7) | as the run they belong to |

Why these bounds suffice for what is asked:

* Two coins and one slot make the coins compete for the slot; two watchers overlap
  each other as well as the trader. Four orders are two full round trips, so a coin is
  bought, sold and bought again, which throttle and breaker need; `Day = 2` of three
  possible hours puts windows, their ends and the time after them in reach.
* A lot of two with `DustQty = 1` lets an order fill in part and what is left be
  dust. One fault is enough for each kind of damage to the invariant; the proof covers
  the rest.
* `TradingLive` drops symmetry and hours because it checks liveness. Two faults let a
  crash follow a lost answer, a failed cancel or a fill in part; with a lot of two and no dust,
  what a sale in part leaves must be managed again. `MaxTrades` can stop the model where the code would go
  on (the ledger is full and an unsellable position is to be dropped); `AtBound` says
  exactly when, and the liveness properties exclude it.
* The prices 6 to 14 around an entry at 9 with `R = 2` and `TakeProfit = 5` let every
  rung arm, every level be breached from above and by a jump, and the levels be pushed
  by each of trail, rung and floor. `Atr` has a missing value, a small one and one that
  is wide enough to put the trail below the stop.
* The four readings of `MC_EntryGate` are one that always passes, one that needs an
  uptrend of the regime coin, one that fails in a downtrend and a downtrend itself; the
  four policies are one with nothing of use, an optimist with a cap above the limit, a
  pessimist and one that is too old.
* A window that is longer than a day and no multiple of it always cuts a day in two, so
  a file is rewritten when most of its minutes are served no more; ten minutes are four
  days, of which the retention leaves the last two.
* Two polls, with batches shorter than the backlog, are what sets an offset back.
* Three snapshots and three log lines give two intervals of each, so a trade, a transfer
  or a record can fall before, into, between and after them; two trades are a closed and
  an open one, or two coins at once. One of the closes is missing in one of the quotes.
  The transfers exceed the tolerance, and two records let one be entered twice or late.
  Fees of 1 and 3 are unequal, so half of their sum is neither.
* Five hours in days of three are three days, of which a missing hour can skip one. One
  policy asks for more than the engine's limit; the next lowers the cap to one while two
  positions may be held. A confirmation of two flips in both directions. `MaxQty` is above
  every size of the run.
* `Schedule` has the shipped numbers in ticks of 20 s: a call 1, the wait for a fill and the
  pause 5 (93 s rounded up), the message to two chats 2 (30 s rounded up), the trader's wait
  6, the watcher every 15 and the trader 12 after one of its minutes (:10 to :14). Only the hour is
  shorter, one pass instead of twelve. A pass with one sale takes up to 17 ticks, which is
  longer than `WatchEvery`, so a second pass may follow it while the trader waits; the limit is
  18. With one tick more per message and that limit loosened by one, TLC finds the hour
  lost behind one sale, so the condition is as weak as it can be.
* The age limit of 20 lets the hour before serve the trader at tick 27 if it was taken by
  cron, at tick 9, as the shipped limit does (67 of 70 minutes), but not if it was taken by hand at
  the start of that hour. 30 ticks contain two runs of the trader; the second may meet
  the first.

The settings are scaled so that each comparison has both sides in reach. The shipped
ones (`config.py`) satisfy the assumptions of the modules, with the exceptions named in
section 8.

`CHECK_DEADLOCK FALSE` appears in `Levels`, where a position that is closed does
nothing more, in `Performance`, `PerformanceDeposit` and `Schedule`, whose clock ends at a
bound, and in `Replay`, which ends with its archive. Everywhere else deadlock is checked.

Symmetry (coins, watchers) is used in runs without liveness properties only.

Every state machine has its types checked as a part of an invariant that is run or proved.

## 4. Fairness

* `TradingLive`. A process that has been started goes on (weak fairness of its steps;
  it is a Linux process with timeouts on its calls), and cron starts the trader for
  ever. Strong fairness of `TraderAcquire` says that a trader that keeps coming meets
  the lock free at some time: it polls twice a second for 120 s. That watchers keep it
  out for the whole wait (`TraderGiveUp`) may happen, finitely often. Strong fairness of
  `TraderRead` says that the exchange and the snapshots are not out of reach for ever.
  Watchers need not be started. Faults are finitely many by their bound. Nothing is
  assumed of the exchange: an order may stay open for ever, and `wait_for_fill` then
  runs into its timeout.
* `Levels`. Hours pass, and of the infinitely many hours not all lack data for the coin
  (strong fairness of `Check`: `NoCheck` and `SaleFails` may take any finite number of them).
* `SaldoPoll`. cron never stops and a started poll goes on; not every poll of the
  future starts in the instant in which another one has the file truncated.
* `BarArchive`. cron starts the archive for ever and a run goes on (weak fairness of its
  steps). Time passes as it likes, a run may come too late; the property says so.

## 5. What is proved

All theorems are for every value of the constants that satisfies the named
assumptions of the module, so for any number of coins, processes, prices, rungs and
updates, and without the bounds of the runs (a bound is a constant, any natural number).

### 5.1 `Trading_proofs`

* `Invariance`: `Spec => []IInv`. `IInv` is `TypeOK` and six parts that the steps of a
  cycle rely on: no order is filled beyond its size (`OrdersOK`); a process that waits
  for a fill waits for an order of its own of the right side (`WaitOK`), without which
  `Settle` could not be typed; who is in a cycle has the lock (`LockOK`); a book speaks
  of the past only (`PastOK`), so that recording an attempt or a position never
  overwrites a later one; the order a process buys with is newer than every position
  saved (`FreshOK`), so that a new position is never taken for an old one; and unless
  processes may die, the file is torn only under its writer and every book that will be
  saved continues the one on disk (`BaseOK`).
* `TypeCorrect` and `Exclusion` (`OneOrderer`) follow from it.
* `Continuation`: `"crash" \notin Faults` implies that `Spec` implements `Journal`
  with the file as the book (`SavesExtend`). The argument is the lock: between a load
  and the save that follows nobody else writes, so the saved book, which each step in
  between extends, extends the file as it is at the save. The module's first lemmas say
  that each operation of the ledger gives a book that extends its argument. The
  assumption is needed: a process that dies inside `write_text` leaves a file that
  `load` takes for an empty ledger.
* `EntriesApart`: `ThrottleHonoured`, when no process dies and no answer to an order is
  lost. `ThrottleInv` adds to it that the last attempt the book in force (`Current`: the
  working copy of who is in a cycle, the file otherwise) has of a coin is no older than
  any purchase of it, filled or not (`AttemptsOK`), and that what was loaded is what is on
  disk (`ReadOK`). Both assumptions are needed: after a lost answer, as after a crash
  before the save, there is an order and no record of an attempt. Refused orders,
  failed requests and an owner who trades do no harm.
* `SalesCovered`, `HeldManaged`, `SoldBooked`, `CapHeld` and `LossHalts`: five
  properties of `TradingNoFaults`, for any number of coins, watchers, slots and orders. They
  assume `Undisturbed`: nothing but market data fails, and an order is more than dust. A
  lost answer, a failed poll and a lost cancel each make all five false for a while
  (`TradingLive` shows that ledger and account meet again), an owner who trades
  `SalesAreCovered`, `HeldIsManaged` and `CapRespected`, and an order that fills in part
  `HeldIsManaged` and `CapRespected`: what a sale in part leaves is in no book. The other
  pairs hold on a small instance and are not proved.
  All five rest on one invariant, `BooksInv`:
  - `ExactOK`: the book in force has what the account has, but for the order that is waited
    for, and `WaitExact` says what is between them while it is.
  - `WholeOK`: an order fills whole or not at all, and one that lives is waited for.
  - `BookedOK`: every executed sale is one trade of the book, but for the one that is
    waited for; and the losses since any hour in the book are no fewer, its gains no more, than
    those executed. The window of the gains is an hour wider, as a sale may be booked in
    the hour after its order.
  - `SeenOK`: the balances that were read are still the account's for every position the
    loop has left; this is what makes the balances of the head of the cycle safe to use later.
  - `SlotsOK`, `BoundOK`: slots left and positions held are within the cap together.
  - `BreakerOK`: in the entry loop the breaker has not tripped by the book in force; no
    sale is booked between the test and the last entry.

  `LossHalts` is an action property: the step that sends a buy order finds less than the
  breaker's number of net losses among the sales executed within the window.

### 5.2 `PositionLevels_proofs`

`Levels` proves the invariant `LInv`: types, levels below the peak, and that every rung
the peak has reached is held until a sale fails. From it `BelowPeak`, `NeverFall` (no step
lowers a level, sales that fail included) and `RungsHold` (until a sale fails, what a cycle
was shown stays reached, in either ladder). `failed` is in `RungsStayReached` because the
code drops the levels of a cycle with a sale that fails (section 7).

### 5.3 `EntryGate_proofs`

`Entry` proves `IInv`. `CycleRisk` is not inductive alone: between cycles its sums must
be known to be zero, and a candidate must be known not to be held, or an entry would not
add a coin. `RiskIsBounded`, `CapHolds`, `PolicyOnlyTightens` and `OnlyForWant` are the
four properties of the run. `OnlyForWant` uses the assumption on the buffer that
`(1 - ENTRY_CASH_BUFFER_PCT)(1 + fee) <= 1`: the buffer covers the fee.

### 5.4 `Cron_proofs`: the poll

`OffsetsFollow` proves `IInv`: no offset, stored, in memory or at Telegram, is ahead of
what was looked at, and a batch has no gaps above what was looked at. `NoneLost` follows.
No lock is needed for it, any number of polls may overlap: an offset that is set back is
harmless, because Telegram's own confirmed offset never goes back.

`OneAnswer` proves `AnsweredOnce`: as long as polls neither overlap nor fail, no update is
answered twice. Its strengthening `AloneOK` says that there is then one poll at most, that
the file is torn only while it writes, and that all that was looked at lies below the offset
that is next to be used, the one in memory while it runs and the stored one between runs. In
the middle of a batch that is true because offsets are raised update by update.

### 5.5 `BarArchive_proofs`

`Archive` proves `IInv`, in five parts besides the types. `NewestOK` and `WholeOK` speak of
`Archived`, which only `OpenDay`, `Prune` and a crash change. They are kept because what a
run holds reaches without a gap down to what is archived for good (`GotOK`), because a
day is opened only after all older ones (`FileOK`), and because what was archived has no
holes (`TakenOK`). `NoHoles` and `NewestMayForm` follow. Nothing is assumed of the window
and of how long the exchange keeps its bars; a run that is too late for them sets `gap`.

### 5.6 `Replay_proofs`

`ReplayAccount` proves `RInv`, for any archive, gate and policies, one lemma per action
(`BookCapture` to `BookEnter`). The cash cannot go below zero because an entry is paid from
the cash of its instant; the cap holds because a lowered cap only empties the slots
(`CapBounds`); the throttle holds because the last attempt is never older than a trade.
`ReplayReadsThePast` proves `NoLookahead` with its own strengthening `KInv`: what is marked
is what the hour had. The lemma `LastKnown` says that one merge keeps "the last close
before". `PolicyAt` takes the greatest of a set of indices; that there is one is the lemma
`Greatest`, from the well-foundedness of `<` read downwards from a bound.

`BooksAddUp` proves `BooksBalance`: the cash is the capital, plus the results of all trades,
less the cost of what is held, fees included. That is inductive with `Booked`: the trades are
finitely many and none of the instant being replayed is of a coin still held, so that a trade
is new when it is booked. An entry moves its cost from one sum to the other; an exit
takes it out of the second and adds proceeds less cost to the first.

### 5.7 `Cron_proofs`: the hour

`ScheduleInvariant` proves `SInv`. Its last part, `StreakInv`, is the argument for the lock. A
stage begins no later than `Before` says, counted from the start of its pass, as long as the
pass is at its first sale (`Stages`: what a stage may take fits before the next). So a pass that
sells nothing is over after `LookMax`, and one that sells once after `PassMax`. Passes begin at
multiples of `WatchEvery`, and the trader takes a lock that is free; hence, under `OneSaleFits`, a
streak with at most one sale is one pass, or one that sold and the next one, which only looks.
`HourLost` adds the crontab: the first pass of the streak began at a minute of the watcher not
after the trader's, so at least `TradeAt % WatchEvery` before it (`BeforeTrader`), and the pass is
over by the trader's deadline. For the shipped numbers, in seconds: `PassMax` = 10 * 20 + 90 + 3 +
2 * 15 = 323 < 120 + 240, and 300 + 2 * 20 = 340 < 360. The margin is what matters: with calls of 24
seconds, or five chats, `OneSaleFits` is false and one unfilled sale may cost the hour.
For `SnapshotAge` the ages add up: the age at `asked` is at most `MaxAge`, the
wait at most `Wait`. `FallbackInTime` says what the shipped numbers are chosen for: when
`Hour + TradeAt - SnapAt + Wait <= MaxAge` (60 + 14 - 7 + 2 = 69, of 70 minutes), the
scheduled snapshot of the hour before, when the trader falls back to it, is within the
limit even by the clock at which it is read, so measuring with the earlier one is harmless.

### 5.8 `Performance_proofs`

`Account` proves `AInv`, which looks back at the whole history of the account:

* `BooksOK`: what was booked is finite, of the past, and told apart by its instant.
* `Balanced`: the cash now, and in every line of the decision log, is `CashAt` of its instant:
  the first deposit, what was transferred, got and paid by then, whether or not the record
  knows of it. It is needed for every line and not for the present only, because the check
  for unrecorded moves compares two lines of any age.
* `WorthKept`: as long as no sale was missed, what the account was worth at each snapshot is
  `WorthAt` of it, computed from the books as they are now.

It is inductive because a booking at a later instant leaves an earlier one alone. That is
not obvious for a sale: the position leaves one sum and the trade enters another, and the
trade counts, until its exit, what the position did (`WorthSell`). A missed sale and the
reconcile that drops its position leave the cash alone, as `Live` takes a position that is
gone for one that is not there. From `AInv`:

* `CurveTells` (`CurveIsAccount`). The curve counts trades that were open then, and open
  positions, as the code does; lemmas `EarnedOnCurve` and `PendingOnCurve` compare each part
  with its share in `WorthAt`. They differ by exactly the entry fees the property names.
* `CheckFinds` (`GapsFound`). The difference of two `CashAt` is the sum over what lies
  between. What the ledger explains of it is the same sum over what it has, with half of
  both fees for each side of a trade (`TradeCashIs`). So the residual is `Unrecorded` plus
  or minus `Skew` per side (`ResidualIs`), and the check errs by no more than that.
* `PageAdds` (`PageAddsUp`). Both tables are a sum split by a key (`SumByKey`), day or coin.
* `OneVerdict` (`VerdictsAgree`). After a fresh snapshot that prices every coin the marks
  are its closes (`MarksFresh`), and the last point of the curve is the balance
  (`BalanceOnCurve`); everything else that the two verdicts compare is then equal.
* `IdleEarns` (`IdleEarnsNothing`). `Growth` folds over the points of the curve. The fold's
  function exists (`GrowthExists`) and is determined by the points it is over
  (`GrowthAgrees`), so the growth up to a point is one step from that up to the
  point before (`GrowthStep`), and that step is a factor of one when nothing was earned.

No bound of the run is used, and no assumption but `PerformanceAssumption`: natural fees with
an even sum (half of it is a number of the code), natural prices and a finite set of coins.

### 5.9 Sums

`BooksBalance` and all of `Performance` are about sums over sets. `SumTheorems` proves what is
needed of `SumFunction`, the fold of the community modules, for every finite set: it is an
integer, one element more adds one term, it splits over disjoint sets, and it depends on the
terms only. The installed provers cannot use the library's induction theorems,
which take an operator as an argument. The module uses least counterexamples instead: the set
of all subsets for which a claim fails is an ordinary set, and if it is not empty it has a
member of least cardinality (`LeastSet`), which the fold's equation then refutes. `GrowthExists`
and `GrowthAgrees` of section 5.8 argue in the same way.

## 6. What is only model-checked

* The liveness properties (`HeldBecomesManaged`, `GoneIsDropped`, `CyclesComplete`,
  `EventuallyOut`, `EveryUpdateHandled`, `EveryMinuteKept`): the proof system does not reason about
  ENABLED. So what `Trading` promises after a fault, that ledger and account meet again, is
  shown on an instance only.
* The two statements of section 7: a counterexample is an instance.

Every invariant and every action property that a passing run checks is a theorem.

## 7. Where the repository says something else

Each of these is a run that fails on purpose, with the quoted line in `PROJECT.json`.

* `TradingReentry`: the throttle counts from the entry. A position that lived for a day
  can be sold and bought again in one cycle, although the throttle is there "to stop the
  bot re-entering a coin it just left".
* `PerformanceDeposit`: the page pins the last point of the curve to the live balance and
  takes that point's capital at the last snapshot. A transfer in between, recorded as it
  should be, counts as a gain of the time-weighted return, which is also what the page
  hands to the scorecard. The tests of `cashflow.py` say "a deposit on its own returns
  nothing".

Seen while modelling, and not made runs of their own:

* A sale whose answer is lost is dropped by the next reconcile as sold outside the bot
  (`ledger.py:147-151`): it is in no list of trades, so the circuit breaker does not see its
  loss (`config.py:353`). `GapsFound` says that `cashflow.unexplained` does.
* When a sale fails, the levels ratcheted in that cycle are dropped with it
  (`trader.py:284-286`), so a rung "once reached stays reached" (`strategy.py:201-202`) only if
  sales do not fail: `failed` in `RungsStayReached`.
* The first cycle after an entry takes the high of an hour that began before the entry for
  the position's peak (`strategy.py:218`).
* The cash is read once per cycle (`trader.py:331`): a second entry is sized against money
  that the first one has spent.
* The replay calls `risk.position_size` without the cash and without the halving in
  risk-off (`replay.py:242`, `trader.py:138-140`), and its policy has no age limit, so a
  replayed entry can be larger than the live one.

## 8. Abstractions, and what is not modelled

* The dry run and `TRADING_ENABLED=false` change no state and are left out, as are
  logging, messages and the holdings report.
* `Trading` has no prices: a sale makes a loss or not, and the breaker counts such
  units. The throttle and the breaker share the constant `Day`; in the code both are
  24 hours. An hour does not turn while a trader is at work.
* `PositionLevels` follows one position. Its break-even floor has the constants
  `FloorAt` and `FloorGain` and assumes `FloorGain <= FloorAt` when it is on; the shipped
  setting is off (`FloorAt = 0`). Prices are whole numbers and there are no fees.
* `EntryGate` lets prices move between cycles only, ADX limits of filters and regime are
  the same two numbers (as shipped, 20 and 25), and the owner moves rupiah but buys no
  coins; a coin bought by hand and adopted, or one whose order filled after the bot had given up
  on it (that is in `Trading`), can exceed the cap, which counts what the bot buys. A buy
  fills at the snapshot's close: the code spends a number of rupiah at the market, so `CycleRisk`
  bounds the risk at the time of sizing, not that of a fill below the close. The optional
  amount-in-coin minimum of a pair is left out; the minimum in rupiah is there.
* `SaldoPoll`: an update whose handling raises (the report meets an unexpected answer)
  ends the poll before the save and is met again by the next one; this is a `Crash` of
  the model, which is bounded, so that a message that raises for ever is outside
  `EveryUpdateHandled`.
* `BarArchive` has one coin, of which every minute has a bar, and runs that follow one
  another; two runs started by hand at once are left out. A run that dies inside
  `write_text` loses the minutes of that day that are served no more: `Complete` and
  `EveryMinuteKept` except it by name. `load_range` only reads.
* `Performance` books every fill at its price; the slippage that `DETECT_TOLERANCE` is for
  is left out, fees are constants, and rounding to cents is not modelled. A record is entered
  at the transfer's time or at the time of entry. The benchmark in rupiah, the tables of
  positions and recent trades and `web/publish.sh` are left out. A hold whose coins were not
  priced in the first snapshot is compared only where the code compares it.
* `Replay` chooses which positions exit and which coins qualify; the levels are those of
  `PositionLevels`. `blocked`, `regime_hint` and `max_positions` given on the command line
  are a `PolicyLog` of one entry. `load_history` skips files it cannot read: a missing hour.
* `Schedule` assumes that a call is over within its timeout (`CallMax`, `TellMax`). The `timeout`
  of `requests` limits the connection and each read separately, so a server that trickles its
  answer can take longer; by how much the property can bear it is in section 5.7. What runs
  on the machine itself (starting Python, reading and writing the files) takes no time, and a
  free lock is taken at once, not up to half a second later (`poll_s`). The metadata of the pairs
  is counted with every sale, though a process fetches it once at most. The watcher and the
  trader are started by cron only; one started by hand can begin at any minute.
  `PricesAreFresh` rests on none of this.
* Not modelled: signing and decoding in `broker.py` and `data.py`, the cache of the pair
  metadata, the spread recorder, reports, messages and indicators, `limitlab` and
  `ladder_report`, publishing. They keep no state that a decision depends on, or are pure
  formatting or statistics; `PROJECT.json` gives the reason for each component.

## 9. Plan

Done, in this order: `Ledger`, `Journal` and `Trading` with the refinement; `PositionLevels`;
`SaldoPoll`; `EntryGate`; `BarArchive`; `Performance`; `Replay`; `Schedule`; each with its
proofs. Left, in order of use:

1. The lock as an abstract mutex with a deadline that `Trading` and `Schedule` both
   implement, so that the two halves of the trader meet in one theorem.
2. `SalesAreCovered`, `SoldIsBooked` and `LossHaltsEntries` with orders that fill in part, and
   the last two with an owner who trades: proofs under less than `Undisturbed`.
3. The exits of `Replay` as `PositionLevels`, one instance per coin, in place of the free
   choice.
4. The cache of the pair metadata, and `limitlab`'s resting orders.

## 10. Running it

    tlc -workers 2 -config TradingNoFaults.cfg MC_Trading.tla
    tlapm Trading_proofs.tla

Each run of section 3 is `<Run>.cfg` with the module named in `PROJECT.json`. The longest,
`Schedule`, takes a little over a minute on two cores.
