---------------------------- MODULE Cron_proofs -----------------------------
(***************************************************************************)
(* What cron starts.  Module Schedule: the age of the prices a cycle       *)
(* trades on and the hours that are given up, for any crontab and          *)
(* timeouts.  Module SaldoPoll: Telegram forgets no update unseen, for     *)
(* every number of overlapping polls, every batch size and every number of *)
(* failures; and polls that neither overlap nor fail answer nothing twice. *)
(***************************************************************************)
EXTENDS Schedule, SaldoPoll, TLAPS

(***************************************************************************)
(* The hour.                                                               *)
(***************************************************************************)
\* Two times with the same remainder are apart by the modulus or by twice as much.
LEMMA Apart ==
  ASSUME NEW m \in Nat \ {0}, NEW a \in Nat, NEW b \in Nat, a < b, a % m = b % m
  PROVE  /\ a + m <= b
         /\ b < a + 2 * m => b = a + m
  <1> DEFINE p == a \div m
             q == b \div m
             r == a % m
  <1>1. p \in Nat /\ q \in Nat /\ r \in Nat /\ a = p * m + r /\ b = q * m + r
    OBVIOUS
  <1> HIDE DEF p, q, r
  <1>2. q > p
    <2>1. SUFFICES ASSUME p >= q PROVE FALSE
      BY <1>1
    <2>2. PICK k \in Nat : p = q + k
      <3>1. p - q \in Nat /\ p = q + (p - q)
        BY <1>1, <2>1
      <3> QED
        BY <3>1
    <2>3. p * m = q * m + k * m /\ k * m \in Nat /\ q * m \in Nat
      BY <1>1, <2>2
    <2> QED
      BY <1>1, <2>3
  <1>3. PICK k \in Nat : q = p + 1 + k
    <2>1. q - p - 1 \in Nat /\ q = p + 1 + (q - p - 1)
      BY <1>1, <1>2
    <2> QED
      BY <2>1
  <1>4. q * m = p * m + m + k * m /\ k * m \in Nat /\ p * m \in Nat
    BY <1>1, <1>3
  <1>5. b = a + m + k * m
    BY <1>1, <1>4
  <1>6. k = 0 \/ k * m >= m
    <2>1. CASE k > 0
      <3>1. PICK j \in Nat : k = j + 1
        <4>1. k - 1 \in Nat /\ k = (k - 1) + 1
          BY <2>1
        <4> QED
          BY <4>1
      <3>2. k * m = j * m + m /\ j * m \in Nat
        BY <3>1
      <3> QED
        BY <3>2
    <2> QED
      BY <2>1
  <1> QED
    BY <1>4, <1>5, <1>6

\* A minute of the watcher that is not after one of the trader's is before it by
\* the distance between the two in the crontab, at least.
LEMMA BeforeTrader ==
  ASSUME Hour % WatchEvery = 0, NEW a \in Nat, NEW b \in Nat, a <= b,
         a % WatchEvery = 0, b % Hour = TradeAt
  PROVE  a + (TradeAt % WatchEvery) <= b
  <1> DEFINE p == a \div WatchEvery
             h == b \div Hour
             m == Hour \div WatchEvery
             n == TradeAt \div WatchEvery
             r == TradeAt % WatchEvery
  <1>1. /\ Hour \in Nat \ {0} /\ WatchEvery \in Nat \ {0} /\ TradeAt \in Nat
    BY ScheduleAssumption
  <1>2. /\ p \in Nat /\ a = p * WatchEvery
    BY <1>1
  <1>3. h \in Nat /\ b = h * Hour + TradeAt
    BY <1>1
  <1>4. m \in Nat /\ Hour = m * WatchEvery
    BY <1>1
  <1>5. n \in Nat /\ r \in 0..(WatchEvery - 1) /\ TradeAt = n * WatchEvery + r
    BY <1>1
  <1> HIDE DEF p, h, m, n, r
  <1>6. PICK q \in Nat : b = q * WatchEvery + r
    <2>1. h * Hour = (h * m) * WatchEvery /\ h * m \in Nat
      BY <1>1, <1>3, <1>4
    <2>2. PICK g \in Nat : h * Hour = g * WatchEvery
      BY <2>1
    <2>3. b = (g + n) * WatchEvery + r /\ g + n \in Nat
      BY <1>1, <1>3, <1>5, <2>2
    <2> QED
      BY <2>3
  <1>7. q >= p
    <2>1. SUFFICES ASSUME p >= q + 1 PROVE FALSE
      BY <1>2, <1>6
    <2>2. PICK k \in Nat : p = q + 1 + k
      <3>1. p - q - 1 \in Nat /\ p = q + 1 + (p - q - 1)
        BY <1>2, <1>6, <2>1
      <3> QED
        BY <3>1
    <2>3. p * WatchEvery = q * WatchEvery + WatchEvery + k * WatchEvery
          /\ k * WatchEvery \in Nat /\ q * WatchEvery \in Nat
      BY <1>1, <2>2
    <2> QED
      BY <1>1, <1>2, <1>5, <1>6, <2>3
  <1>8. PICK k \in Nat : q = p + k
    <2>1. q - p \in Nat /\ q = p + (q - p)
      BY <1>2, <1>6, <1>7
    <2> QED
      BY <2>1
  <1>9. q * WatchEvery = p * WatchEvery + k * WatchEvery /\ k * WatchEvery \in Nat
        /\ p * WatchEvery \in Nat
    BY <1>1, <1>2, <1>8
  <1>10. b = a + k * WatchEvery + r
    BY <1>2, <1>6, <1>9
  <1>11. r = TradeAt % WatchEvery
    BY DEF r
  <1> QED
    BY <1>2, <1>5, <1>9, <1>10, <1>11

\* An hour has a lower number than its times.
LEMMA HourType ==
  ASSUME NEW t \in Nat
  PROVE  HourOf(t) \in 0..t
  <1>1. Hour \in Nat \ {0}
    BY ScheduleAssumption
  <1> DEFINE q == t \div Hour
  <1>2. q \in Nat /\ q * Hour <= t
    BY <1>1
  <1>3. q <= q * Hour
    <2>1. PICK k \in Nat : Hour = k + 1
      <3>1. Hour - 1 \in Nat /\ Hour = (Hour - 1) + 1
        BY <1>1
      <3> QED
        BY <3>1
    <2>2. q * Hour = q * k + q /\ q * k \in Nat
      BY <1>2, <2>1
    <2> QED
      BY <1>2, <2>2
  <1> QED
    BY <1>1, <1>2, <1>3 DEF HourOf

\* A time is its hour and its minute.
LEMMA HourAndMinute ==
  ASSUME NEW t \in Nat
  PROVE  HourOf(t) \in Nat /\ t = HourOf(t) * Hour + (t % Hour)
  <1>1. Hour \in Nat \ {0}
    BY ScheduleAssumption
  <1> QED
    BY <1>1 DEF HourOf

\* The table of the stages: what one takes is in what comes before the next.
LEMMA Stages ==
  /\ LookMax \in Nat /\ PassMax \in Nat /\ LookMax <= PassMax
  /\ \A s \in Looking \cup Selling :
         /\ StageMax[s] \in Nat /\ Before[s] \in Nat
         /\ Before[s] + StageMax[s] <= PassMax
         /\ s \in Looking => Before[s] + StageMax[s] <= LookMax
  /\ Before["balances"] = Before["tickers"] + StageMax["tickers"]
  /\ Before["sell"] = LookMax /\ Before["tickers"] = 0
  /\ \A s \in Selling : \A t \in After[s] \ {"over"} :
         t \in Selling /\ Before[s] + StageMax[s] <= Before[t]
  <1>1. /\ CallMax \in Nat /\ SaleWait \in Nat /\ PollEvery \in Nat /\ TellMax \in Nat
    BY ScheduleAssumption
  <1>2. /\ LookMax \in Nat /\ PassMax \in Nat /\ LookMax <= PassMax
    BY <1>1 DEF LookMax, PassMax
  <1>3. \A s \in Looking \cup Selling :
            /\ StageMax[s] \in Nat /\ Before[s] \in Nat
            /\ Before[s] + StageMax[s] <= PassMax
            /\ s \in Looking => Before[s] + StageMax[s] <= LookMax
    <2> TAKE s \in Looking \cup Selling
    <2>1. CASE s = "tickers"
      BY <1>1, <2>1 DEF Looking, StageMax, Before, LookMax, PassMax
    <2>2. CASE s = "balances"
      BY <1>1, <2>2 DEF Looking, StageMax, Before, LookMax, PassMax
    <2>3. CASE s = "sell"
      BY <1>1, <2>3 DEF Looking, StageMax, Before, LookMax, PassMax
    <2>4. CASE s = "fill"
      BY <1>1, <2>4 DEF Looking, StageMax, Before, LookMax, PassMax
    <2>5. CASE s = "cancel"
      BY <1>1, <2>5 DEF Looking, StageMax, Before, LookMax, PassMax
    <2>6. CASE s = "last"
      BY <1>1, <2>6 DEF Looking, StageMax, Before, LookMax, PassMax
    <2>7. CASE s = "fills"
      BY <1>1, <2>7 DEF Looking, StageMax, Before, LookMax, PassMax
    <2>8. CASE s = "tell"
      BY <1>1, <2>8 DEF Looking, StageMax, Before, LookMax, PassMax
    <2> QED
      BY <2>1, <2>2, <2>3, <2>4, <2>5, <2>6, <2>7, <2>8 DEF Looking, Selling
  <1>4. /\ Before["balances"] = Before["tickers"] + StageMax["tickers"]
        /\ Before["sell"] = LookMax /\ Before["tickers"] = 0
    BY <1>1 DEF StageMax, Before, LookMax
  <1>5. \A s \in Selling : \A t \in After[s] \ {"over"} :
            t \in Selling /\ Before[s] + StageMax[s] <= Before[t]
    <2> SUFFICES ASSUME NEW s \in Selling, NEW t \in After[s] \ {"over"}
                 PROVE  t \in Selling /\ Before[s] + StageMax[s] <= Before[t]
      OBVIOUS
    <2>1. CASE s = "sell"
      <3>1. t \in {"fill", "tell"}
        BY <2>1 DEF After
      <3> QED
        BY <1>1, <2>1, <3>1 DEF StageMax, Before, Selling
    <2>2. CASE s = "fill"
      <3>1. t \in {"fills", "tell", "cancel"}
        BY <2>2 DEF After
      <3> QED
        BY <1>1, <2>2, <3>1 DEF StageMax, Before, Selling
    <2>3. CASE s = "cancel"
      <3>1. t = "last"
        BY <2>3 DEF After
      <3> QED
        BY <1>1, <2>3, <3>1 DEF StageMax, Before, Selling
    <2>4. CASE s = "last"
      <3>1. t \in {"fills", "tell"}
        BY <2>4 DEF After
      <3> QED
        BY <1>1, <2>4, <3>1 DEF StageMax, Before, Selling
    <2>5. CASE s = "fills"
      <3>1. t = "tell"
        BY <2>5 DEF After
      <3> QED
        BY <1>1, <2>5, <3>1 DEF StageMax, Before, Selling
    <2>6. CASE s = "tell"
      BY <2>6 DEF After
    <2> QED
      BY <2>1, <2>2, <2>3, <2>4, <2>5, <2>6 DEF Selling
  <1> QED
    BY <1>2, <1>3, <1>4, <1>5

Known == SInv /\ PricesAreFresh

\* The invariant holds before the first minute.
LEMMA InitKnown == Init => Known
  <1> SUFFICES ASSUME Init PROVE Known
    OBVIOUS
  <1>1. TypeOK
    <2>1. MaxNow \in Nat
      BY ScheduleAssumption
    <2>2. file \in [0..MaxNow -> {NoFile, Torn} \cup 0..MaxNow]
      BY <2>1 DEF Init
    <2>3. held \in Streaks
      BY DEF Init, Streak, Streaks
    <2>4. /\ now = 0 /\ started = {} /\ shots = {} /\ writing = {} /\ hand = 0
          /\ lock = "free" /\ stage = "none" /\ stageFrom = 0 /\ sales = 0
          /\ trader = "idle" /\ asked = 0 /\ used = 0 /\ loaded = 0 /\ overrun = FALSE
      BY DEF Init
    <2>5. now \in 0..MaxNow /\ stageFrom \in 0..now /\ asked \in 0..now
          /\ used \in 0..MaxNow /\ loaded \in 0..now /\ hand \in Nat /\ sales \in Nat
      BY <2>1, <2>4
    <2>6. started \subseteq Jobs /\ shots \subseteq 0..now /\ writing \subseteq shots
          /\ stage \in {"none"} \cup Looking \cup Selling /\ overrun \in BOOLEAN
      BY <2>4
    <2>7. lock \in {"free", "watcher", "trader", "earlier"}
          /\ trader \in {"idle", "waiting", "holds", "cycle", "gaveup"}
      BY <2>4
    <2> QED
      BY <2>2, <2>3, <2>5, <2>6, <2>7 DEF TypeOK
  <1>2. StreakInv
    BY DEF Init, StreakInv, Behind
  <1>3. SInv
    BY <1>1, <1>2 DEF Init, SInv, Behind, NoFile
  <1> QED
    BY <1>3 DEF Init, Known, PricesAreFresh

\* A step of the files alone.
LEMMA DiskStep ==
  ASSUME Known, UNCHANGED <<now, lock, watch, cycle>>, started' \subseteq Jobs,
         started \subseteq started', shots' \subseteq 0..now, writing' \subseteq shots',
         hand' \in Nat,
         file' \in [0..MaxNow -> {NoFile, Torn} \cup 0..MaxNow],
         \A h \in 0..MaxNow : file'[h] >= 0 => HourOf(file'[h]) = h /\ file'[h] <= now
  PROVE  Known'
  <1>1. TypeOK'
    BY DEF Known, SInv, TypeOK, watch, cycle
  <1>2. StreakInv'
    BY DEF Known, SInv, StreakInv, StreakStands, StreakShort, Behind, watch, cycle
  <1>3. SInv'
    BY <1>1, <1>2 DEF Known, SInv, Behind, watch, cycle
  <1> QED
    BY <1>3 DEF Known, PricesAreFresh, cycle

\* A snapshot that is started, truncates its file, writes it or dies keeps the invariant.
LEMMA SnapshotSteps ==
  ASSUME Known,
         \/ CronSnapshot
         \/ SnapshotByHand
         \/ \E t \in shots : Truncate(t) \/ Written(t) \/ SnapshotDies(t)
  PROVE  Known'
  <1>1. /\ TypeOK /\ now \in 0..MaxNow /\ MaxNow \in Nat
        /\ \A h \in 0..MaxNow : file[h] >= 0 => HourOf(file[h]) = h /\ file[h] <= now
    BY ScheduleAssumption DEF Known, SInv, TypeOK
  <1>2. CASE CronSnapshot
    <2>1. /\ UNCHANGED <<now, lock, watch, cycle, file, writing, hand>>
          /\ started' = started \cup {"snapshot"} /\ shots' = shots \cup {now}
      BY <1>2 DEF CronSnapshot
    <2> QED
      BY <1>1, <2>1, DiskStep DEF TypeOK, Jobs
  <1>3. CASE SnapshotByHand
    <2>1. /\ UNCHANGED <<now, lock, watch, cycle, file, writing, started>>
          /\ hand' = hand + 1 /\ shots' = shots \cup {now}
      BY <1>3 DEF SnapshotByHand
    <2> QED
      BY <1>1, <2>1, DiskStep DEF TypeOK
  <1>4. ASSUME NEW t \in shots, Truncate(t) PROVE Known'
    <2>1. /\ UNCHANGED <<now, lock, watch, cycle, started, hand, shots>>
          /\ writing' = writing \cup {t} /\ file' = [file EXCEPT ![HourOf(t)] = Torn]
      BY <1>4 DEF Truncate
    <2>2. file' \in [0..MaxNow -> {NoFile, Torn} \cup 0..MaxNow]
      BY <1>1, <2>1 DEF TypeOK
    <2>3. \A h \in 0..MaxNow : file'[h] >= 0 => HourOf(file'[h]) = h /\ file'[h] <= now
      BY <1>1, <2>1 DEF TypeOK, Torn
    <2> QED
      BY <1>1, <2>1, <2>2, <2>3, DiskStep DEF TypeOK
  <1>5. ASSUME NEW t \in shots, Written(t) PROVE Known'
    <2>1. PICK left \in {t, Torn} : file' = [file EXCEPT ![HourOf(t)] = left]
      BY <1>5 DEF Written
    <2>2. /\ UNCHANGED <<now, lock, watch, cycle, started, hand>>
          /\ writing' = writing \ {t} /\ shots' = shots \ {t}
      BY <1>5 DEF Written
    <2>3. t \in 0..now /\ t \in 0..MaxNow
      BY <1>1 DEF TypeOK
    <2>4. file' \in [0..MaxNow -> {NoFile, Torn} \cup 0..MaxNow]
      BY <1>1, <2>1, <2>3 DEF TypeOK
    <2>5. \A h \in 0..MaxNow : file'[h] >= 0 => HourOf(file'[h]) = h /\ file'[h] <= now
      BY <1>1, <2>1, <2>3 DEF TypeOK, Torn
    <2> QED
      BY <1>1, <2>2, <2>4, <2>5, DiskStep DEF TypeOK
  <1>6. ASSUME NEW t \in shots, SnapshotDies(t) PROVE Known'
    <2>1. /\ UNCHANGED <<now, lock, watch, cycle, started, hand, file>>
          /\ writing' = writing \ {t} /\ shots' = shots \ {t}
      BY <1>6 DEF SnapshotDies
    <2> QED
      BY <1>1, <2>1, DiskStep DEF TypeOK
  <1> QED
    BY <1>2, <1>3, <1>4, <1>5, <1>6

-----------------------------------------------------------------------------
\* What every step below needs of the state before it.
LEMMA Facts ==
  ASSUME Known
  PROVE  /\ now \in 0..MaxNow /\ MaxNow \in Nat /\ now \in Nat
         /\ Wait \in Nat /\ Hour \in Nat \ {0} /\ WatchEvery \in Nat \ {0}
         /\ MaxAge \in Nat /\ Wait < Hour
         /\ asked \in 0..now /\ loaded \in 0..now /\ stageFrom \in 0..now /\ used \in 0..MaxNow
         /\ sales \in Nat /\ overrun \in BOOLEAN
         /\ held.from \in Nat /\ held.pass \in Nat /\ held.sales \in Nat
         /\ trader = "waiting" => lock # "trader"
  <1>1. TypeOK
    BY DEF Known, SInv
  <1>2. held.from \in Nat /\ held.pass \in Nat /\ held.sales \in Nat
    BY <1>1 DEF TypeOK, Streaks
  <1> QED
    BY <1>1, <1>2, ScheduleAssumption DEF Known, SInv, TypeOK

\* A pass under way: its stage, and how far it has come.
LEMMA PassFacts ==
  ASSUME Known, lock = "watcher"
  PROVE  /\ stage \in Looking \cup Selling /\ now <= stageFrom + StageMax[stage]
         /\ trader \notin {"holds", "cycle"}
         /\ StreakStands /\ held.pass <= stageFrom
         /\ stage \in Selling => held.sales > 0
         /\ OneSaleFits /\ held.sales <= 1 =>
                /\ StreakShort
                /\ held.sales = 1 => (stage \in Selling <=> held.pass = held.from)
                /\ now <= held.pass + (Before[stage] + StageMax[stage])
  <1>1. /\ stage \in Looking \cup Selling /\ now <= stageFrom + StageMax[stage]
        /\ trader \notin {"holds", "cycle"}
    BY DEF Known, SInv, TypeOK
  <1>2. /\ StreakStands /\ held.pass <= stageFrom
        /\ stage \in Selling => held.sales > 0
        /\ OneSaleFits /\ held.sales <= 1 =>
               /\ StreakShort
               /\ held.sales = 1 => (stage \in Selling <=> held.pass = held.from)
               /\ stageFrom <= held.pass + Before[stage]
    BY DEF Known, SInv, StreakInv
  <1>3. StageMax[stage] \in Nat /\ Before[stage] \in Nat
    BY <1>1, Stages
  <1>4. OneSaleFits /\ held.sales <= 1 => now <= held.pass + (Before[stage] + StageMax[stage])
    BY <1>1, <1>2, <1>3, Facts
  <1> QED
    BY <1>1, <1>2, <1>4

\* A minute that passes keeps the invariant: no call outlives its timeout unseen.
LEMMA TickStep ==
  ASSUME Known, Tick
  PROVE  Known'
  <1>1. /\ UNCHANGED <<disk, lock, watch, cycle>> /\ now' = now + 1 /\ now < MaxNow
        /\ started' = {} /\ trader # "holds"
        /\ lock = "watcher" => now < stageFrom + StageMax[stage]
        /\ trader = "waiting" => lock # "free" /\ now < asked + Wait
    BY DEF Tick
  <1>2. TypeOK'
    <2>1. now' \in 0..MaxNow /\ 0..now \subseteq 0..now'
      BY <1>1, Facts
    <2> QED
      BY <1>1, <2>1 DEF Known, SInv, TypeOK, disk, watch, cycle
  <1>3. \A h \in 0..MaxNow : file[h] >= 0 => file[h] <= now + 1
    <2> SUFFICES ASSUME NEW h \in 0..MaxNow, file[h] >= 0
                 PROVE  file[h] <= now + 1
      OBVIOUS
    <2>1. file[h] <= now
      BY DEF Known, SInv
    <2>2. file[h] \in Int
      <3>1. file \in [0..MaxNow -> {NoFile, Torn} \cup 0..MaxNow]
        BY DEF Known, SInv, TypeOK
      <3> QED
        BY <3>1 DEF NoFile, Torn
    <2>3. now \in Nat
      BY Facts
    <2> QED
      BY <2>1, <2>2, <2>3
  <1>4. lock = "watcher" => now + 1 <= stageFrom + StageMax[stage]
    <2> SUFFICES ASSUME lock = "watcher" PROVE now + 1 <= stageFrom + StageMax[stage]
      OBVIOUS
    <2>1. StageMax[stage] \in Nat
      BY PassFacts, Stages
    <2> QED
      BY <1>1, <2>1, Facts
  <1>5. trader = "waiting" => now + 1 <= asked + Wait
    BY <1>1, Facts
  <1>6. asked # now + 1
    BY Facts
  <1>7. StreakInv'
    <2>1. ~(lock' = "free" /\ Behind')
      BY <1>1 DEF Behind, cycle
    <2>2. CASE lock' = "watcher"
      <3>1. lock = "watcher" /\ held' = held /\ stage' = stage /\ stageFrom' = stageFrom
        BY <1>1, <2>2 DEF watch
      <3>2. StreakStands'
        BY <1>1, <3>1, PassFacts, Facts DEF StreakStands
      <3>3. StreakShort' <=> StreakShort
        BY <3>1 DEF StreakShort
      <3> QED
        BY <2>1, <3>1, <3>2, <3>3 DEF Known, SInv, StreakInv
    <2> QED
      BY <2>1, <2>2 DEF StreakInv
  <1>8. Behind' <=> Behind
    BY <1>1 DEF Behind, cycle
  <1>9. SInv'
    BY <1>1, <1>2, <1>3, <1>4, <1>5, <1>6, <1>7, <1>8 DEF Known, SInv, disk, watch, cycle
  <1> QED
    BY <1>1, <1>9 DEF Known, PricesAreFresh, cycle

-----------------------------------------------------------------------------
\* A watcher that finds the lock free begins a pass.  Behind a streak that has sold
\* at most once it is the only pass that can follow, and it follows one that sold.
LEMMA WatchStep ==
  ASSUME Known, Watch
  PROVE  Known'
  <1>1. /\ UNCHANGED <<now, disk, cycle>> /\ started' = started \cup {"watcher"}
        /\ now % WatchEvery = 0 /\ "watcher" \notin started
    BY DEF Watch, Due
  <1>2. CASE UNCHANGED <<lock, watch>>
    BY <1>1, <1>2, Facts, DiskStep DEF Known, SInv, TypeOK, Jobs, disk
  <1>3. CASE ~UNCHANGED <<lock, watch>>
    <2>1. /\ lock = "free" /\ lock' = "watcher" /\ stage' = "tickers" /\ stageFrom' = now
          /\ sales' = 0
          /\ held' = IF trader = "waiting" /\ ~overrun THEN [held EXCEPT !.pass = now]
                     ELSE Streak(now)
      BY <1>3 DEF Watch
    <2>2. trader \notin {"holds", "cycle"}
      BY <2>1 DEF Known, SInv
    <2>3. /\ held'.from \in Nat /\ held'.pass = now /\ held'.sales \in Nat
          /\ held' \in Streaks
      <3>1. held \in Streaks /\ now \in Nat
        BY Facts DEF Known, SInv, TypeOK
      <3>2. CASE Behind
        BY <2>1, <3>1, <3>2 DEF Behind, Streaks
      <3>3. CASE ~Behind
        BY <2>1, <3>1, <3>3 DEF Behind, Streak, Streaks
      <3> QED
        BY <3>2, <3>3
    <2>4. TypeOK'
      <3>1. /\ now' = now /\ stage' \in {"none"} \cup Looking \cup Selling
            /\ stageFrom' \in 0..now /\ sales' \in Nat /\ lock' = "watcher"
            /\ held' \in Streaks
        BY <1>1, <2>1, <2>3, Facts DEF Looking
      <3>2. started' \subseteq Jobs /\ UNCHANGED <<disk, cycle>>
        BY <1>1 DEF Known, SInv, TypeOK, Jobs
      <3> QED
        BY <3>1, <3>2 DEF Known, SInv, TypeOK, disk, cycle
    <2>5. held'.from <= now /\ held'.from % WatchEvery = 0
          /\ (Behind => held'.from = held.from)
          /\ (OneSaleFits /\ held'.sales <= 1 =>
                  \/ held'.from = now /\ held'.sales = 0
                  \/ now = held'.from + WatchEvery /\ held'.sales = 1)
      <3>1. CASE ~Behind \/ held = Streak(now)
        <4>1. held'.from = now /\ held'.sales = 0 /\ (Behind => held.from = now)
          <5>1. CASE ~Behind
            BY <2>1, <5>1 DEF Behind, Streak
          <5>2. CASE Behind /\ held = Streak(now)
            BY <2>1, <5>2 DEF Behind, Streak
          <5> QED
            BY <3>1, <5>1, <5>2
        <4> QED
          BY <1>1, <4>1, Facts
      <3>2. CASE Behind /\ held # Streak(now)
        <4>1. held'.from = held.from /\ held'.sales = held.sales
          <5>1. held \in Streaks
            BY DEF Known, SInv, TypeOK
          <5> QED
            BY <2>1, <3>2, <5>1 DEF Behind, Streaks
        <4>2. /\ StreakStands
              /\ OneSaleFits /\ held.sales <= 1 =>
                     /\ StreakShort
                     /\ now <= held.pass + (IF held.sales = 1 /\ held.pass = held.from
                                           THEN PassMax ELSE LookMax)
          BY <2>1, <3>2 DEF Known, SInv, StreakInv
        <4>3. held.from < now /\ held.pass < now /\ held.from % WatchEvery = 0
          BY <1>1, <4>2, Facts DEF StreakStands
        <4>4. held.from + WatchEvery <= now
              /\ (now < held.from + 2 * WatchEvery => now = held.from + WatchEvery)
          BY <1>1, <4>3, Facts, Apart
        <4>5. OneSaleFits /\ held.sales <= 1 =>
                  now = held.from + WatchEvery /\ held.sales = 1
          <5> SUFFICES ASSUME OneSaleFits, held.sales <= 1
                       PROVE  now = held.from + WatchEvery /\ held.sales = 1
            OBVIOUS
          <5>1. /\ LookMax < WatchEvery /\ PassMax < 2 * WatchEvery
                /\ LookMax \in Nat /\ PassMax \in Nat
            BY Stages DEF OneSaleFits
          <5>2. CASE held.pass = held.from /\ held.sales = 1
            BY <4>2, <4>4, <5>1, <5>2, Facts
          <5>3. CASE held.pass = held.from /\ held.sales # 1
            BY <4>2, <4>4, <5>1, <5>3, Facts
          <5>4. CASE held.pass = held.from + WatchEvery /\ held.sales = 1 /\ held.pass # held.from
            BY <4>2, <4>3, <4>4, <5>1, <5>4, Facts
          <5> QED
            BY <4>2, <5>2, <5>3, <5>4, Facts DEF StreakShort
        <4> QED
          BY <4>1, <4>3, <4>5, Facts
      <3> QED
        BY <3>1, <3>2
    <2>6. StreakStands'
      BY <1>1, <2>3, <2>5, Facts DEF StreakStands
    <2>7. OneSaleFits /\ held'.sales <= 1 =>
              /\ StreakShort' /\ now <= held'.pass + Before["tickers"]
              /\ held'.sales = 1 => held'.pass # held'.from
      <3>1. Before["tickers"] = 0
        BY Stages
      <3> SUFFICES ASSUME OneSaleFits, held'.sales <= 1
                   PROVE  /\ StreakShort' /\ now <= held'.pass + Before["tickers"]
                          /\ held'.sales = 1 => held'.pass # held'.from
        OBVIOUS
      <3>2. CASE held'.from = now /\ held'.sales = 0
        BY <2>3, <3>1, <3>2, Facts DEF StreakShort
      <3>3. CASE now = held'.from + WatchEvery /\ held'.sales = 1
        BY <2>3, <3>1, <3>3, Facts DEF StreakShort
      <3> QED
        BY <2>5, <3>2, <3>3
    <2>8. "tickers" \in Looking /\ "tickers" \notin Selling
      BY DEF Looking, Selling
    <2>9. StreakInv'
      BY <1>1, <2>1, <2>3, <2>6, <2>7, <2>8, Facts DEF StreakInv
    <2>10. now' <= stageFrom' + StageMax[stage']
      BY <1>1, <2>1, <2>8, Facts, Stages
    <2>11. Behind' <=> Behind
      BY <1>1 DEF Behind, cycle
    <2>12. Behind => held'.from <= asked
      BY <2>5 DEF Known, SInv
    <2>13. SInv'
      BY <1>1, <2>1, <2>2, <2>4, <2>9, <2>10, <2>11, <2>12 DEF Known, SInv, disk, cycle
    <2> QED
      BY <1>1, <2>13 DEF Known, PricesAreFresh, cycle
  <1> QED
    BY <1>2, <1>3

\* A pass that moves on to a later stage, or to another sale, is within the time
\* of the stages before it.
LEMMA PassStep ==
  ASSUME Known, lock = "watcher", UNCHANGED <<now, started, disk, lock, cycle>>,
         stage' \in Looking \cup Selling, stageFrom' = now, sales' \in Nat,
         \/ /\ held' = held /\ (stage' \in Selling <=> stage \in Selling)
            /\ Before[stage] + StageMax[stage] <= Before[stage']
         \/ SaleBegins /\ stage # "tickers"
  PROVE  Known'
  <1>1. stage \in Looking \cup Selling /\ StageMax[stage'] \in Nat /\ Before[stage'] \in Nat
        /\ StageMax[stage] \in Nat /\ Before[stage] \in Nat
    BY PassFacts, Stages
  <1>2. held' \in Streaks /\ held'.from = held.from /\ held'.pass = held.pass
    <2>1. held \in Streaks
      BY DEF Known, SInv, TypeOK
    <2> QED
      BY <2>1 DEF SaleBegins, Streaks
  <1>3. TypeOK'
    BY <1>2, Facts DEF Known, SInv, TypeOK, disk, cycle
  <1>4. StreakStands'
    BY <1>2, PassFacts DEF StreakStands
  <1>5. held'.pass <= stageFrom' /\ now' <= stageFrom' + StageMax[stage']
    BY <1>1, <1>2, <1>4, Facts DEF StreakStands
  <1>6. /\ stage' \in Selling => held'.sales > 0
        /\ OneSaleFits /\ held'.sales <= 1 =>
               /\ StreakShort' /\ stageFrom' <= held'.pass + Before[stage']
               /\ held'.sales = 1 => (stage' \in Selling <=> held'.pass = held'.from)
    <2>1. CASE /\ held' = held /\ (stage' \in Selling <=> stage \in Selling)
               /\ Before[stage] + StageMax[stage] <= Before[stage']
      <3>1. StreakShort' <=> StreakShort
        BY <2>1 DEF StreakShort
      <3>2. OneSaleFits /\ held.sales <= 1 => now <= held.pass + Before[stage']
        BY <1>1, <2>1, PassFacts, Facts
      <3> QED
        BY <2>1, <3>1, <3>2, PassFacts
    <2>2. CASE SaleBegins /\ stage # "tickers"
      <3>1. stage' = "sell" /\ held'.sales = held.sales + 1 /\ "sell" \in Selling
        <4>1. held \in Streaks
          BY DEF Known, SInv, TypeOK
        <4> QED
          BY <2>2, <4>1 DEF SaleBegins, Streaks, Selling
      <3>2. SUFFICES ASSUME OneSaleFits, held'.sales <= 1
                     PROVE  /\ StreakShort' /\ stageFrom' <= held'.pass + Before[stage']
                            /\ held'.pass = held'.from
        BY <3>1, Facts
      <3>3. held.sales = 0
        BY <3>1, <3>2, Facts
      <3>4. stage \in Looking
        BY <1>1, <3>3, PassFacts
      <3>5. held.pass = held.from
        BY <3>2, <3>3, PassFacts DEF StreakShort
      <3>6. now <= held.pass + Before["sell"]
        <4>1. now <= held.pass + (Before[stage] + StageMax[stage])
          BY <3>2, <3>3, PassFacts
        <4>2. Before[stage] + StageMax[stage] <= LookMax /\ LookMax \in Nat
          BY <3>4, Stages
        <4> QED
          BY <1>1, <4>1, <4>2, Stages, Facts
      <3> QED
        BY <1>2, <3>1, <3>5, <3>6 DEF StreakShort
    <2> QED
      BY <2>1, <2>2
  <1>7. StreakInv'
    BY <1>4, <1>5, <1>6 DEF StreakInv
  <1>8. Behind' <=> Behind
    BY DEF Behind, cycle
  <1>9. stage' # "none"
    BY DEF Looking, Selling
  <1>10. SInv'
    BY <1>2, <1>3, <1>5, <1>7, <1>8, <1>9 DEF Known, SInv, disk, cycle
  <1> QED
    BY <1>10 DEF Known, PricesAreFresh, cycle

\* A pass that ends leaves the trader that waits the time of the whole pass.
LEMMA ReleaseStep ==
  ASSUME Known, lock = "watcher", Release, UNCHANGED <<now, started, disk, cycle>>
  PROVE  Known'
  <1>1. /\ lock' = "free" /\ stage' = "none" /\ stageFrom' = 0 /\ sales' = 0
        /\ held' = IF trader = "waiting" /\ ~overrun THEN held ELSE Streak(0)
        /\ trader \notin {"holds", "cycle"}
    BY PassFacts DEF Release
  <1>2. Behind' <=> Behind
    BY DEF Behind, cycle
  <1>3. Behind => held' = held
    BY <1>1 DEF Behind
  <1>4. held' \in Streaks
    BY <1>1 DEF Known, SInv, TypeOK, Streak, Streaks
  <1>5. TypeOK'
    BY <1>1, <1>4, Facts DEF Known, SInv, TypeOK, disk, cycle
  <1>6. OneSaleFits /\ held.sales <= 1 =>
            now <= held.pass + (IF held.sales = 1 /\ held.pass = held.from
                                THEN PassMax ELSE LookMax)
    <2> SUFFICES ASSUME OneSaleFits, held.sales <= 1
                 PROVE  now <= held.pass + (IF held.sales = 1 /\ held.pass = held.from
                                            THEN PassMax ELSE LookMax)
      OBVIOUS
    <2>1. /\ now <= held.pass + (Before[stage] + StageMax[stage])
          /\ stage \in Looking \cup Selling
          /\ stage \in Selling => held.sales = 1 /\ held.pass = held.from
      BY PassFacts, Facts
    <2>2. /\ Before[stage] \in Nat /\ StageMax[stage] \in Nat
          /\ LookMax \in Nat /\ PassMax \in Nat /\ LookMax <= PassMax
          /\ Before[stage] + StageMax[stage] <= PassMax
          /\ stage \in Looking => Before[stage] + StageMax[stage] <= LookMax
      BY <2>1, Stages
    <2>3. CASE stage \in Looking
      <3>1. now <= held.pass + LookMax
        BY <2>1, <2>2, <2>3, Facts
      <3>2. now <= held.pass + PassMax
        BY <2>1, <2>2, Facts
      <3> QED
        BY <3>1, <3>2
    <2>4. CASE stage \in Selling
      BY <2>1, <2>2, <2>4, Facts
    <2> QED
      BY <2>1, <2>3, <2>4
  <1>7. StreakInv'
    <2> SUFFICES ASSUME Behind'
                 PROVE  /\ StreakStands'
                        /\ OneSaleFits /\ held'.sales <= 1 =>
                               /\ StreakShort'
                               /\ now' <= held'.pass
                                      + (IF held'.sales = 1 /\ held'.pass = held'.from
                                         THEN PassMax ELSE LookMax)
      BY <1>1 DEF StreakInv
    <2>1. held' = held
      BY <1>2, <1>3
    <2>2. StreakStands' /\ (StreakShort' <=> StreakShort)
      BY <2>1, PassFacts DEF StreakStands, StreakShort
    <2> QED
      BY <1>6, <2>1, <2>2, PassFacts
  <1>8. SInv'
    BY <1>1, <1>2, <1>3, <1>5, <1>7 DEF Known, SInv, disk, cycle
  <1> QED
    BY <1>8 DEF Known, PricesAreFresh, cycle

\* So every step of a pass keeps the invariant.
LEMMA PassSteps ==
  ASSUME Known,
         \/ NothingToSell
         \/ FirstSale
         \/ \E n \in 1..MaxSales : Breached(n)
         \/ \E next \in Selling : SaleGoesOn(next)
         \/ SaleEnds
         \/ WatcherDies
  PROVE  Known'
  <1>1. stage # "none" => lock = "watcher"
    BY DEF Known, SInv
  <1>2. Looking \cap Selling = {} /\ "none" \notin Looking \cup Selling
        /\ "tickers" \in Looking /\ "balances" \in Looking /\ "sell" \in Selling
    BY DEF Looking, Selling
  <1>3. CASE NothingToSell
    BY <1>1, <1>2, <1>3, ReleaseStep DEF NothingToSell
  <1>4. CASE FirstSale
    <2>1. stage = "balances" /\ lock = "watcher" /\ SaleBegins
          /\ UNCHANGED <<now, started, disk, lock, sales, cycle>>
      BY <1>1, <1>4 DEF FirstSale
    <2>2. stage' \in Looking \cup Selling /\ stageFrom' = now /\ sales' \in Nat
      BY <1>2, <2>1, Facts DEF SaleBegins
    <2> QED
      BY <2>1, <2>2, PassStep
  <1>5. ASSUME NEW n \in 1..MaxSales, Breached(n) PROVE Known'
    <2>1. /\ stage = "tickers" /\ lock = "watcher" /\ stage' = "balances" /\ stageFrom' = now
          /\ sales' = n /\ held' = held /\ UNCHANGED <<now, started, disk, lock, cycle>>
      BY <1>1, <1>5 DEF Breached
    <2>2. n \in Nat
      BY ScheduleAssumption
    <2>3. StageMax["tickers"] \in Nat /\ Before["tickers"] \in Nat
          /\ Before["balances"] = Before["tickers"] + StageMax["tickers"]
      BY <1>2, Stages
    <2>4. Before[stage] + StageMax[stage] <= Before[stage']
      BY <2>1, <2>3
    <2> QED
      BY <1>2, <2>1, <2>2, <2>4, PassStep
  <1>6. ASSUME NEW next \in Selling, SaleGoesOn(next) PROVE Known'
    <2>1. /\ stage \in Selling /\ next \in After[stage] \ {"over"} /\ lock = "watcher"
          /\ stage' = next /\ stageFrom' = now
          /\ held' = held /\ UNCHANGED <<now, started, disk, lock, sales, cycle>>
      BY <1>1, <1>2, <1>6 DEF SaleGoesOn
    <2>2. Before[stage] + StageMax[stage] <= Before[stage']
      BY <2>1, Stages
    <2>3. sales' \in Nat
      BY <2>1, Facts
    <2> QED
      BY <2>1, <2>2, <2>3, PassStep
  <1>7. CASE SaleEnds
    <2>1. /\ stage \in Selling /\ lock = "watcher" /\ stage # "tickers"
          /\ UNCHANGED <<now, started, disk, cycle>>
      BY <1>1, <1>2, <1>7 DEF SaleEnds
    <2>2. CASE sales > 1
      <3>1. SaleBegins /\ sales' = sales - 1 /\ UNCHANGED lock
        BY <1>7, <2>2 DEF SaleEnds
      <3>2. stage' \in Looking \cup Selling /\ stageFrom' = now /\ sales' \in Nat
        BY <1>2, <2>2, <3>1, Facts DEF SaleBegins
      <3> QED
        BY <2>1, <3>1, <3>2, PassStep
    <2>3. CASE ~(sales > 1)
      <3>1. Release
        BY <1>7, <2>3 DEF SaleEnds
      <3> QED
        BY <2>1, <3>1, ReleaseStep
    <2> QED
      BY <2>2, <2>3
  <1>8. CASE WatcherDies
    BY <1>8, ReleaseStep DEF WatcherDies
  <1> QED
    BY <1>3, <1>4, <1>5, <1>6, <1>7, <1>8

-----------------------------------------------------------------------------
\* The wait of an hour is over when the next one begins; its cycle may not be.
LEMMA TraderIsFree ==
  ASSUME Known, CronTrader
  PROVE  trader \notin {"waiting", "holds"}
  <1>1. SUFFICES ASSUME trader \in {"waiting", "holds"} PROVE FALSE
    OBVIOUS
  <1>2. now % Hour = TradeAt /\ "trader" \notin started
    BY DEF CronTrader, Due
  <1>3. asked % Hour = TradeAt /\ asked # now /\ now <= asked + Wait
    BY <1>1, <1>2 DEF Known, SInv
  <1>4. asked + Hour <= now
    BY <1>2, <1>3, Facts, Apart
  <1> QED
    BY <1>3, <1>4, Facts

\* So does a trader that cron starts,
LEMMA CronTraderStep ==
  ASSUME Known, CronTrader
  PROVE  Known'
  <1>1. /\ UNCHANGED <<now, disk, stage, stageFrom, sales>> /\ used' = 0 /\ loaded' = 0
        /\ started' = started \cup {"trader"} /\ trader' = "waiting" /\ asked' = now
        /\ overrun' = (lock \in {"trader", "earlier"})
        /\ lock' = IF lock = "trader" THEN "earlier" ELSE lock
        /\ held' = IF lock = "watcher" THEN held ELSE Streak(now)
        /\ now % Hour = TradeAt
    BY DEF CronTrader, Due
  <1>2. held' \in Streaks
    BY <1>1, Facts DEF Known, SInv, TypeOK, Streak, Streaks
  <1>3. lock \in {"free", "watcher", "trader", "earlier"}
    BY DEF Known, SInv, TypeOK
  <1>4. TypeOK'
    BY <1>1, <1>2, <1>3, Facts DEF Known, SInv, TypeOK, disk, Jobs
  <1>5. lock' # "trader" /\ (lock' = "watcher" <=> lock = "watcher")
    BY <1>1
  <1>6. Behind' => lock' # "earlier" /\ held'.from <= asked'
    <2>1. CASE lock = "watcher"
      BY <1>1, <2>1, PassFacts, Facts DEF StreakStands
    <2>2. CASE lock = "free"
      BY <1>1, <2>2, Facts DEF Streak
    <2>3. CASE lock \in {"trader", "earlier"}
      BY <1>1, <2>3 DEF Behind
    <2> QED
      BY <1>3, <2>1, <2>2, <2>3
  <1>7. StreakInv'
    <2>1. CASE lock' = "watcher"
      <3>1. lock = "watcher" /\ held' = held
        BY <1>1, <1>5, <2>1
      <3>2. StreakStands' /\ (StreakShort' <=> StreakShort)
        BY <1>1, <3>1, PassFacts DEF StreakStands, StreakShort
      <3> QED
        BY <1>1, <2>1, <3>1, <3>2 DEF Known, SInv, StreakInv
    <2>2. CASE lock' # "watcher"
      <3>1. held' = Streak(now) /\ now' = now
        BY <1>1, <1>5, <2>2
      <3>2. Streak(now)' = Streak(now)
        BY <3>1 DEF Streak
      <3> QED
        BY <2>2, <3>1, <3>2 DEF StreakInv
    <2> QED
      BY <2>1, <2>2
  <1>8. now' <= asked' + Wait
    BY <1>1, Facts
  <1>9. SInv'
    BY <1>1, <1>4, <1>5, <1>6, <1>7, <1>8 DEF Known, SInv, disk
  <1> QED
    BY <1>1, <1>9 DEF Known, PricesAreFresh

\* that gets the lock,
LEMMA TakeLockStep ==
  ASSUME Known, TakeLock
  PROVE  Known'
  <1>1. /\ UNCHANGED <<now, started, disk, stage, stageFrom, sales, asked, used, loaded>>
        /\ trader = "waiting" /\ lock = "free" /\ lock' = "trader" /\ trader' = "holds"
        /\ overrun' = FALSE /\ held' = Streak(0)
    BY DEF TakeLock
  <1>2. TypeOK'
    BY <1>1 DEF Known, SInv, TypeOK, disk, Streak, Streaks
  <1>3. StreakInv' /\ ~Behind'
    BY <1>1 DEF StreakInv, Behind
  <1>4. SInv'
    BY <1>1, <1>2, <1>3 DEF Known, SInv, disk
  <1> QED
    BY <1>1, <1>4 DEF Known, PricesAreFresh

\* that gives up on it,
LEMMA GiveUpStep ==
  ASSUME Known, GiveUp
  PROVE  Known'
  <1>1. /\ UNCHANGED <<now, started, disk, lock, watch, asked, used, loaded>>
        /\ trader = "waiting" /\ lock # "free" /\ trader' = "gaveup" /\ overrun' = FALSE
    BY DEF GiveUp
  <1>2. TypeOK'
    BY <1>1 DEF Known, SInv, TypeOK, disk, watch
  <1>3. StreakInv' /\ ~Behind'
    BY <1>1 DEF Known, SInv, StreakInv, StreakStands, StreakShort, Behind, watch
  <1>4. SInv'
    BY <1>1, <1>2, <1>3 DEF Known, SInv, disk, watch
  <1> QED
    BY <1>1, <1>4 DEF Known, PricesAreFresh

\* that loads a snapshot: it is of this hour, or the newest one before,
LEMMA LoadStep ==
  ASSUME Known, Load
  PROVE  Known'
  <1> DEFINE usable == {h \in {HourOf(asked), HourOf(asked) - 1} : Usable(h)}
  <1>1. /\ UNCHANGED <<now, started, disk, watch, asked, overrun>> /\ trader = "holds"
        /\ lock = "trader" /\ now <= asked + Wait /\ stage = "none"
    BY DEF Load, Known, SInv
  <1>2. trader' \in {"idle", "cycle"} /\ lock' \in {"free", "trader"} => StreakInv' /\ ~Behind'
    BY DEF StreakInv, Behind
  <1>3. CASE usable = {}
    <2>1. trader' = "idle" /\ lock' = "free" /\ UNCHANGED <<used, loaded>>
      BY <1>3 DEF Load
    <2>2. TypeOK'
      BY <1>1, <2>1 DEF Known, SInv, TypeOK, disk, watch
    <2>3. SInv'
      BY <1>1, <1>2, <2>1, <2>2 DEF Known, SInv, disk, watch
    <2> QED
      BY <1>1, <2>1, <2>3 DEF Known, PricesAreFresh
  <1>4. CASE usable # {}
    <2>1. /\ trader' = "cycle" /\ loaded' = now /\ lock' = lock
          /\ used' = IF HourOf(asked) \in usable THEN file[HourOf(asked)]
                     ELSE file[HourOf(asked) - 1]
      BY <1>4 DEF Load
    <2>2. PICK h \in {HourOf(asked), HourOf(asked) - 1} : Usable(h) /\ used' = file[h]
      BY <1>4, <2>1
    <2>3. HourOf(asked) \in 0..asked
      BY Facts, HourType
    <2>4. h \in 0..MaxNow /\ file[h] >= 0 /\ asked - file[h] <= MaxAge
      BY <2>2, <2>3, Facts DEF Usable
    <2>5. file[h] \in 0..MaxNow /\ HourOf(file[h]) = h
      BY <2>4 DEF Known, SInv, TypeOK, NoFile, Torn
    <2>6. TypeOK'
      <3>1. /\ used' \in 0..MaxNow /\ loaded' \in 0..now' /\ lock' = "trader"
            /\ UNCHANGED <<now, started, disk, watch, asked, overrun>>
        BY <1>1, <2>1, <2>2, <2>5, Facts
      <3> QED
        BY <2>1, <3>1 DEF Known, SInv, TypeOK, disk, watch
    <2>7. loaded' - used' <= MaxAge + Wait /\ HourOf(asked) - HourOf(used') <= 1
      BY <1>1, <2>1, <2>2, <2>3, <2>4, <2>5, Facts
    <2>8. PricesAreFresh'
      BY <1>1, <2>7 DEF PricesAreFresh
    <2>9. loaded' <= asked' + Wait
      BY <1>1, <2>1, Facts
    <2>10. SInv'
      BY <1>1, <1>2, <2>1, <2>6, <2>9 DEF Known, SInv, disk, watch
    <2> QED
      BY <2>8, <2>10 DEF Known
  <1> QED
    BY <1>3, <1>4

\* and a cycle that ends, in its own hour or in a later one.
LEMMA CycleEndsSteps ==
  ASSUME Known, CycleEnds \/ EarlierEnds
  PROVE  Known'
  <1>1. CASE CycleEnds
    <2>1. /\ UNCHANGED <<now, started, disk, watch, asked, overrun>> /\ trader = "cycle"
          /\ trader' = "idle" /\ lock' = "free" /\ used' = 0 /\ loaded' = 0
          /\ lock = "trader" /\ stage = "none"
      BY <1>1 DEF CycleEnds, Known, SInv
    <2>2. TypeOK'
      <3>1. used' \in 0..MaxNow /\ loaded' \in 0..now
        BY <2>1, Facts
      <3> QED
        BY <2>1, <3>1 DEF Known, SInv, TypeOK, disk, watch
    <2>3. StreakInv' /\ ~Behind'
      BY <2>1 DEF StreakInv, Behind
    <2>4. SInv'
      BY <2>1, <2>2, <2>3 DEF Known, SInv, disk, watch
    <2> QED
      BY <2>1, <2>4 DEF Known, PricesAreFresh
  <1>2. CASE EarlierEnds
    <2>1. /\ UNCHANGED <<now, started, disk, watch, cycle>>
          /\ lock = "earlier" /\ lock' = "free" /\ stage = "none"
      BY <1>2 DEF EarlierEnds, Known, SInv
    <2>2. TypeOK'
      BY <2>1 DEF Known, SInv, TypeOK, disk, watch, cycle
    <2>3. ~Behind /\ ~Behind'
      BY <2>1 DEF Known, SInv, Behind, cycle
    <2>4. StreakInv'
      BY <2>1, <2>3 DEF StreakInv
    <2>5. trader \notin {"holds", "cycle"}
      BY <2>1 DEF Known, SInv
    <2>6. SInv'
      BY <2>1, <2>2, <2>3, <2>4, <2>5 DEF Known, SInv, disk, watch, cycle
    <2> QED
      BY <2>1, <2>6 DEF Known, PricesAreFresh, cycle
  <1> QED
    BY <1>1, <1>2

\* Every step keeps the invariant.
LEMMA KnownStep == Known /\ [Next]_vars => Known'
  <1> SUFFICES ASSUME Known, [Next]_vars PROVE Known'
    OBVIOUS
  <1>1. CASE UNCHANGED vars
    <2>1. UNCHANGED <<now, started, shots, writing, hand, file, lock, stage, stageFrom, sales,
                      trader, asked, used, loaded, overrun, held>>
      BY <1>1 DEF vars
    <2>2. TypeOK'
      BY <2>1 DEF Known, SInv, TypeOK
    <2>3. StreakInv' /\ (Behind' <=> Behind)
      BY <2>1 DEF Known, SInv, StreakInv, StreakStands, StreakShort, Behind, Streak
    <2> QED
      BY <2>1, <2>2, <2>3 DEF Known, SInv, PricesAreFresh
  <1>2. CASE Next
    BY <1>2, TickStep, SnapshotSteps, WatchStep, PassSteps, CronTraderStep, TakeLockStep,
       GiveUpStep, LoadStep, CycleEndsSteps DEF Next
  <1> QED
    BY <1>1, <1>2

\* A cycle never trades on prices older than SNAPSHOT_MAX_AGE_MIN and the wait
\* for the lock, whatever became of the snapshots before it.
THEOREM SnapshotAge == Spec => []PricesAreFresh
  <1>1. Known => PricesAreFresh
    BY DEF Known
  <1> QED
    BY <1>1, InitKnown, KnownStep, PTL DEF Spec

\* Where the crontab and the timeouts leave room for one sale, with every call at
\* its timeout, the trader gives its hour up only behind two of them, or behind a
\* cycle of an hour before.
THEOREM HourLost == Spec => LostBehindSales
  <1> DEFINE Lost == trader' = "gaveup" /\ trader # "gaveup" /\ OneSaleFits
                         => overrun \/ held.sales > 1
  <1>1. ASSUME Known, GiveUp, OneSaleFits, ~overrun, held.sales <= 1 PROVE FALSE
    <2>1. Behind /\ lock # "free" /\ now >= asked + Wait
      BY <1>1 DEF GiveUp, Behind
    <2>2. lock = "watcher" /\ held.from <= asked /\ asked % Hour = TradeAt
      BY <1>1, <2>1 DEF Known, SInv, TypeOK, Behind
    <2>3. held.from % WatchEvery = 0 /\ StreakShort
      BY <1>1, <2>2, PassFacts DEF StreakStands
    <2>4. held.from + (TradeAt % WatchEvery) <= asked
      <3>1. Hour % WatchEvery = 0
        BY <1>1 DEF OneSaleFits
      <3> QED
        BY <1>1, <2>2, <2>3, <3>1, Facts, BeforeTrader
    <2>5. /\ LookMax \in Nat /\ PassMax \in Nat /\ LookMax <= PassMax
          /\ Before[stage] \in Nat /\ StageMax[stage] \in Nat
          /\ Before[stage] + StageMax[stage] <= PassMax
          /\ stage \in Looking => Before[stage] + StageMax[stage] <= LookMax
          /\ now <= held.pass + (Before[stage] + StageMax[stage])
          /\ stage \in Looking \cup Selling
          /\ held.sales = 1 => (stage \in Selling <=> held.pass = held.from)
      BY <1>1, <2>2, PassFacts, Stages
    <2>6. \/ now <= held.from + PassMax
          \/ now <= held.from + WatchEvery + LookMax
      <3>1. CASE held.pass = held.from
        BY <1>1, <2>5, <3>1, Facts
      <3>2. CASE held.pass = held.from + WatchEvery /\ held.sales = 1 /\ held.pass # held.from
        <4>1. stage \in Looking
          BY <2>5, <3>2
        <4> QED
          BY <1>1, <2>5, <3>2, <4>1, Facts
      <3> QED
        BY <2>3, <3>1, <3>2 DEF StreakShort
    <2>7. TradeAt % WatchEvery \in Nat
      BY ScheduleAssumption
    <2> QED
      BY <1>1, <2>1, <2>4, <2>5, <2>6, <2>7, Facts DEF OneSaleFits
  <1>2. Known /\ [Next]_vars => [Lost]_vars
    <2> SUFFICES ASSUME Known, [Next]_vars, trader' = "gaveup", trader # "gaveup", OneSaleFits,
                        ~(overrun \/ held.sales > 1)
                 PROVE  FALSE
      OBVIOUS
    <2>1. CASE GiveUp
      BY <1>1, <2>1, Facts
    <2>2. CASE UNCHANGED trader
      BY <2>2
    <2>3. trader' # trader => trader' \in {"waiting", "holds", "idle", "cycle"} \/ GiveUp
      <3>1. CASE Next
        BY <3>1 DEF Next, Tick, CronSnapshot, SnapshotByHand, Truncate, Written, SnapshotDies,
           Watch, NothingToSell, FirstSale, Breached, SaleGoesOn, SaleEnds, WatcherDies,
           CronTrader, TakeLock, Load, CycleEnds, EarlierEnds, cycle
      <3>2. CASE UNCHANGED vars
        BY <3>2 DEF vars
      <3> QED
        BY <3>1, <3>2
    <2> QED
      BY <2>1, <2>3
  <1>3. LostBehindSales <=> [][Lost]_vars
    BY DEF LostBehindSales
  <1> HIDE DEF Lost
  <1> QED
    BY <1>2, <1>3, InitKnown, KnownStep, PTL DEF Spec

\* The invariant both rest on.
THEOREM ScheduleInvariant == Spec => []SInv
  <1>1. Known => SInv
    BY DEF Known
  <1> QED
    BY <1>1, InitKnown, KnownStep, PTL DEF Spec

\* On a crontab whose trader starts, with the wait, within SNAPSHOT_MAX_AGE_MIN
\* of the snapshot of the hour before, an hour whose own snapshot is missing is
\* still traded on prices that are not stale when they are read.
DeployedInTime == Hour + TradeAt - SnapAt + Wait <= MaxAge

THEOREM FallbackInTime ==
  ASSUME DeployedInTime, Known, Load,
         used' % Hour = SnapAt, trader' = "cycle", HourOf(asked) - HourOf(used') = 1
  PROVE  loaded' - used' <= MaxAge
  <1>1. now <= asked + Wait /\ asked % Hour = TradeAt /\ loaded' = now
    BY DEF Load, Known, SInv
  <1>2. used' \in 0..MaxNow
    BY LoadStep DEF Known, SInv, TypeOK
  <1> DEFINE p == HourOf(asked)
             q == HourOf(used')
  <1>3. /\ p \in Nat /\ asked = p * Hour + TradeAt
        /\ q \in Nat /\ used' = q * Hour + SnapAt
    <2>1. asked \in Nat /\ used' \in Nat
      BY <1>2, Facts
    <2>2. asked = p * Hour + (asked % Hour) /\ used' = q * Hour + (used' % Hour) /\ p \in Nat /\ q \in Nat
      BY <2>1, HourAndMinute
    <2> QED
      BY <1>1, <2>2
  <1>4. p = q + 1
    BY <1>3
  <1> HIDE DEF p, q
  <1>5. p * Hour = q * Hour + Hour /\ q * Hour \in Nat
    <2>1. Hour \in Nat
      BY ScheduleAssumption
    <2> QED
      BY <1>3, <1>4, <2>1
  <1>6. TradeAt \in Nat /\ SnapAt \in Nat
    BY ScheduleAssumption
  <1> QED
    BY <1>1, <1>2, <1>3, <1>5, <1>6, Facts DEF DeployedInTime

-----------------------------------------------------------------------------
(***************************************************************************)
(* The poll.                                                               *)
(***************************************************************************)
\* What is below an update is below its successor, and the other way round but
\* for the update itself.
LEMMA BelowNext == \A u \in Nat : Below(u + 1) \subseteq Below(u) \cup {u}
  BY DEF Below

\* Before anything happens nothing is confirmed or handled.
LEMMA InitInv == PollInit => IInv
  <1> SUFFICES ASSUME PollInit PROVE IInv
    OBVIOUS
  <1>1. PollTypeOK
    <2>1. /\ torn \in BOOLEAN /\ overlap \in BOOLEAN
          /\ pc \in [Poller -> {"idle", "asking", "handling", "saving"}]
      BY Zenon DEF PollInit
    <2>2. /\ offset \in [Poller -> Nat] /\ todo \in [Poller -> SUBSET Nat]
          /\ handled \subseteq Nat /\ answers \in Seq(0..2)
      BY DEF PollInit
    <2> QED
      BY <2>1, <2>2 DEF PollInit, PollTypeOK
  <1>2. Below(0) = {} /\ Below(1) = {}
    BY DEF Below
  <1> QED
    BY <1>1, <1>2 DEF PollInit, IInv

\* A process that ends leaves the invariant to the others: its own offset is 0.
LEMMA EndInv ==
  ASSUME IInv, NEW p \in Poller, End(p),
         newest' = newest, handled' = handled, answers' = answers,
         confirmed' \in Nat, Below(confirmed') \subseteq handled,
         stored' \in Nat, Below(stored') \subseteq handled,
         torn' \in BOOLEAN, overlap' \in BOOLEAN, troubles' \in Nat
  PROVE  IInv'
  <1>1. PollTypeOK'
    BY DEF End, Goto, IInv, PollTypeOK
  <1>2. ASSUME NEW q \in Poller
        PROVE  /\ todo'[q] \subseteq 1..newest'
               /\ Below(offset'[q]) \subseteq handled'
               /\ \A u \in todo'[q] : Below(u) \subseteq handled' \cup todo'[q]
    BY DEF End, IInv, PollTypeOK, Below
  <1> QED
    BY <1>1, <1>2 DEF IInv, Below

\* A poll that starts has the offset of the file, or none (_load_state).
LEMMA StartInv ==
  ASSUME IInv, NEW p \in Poller, Start(p)
  PROVE  IInv'
  <1>1. /\ UNCHANGED <<newest, confirmed, handled, answers, stored, torn, todo, troubles>>
        /\ offset' = [offset EXCEPT ![p] = IF torn THEN 0 ELSE stored]
    BY DEF Start, telegram, state
  <1>2. PollTypeOK'
    <2>1. overlap' \in BOOLEAN
      BY Zenon DEF Start
    <2>2. pc' \in [Poller -> {"idle", "asking", "handling", "saving"}]
      BY DEF Start, Goto, IInv, PollTypeOK
    <2> QED
      BY <1>1, <2>1, <2>2 DEF IInv, PollTypeOK
  <1>3. ASSUME NEW q \in Poller
        PROVE  Below(offset'[q]) \subseteq handled'
    BY <1>1 DEF IInv, PollTypeOK, Below
  <1> QED
    BY <1>1, <1>2, <1>3 DEF IInv, Below

\* A batch that starts at c has no gap to what is below c.
LEMMA NoGap ==
  ASSUME NEW c \in Nat, NEW n \in Nat, NEW h, Below(c) \subseteq h
  PROVE  LET B == {u \in 1..n : c <= u /\ u < c + Limit}
         IN  \A u \in B : Below(u) \subseteq h \cup B
  <1> DEFINE B == {u \in 1..n : c <= u /\ u < c + Limit}
  <1> SUFFICES ASSUME NEW u \in B, NEW v \in Below(u)
               PROVE  v \in h \cup B
    OBVIOUS
  <1>1. v \in 1..n /\ v < c + Limit
    BY LimitAssumption DEF Below
  <1>2. CASE v < c
    BY <1>1, <1>2 DEF Below
  <1>3. CASE c <= v
    BY <1>1, <1>3
  <1> QED
    BY <1>1, <1>2, <1>3

\* The answer of getUpdates: what it confirms was handled, and the batch starts
\* where the confirmed updates end.
LEMMA GetInv ==
  ASSUME IInv, NEW p \in Poller, GetUpdates(p)
  PROVE  IInv'
  <1>1. /\ UNCHANGED <<newest, handled, answers, stored, torn, offset, overlap, troubles>>
        /\ todo' = [todo EXCEPT ![p] = Batch]
        /\ confirmed' \in Nat /\ Below(confirmed') \subseteq handled
    BY DEF GetUpdates, Confirm, Larger, state, IInv, PollTypeOK
  <1>2. PollTypeOK'
    BY <1>1 DEF GetUpdates, Goto, Batch, IInv, PollTypeOK
  <1>3. ASSUME NEW q \in Poller
        PROVE  /\ todo'[q] \subseteq 1..newest
               /\ \A u \in todo'[q] : Below(u) \subseteq handled \cup todo'[q]
    <2>1. CASE q = p
      <3>1. todo'[q] = Batch
        BY <1>1, <2>1 DEF IInv, PollTypeOK
      <3>2. \A u \in Batch : Below(u) \subseteq handled \cup Batch
        BY <1>1, NoGap DEF Batch, IInv, PollTypeOK
      <3> QED
        BY <3>1, <3>2 DEF Batch
    <2>2. CASE q # p
      BY <1>1, <2>2 DEF IInv, PollTypeOK
    <2> QED
      BY <2>1, <2>2
  <1> QED
    BY <1>1, <1>2, <1>3 DEF IInv, Below

\* Looking at the first update of the batch: everything below it was handled,
\* so the offset may pass it.
LEMMA HandleInv ==
  ASSUME IInv, NEW p \in Poller, Handle(p)
  PROVE  IInv'
  <1>1. PICK u \in todo[p] :
          /\ \A v \in todo[p] : u <= v
          /\ offset' = [offset EXCEPT ![p] = u + 1]
          /\ todo' = [todo EXCEPT ![p] = @ \ {u}]
          /\ handled' = handled \cup {u}
          /\ answers' \in {answers, [answers EXCEPT ![u] = More(@)]}
    BY DEF Handle
  <1>2. UNCHANGED <<newest, confirmed, stored, torn, pc, overlap, troubles>>
    BY DEF Handle, state
  <1>3. u \in 1..newest /\ u \in Nat /\ newest \in Nat
    BY <1>1 DEF IInv, PollTypeOK
  <1>4. Below(u) \subseteq handled
    <2>1. ASSUME NEW v \in Below(u), v \in todo[p]
          PROVE  FALSE
      BY <1>1, <1>3, <2>1 DEF Below
    <2> QED
      BY <2>1 DEF IInv
  <1>5. answers' \in Seq(0..2) /\ Len(answers') = newest
    <2>1. answers \in Seq(0..2) /\ Len(answers) = newest /\ answers[u] \in 0..2
      BY <1>3 DEF IInv, PollTypeOK
    <2>2. More(answers[u]) \in 0..2
      BY <2>1 DEF More
    <2> QED
      BY <1>1, <1>3, <2>1, <2>2
  <1>6. PollTypeOK'
    BY <1>1, <1>2, <1>3, <1>5 DEF IInv, PollTypeOK
  <1>7. ASSUME NEW q \in Poller
        PROVE  /\ todo'[q] \subseteq 1..newest
               /\ Below(offset'[q]) \subseteq handled'
               /\ \A v \in todo'[q] : Below(v) \subseteq handled' \cup todo'[q]
    <2>1. CASE q = p
      <3>1. todo'[q] = todo[q] \ {u} /\ offset'[q] = u + 1
        BY <1>1, <2>1 DEF IInv, PollTypeOK
      <3> QED
        BY <1>1, <1>3, <1>4, <2>1, <3>1, BelowNext DEF IInv
    <2>2. CASE q # p
      <3>1. todo'[q] = todo[q] /\ offset'[q] = offset[q]
        BY <1>1, <2>2 DEF IInv, PollTypeOK
      <3> QED
        BY <1>1, <3>1 DEF IInv
    <2> QED
      BY <2>1, <2>2
  <1> QED
    BY <1>1, <1>2, <1>5, <1>6, <1>7 DEF IInv, Below

\* Every step keeps the invariant.
LEMMA StepInv ==
  ASSUME IInv, [PollNext]_pollVars
  PROVE  IInv'
  <1>1. CASE Arrive
    <2>1. answers' \in Seq(0..2) /\ Len(answers') = newest + 1
      BY <1>1 DEF Arrive, IInv, PollTypeOK
    <2>2. /\ newest' = newest + 1 /\ newest \in Nat
          /\ UNCHANGED <<confirmed, handled, stored, torn, pc, offset, todo, overlap, troubles>>
      BY <1>1 DEF Arrive, state, memory, IInv, PollTypeOK
    <2>3. PollTypeOK'
      BY <2>1, <2>2 DEF IInv, PollTypeOK
    <2>4. 1..newest \subseteq 1..newest'
      BY <2>2
    <2> QED
      BY <2>1, <2>2, <2>3, <2>4 DEF IInv, Below
  <1>2. ASSUME NEW p \in Poller, SaveTruncate(p)
        PROVE  IInv'
    BY <1>2 DEF SaveTruncate, Goto, IInv, PollTypeOK, telegram, memory, Below
  <1>3. ASSUME NEW p \in Poller, Save(p)
        PROVE  IInv'
    <2>1. stored' \in Nat /\ Below(stored') \subseteq handled
      BY <1>3 DEF Save, IInv, PollTypeOK
    <2> QED
      BY <1>3, <2>1, EndInv DEF Save, telegram, IInv, PollTypeOK
  <1>4. ASSUME NEW p \in Poller, GetUpdatesFails(p)
        PROVE  IInv'
    <2>1. confirmed' \in Nat /\ Below(confirmed') \subseteq handled
      BY <1>4 DEF GetUpdatesFails, Confirm, Larger, IInv, PollTypeOK
    <2> QED
      BY <1>4, <2>1, EndInv DEF GetUpdatesFails, Trouble, state, IInv, PollTypeOK
  <1>5. ASSUME NEW p \in Poller, SaveFails(p) \/ Crash(p)
        PROVE  IInv'
    <2>1. /\ End(p) /\ Trouble
          /\ UNCHANGED <<newest, confirmed, handled, answers, stored, torn, overlap>>
      BY <1>5 DEF SaveFails, Crash, telegram, state
    <2>2. /\ torn' \in BOOLEAN /\ overlap' \in BOOLEAN /\ troubles' \in Nat
          /\ confirmed' \in Nat /\ stored' \in Nat
      BY <2>1 DEF Trouble, IInv, PollTypeOK
    <2>3. Below(confirmed') \subseteq handled /\ Below(stored') \subseteq handled
      BY <2>1 DEF IInv
    <2> QED
      BY <2>1, <2>2, <2>3, EndInv
  <1>6. CASE UNCHANGED pollVars
    BY <1>6 DEF pollVars, IInv, PollTypeOK, Below
  <1> QED
    BY <1>1, <1>2, <1>3, <1>4, <1>5, <1>6, StartInv, GetInv, HandleInv DEF PollNext, Poll

\* No offset runs ahead of what was looked at, however the polls overlap,
\* crash or fail to save.
THEOREM OffsetsFollow == PollSpec => []IInv
  BY InitInv, StepInv, PTL DEF PollSpec

\* Telegram forgets no update that no poll has looked at (saldo.poll).
THEOREM NoneLost == PollSpec => []NothingLost
  <1>1. IInv => NothingLost
    BY DEF IInv, NothingLost, PollTypeOK, Below
  <1> QED
    BY <1>1, OffsetsFollow, PTL

-----------------------------------------------------------------------------
\* The next update of a batch, when polls neither overlap nor fail: it was not
\* looked at before, so its answer is the first.
LEMMA HandleAlone ==
  ASSUME IInv, AloneOK, NEW p \in Poller, Handle(p)
  PROVE  AloneOK'
  <1> SUFFICES ASSUME ~overlap, troubles = 0
               PROVE  AloneOK'
    BY DEF AloneOK, Handle
  <1>1. PICK u \in todo[p] :
          /\ offset' = [offset EXCEPT ![p] = u + 1]
          /\ todo' = [todo EXCEPT ![p] = @ \ {u}]
          /\ handled' = handled \cup {u}
          /\ answers' \in {answers, [answers EXCEPT ![u] = More(@)]}
          /\ \A v \in todo[p] : u <= v
    BY DEF Handle
  <1>2. /\ UNCHANGED <<newest, confirmed, stored, torn, pc, overlap, troubles>>
        /\ pc[p] = "handling"
    BY DEF Handle, state
  <1>3. /\ u \in 1..newest /\ newest \in Nat /\ todo[p] \subseteq 1..newest
        /\ DOMAIN answers = 1..newest /\ answers \in Seq(0..2) /\ handled \subseteq Nat
        /\ offset \in [Poller -> Nat] /\ todo \in [Poller -> SUBSET Nat]
    BY <1>1 DEF IInv, PollTypeOK
  <1>4. /\ handled \subseteq Below(offset[p]) /\ todo[p] \cap Below(offset[p]) = {}
        /\ \A q \in Poller : pc[q] # "idle" => q = p
        /\ \A v \in DOMAIN answers : answers[v] <= 1 /\ (answers[v] > 0 => v \in handled)
    <2>1. pc[p] # "idle"
      BY <1>2
    <2> QED
      BY <1>2, <2>1, Zenon DEF AloneOK
  <1>5. /\ u \notin handled /\ handled \subseteq Below(u)
        /\ handled' \subseteq Below(u + 1) /\ (todo[p] \ {u}) \cap Below(u + 1) = {}
    <2>1. u \notin Below(offset[p]) /\ offset[p] \in Nat /\ u \in Nat
      BY <1>1, <1>3, <1>4
    <2>2. handled \subseteq Below(u) /\ u \notin handled
      BY <1>4, <2>1, <1>3 DEF Below
    <2>3. \A v \in todo[p] \ {u} : v \notin Below(u + 1)
      <3>1. \A v \in todo[p] \ {u} : v \in Nat /\ u < v
        BY <1>1, <1>3
      <3> QED
        BY <2>1, <3>1 DEF Below
    <2>4. handled' \subseteq Below(u + 1)
      <3>1. u \in Below(u + 1) /\ Below(u) \subseteq Below(u + 1)
        BY <1>3 DEF Below
      <3> QED
        BY <1>1, <2>2, <3>1
    <2> QED
      BY <2>2, <2>3, <2>4
  <1>6. \A v \in DOMAIN answers' : answers'[v] <= 1 /\ (answers'[v] > 0 => v \in handled')
    <2>1. answers[u] = 0
      <3>1. answers[u] \in 0..2 /\ ~(answers[u] > 0)
        BY <1>3, <1>4, <1>5
      <3> QED
        BY <3>1
    <2>2. CASE answers' = answers
      BY <1>1, <1>4, <2>2
    <2>3. CASE answers' = [answers EXCEPT ![u] = More(@)]
      <3>1. More(answers[u]) = 1
        BY <2>1 DEF More
      <3>2. /\ DOMAIN answers' = DOMAIN answers
            /\ \A v \in DOMAIN answers : answers'[v] = IF v = u THEN 1 ELSE answers[v]
        BY <1>3, <2>3, <3>1
      <3> QED
        BY <1>1, <1>4, <3>2
    <2> QED
      BY <1>1, <2>2, <2>3
  <1>7. /\ offset'[p] = u + 1 /\ todo'[p] = todo[p] \ {u}
    BY <1>1, <1>3
  <1>8. torn => \E q \in Poller : pc[q] = "saving"
    BY DEF AloneOK
  <1> QED
    BY <1>2, <1>4, <1>5, <1>6, <1>7, <1>8 DEF AloneOK

\* Polls that neither overlap nor fail take their turns.
LEMMA AloneStep ==
  ASSUME IInv, AloneOK, [PollNext]_pollVars
  PROVE  AloneOK'
  <1>a. /\ pc \in [Poller -> {"idle", "asking", "handling", "saving"}]
        /\ offset \in [Poller -> Nat] /\ todo \in [Poller -> SUBSET Nat]
        /\ handled \subseteq Nat /\ answers \in Seq(0..2) /\ Len(answers) = newest
        /\ confirmed \in Nat /\ newest \in Nat /\ stored \in Nat /\ troubles \in Nat
    BY DEF IInv, PollTypeOK
  <1>1. CASE Arrive
    <2>1. /\ answers' = Append(answers, 0)
          /\ UNCHANGED <<handled, stored, torn, pc, offset, todo, overlap, troubles>>
      BY <1>1 DEF Arrive, state, memory
    <2>2. /\ DOMAIN answers' = 1..(newest + 1) /\ DOMAIN answers = 1..newest
          /\ answers'[newest + 1] = 0
          /\ \A v \in 1..newest : answers'[v] = answers[v]
      BY <1>a, <2>1
    <2>3. ASSUME ~overlap, troubles = 0, NEW u \in DOMAIN answers'
          PROVE  answers'[u] <= 1 /\ (answers'[u] > 0 => u \in handled)
      <3>1. u = newest + 1 \/ u \in DOMAIN answers
        BY <1>a, <2>2
      <3> QED
        BY <2>2, <2>3, <3>1 DEF AloneOK
    <2> QED
      BY <2>1, <2>3 DEF AloneOK
  <1>2. ASSUME NEW p \in Poller, Start(p)
        PROVE  AloneOK'
    <2> SUFFICES ASSUME ~overlap', troubles' = 0
                 PROVE  AloneOK'
      BY DEF AloneOK
    <2>1. /\ UNCHANGED <<newest, confirmed, handled, answers, stored, torn, todo, troubles>>
          /\ pc' = [pc EXCEPT ![p] = "asking"]
          /\ offset' = [offset EXCEPT ![p] = IF torn THEN 0 ELSE stored]
          /\ ~overlap /\ \A q \in Poller : pc[q] = "idle"
      BY <1>2 DEF Start, Goto, telegram, state
    <2>2. ~torn /\ handled \subseteq Below(stored)
      BY <2>1 DEF AloneOK
    <2> QED
      BY <1>a, <2>1, <2>2 DEF AloneOK
  <1>3. ASSUME NEW p \in Poller, GetUpdates(p)
        PROVE  AloneOK'
    <2>1. /\ UNCHANGED <<newest, handled, answers, stored, torn, offset, overlap, troubles>>
          /\ todo' = [todo EXCEPT ![p] = Batch]
          /\ pc[p] = "asking" /\ pc' = [pc EXCEPT ![p] = "handling"]
      BY <1>3 DEF GetUpdates, Goto, state
    <2>2. Batch \cap Below(offset[p]) = {}
      <3>1. confirmed' \in Nat /\ offset[p] \in Nat /\ offset[p] <= confirmed'
        BY <1>3, <1>a DEF GetUpdates, Confirm, Larger
      <3> QED
        BY <3>1 DEF Batch, Below
    <2> QED
      BY <1>a, <2>1, <2>2 DEF AloneOK
  <1>4. ASSUME NEW p \in Poller, SaveTruncate(p)
        PROVE  AloneOK'
    <2>1. /\ UNCHANGED <<handled, answers, stored, offset, todo, overlap, troubles>>
          /\ pc[p] = "handling" /\ pc' = [pc EXCEPT ![p] = "saving"]
      BY <1>4 DEF SaveTruncate, Goto, telegram, memory
    <2> QED
      BY <1>a, <2>1 DEF AloneOK
  <1>5. ASSUME NEW p \in Poller, Save(p)
        PROVE  AloneOK'
    <2>1. /\ UNCHANGED <<handled, answers, overlap, troubles>>
          /\ stored' = offset[p] /\ ~torn'
          /\ pc[p] = "saving" /\ pc' = [pc EXCEPT ![p] = "idle"]
      BY <1>5 DEF Save, End, Goto, telegram
    <2> QED
      BY <1>a, <2>1 DEF AloneOK
  <1>6. ASSUME NEW p \in Poller, GetUpdatesFails(p) \/ SaveFails(p) \/ Crash(p)
        PROVE  AloneOK'
    <2>1. troubles' # 0
      BY <1>6, <1>a DEF GetUpdatesFails, SaveFails, Crash, Trouble
    <2> QED
      BY <2>1 DEF AloneOK
  <1>7. CASE UNCHANGED pollVars
    BY <1>7 DEF pollVars, AloneOK, Below
  <1> QED
    BY <1>1, <1>2, <1>3, <1>4, <1>5, <1>6, <1>7, HandleAlone DEF PollNext, Poll

\* Polls that neither overlap nor fail answer a command once (_save_state).
THEOREM OneAnswer == PollSpec => []AnsweredOnce
  <1>1. PollInit => AloneOK
    BY DEF PollInit, AloneOK
  <1>2. AloneOK => AnsweredOnce
    BY DEF AloneOK, AnsweredOnce
  <1> QED
    BY <1>1, <1>2, AloneStep, OffsetsFollow, PTL DEF PollSpec
=============================================================================
