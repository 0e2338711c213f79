--------------------------- MODULE Replay_proofs ---------------------------
(***************************************************************************)
(* What module Replay promises of a replayed account and of what its       *)
(* entries know, for any history, gate, log of policies and settings.      *)
(***************************************************************************)
EXTENDS Replay, SumTheorems

\* The cap of the policy in force is a number, and the cap of the hour is within
\* it, where it has one, and within MAX_POSITIONS.
LEMMA CapBounds ==
  ASSUME NEW t \in Nat
  PROVE  /\ PolicyAt(t).cap \in Int /\ CapNow(PolicyAt(t)) \in Int
         /\ CapNow(PolicyAt(t)) <= MaxPositions
         /\ PolicyAt(t).cap # 0 => CapNow(PolicyAt(t)) <= PolicyAt(t).cap
  <1> DEFINE known == {i \in DOMAIN PolicyLog : PolicyLog[i].at <= t}
  <1>1. PolicyAt(t).cap \in Int
    <2>1. CASE known = {}
      BY <2>1, ReplayAssumption DEF PolicyAt, NoPolicy
    <2>2. CASE known # {}
      <3>1. Len(PolicyLog) \in Nat /\ known \in SUBSET (0..Len(PolicyLog))
        BY ReplayAssumption
      <3>2. Max(known) \in known
        BY <2>2, <3>1, Greatest
      <3>3. \A i \in DOMAIN PolicyLog : PolicyLog[i].cap \in Int
        <4> DEFINE P == [at : Nat, hint : STRING, blocked : SUBSET Coins, cap : Int]
        <4>1. PolicyLog \in Seq(P)
          BY ReplayAssumption
        <4>2. \A p \in P : p.cap \in Int
          OBVIOUS
        <4> HIDE DEF P
        <4>3. \A i \in DOMAIN PolicyLog : PolicyLog[i] \in P
          BY <4>1
        <4> QED
          BY <4>2, <4>3
      <3>4. PolicyLog[Max(known)].cap \in Int
        BY <3>2, <3>3
      <3> QED
        BY <2>2, <3>4 DEF PolicyAt
    <2> QED
      BY <2>1, <2>2
  <1> QED
    BY <1>1, ReplayAssumption DEF CapNow

\* A product of two numbers is one.
LEMMA TimesNat ==
  ASSUME NEW a \in Nat, NEW b \in Nat
  PROVE  a * b \in Nat
  OBVIOUS

\* A regime stays one of the three, whatever the gate and the policy say.
LEMMA RegimeType ==
  ASSUME NEW g, NEW r \in Readings, NEW flipped \in BOOLEAN, NEW hint
  PROVE  Effective(Says(g, r, flipped), hint) \in Regimes
  <1>1. r.live \in Regimes
    BY ReplayAssumption
  <1>2. Says(g, r, flipped) \in Regimes
    BY <1>1 DEF Says, Banded, OffBelow, MoreSevere, Regimes
  <1> QED
    BY <1>2 DEF Effective, MoreSevere

-----------------------------------------------------------------------------
\* The positions are finitely many, and one more or one less counts so.
LEMMA OpenCount ==
  ASSUME TypeOK
  PROVE  /\ IsFiniteSet(OpenCoins) /\ Cardinality(OpenCoins) \in Nat
  BY ReplayAssumption, FS_Subset, FS_CardinalityType DEF OpenCoins

\* The book of a replay that starts is in order.
LEMMA InitBook == Init => RInv
  <1> SUFFICES ASSUME Init PROVE RInv
    OBVIOUS
  <1>1. OpenCoins = {} /\ Cardinality(OpenCoins) = 0
    <2>1. OpenCoins = {}
      BY DEF Init, OpenCoins, NoPos
    <2> QED
      BY <2>1, FS_EmptySet
  <1>2. TypeOK
    <2>1. StartCash * Whole \in Int /\ MaxHour \in Nat
      BY ReplayAssumption
    <2>2. Nothing \in [Coins -> Nat] /\ NoPos \in Position
      BY <2>1 DEF Nothing, NoPos, Position
    <2>3. past \in [1..MaxHour -> [Coins -> Nat]] /\ open \in [Coins -> Position]
      BY <2>2 DEF Init
    <2>4. attempt \in [Coins -> -1..MaxHour]
      BY <2>1 DEF Init
    <2>5. off \in BOOLEAN
      BY DEF Init
    <2>6. /\ pc \in {"next", "exits", "entries"} /\ when \in 0..MaxHour
          /\ mark \in [Coins -> Nat] /\ prev \in [Coins -> Nat] /\ dayOpen \in [Coins -> Nat]
          /\ gate \in Gates /\ reg \in Regimes /\ below \in Nat /\ above \in Nat
          /\ cash \in Int /\ closed \subseteq Trade /\ todo \subseteq Coins /\ slots \in Int
      BY <2>1, <2>2 DEF Init, Regimes
    <2> QED
      BY <2>3, <2>4, <2>5, <2>6 DEF TypeOK
  <1>3. cash >= 0
    BY ReplayAssumption, TimesNat DEF Init
  <1>4. CapKept
    BY <1>1, ReplayAssumption DEF Init, CapKept
  <1>5. ThrottleKept
    BY <1>1 DEF Init, ThrottleKept
  <1> QED
    BY <1>2, <1>3, <1>4, <1>5 DEF RInv

\* A step that leaves the positions and the trades alone.
LEMMA QuietBook ==
  ASSUME RInv, UNCHANGED book
  PROVE  /\ OpenCoins' = OpenCoins /\ Cardinality(OpenCoins') = Cardinality(OpenCoins)
         /\ ThrottleKept' /\ cash' >= 0
  <1>1. OpenCoins' = OpenCoins
    BY DEF book, OpenCoins
  <1> QED
    BY <1>1 DEF RInv, ThrottleKept, book

\* A snapshot that is read keeps it so,
LEMMA BookCapture ==
  ASSUME RInv, NEW hour \in (when + 1)..MaxHour, NEW closes \in Quotes, NEW r \in Readings,
         Capture(hour, closes, r)
  PROVE  RInv'
  <1> USE DEF RInv
  <1>1. /\ closes \in [Coins -> Nat] /\ when \in 0..MaxHour /\ hour \in 1..MaxHour
        /\ mark \in [Coins -> Nat] /\ prev \in [Coins -> Nat] /\ MaxHour \in Nat
    BY ReplayAssumption DEF TypeOK
  <1>2. UNCHANGED book
    BY DEF Capture
  <1>3. OpenCoins' = OpenCoins /\ Cardinality(OpenCoins') = Cardinality(OpenCoins)
        /\ ThrottleKept' /\ cash' >= 0
    BY <1>2, QuietBook
  <1>4. TypeOK'
    <2>1. Merge(prev, mark) \in [Coins -> Nat]
      BY <1>1 DEF Merge
    <2>2. DayOpens(hour, closes) \in [Coins -> Nat]
      BY <1>1, <2>1 DEF DayOpens, TypeOK
    <2>3. below' \in Nat /\ above' \in Nat
      BY DEF Capture, TypeOK, Count
    <2>8. off' \in BOOLEAN
      BY DEF Capture, TypeOK
    <2>4. reg' \in Regimes
      BY <2>8, RegimeType DEF Capture
    <2>5. past' \in [1..MaxHour -> [Coins -> Nat]]
      BY <1>1 DEF Capture, TypeOK
    <2>6. todo' \subseteq Coins
      BY DEF Capture, OpenCoins
    <2>7. UNCHANGED <<cash, open, closed, attempt, gate, slots>>
      BY DEF Capture, book
    <2>9. /\ pc' \in {"next", "exits", "entries"} /\ when' \in 0..MaxHour
          /\ mark' \in [Coins -> Nat] /\ prev' \in [Coins -> Nat] /\ dayOpen' \in [Coins -> Nat]
      BY <1>1, <2>1, <2>2 DEF Capture
    <2> QED
      BY <2>3, <2>4, <2>5, <2>6, <2>7, <2>8, <2>9 DEF TypeOK
  <1>5. CapKept'
    BY <1>3 DEF Capture, CapKept
  <1> QED
    BY <1>3, <1>4, <1>5

\* and a position that is held or a coin that is passed over,
LEMMA BookHold ==
  ASSUME RInv, NEW c \in Coins, Hold(c) \/ Pass(c)
  PROVE  RInv'
  <1> USE DEF RInv
  <1>1. UNCHANGED <<market, rule, book, slots, pc>> /\ todo' = todo \ {c}
    BY DEF Hold, Pass
  <1>2. OpenCoins' = OpenCoins /\ ThrottleKept' /\ cash' >= 0
    BY <1>1, QuietBook
  <1>3. TypeOK'
    BY <1>1 DEF TypeOK, market, rule, book
  <1>4. CapKept'
    BY <1>1, <1>2 DEF CapKept, market
  <1> QED
    BY <1>2, <1>3, <1>4

\* an hour without entries,
LEMMA BookNoEntries ==
  ASSUME RInv, NoEntries
  PROVE  RInv'
  <1> USE DEF RInv
  <1>1. UNCHANGED <<market, rule, book, slots, todo>> /\ pc' = "next"
    BY DEF NoEntries
  <1>2. OpenCoins' = OpenCoins /\ ThrottleKept' /\ cash' >= 0
    BY <1>1, QuietBook
  <1>3. TypeOK'
    BY <1>1 DEF TypeOK, market, rule, book
  <1>4. CapKept'
    BY <1>1, <1>2 DEF CapKept
  <1> QED
    BY <1>2, <1>3, <1>4

\* the slots that are counted for entries,
LEMMA BookEntries ==
  ASSUME RInv, Entries
  PROVE  RInv'
  <1> USE DEF RInv
  <1>1. /\ UNCHANGED <<market, rule, book>> /\ pc' = "entries"
        /\ slots' = CapNow(PolicyAt(when)) - Cardinality(OpenCoins) /\ slots' > 0
        /\ todo' \subseteq Coins \ OpenCoins
    BY DEF Entries
  <1>2. OpenCoins' = OpenCoins /\ Cardinality(OpenCoins') = Cardinality(OpenCoins)
        /\ ThrottleKept' /\ cash' >= 0
    BY <1>1, QuietBook
  <1>3. /\ Cardinality(OpenCoins) \in Nat /\ CapNow(PolicyAt(when)) \in Int
        /\ CapNow(PolicyAt(when)) <= MaxPositions
        /\ PolicyAt(when).cap # 0 => CapNow(PolicyAt(when)) <= PolicyAt(when).cap
        /\ PolicyAt(when).cap \in Int /\ MaxPositions \in Nat
    <2>1. when \in Nat /\ MaxPositions \in Nat
      BY ReplayAssumption DEF TypeOK
    <2> QED
      BY <2>1, OpenCount, CapBounds
  <1>4. TypeOK'
    BY <1>1, <1>3 DEF TypeOK, market, rule, book
  <1>5. CapKept'
    <2>1. when' = when
      BY <1>1 DEF market
    <2> QED
      BY <1>1, <1>2, <1>3, <2>1 DEF CapKept
  <1> QED
    BY <1>2, <1>4, <1>5

\* the end of the entries,
LEMMA BookEntriesDone ==
  ASSUME RInv, EntriesDone
  PROVE  RInv'
  <1> USE DEF RInv
  <1>1. UNCHANGED <<market, rule, book>> /\ pc' = "next" /\ todo' = {} /\ slots' = 0
    BY DEF EntriesDone
  <1>2. OpenCoins' = OpenCoins /\ ThrottleKept' /\ cash' >= 0
    BY <1>1, QuietBook
  <1>3. TypeOK'
    BY <1>1 DEF TypeOK, market, rule, book
  <1>4. CapKept'
    BY <1>1, <1>2 DEF CapKept
  <1> QED
    BY <1>2, <1>3, <1>4

\* a position that is closed,
LEMMA BookExit ==
  ASSUME RInv, NEW c \in Coins, Exit(c)
  PROVE  RInv'
  <1> USE DEF RInv
  <1> DEFINE trade == [coin |-> c, qty |-> open[c].qty, entry |-> open[c].entry,
                       since |-> open[c].since, exit |-> mark[c], at |-> when]
  <1>1. /\ UNCHANGED <<pc, market, rule, attempt, slots>> /\ todo' = todo \ {c}
        /\ open' = [open EXCEPT ![c] = NoPos] /\ closed' = closed \cup {trade}
        /\ cash' = cash + Proceeds(trade) /\ pc = "exits" /\ c \in OpenCoins
    BY DEF Exit, CapKept
  <1>2. /\ open[c] \in Position /\ open[c].qty \in Nat \ {0} /\ open[c].entry \in Nat
        /\ open[c].since \in 0..MaxHour /\ mark[c] \in Nat /\ when \in 0..MaxHour
    BY <1>1 DEF TypeOK, Position, OpenCoins
  <1>3. trade \in Trade
    BY <1>2 DEF Trade
  <1>4. Proceeds(trade) \in Nat
    <2>1. Whole - Fee \in Nat /\ trade.qty \in Nat /\ trade.exit \in Nat
      BY <1>2, ReplayAssumption
    <2> QED
      BY <2>1, TimesNat DEF Proceeds
  <1>5. OpenCoins' = OpenCoins \ {c}
    BY <1>1 DEF OpenCoins, NoPos, TypeOK
  <1>6. /\ Cardinality(OpenCoins) \in Nat /\ Cardinality(OpenCoins') \in Nat
        /\ Cardinality(OpenCoins') <= Cardinality(OpenCoins)
    BY <1>5, OpenCount, FS_Subset, FS_CardinalityType
  <1>7. TypeOK'
    <2>1. MaxHour \in Nat /\ NoPos \in Position
      BY ReplayAssumption DEF NoPos, Position
    <2>2. open' \in [Coins -> Position]
      BY <1>1, <2>1 DEF TypeOK
    <2>3. closed' \subseteq Trade /\ cash' \in Int
      BY <1>1, <1>3, <1>4 DEF TypeOK
    <2> HIDE DEF trade
    <2> QED
      BY <1>1, <2>2, <2>3 DEF TypeOK, market, rule
  <1>8. cash' >= 0
    BY <1>1, <1>4 DEF TypeOK
  <1>9. CapKept'
    BY <1>1, <1>5, <1>6, ReplayAssumption DEF CapKept
  <1>10. ThrottleKept'
    <2>1. \A d \in OpenCoins' : open'[d] = open[d] /\ d # c /\ d \in OpenCoins
      BY <1>1, <1>5 DEF TypeOK, OpenCoins
    <2>2. \A d \in OpenCoins' : attempt'[d] = open'[d].since
      BY <1>1, <2>1 DEF ThrottleKept
    <2>3. \A t \in closed : t.since \in 0..MaxHour
      BY DEF TypeOK, Trade
    <2>4. \A t \in closed : t.coin = c => t.since + Throttle <= trade.since
      BY <1>1 DEF ThrottleKept
    <2>5. /\ trade.coin = c /\ trade.since = attempt[c] /\ trade.since \in 0..MaxHour
          /\ Throttle \in Nat /\ MaxHour \in Nat
      BY <1>1, <1>2, ReplayAssumption DEF ThrottleKept
    <2> HIDE DEF trade
    <2>6. ASSUME NEW t \in closed'
          PROVE  attempt'[t.coin] >= t.since
                 /\ (t.coin \in OpenCoins' => t.since + Throttle <= open'[t.coin].since)
      <3>1. CASE t \in closed
        BY <1>1, <2>1, <3>1 DEF ThrottleKept
      <3>2. CASE t = trade
        BY <1>1, <1>5, <2>5, <3>2
      <3> QED
        BY <1>1, <3>1, <3>2
    <2>7. ASSUME NEW t \in closed', NEW u \in closed', t.coin = u.coin, t.since < u.since
          PROVE  t.since + Throttle <= u.since
      <3>1. CASE t \in closed /\ u \in closed
        BY <2>7, <3>1 DEF ThrottleKept
      <3>2. CASE t \in closed /\ u = trade
        BY <2>4, <2>5, <2>7, <3>2
      <3>3. CASE t = trade /\ u \in closed
        <4>1. u.since + Throttle <= trade.since /\ u.since \in 0..MaxHour
          BY <2>3, <2>4, <2>5, <2>7, <3>3
        <4> QED
          BY <2>5, <2>7, <3>3, <4>1
      <3>4. CASE t = trade /\ u = trade
        BY <2>5, <2>7, <3>4
      <3> QED
        BY <1>1, <3>1, <3>2, <3>3, <3>4
    <2> QED
      BY <2>2, <2>6, <2>7 DEF ThrottleKept
  <1> QED
    BY <1>7, <1>8, <1>9, <1>10

\* and one that is opened.
LEMMA BookEnter ==
  ASSUME RInv, NEW c \in Coins, NEW n \in 1..MaxQty, NEW atr \in Atrs, Enter(c, n, atr)
  PROVE  RInv'
  <1> USE DEF RInv
  <1> DEFINE pos == [qty |-> n, entry |-> mark[c], since |-> when]
  <1>1. /\ UNCHANGED <<pc, market, rule, closed>> /\ todo' = todo \ {c}
        /\ open' = [open EXCEPT ![c] = pos] /\ attempt' = [attempt EXCEPT ![c] = when]
        /\ Cost(pos) <= cash /\ cash' = cash - Cost(pos)
        /\ slots' = slots - 1 /\ slots > 0 /\ pc = "entries" /\ c \in todo /\ ~Throttled(c)
    BY DEF Enter
  <1>2. /\ mark[c] \in Nat /\ when \in 0..MaxHour /\ n \in Nat \ {0}
        /\ MaxHour \in Nat /\ Throttle \in Nat
    BY ReplayAssumption DEF TypeOK
  <1>3. pos \in Position /\ pos.qty = n /\ pos.since = when
    BY <1>2 DEF Position
  <1>4. Cost(pos) \in Nat
    <2>1. Whole + Fee \in Nat /\ pos.qty \in Nat /\ pos.entry \in Nat
      BY <1>2, ReplayAssumption
    <2> QED
      BY <2>1, TimesNat DEF Cost
  <1> HIDE DEF pos
  <1>5. c \notin OpenCoins /\ OpenCoins' = OpenCoins \cup {c}
    BY <1>1, <1>2, <1>3 DEF CapKept, OpenCoins, TypeOK
  <1>6. /\ Cardinality(OpenCoins) \in Nat
        /\ Cardinality(OpenCoins') = Cardinality(OpenCoins) + 1
    BY <1>5, OpenCount, FS_AddElement
  <1>7. TypeOK'
    <2>1. open' \in [Coins -> Position] /\ attempt' \in [Coins -> -1..MaxHour]
      BY <1>1, <1>2, <1>3 DEF TypeOK
    <2>2. cash' \in Int /\ slots' \in Int
      BY <1>1, <1>4 DEF TypeOK
    <2> QED
      BY <1>1, <2>1, <2>2 DEF TypeOK, market, rule
  <1>8. cash' >= 0
    BY <1>1, <1>4 DEF TypeOK
  <1>9. CapKept'
    <2>1. when' = when /\ slots \in Int
      BY <1>1 DEF market, TypeOK
    <2>2. todo' \cap OpenCoins' = {}
      BY <1>1, <1>5 DEF CapKept
    <2>3. slots' >= 0 /\ Cardinality(OpenCoins') + slots' = Cardinality(OpenCoins) + slots
      BY <1>1, <1>6, <2>1
    <2>4. Cardinality(OpenCoins') <= MaxPositions
      BY <1>1, <1>6, <2>1, <2>3, ReplayAssumption DEF CapKept
    <2> QED
      BY <1>1, <2>1, <2>2, <2>3, <2>4 DEF CapKept
  <1>10. ThrottleKept'
    <2>1. \A t \in closed : t \in Trade /\ t.coin \in Coins /\ t.since \in 0..MaxHour
      BY DEF TypeOK, Trade
    <2>2. attempt[c] \in -1..MaxHour
      BY DEF TypeOK
    <2>3. \A t \in closed : t.coin = c => t.since + Throttle <= when
      BY <1>1, <1>2, <2>1, <2>2 DEF ThrottleKept, Throttled
    <2>4. attempt'[c] = when /\ open'[c].since = when
      BY <1>1, <1>3 DEF TypeOK
    <2>5. \A d \in Coins : d # c => attempt'[d] = attempt[d] /\ open'[d] = open[d]
      BY <1>1 DEF TypeOK
    <2>6. \A d \in OpenCoins' : attempt'[d] = open'[d].since
      BY <1>5, <2>4, <2>5 DEF ThrottleKept, OpenCoins
    <2>7. ASSUME NEW t \in closed
          PROVE  attempt'[t.coin] >= t.since
                 /\ (t.coin \in OpenCoins' => t.since + Throttle <= open'[t.coin].since)
      <3>1. CASE t.coin = c
        BY <1>2, <2>1, <2>3, <2>4, <3>1
      <3>2. CASE t.coin # c
        BY <1>5, <2>1, <2>5, <3>2 DEF ThrottleKept
      <3> QED
        BY <3>1, <3>2
    <2>8. \A t, u \in closed :
             t.coin = u.coin /\ t.since < u.since => t.since + Throttle <= u.since
      BY DEF ThrottleKept
    <2>9. closed' = closed
      BY <1>1
    <2> QED
      BY <2>6, <2>7, <2>8, <2>9 DEF ThrottleKept
  <1> QED
    BY <1>7, <1>8, <1>9, <1>10

\* Every step keeps the book in order.
LEMMA BookStep == RInv /\ [Next]_vars => RInv'
  <1> SUFFICES ASSUME RInv, [Next]_vars PROVE RInv'
    OBVIOUS
  <1>1. CASE UNCHANGED vars
    <2>1. OpenCoins' = OpenCoins /\ ThrottleKept' /\ cash' >= 0
      BY <1>1, QuietBook DEF vars, book
    <2> QED
      BY <1>1, <2>1 DEF vars, RInv, TypeOK, CapKept
  <1>2. CASE \E hour \in (when + 1)..MaxHour, closes \in Quotes, r \in Readings :
                 Capture(hour, closes, r)
    BY <1>2, BookCapture
  <1>3. CASE \E c \in Coins : Hold(c) \/ Exit(c) \/ Pass(c)
    BY <1>3, BookHold, BookExit
  <1>4. CASE NoEntries
    BY <1>4, BookNoEntries
  <1>5. CASE Entries
    BY <1>5, BookEntries
  <1>6. CASE \E c \in Coins, n \in 1..MaxQty, atr \in Atrs : Enter(c, n, atr)
    BY <1>6, BookEnter
  <1>7. CASE EntriesDone
    BY <1>7, BookEntriesDone
  <1> QED
    BY <1>1, <1>2, <1>3, <1>4, <1>5, <1>6, <1>7 DEF Next

\* The replay's account at every hour: its state has its type, its cash never
\* goes below zero, the book keeps to MAX_POSITIONS and an hour's entries to the
\* policy in force, and the entries of a coin are the throttle apart.
THEOREM ReplayAccount == Spec => []RInv
  <1> QED
    BY InitBook, BookStep, PTL DEF Spec

-----------------------------------------------------------------------------
\* A later hour is of no earlier day.
LEMMA DayMono ==
  ASSUME NEW a \in Nat, NEW b \in Nat, a <= b
  PROVE  a \div Day <= b \div Day /\ a \div Day \in Nat
  <1> DEFINE p == a \div Day
             q == b \div Day
  <1>1. Day \in Nat \ {0}
    BY ReplayAssumption
  <1>2. p \in Nat /\ q \in Nat /\ p * Day <= a /\ b < q * Day + Day
    BY <1>1
  <1> HIDE DEF p, q
  <1>3. SUFFICES ASSUME p >= q + 1 PROVE FALSE
    BY <1>2 DEF p, q
  <1>4. PICK k \in Nat : p = q + 1 + k
    <2>1. p - q - 1 \in Nat /\ p = q + 1 + (p - q - 1)
      BY <1>2, <1>3
    <2> QED
      BY <2>1
  <1>5. p * Day = q * Day + Day + k * Day /\ k * Day \in Nat /\ q * Day \in Nat
    BY <1>1, <1>2, <1>4
  <1> QED
    BY <1>1, <1>2, <1>5

\* Nothing has been read of the hours to come, and the hour's closes are its own.
Read ==
    /\ \A h \in 1..MaxHour : h > when => past[h] = Nothing
    /\ when > 0 => past[when] = mark
    /\ when = 0 => mark = Nothing /\ prev = Nothing

KInv == TypeOK /\ Read /\ NoLookahead

\* A replay that starts has read nothing.
LEMMA InitKnown == Init => Read /\ NoLookahead
  BY DEF Init, Read, NoLookahead

\* A step that reads no snapshot.
LEMMA QuietKnown ==
  ASSUME KInv, UNCHANGED market
  PROVE  Read' /\ NoLookahead'
  BY DEF KInv, Read, NoLookahead, IsLast, Before, BeforeToday, market

\* The closes known before an hour are the last ones of the hours before it.
LEMMA LastKnown ==
  ASSUME KInv, NEW c \in Coins, NEW hour \in (when + 1)..MaxHour,
         NEW p \in [1..MaxHour -> [Coins -> Nat]], \A h \in 1..MaxHour : h # hour => p[h] = past[h]
  PROVE  LET x == Merge(prev, mark)[c]
         IN  IF x = 0 THEN \A h \in 1..MaxHour : h < hour => p[h][c] = 0
             ELSE \E h \in 1..MaxHour : /\ h < hour /\ p[h][c] = x
                                        /\ h <= when
                                        /\ \A k \in 1..MaxHour : h < k /\ k < hour => p[k][c] = 0
  <1>1. /\ when \in 0..MaxHour /\ MaxHour \in Nat /\ hour \in 1..MaxHour /\ when < hour
        /\ mark[c] \in Nat /\ prev[c] \in Nat
    BY ReplayAssumption DEF KInv, TypeOK
  <1>2. \A h \in 1..MaxHour : h < hour => p[h] = past[h]
    BY <1>1
  <1>3. \A h \in 1..MaxHour : h > when => past[h][c] = 0
    BY DEF KInv, Read, Nothing
  <1>4. CASE when = 0
    <2>1. Merge(prev, mark)[c] = 0
      BY <1>4 DEF KInv, Read, Nothing, Merge
    <2>2. \A h \in 1..MaxHour : h < hour => p[h][c] = 0
      BY <1>1, <1>2, <1>3, <1>4
    <2> QED
      BY <2>1, <2>2
  <1>5. CASE when > 0 /\ mark[c] # 0
    <2>1. Merge(prev, mark)[c] = mark[c] /\ past[when] = mark /\ when \in 1..MaxHour
      BY <1>1, <1>5 DEF KInv, Read, Merge
    <2>2. p[when][c] = mark[c]
      BY <1>1, <1>2, <2>1
    <2>3. \A k \in 1..MaxHour : when < k /\ k < hour => p[k][c] = 0
      BY <1>2, <1>3
    <2> QED
      BY <1>1, <1>5, <2>1, <2>2, <2>3
  <1>6. CASE when > 0 /\ mark[c] = 0
    <2>1. Merge(prev, mark)[c] = prev[c] /\ past[when] = mark /\ when \in 1..MaxHour
      BY <1>1, <1>6 DEF KInv, Read, Merge
    <2>2. IsLast(prev[c], c, Before)
      BY <1>6 DEF KInv, NoLookahead
    <2>3. \A k \in 1..MaxHour : k >= when /\ k < hour => p[k][c] = 0
      BY <1>1, <1>2, <1>3, <1>6, <2>1
    <2>4. CASE prev[c] = 0
      <3>1. \A h \in 1..MaxHour : h < when => past[h][c] = 0
        BY <2>2, <2>4 DEF IsLast, Before
      <3>2. \A h \in 1..MaxHour : h < hour => p[h][c] = 0
        BY <1>1, <1>2, <2>3, <3>1
      <3> QED
        BY <2>1, <2>4, <3>2
    <2>5. CASE prev[c] # 0
      <3>1. PICK h \in 1..MaxHour : /\ h < when /\ past[h][c] = prev[c]
                                    /\ \A k \in 1..MaxHour : h < k /\ k < when => past[k][c] = 0
        BY <2>2, <2>5 DEF IsLast, Before
      <3>2. ASSUME NEW k \in 1..MaxHour, h < k, k < hour PROVE p[k][c] = 0
        <4>1. CASE k < when
          BY <1>2, <3>1, <3>2, <4>1
        <4>2. CASE k >= when
          BY <2>3, <3>2, <4>2
        <4> QED
          BY <1>1, <4>1, <4>2
      <3>3. h < hour /\ h <= when /\ p[h][c] = prev[c]
        BY <1>1, <1>2, <3>1
      <3> QED
        BY <2>1, <2>5, <3>2, <3>3
    <2> QED
      BY <2>4, <2>5
  <1> QED
    BY <1>1, <1>4, <1>5, <1>6

\* The next snapshot keeps what is known before an hour and before its day.
LEMMA KnownCapture ==
  ASSUME KInv, NEW hour \in (when + 1)..MaxHour, NEW closes \in Quotes, NEW r \in Readings,
         Capture(hour, closes, r)
  PROVE  Read' /\ NoLookahead'
  <1> DEFINE known == Merge(prev, mark)
  <1>1. /\ when' = hour /\ mark' = closes /\ prev' = known
        /\ past' = [past EXCEPT ![hour] = closes] /\ dayOpen' = DayOpens(hour, closes)
    BY DEF Capture
  <1>2. /\ when \in 0..MaxHour /\ MaxHour \in Nat /\ hour \in 1..MaxHour /\ when < hour
        /\ past \in [1..MaxHour -> [Coins -> Nat]] /\ closes \in [Coins -> Nat]
        /\ known \in [Coins -> Nat]
    BY ReplayAssumption DEF KInv, TypeOK, Merge
  <1>3. /\ past' \in [1..MaxHour -> [Coins -> Nat]] /\ past'[hour] = closes
        /\ \A h \in 1..MaxHour : h # hour => past'[h] = past[h]
    BY <1>1, <1>2
  <1>4. Read'
    BY <1>1, <1>2, <1>3 DEF KInv, Read
  <1>5. ASSUME NEW c \in Coins
        PROVE  IF known[c] = 0 THEN \A h \in 1..MaxHour : h < hour => past'[h][c] = 0
               ELSE \E h \in 1..MaxHour :
                        /\ h < hour /\ past'[h][c] = known[c] /\ h <= when
                        /\ \A k \in 1..MaxHour : h < k /\ k < hour => past'[k][c] = 0
    BY <1>3, LastKnown
  <1> HIDE DEF known
  <1>6. \A c \in Coins : IsLast(prev[c], c, Before)'
    BY <1>1, <1>5 DEF IsLast, Before
  <1>7. IF \E h \in BeforeToday' : past'[h] # Nothing
        THEN \A c \in Coins : IsLast(dayOpen[c], c, BeforeToday)'
        ELSE \E h \in 1..hour : /\ dayOpen' = past'[h]
                                /\ \A k \in 1..h : k # h => past'[k] = Nothing
    <2>1. CASE when # 0 /\ hour \div Day = when \div Day
      <3>1. dayOpen' = dayOpen /\ BeforeToday' = BeforeToday
        BY <1>1, <2>1 DEF DayOpens, BeforeToday
      <3>2. \A h \in BeforeToday : h \in 1..MaxHour /\ past'[h] = past[h]
        <4>1. hour \notin BeforeToday
          BY <1>2, <2>1, DayMono DEF BeforeToday
        <4> QED
          BY <1>3, <4>1 DEF BeforeToday
      <3>3. CASE \E h \in BeforeToday : past[h] # Nothing
        <4>1. \A c \in Coins : IsLast(dayOpen[c], c, BeforeToday)
          BY <1>2, <2>1, <3>3 DEF KInv, NoLookahead
        <4> QED
          BY <3>1, <3>2, <3>3, <4>1 DEF IsLast
      <3>4. CASE ~ \E h \in BeforeToday : past[h] # Nothing
        <4>1. PICK h \in 1..when : /\ dayOpen = past[h]
                                   /\ \A k \in 1..h : k # h => past[k] = Nothing
          BY <1>2, <2>1, <3>4 DEF KInv, NoLookahead
        <4>2. h \in 1..hour /\ \A k \in 1..h : past'[k] = past[k]
          BY <1>2, <1>3, <4>1
        <4>3. /\ dayOpen' = past'[h]
              /\ \A k \in 1..h : k # h => past'[k] = Nothing
          BY <3>1, <4>1, <4>2
        <4> QED
          BY <3>1, <3>2, <3>4, <4>2, <4>3
      <3> QED
        BY <3>3, <3>4
    <2>2. CASE when = 0 \/ hour \div Day # when \div Day
      <3>1. dayOpen' = IF known = Nothing THEN closes ELSE known
        BY <1>1, <2>2 DEF DayOpens, known
      <3>2. \A h \in BeforeToday' : h \in 1..MaxHour /\ h < hour
        BY <1>1, <1>2, DayMono DEF BeforeToday
      <3>3. \A h \in 1..MaxHour : h <= when => h \in BeforeToday'
        <4>1. ASSUME NEW h \in 1..MaxHour, h <= when PROVE h \div Day < hour \div Day
          <5>1. h \div Day <= when \div Day /\ h \div Day \in Nat
            BY <1>2, <4>1, DayMono
          <5>2. when \div Day <= hour \div Day /\ when \div Day \in Nat /\ hour \div Day \in Nat
            BY <1>2, DayMono
          <5>3. hour \div Day # when \div Day
            BY <1>2, <2>2, <4>1
          <5> QED
            BY <5>1, <5>2, <5>3
        <4> QED
          BY <1>1, <4>1 DEF BeforeToday
      <3>4. CASE known = Nothing
        <4>1. \A c \in Coins : known[c] = 0
          BY <3>4 DEF Nothing
        <4>2. ASSUME NEW h \in 1..MaxHour, h < hour PROVE past'[h] = Nothing
          <5>1. past'[h] \in [Coins -> Nat] /\ \A c \in Coins : past'[h][c] = 0
            BY <1>3, <1>5, <4>1, <4>2
          <5> QED
            BY <5>1 DEF Nothing
        <4>3. hour \in 1..hour /\ dayOpen' = past'[hour]
          BY <1>2, <1>3, <3>1, <3>4
        <4>4. \A k \in 1..hour : k # hour => past'[k] = Nothing
          BY <1>2, <4>2
        <4> QED
          BY <3>2, <4>2, <4>3, <4>4
      <3>5. CASE known # Nothing
        <4>1. dayOpen' = known
          BY <3>1, <3>5
        <4>2. PICK c \in Coins : known[c] # 0
          BY <1>2, <3>5 DEF Nothing
        <4>3. PICK h \in 1..MaxHour : h <= when /\ past'[h][c] = known[c]
          BY <1>5, <4>2
        <4>4. h \in BeforeToday' /\ past'[h] # Nothing
          BY <3>3, <4>2, <4>3 DEF Nothing
        <4>5. ASSUME NEW d \in Coins PROVE IsLast(dayOpen[d], d, BeforeToday)'
          <5>1. CASE known[d] = 0
            BY <1>5, <3>2, <4>1, <5>1 DEF IsLast
          <5>2. CASE known[d] # 0
            <6>1. PICK j \in 1..MaxHour :
                      /\ past'[j][d] = known[d] /\ j <= when
                      /\ \A k \in 1..MaxHour : j < k /\ k < hour => past'[k][d] = 0
              BY <1>5, <5>2
            <6>2. j \in BeforeToday' /\ \A k \in BeforeToday' : k > j => past'[k][d] = 0
              BY <3>2, <3>3, <6>1
            <6> QED
              BY <4>1, <5>2, <6>1, <6>2 DEF IsLast
          <5> QED
            BY <5>1, <5>2
        <4> QED
          BY <4>4, <4>5
      <3> QED
        BY <3>4, <3>5
    <2> QED
      BY <2>1, <2>2
  <1> QED
    BY <1>1, <1>4, <1>6, <1>7 DEF NoLookahead

\* Every step keeps what is read behind the clock.
LEMMA KnownStep == KInv /\ [Next]_vars => Read' /\ NoLookahead'
  <1> SUFFICES ASSUME KInv, [Next]_vars PROVE Read' /\ NoLookahead'
    OBVIOUS
  <1>1. CASE \E hour \in (when + 1)..MaxHour, closes \in Quotes, r \in Readings :
                 Capture(hour, closes, r)
    BY <1>1, KnownCapture
  <1>2. CASE UNCHANGED market
    BY <1>2, QuietKnown
  <1>3. \/ \E hour \in (when + 1)..MaxHour, closes \in Quotes, r \in Readings :
               Capture(hour, closes, r)
        \/ UNCHANGED market
    BY DEF Next, Hold, Exit, Pass, NoEntries, Entries, Enter, EntriesDone, vars, market
  <1> QED
    BY <1>1, <1>2, <1>3

\* An entry of the replay is decided on closes of earlier hours, and its change
\* on the day against closes of earlier days (of the first snapshot on the first
\* day of all), over any hours and closes that are missing (replay.py:80-106).
THEOREM ReplayReadsThePast == Spec => []NoLookahead
  <1>1. Init => KInv
    BY InitBook, InitKnown DEF KInv, RInv
  <1>2. RInv /\ KInv /\ [Next]_vars => KInv'
    BY BookStep, KnownStep DEF KInv, RInv
  <1>3. KInv => NoLookahead
    BY DEF KInv
  <1> QED
    BY <1>1, <1>2, <1>3, ReplayAccount, PTL DEF Spec

-----------------------------------------------------------------------------
(***************************************************************************)
(* The books balance.  A trade is new when it is booked: the trades closed *)
(* in this hour are of coins that are not open any more.                   *)
(***************************************************************************)
Booked ==
    /\ IsFiniteSet(closed)
    /\ \A t \in closed : t.at <= when
                         /\ (pc = "exits" /\ t.at = when => t.coin \notin OpenCoins)

Net(S)     == SumFunction([t \in S |-> PnlNet(t)])
Paid(o, S) == SumFunction([c \in S |-> Cost(o[c])])

\* The cost of a position and the result of a trade are numbers.
LEMMA MoneyType ==
    /\ \A p \in Position : Cost(p) \in Int
    /\ \A t \in Trade : PnlNet(t) \in Int /\ Proceeds(t) \in Int /\ Cost(t) \in Int
                        /\ PnlNet(t) = Proceeds(t) - Cost(t)
  <1>1. Whole + Fee \in Nat /\ Whole - Fee \in Nat
    BY ReplayAssumption
  <1>2. ASSUME NEW p \in Position PROVE Cost(p) \in Int
    <2>1. p.qty \in Nat /\ p.entry \in Nat
      BY DEF Position
    <2> QED
      BY <1>1, <2>1, TimesNat DEF Cost
  <1>3. ASSUME NEW t \in Trade PROVE Cost(t) \in Int /\ Proceeds(t) \in Int
    <2>1. t.qty \in Nat /\ t.entry \in Nat /\ t.exit \in Nat
      BY DEF Trade
    <2>2. t.qty * t.entry \in Nat /\ t.qty * t.exit \in Nat
      BY <2>1, TimesNat
    <2> QED
      BY <1>1, <2>2, TimesNat DEF Cost, Proceeds
  <1> QED
    BY <1>2, <1>3 DEF PnlNet

\* A trade more adds its result.
LEMMA NetAdd ==
  ASSUME NEW S \in SUBSET Trade, IsFiniteSet(S), NEW t \in Trade, t \notin S
  PROVE  Net(S) \in Int /\ Net(S \cup {t}) = Net(S) + PnlNet(t)
  <1> DEFINE f == [x \in S |-> PnlNet(x)]
             g == [x \in S \cup {t} |-> PnlNet(x)]
  <1>1. DOMAIN f = S /\ DOMAIN g = S \cup {t} /\ g[t] = PnlNet(t)
        /\ \A x \in S : f[x] = g[x]
    OBVIOUS
  <1>2. (\A x \in S : f[x] \in Int) /\ \A x \in S \cup {t} : g[x] \in Int
    BY MoneyType
  <1>3. Net(S) = SumFunction(f) /\ Net(S \cup {t}) = SumFunction(g)
    BY DEF Net
  <1> HIDE DEF f, g
  <1> QED
    BY <1>1, <1>2, <1>3, SumFunctionType, SumFunctionAdd

\* A position more adds its cost, and the others may be kept by another book.
LEMMA PaidAdd ==
  ASSUME NEW o \in [Coins -> Position], NEW q \in [Coins -> Position],
         NEW S \in SUBSET Coins, NEW c \in Coins, c \notin S, \A d \in S : o[d] = q[d]
  PROVE  Paid(o, S) \in Int /\ Paid(q, S \cup {c}) = Paid(o, S) + Cost(q[c])
  <1> DEFINE f == [x \in S |-> Cost(o[x])]
             g == [x \in S \cup {c} |-> Cost(q[x])]
  <1>1. DOMAIN f = S /\ DOMAIN g = S \cup {c} /\ g[c] = Cost(q[c])
        /\ \A x \in S : f[x] = g[x]
    OBVIOUS
  <1>2. (\A x \in S : f[x] \in Int) /\ \A x \in S \cup {c} : g[x] \in Int
    BY MoneyType
  <1>3. Paid(o, S) = SumFunction(f) /\ Paid(q, S \cup {c}) = SumFunction(g)
    BY DEF Paid
  <1>4. IsFiniteSet(S)
    BY ReplayAssumption, FS_Subset
  <1> HIDE DEF f, g
  <1> QED
    BY <1>1, <1>2, <1>3, <1>4, SumFunctionType, SumFunctionAdd

\* No trade, no position: nothing is added up.
LEMMA NothingBooked == Net({}) = 0 /\ \A o : Paid(o, {}) = 0
  <1>1. ASSUME NEW f, DOMAIN f = {} PROVE SumFunction(f) = 0
    BY <1>1, SumEmpty DEF SumFunction
  <1>2. Net({}) = 0
    BY <1>1 DEF Net
  <1>3. ASSUME NEW o PROVE Paid(o, {}) = 0
    BY <1>1 DEF Paid
  <1> QED
    BY <1>2, <1>3

\* The balance of the books, in this state and in the next, as sums.
LEMMA Balance ==
    /\ BooksBalance <=> cash = StartCash * Whole + Net(closed) - Paid(open, OpenCoins)
    /\ BooksBalance' <=> cash' = StartCash * Whole + Net(closed') - Paid(open', OpenCoins')
  BY DEF BooksBalance, Net, Paid

\* Nothing is booked at first, and the cash is the whole of the account.
LEMMA InitBalance == Init => Booked /\ BooksBalance
  <1> SUFFICES ASSUME Init PROVE Booked /\ BooksBalance
    OBVIOUS
  <1>1. OpenCoins = {} /\ closed = {} /\ cash = StartCash * Whole
    BY DEF Init, OpenCoins, NoPos
  <1>2. StartCash * Whole \in Int
    BY ReplayAssumption
  <1> QED
    BY <1>1, <1>2, NothingBooked, Balance, FS_EmptySet DEF Booked

\* A step without a trade.
LEMMA QuietBalance ==
  ASSUME Booked, BooksBalance, UNCHANGED book
  PROVE  BooksBalance' /\ OpenCoins' = OpenCoins
  <1>1. OpenCoins' = OpenCoins
    BY DEF book, OpenCoins
  <1> QED
    BY <1>1, Balance DEF book

\* The hour of a trade is never ahead.
LEMMA QuietBooked ==
  ASSUME TypeOK, Booked, UNCHANGED book, when' \in Nat,
         \/ when' > when
         \/ when' = when /\ (pc' = "exits" => pc = "exits")
  PROVE  Booked'
  <1>1. OpenCoins' = OpenCoins /\ closed' = closed
    BY DEF book, OpenCoins
  <1>2. \A t \in closed : t.at \in Nat
    BY ReplayAssumption DEF TypeOK, Trade
  <1>3. when \in Nat
    BY ReplayAssumption DEF TypeOK
  <1> QED
    BY <1>1, <1>2, <1>3 DEF Booked

\* A sale moves what its position cost, and its gain, back into the cash.
LEMMA BalanceExit ==
  ASSUME RInv, Booked, BooksBalance, NEW c \in Coins, Exit(c)
  PROVE  Booked' /\ BooksBalance'
  <1>1. PICK trade : /\ trade = [coin |-> c, qty |-> open[c].qty, entry |-> open[c].entry,
                                 since |-> open[c].since, exit |-> mark[c], at |-> when]
                     /\ closed' = closed \cup {trade} /\ cash' = cash + Proceeds(trade)
    BY DEF Exit
  <1>2. /\ TypeOK /\ open' = [open EXCEPT ![c] = NoPos] /\ c \in OpenCoins /\ pc = "exits"
        /\ UNCHANGED <<pc, when>>
    BY DEF RInv, Exit, CapKept, market
  <1>3. trade \in Trade
    <2>1. /\ open[c].qty \in Nat \ {0} /\ open[c].entry \in Nat
          /\ open[c].since \in 0..MaxHour /\ mark[c] \in Nat /\ when \in 0..MaxHour
      BY <1>2 DEF TypeOK, Position, OpenCoins
    <2> QED
      BY <1>1, <2>1 DEF Trade
  <1>4. trade \notin closed /\ closed \in SUBSET Trade /\ IsFiniteSet(closed)
    BY <1>1, <1>2 DEF Booked, TypeOK
  <1>5. OpenCoins' = OpenCoins \ {c}
    BY <1>2 DEF OpenCoins, NoPos, TypeOK
  <1>6. Booked'
    <2>1. IsFiniteSet(closed')
      BY <1>1, <1>4, FS_AddElement
    <2>2. trade.at = when /\ trade.coin = c /\ when \in Int
      BY <1>1, <1>2, ReplayAssumption DEF TypeOK
    <2> QED
      BY <1>1, <1>2, <1>5, <2>1, <2>2 DEF Booked
  <1>7. Net(closed) \in Int /\ Net(closed') = Net(closed) + PnlNet(trade)
    BY <1>1, <1>2, <1>3, <1>4, NetAdd
  <1>8. PICK S \in SUBSET Coins : S = OpenCoins \ {c} /\ c \notin S /\ OpenCoins = S \cup {c}
    <2>1. OpenCoins \ {c} \in SUBSET Coins /\ OpenCoins = (OpenCoins \ {c}) \cup {c}
      BY <1>2 DEF OpenCoins
    <2> QED
      BY <2>1
  <1>9. PICK o \in [Coins -> Position] : o = open' /\ \A d \in S : o[d] = open[d]
    <2>1. open' \in [Coins -> Position]
      <3>1. MaxHour \in Nat
        BY ReplayAssumption
      <3>2. NoPos \in Position
        BY <3>1 DEF NoPos, Position
      <3> QED
        BY <1>2, <3>2 DEF TypeOK
    <2>2. \A d \in S : open'[d] = open[d]
      BY <1>2, <1>8 DEF TypeOK
    <2> QED
      BY <2>1, <2>2
  <1>10. Paid(o, S) \in Int /\ Paid(open, S \cup {c}) = Paid(o, S) + Cost(open[c])
    <2>1. PICK q \in [Coins -> Position] : q = open
      BY <1>2 DEF TypeOK
    <2>2. c \notin S /\ \A d \in S : o[d] = q[d]
      BY <1>8, <1>9, <2>1
    <2>3. Paid(o, S) \in Int /\ Paid(q, S \cup {c}) = Paid(o, S) + Cost(q[c])
      BY <2>2, PaidAdd
    <2> QED
      BY <2>1, <2>3
  <1>11. Cost(open[c]) = Cost(trade) /\ Cost(trade) \in Int /\ Proceeds(trade) \in Int
         /\ PnlNet(trade) = Proceeds(trade) - Cost(trade)
    BY <1>1, <1>2, <1>3, MoneyType DEF Cost
  <1>12. Paid(open, OpenCoins) = Paid(open', OpenCoins') + Cost(trade)
         /\ Paid(open', OpenCoins') \in Int
    BY <1>5, <1>8, <1>9, <1>10, <1>11
  <1>13. cash = StartCash * Whole + Net(closed) - Paid(open, OpenCoins)
         /\ StartCash * Whole \in Int
    BY Balance, ReplayAssumption
  <1>14. cash' = StartCash * Whole + Net(closed') - Paid(open', OpenCoins')
    BY <1>1, <1>7, <1>11, <1>12, <1>13
  <1> QED
    BY <1>6, <1>14, Balance

\* A purchase moves its cost from the cash into the position.
LEMMA BalanceEnter ==
  ASSUME RInv, Booked, BooksBalance,
         NEW c \in Coins, NEW n \in 1..MaxQty, NEW atr \in Atrs, Enter(c, n, atr)
  PROVE  Booked' /\ BooksBalance'
  <1>1. PICK pos : /\ pos = [qty |-> n, entry |-> mark[c], since |-> when]
                   /\ cash' = cash - Cost(pos) /\ open' = [open EXCEPT ![c] = pos]
    BY DEF Enter
  <1>2. /\ TypeOK /\ pc = "entries" /\ UNCHANGED <<pc, when, closed>> /\ c \notin OpenCoins
    BY DEF RInv, Enter, CapKept, market
  <1>3. pos \in Position /\ pos.qty > 0
    BY <1>1, <1>2 DEF TypeOK, Position
  <1>4. OpenCoins' = OpenCoins \cup {c}
    BY <1>1, <1>2, <1>3 DEF OpenCoins, TypeOK
  <1>5. Booked'
    BY <1>2 DEF Booked
  <1>6. PICK q \in [Coins -> Position] : /\ q = open' /\ q[c] = pos
                                         /\ \A d \in OpenCoins : open[d] = q[d]
    <2>1. open' \in [Coins -> Position] /\ open'[c] = pos
      BY <1>1, <1>2, <1>3 DEF TypeOK
    <2>2. \A d \in OpenCoins : open[d] = open'[d]
      BY <1>1, <1>2 DEF TypeOK, OpenCoins
    <2> QED
      BY <2>1, <2>2
  <1>7. PICK S \in SUBSET Coins : S = OpenCoins
    BY DEF OpenCoins
  <1>8. Paid(open, S) \in Int /\ Paid(q, S \cup {c}) = Paid(open, S) + Cost(pos)
    <2>1. open \in [Coins -> Position] /\ c \notin S /\ \A d \in S : open[d] = q[d]
      BY <1>2, <1>6, <1>7 DEF TypeOK
    <2> QED
      BY <1>6, <2>1, PaidAdd
  <1>9. Paid(open', OpenCoins') = Paid(open, OpenCoins) + Cost(pos)
        /\ Paid(open, OpenCoins) \in Int /\ Cost(pos) \in Int
    BY <1>2, <1>3, <1>4, <1>6, <1>7, <1>8, MoneyType
  <1>10. /\ cash = StartCash * Whole + Net(closed) - Paid(open, OpenCoins)
         /\ StartCash * Whole \in Int /\ cash \in Int
    BY <1>2, Balance, ReplayAssumption DEF TypeOK
  <1>11. Net(closed) \in Int
    <2>1. PICK f : f = [t \in closed |-> PnlNet(t)]
      OBVIOUS
    <2>2. DOMAIN f = closed /\ \A t \in closed : f[t] \in Int
      BY <1>2, <2>1, MoneyType DEF TypeOK
    <2> QED
      BY <2>1, <2>2, SumFunctionType DEF Net, Booked
  <1>12. cash' = StartCash * Whole + Net(closed') - Paid(open', OpenCoins')
    BY <1>1, <1>2, <1>9, <1>10, <1>11
  <1> QED
    BY <1>5, <1>12, Balance

\* Every step keeps the balance.
LEMMA BalanceStep == RInv /\ Booked /\ BooksBalance /\ [Next]_vars => Booked' /\ BooksBalance'
  <1> SUFFICES ASSUME RInv, Booked, BooksBalance, [Next]_vars PROVE Booked' /\ BooksBalance'
    OBVIOUS
  <1>1. CASE \E hour \in (when + 1)..MaxHour, closes \in Quotes, r \in Readings :
                 Capture(hour, closes, r)
    <2>1. UNCHANGED book /\ when' > when /\ when' \in Nat /\ TypeOK
      BY <1>1, ReplayAssumption DEF Capture, RInv, TypeOK
    <2> QED
      BY <2>1, QuietBalance, QuietBooked
  <1>2. CASE \E c \in Coins : Exit(c)
    BY <1>2, BalanceExit
  <1>3. CASE \E c \in Coins, n \in 1..MaxQty, atr \in Atrs : Enter(c, n, atr)
    BY <1>3, BalanceEnter
  <1>4. CASE \/ \E c \in Coins : Hold(c) \/ Pass(c)
             \/ NoEntries \/ Entries \/ EntriesDone \/ UNCHANGED vars
    <2>1. UNCHANGED <<book, when>> /\ (pc' = "exits" => pc = "exits")
      BY <1>4 DEF Hold, Pass, NoEntries, Entries, EntriesDone, vars, market, book
    <2>2. TypeOK /\ when' \in Nat
      BY <2>1, ReplayAssumption DEF RInv, TypeOK
    <2> QED
      BY <2>1, <2>2, QuietBalance, QuietBooked
  <1> QED
    BY <1>1, <1>2, <1>3, <1>4 DEF Next

\* The cash that the replay carries is what its trades and positions add up to,
\* at every step and for any history (replay.py:217-222 and 250-255).
THEOREM BooksAddUp == Spec => []BooksBalance
  <1>1. Init => Booked /\ BooksBalance
    BY InitBalance
  <1>2. RInv /\ (Booked /\ BooksBalance) /\ [Next]_vars => (Booked /\ BooksBalance)'
    BY BalanceStep
  <1> QED
    BY <1>1, <1>2, ReplayAccount, PTL DEF Spec
=============================================================================
