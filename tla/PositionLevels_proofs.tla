----------------------- MODULE PositionLevels_proofs -----------------------
(***************************************************************************)
(* Proofs about module PositionLevels, for every set of prices and every   *)
(* setting of the ladders that ConfigAssumption allows.                    *)
(***************************************************************************)
EXTENDS PositionLevels, TLAPS

\* The part of the inductive invariant about rungs: the peak has followed
\* everything the cycle was shown, and the lock holds the rungs of the peak.
\* A sale that fails ends it.
RungsAtPeak ==
    exit = "none" /\ ~failed =>
        /\ shown <= high
        /\ \A r \in PctRungs : Gain(high) >= r.arm => lock >= Entry + r.hold

LInv ==
    /\ TypeOK
    /\ LevelsBelowPeak
    /\ RungsAtPeak

\* A trail of a number of ATRs does not rise above the peak it hangs from.
LEMMA TrailBelow ==
  ASSUME NEW peak \in Nat, NEW m \in Nat, NEW atr \in Nat
  PROVE  peak - m * atr \in Int /\ peak - m * atr <= peak
  <1>1. m * atr \in Nat
    OBVIOUS
  <1> QED
    BY <1>1

\* Every level the stop may be raised to is at or below the peak (check_exit).
LEMMA StopLevelsBelow ==
  ASSUME TypeOK, LevelsBelowPeak,
         NEW h \in Price, h >= high, NEW atr \in Atr, NEW riskOff \in BOOLEAN,
         NEW s \in StopLevels(h, last, atr, riskOff)
  PROVE  s \in Int /\ s <= h
  <1> USE PriceAssumption, ConfigAssumption
  <1>1. h \in Nat /\ atr \in Nat /\ high \in Nat /\ stop \in Nat /\ Entry \in Nat
    BY DEF TypeOK
  <1>2. CASE s = stop
    BY <1>1, <1>2 DEF LevelsBelowPeak
  <1>3. ASSUME NEW m \in {Trail, RiskOffTrail}, s = h - m * atr
        PROVE  s \in Int /\ s <= h
    BY <1>1, <1>3, TrailBelow
  <1>4. ASSUME s = Entry + FloorGain, Gain(h) >= FloorAt
        PROVE  s \in Int /\ s <= h
    BY <1>1, <1>4 DEF Gain
  <1> QED
    BY <1>2, <1>3, <1>4 DEF StopLevels

\* Every level the lock may be raised to is at or below the peak: a rung keeps
\* no more than the gain that arms it.
LEMMA LockLevelsBelow ==
  ASSUME TypeOK, LevelsBelowPeak,
         NEW h \in Price, h >= high, NEW atr \in Atr,
         NEW l \in LockLevels(h, last, atr)
  PROVE  l \in Int /\ l <= h
  <1> USE PriceAssumption, ConfigAssumption
  <1>1. h \in Nat /\ atr \in Nat /\ high \in Nat /\ lock \in Nat /\ Entry \in Nat
    BY DEF TypeOK
  <1>2. CASE l = lock
    BY <1>1, <1>2 DEF LevelsBelowPeak
  <1>3. ASSUME NEW r \in Rungs, l = h - r.trail * atr
        PROVE  l \in Int /\ l <= h
    <2>1. r.trail \in Nat
      OBVIOUS
    <2> QED
      BY <1>1, <1>3, <2>1, TrailBelow
  <1>4. ASSUME NEW r \in PctRungs, l = Entry + r.hold, Gain(h) >= r.arm
        PROVE  l \in Int /\ l <= h
    <2>1. r.hold \in Nat /\ r.arm \in Nat /\ r.hold <= r.arm
      OBVIOUS
    <2> QED
      BY <1>1, <1>4, <2>1 DEF Gain
  <1> QED
    BY <1>2, <1>3, <1>4 DEF LockLevels

\* What the ratchet of check_exit does to the levels, in one place: they are
\* levels, none is lower than before, and none is above the peak.
LEMMA RatchetRaises ==
  ASSUME TypeOK, LevelsBelowPeak,
         NEW atr \in Atr, NEW riskOff \in BOOLEAN, NEW h, NEW s, NEW l,
         Ratcheted(atr, riskOff, h, s, l)
  PROVE  /\ h \in Price /\ s \in Nat /\ l \in Nat
         /\ h >= high /\ s >= stop /\ l >= lock
         /\ s <= h /\ l <= h
         /\ last <= h /\ top <= h
  <1>1. h \in Price /\ h >= high /\ last <= h /\ top <= h
    BY PriceAssumption DEF Ratcheted, IsMax, Peaks, TypeOK
  <1>2. s \in Int /\ s <= h /\ s >= stop
    <2>1. s \in StopLevels(h, last, atr, riskOff) /\ stop <= s
      BY DEF Ratcheted, IsMax, StopLevels
    <2> QED
      BY <1>1, <2>1, StopLevelsBelow
  <1>3. l \in Int /\ l <= h /\ l >= lock
    <2>1. l \in LockLevels(h, last, atr) /\ lock <= l
      BY DEF Ratcheted, IsMax, LockLevels
    <2> QED
      BY <1>1, <2>1, LockLevelsBelow
  <1> QED
    BY <1>1, <1>2, <1>3 DEF TypeOK

\* A freshly opened position satisfies the invariant (ledger.open_position).
LEMMA InitInv == Init => LInv
  <1> SUFFICES ASSUME Init PROVE LInv
    OBVIOUS
  <1> USE PriceAssumption, ConfigAssumption
  <1>1. TypeOK
    <2>1. Entry \in Nat \ {0} /\ Entry - R \in Nat
      OBVIOUS
    <2>2. bar \in Price /\ top \in Price
      BY DEF Init
    <2>3. 0 \in 0..TimeStop
      OBVIOUS
    <2>4. due \in BOOLEAN /\ failed \in BOOLEAN /\ exit \in {"none", "stop", "lock", "tp", "time"}
      BY Zenon DEF Init
    <2> QED
      BY <2>1, <2>2, <2>3, <2>4 DEF Init, TypeOK
  <1>2. LevelsBelowPeak
    BY DEF Init, LevelsBelowPeak
  <1>3. RungsAtPeak
    <2>1. ASSUME NEW r \in PctRungs, Gain(high) >= r.arm
          PROVE  FALSE
      <3>1. r.arm \in Nat \ {0} /\ Entry \in Nat
        OBVIOUS
      <3> QED
        BY <2>1, <3>1 DEF Gain, Init
    <2> QED
      BY <2>1 DEF Init, RungsAtPeak
  <1> QED
    BY <1>1, <1>2, <1>3 DEF LInv

\* The market and the clock leave the levels alone, and so does the watcher,
\* which only sells.
LEMMA QuietStep ==
  ASSUME LInv, UNCHANGED <<high, stop, lock, shown, failed>>, TypeOK',
         exit' = exit \/ exit' # "none"
  PROVE  LInv'
  BY DEF LInv, LevelsBelowPeak, RungsAtPeak, Gain

\* The cycle's check keeps the invariant: what it was shown goes into the peak,
\* and the rungs of the new peak into the lock.
LEMMA CheckInv ==
  ASSUME LInv, NEW atr \in Atr, NEW riskOff \in BOOLEAN, Check(atr, riskOff)
  PROVE  /\ LInv'
         /\ high' >= high /\ stop' >= stop /\ lock' >= lock
  <1> USE PriceAssumption, ConfigAssumption
  <1>0. PICK h \in Peaks :
          \E s \in StopLevels(h, last, atr, riskOff), l \in LockLevels(h, last, atr) :
             /\ Ratcheted(atr, riskOff, h, s, l)
             /\ exit' = Action(s, l)
             /\ high' = h /\ stop' = s /\ lock' = l
    BY DEF Check
  <1>1. PICK s \in StopLevels(h, last, atr, riskOff), l \in LockLevels(h, last, atr) :
          /\ Ratcheted(atr, riskOff, h, s, l)
          /\ exit' = Action(s, l)
          /\ high' = h /\ stop' = s /\ lock' = l
    BY <1>0
  <1>2. /\ h \in Price /\ s \in Nat /\ l \in Nat
        /\ h >= high /\ s >= stop /\ l >= lock
        /\ s <= h /\ l <= h /\ last <= h /\ top <= h
    BY <1>1, RatchetRaises DEF LInv
  <1>3. /\ shown' \in Price
        /\ shown' \in {shown, last, top}
        /\ UNCHANGED <<held, last, bar, top, failed>>
        /\ due' = FALSE
    BY DEF Check, IsMax, market, LInv, TypeOK
  <1>4. Action(s, l) \in {"none", "stop", "lock", "tp", "time"}
    <2>1. Breach(s, l, last) \in {"none", "stop", "lock", "tp"}
      BY DEF Breach
    <2> QED
      BY <2>1 DEF Action
  <1>5. TypeOK'
    BY <1>1, <1>2, <1>3, <1>4 DEF TypeOK, LInv
  <1>6. LevelsBelowPeak'
    BY <1>1, <1>2 DEF LevelsBelowPeak
  <1>7. ASSUME exit' = "none", ~failed' PROVE shown' <= high'
    <2>1. exit = "none" /\ ~failed
      BY <1>3, <1>7 DEF Check
    <2> QED
      BY <2>1, <1>1, <1>2, <1>3 DEF LInv, RungsAtPeak, TypeOK
  <1>8. ASSUME NEW r \in PctRungs, Gain(h) >= r.arm
        PROVE  l >= Entry + r.hold
    <2>1. Entry + r.hold \in LockLevels(h, last, atr)
      BY <1>8 DEF LockLevels
    <2> QED
      BY <2>1, <1>1 DEF Ratcheted, IsMax
  <1>9. RungsAtPeak'
    BY <1>1, <1>7, <1>8 DEF RungsAtPeak, Gain
  <1> QED
    BY <1>1, <1>2, <1>5, <1>6, <1>9 DEF LInv

\* A sale that fails keeps the invariant: it leaves every level where it was.
LEMMA SaleFailsInv ==
  ASSUME LInv, NEW atr \in Atr, NEW riskOff \in BOOLEAN, SaleFails(atr, riskOff)
  PROVE  LInv' /\ UNCHANGED <<high, stop, lock>>
  <1>1. /\ UNCHANGED <<high, stop, lock, exit, held, last, bar, top>>
        /\ shown' \in {shown, last, top} /\ due' = FALSE /\ failed' = TRUE
    BY DEF SaleFails, IsMax, levels, market
  <1> QED
    BY <1>1 DEF LInv, TypeOK, LevelsBelowPeak, RungsAtPeak

\* Every step keeps the invariant and lowers no level.
LEMMA StepInv ==
  ASSUME LInv, [Next]_vars
  PROVE  /\ LInv'
         /\ high' >= high /\ stop' >= stop /\ lock' >= lock
  <1> USE PriceAssumption, ConfigAssumption DEF LInv
  <1>0. high \in Nat /\ stop \in Nat /\ lock \in Nat
    BY DEF TypeOK
  <1>1. ASSUME NEW price \in Price, Trades(price)
        PROVE  UNCHANGED <<high, stop, lock, shown, exit, failed>> /\ TypeOK'
    BY <1>1 DEF Trades, TypeOK, levels, IsMax
  <1>2. CASE HourTurns
    <2>1. UNCHANGED <<high, stop, lock, shown, exit, failed>> /\ TypeOK'
      BY <1>2 DEF HourTurns, TypeOK, levels
    <2> QED
      BY <2>1, <1>0, QuietStep
  <1>3. ASSUME NEW atr \in Atr, NEW riskOff \in BOOLEAN, Check(atr, riskOff)
        PROVE  LInv' /\ high' >= high /\ stop' >= stop /\ lock' >= lock
    BY <1>3, CheckInv
  <1>7. ASSUME NEW atr \in Atr, NEW riskOff \in BOOLEAN, SaleFails(atr, riskOff)
        PROVE  LInv' /\ high' >= high /\ stop' >= stop /\ lock' >= lock
    BY <1>7, <1>0, SaleFailsInv
  <1>4. CASE NoCheck
    <2>1. UNCHANGED <<high, stop, lock, shown, exit, failed>> /\ TypeOK'
      BY <1>4 DEF NoCheck, TypeOK, levels, market
    <2> QED
      BY <2>1, <1>0, QuietStep
  <1>5. CASE Watch
    <2>1. exit' \in {"stop", "lock", "tp"}
      BY <1>5 DEF Watch, Breach
    <2>2. UNCHANGED <<high, stop, lock, shown, failed>> /\ TypeOK'
      BY <1>5, <2>1 DEF Watch, TypeOK, levels, market
    <2> QED
      BY <2>1, <2>2, <1>0, QuietStep
  <1>6. CASE UNCHANGED vars
    <2>1. UNCHANGED <<high, stop, lock, shown, exit, failed>> /\ TypeOK'
      BY <1>6 DEF vars, TypeOK
    <2> QED
      BY <2>1, <1>0, QuietStep
  <1> QED
    BY <1>0, <1>1, <1>2, <1>3, <1>4, <1>5, <1>6, <1>7, QuietStep DEF Next

\* The inductive invariant holds for every price path, ladder and failure.
THEOREM Levels == Spec => []LInv
  <1>1. LInv /\ [Next]_vars => LInv'
    BY StepInv
  <1> QED
    BY <1>1, InitInv, PTL DEF Spec

\* Neither the stop nor the lock is ever above the peak, so no position is sold
\* by a level that was set above every price it has seen (check_exit).
THEOREM BelowPeak == Spec => []LevelsBelowPeak
  <1>1. LInv => LevelsBelowPeak
    BY DEF LInv
  <1> QED
    BY <1>1, Levels, PTL

\* No step lowers the peak, the stop or the lock (check_exit: "Raises only").
THEOREM NeverFall == Spec => LevelsNeverFall
  <1>1. LInv /\ [Next]_vars => [high' >= high /\ stop' >= stop /\ lock' >= lock]_vars
    BY StepInv
  <1> QED
    BY <1>1, Levels, PTL DEF Spec, LevelsNeverFall

\* While no sale has failed, a rung that the cycle was shown a peak for stays
\* reached, and one of the percent ladder holds its floor until the exit
\* (check_exit: "a rung once reached stays reached").
THEOREM RungsHold == Spec => []RungsStayReached
  <1>1. ASSUME LInv, exit = "none", ~failed PROVE RungsStayReached
    <2>1. shown \in Nat /\ high \in Nat /\ Entry \in Nat /\ shown <= high
      BY <1>1, PriceAssumption DEF LInv, TypeOK, RungsAtPeak
    <2>2. ASSUME NEW r \in Rungs, Gain(shown) >= r.arm
          PROVE  Gain(high) >= r.arm
      <3>1. r.arm \in Nat
        BY ConfigAssumption
      <3> QED
        BY <2>1, <2>2, <3>1 DEF Gain
    <2>3. ASSUME NEW r \in PctRungs, Gain(shown) >= r.arm
          PROVE  lock >= Entry + r.hold
      <3>1. r.arm \in Nat
        BY ConfigAssumption
      <3>2. Gain(high) >= r.arm
        BY <2>1, <2>3, <3>1 DEF Gain
      <3> QED
        BY <1>1, <3>2 DEF LInv, RungsAtPeak
    <2> QED
      BY <2>2, <2>3 DEF RungsStayReached
  <1>2. LInv => RungsStayReached
    BY <1>1 DEF RungsStayReached
  <1> QED
    BY <1>2, Levels, PTL
=============================================================================
