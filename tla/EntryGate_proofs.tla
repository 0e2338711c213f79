-------------------------- MODULE EntryGate_proofs --------------------------
(***************************************************************************)
(* What module EntryGate promises of a cycle's entries, for any money,     *)
(* readings, policies and settings.                                        *)
(***************************************************************************)
EXTENDS EntryGate, FiniteSetTheorems, TLAPS

\* A factor keeps the order of two numbers.
LEMMA TimesMono ==
  ASSUME NEW a \in Nat, NEW b \in Nat, NEW c \in Nat, a <= b
  PROVE  a * c <= b * c
  OBVIOUS

\* A positive factor can be taken off both sides.
LEMMA TimesCancel ==
  ASSUME NEW a \in Nat, NEW b \in Nat, NEW c \in Nat \ {0}, a * c <= b * c
  PROVE  a <= b
  <1>1. SUFFICES ASSUME a >= b + 1 PROVE FALSE
    OBVIOUS
  <1>2. (b + 1) * c <= a * c
    BY <1>1, TimesMono
  <1>3. (b + 1) * c = b * c + c /\ b * c \in Nat /\ a * c \in Nat
    OBVIOUS
  <1> QED
    BY <1>2, <1>3

\* An order within the cash that was read can be paid, fee included, if at
\* least as much is free (ENTRY_CASH_BUFFER_PCT covers the fee).
LEMMA BufferCoversFee ==
  ASSUME NEW m \in Nat, NEW read \in Nat, NEW now \in Nat, read <= now,
         m * Whole <= read * (Whole - Buffer)
  PROVE  m * (Whole + Fee) <= now * Whole
  <1> DEFINE W == Whole
  <1> DEFINE L == Whole - Buffer
  <1> DEFINE H == Whole + Fee
  <1>1. W \in Nat \ {0} /\ L \in Nat /\ H \in Nat /\ L * H <= W * W
    BY MoneyAssumption
  <1>2. m * W <= read * L
    OBVIOUS
  <1> HIDE DEF W, L, H
  <1>3. (m * W) * H <= (read * L) * H
    <2>1. m * W \in Nat /\ read * L \in Nat
      BY <1>1
    <2> QED
      BY <1>1, <1>2, <2>1, TimesMono
  <1>4. (L * H) * read <= (W * W) * read
    <2>1. L * H \in Nat /\ W * W \in Nat
      BY <1>1
    <2> QED
      BY <1>1, <2>1, TimesMono
  <1>5. (read * L) * H = (L * H) * read /\ (W * W) * read = (read * W) * W
    BY <1>1
  <1>6. (m * H) * W <= (read * W) * W
    <2>1. (m * W) * H = (m * H) * W
      BY <1>1
    <2>2. (m * W) * H \in Nat /\ (L * H) * read \in Nat /\ (read * W) * W \in Nat
      BY <1>1
    <2> QED
      BY <1>3, <1>4, <1>5, <2>1, <2>2
  <1>7. m * H <= read * W
    <2>1. m * H \in Nat /\ read * W \in Nat
      BY <1>1
    <2> QED
      BY <1>1, <1>6, <2>1, TimesCancel
  <1>8. read * W <= now * W
    BY <1>1, TimesMono
  <1>9. m * H \in Nat /\ read * W \in Nat /\ now * W \in Nat
    BY <1>1
  <1>10. m * H <= now * W
    BY <1>7, <1>8, <1>9
  <1> QED
    BY <1>10 DEF W, H

-----------------------------------------------------------------------------
\* What the rest of the proof needs to know of the settings and of a reading.
LEMMA Settings ==
  /\ MaxPositions \in Nat \ {0} /\ RiskParts \in Nat \ {0} /\ StopMult \in Nat \ {0}
  /\ MaxMoney \in Nat /\ AdxMin \in Nat /\ AdxMinCautious \in Nat
  /\ AdxMin <= AdxMinCautious
  BY MoneyAssumption, FilterAssumption

\* The fields of a reading are numbers, and a price is positive.
LEMMA ReadingTypes ==
  ASSUME NEW r \in Reading
  PROVE  r.price \in Nat \ {0} /\ r.atr \in Nat /\ r.adx \in Nat
  BY ReadingAssumption

\* The readings before the first snapshot have the type of readings.
LEMMA BlankType == Blank \in [Symbol -> Reading]
  <1>1. PICK r \in Reading : TRUE
    BY ReadingAssumption
  <1>2. [s \in Symbol |-> r] \in [Symbol -> Reading]
    OBVIOUS
  <1> QED
    BY <1>2 DEF Blank

\* A set of coins has a number of members.
LEMMA HeldFinite ==
  ASSUME NEW some \in SUBSET Symbol
  PROVE  IsFiniteSet(some) /\ Cardinality(some) \in Nat
  BY FilterAssumption, FS_Subset, FS_CardinalityType

\* A sized order is within the share of the equity and the risk budget.
LEMMA SizeBounds ==
  ASSUME TypeOK, NEW s \in Symbol, NEW n \in 1..equity, IsSize(n, reading[s])
  PROVE  /\ n \in Nat /\ reading[s].price \in Nat \ {0} /\ reading[s].atr \in Nat
         /\ n * reading[s].price \in Nat
         /\ n * StopMult * reading[s].atr \in Nat
         /\ n * reading[s].price * MaxPositions <= equity
         /\ n * StopMult * reading[s].atr * RiskParts
                * (IF reg = "risk_off" THEN 2 ELSE 1) <= equity
  <1>1. n \in Nat /\ reading[s] \in Reading
    BY DEF TypeOK
  <1>2. reading[s].price \in Nat \ {0} /\ reading[s].atr \in Nat
    BY <1>1, ReadingTypes
  <1>3. n * reading[s].price \in Nat
    BY <1>1, <1>2
  <1>4. n * StopMult \in Nat
    BY <1>1, Settings
  <1>5. n * StopMult * reading[s].atr \in Nat
    BY <1>2, <1>4
  <1> QED
    BY <1>1, <1>2, <1>3, <1>5 DEF IsSize, Fits

\* One more entry within its share keeps the sum within the shares.
LEMMA OneMoreShare ==
  ASSUME NEW sum \in Nat, NEW x \in Nat, NEW k \in Nat, NEW e \in Nat, NEW f \in Nat,
         sum * f <= k * e, x * f <= e
  PROVE  (sum + x) * f <= (k + 1) * e
  <1>1. (sum + x) * f = sum * f + x * f /\ (k + 1) * e = k * e + e
    OBVIOUS
  <1>2. sum * f \in Nat /\ x * f \in Nat /\ k * e \in Nat
    OBVIOUS
  <1> QED
    BY <1>1, <1>2

-----------------------------------------------------------------------------
\* The state before the first cycle satisfies the invariant.
LEMMA InitInv == Init => IInv
  <1> SUFFICES ASSUME Init PROVE IInv
    OBVIOUS
  <1>1. TypeOK
    BY BlankType, Settings DEF Init, TypeOK, Regimes
  <1>2. CycleRisk
    BY Settings DEF Init, CycleRisk
  <1>3. CapHeld
    BY Settings, FS_EmptySet DEF Init, CapHeld
  <1> QED
    BY <1>1, <1>2, <1>3 DEF Init, IInv

\* Before the first entry nothing is risked.
LEMMA NothingRisked ==
  ASSUME equity' \in Nat, entered' = 0, spent' = 0, risked' = 0
  PROVE  CycleRisk'
  <1> DEFINE half == IF reg' = "risk_off" THEN 2 ELSE 1
  <1>1. entered' * equity' = 0
    <2>1. \A n \in Nat : 0 * n = 0
      OBVIOUS
    <2> QED
      BY <2>1
  <1>2. spent' * MaxPositions = 0
    BY Settings
  <1>3. risked' * RiskParts = 0
    BY Settings
  <1>4. half \in Nat
    OBVIOUS
  <1> HIDE DEF half
  <1>5. risked' * RiskParts * half = 0
    BY <1>3, <1>4
  <1>6. risked' * RiskParts * half <= entered' * equity' /\ spent' * MaxPositions <= entered' * equity'
    BY <1>1, <1>2, <1>5
  <1> QED
    BY <1>6 DEF CycleRisk, half

\* A cycle that ends leaves nothing behind.
LEMMA EndInv ==
  ASSUME IInv, End, UNCHANGED account
  PROVE  IInv'
  <1>1. TypeOK'
    BY BlankType DEF IInv, TypeOK, End, account, Regimes
  <1>2. CycleRisk'
    BY Settings DEF End, CycleRisk
  <1>3. CapHeld'
    <2>1. Cardinality(held) \in Nat /\ slots \in Nat
      BY HeldFinite DEF IInv, TypeOK
    <2> QED
      BY <2>1, Settings DEF IInv, CapHeld, End, account
  <1> QED
    BY <1>1, <1>2, <1>3 DEF End, IInv

\* The coins of the account may only become fewer while a cycle has not begun
\* to buy.
LEMMA FewerHeld ==
  ASSUME IInv, NEW s \in Symbol, held' = held \ {s}, slots' = slots
  PROVE  CapHeld'
  <1>1. held \in SUBSET Symbol /\ slots \in Nat
    BY DEF IInv, TypeOK
  <1>2. IsFiniteSet(held) /\ Cardinality(held) \in Nat /\ Cardinality(held') \in Nat
    BY <1>1, HeldFinite
  <1>3. Cardinality(held') <= Cardinality(held)
    BY <1>2, FS_Subset
  <1> QED
    BY <1>1, <1>2, <1>3, Settings DEF IInv, CapHeld

\* An entry that fits keeps the sums within the shares and the coins within
\* the slots (trader._enter_position, risk.position_size).
LEMMA BoughtInv ==
  ASSUME IInv, NEW s \in Symbol, NEW n \in 1..equity, Bought(s, n)
  PROVE  IInv'
  <1> DEFINE cost == n * reading[s].price
  <1> DEFINE risk == n * StopMult * reading[s].atr
  <1>0. IsSize(n, reading[s]) /\ Payable(n, reading[s]) /\ Entering(s)
    BY DEF Bought
  <1>1. /\ n \in Nat /\ reading[s].price \in Nat /\ cost \in Nat /\ risk \in Nat
        /\ cost * MaxPositions <= equity
        /\ risk * RiskParts * (IF reg = "risk_off" THEN 2 ELSE 1) <= equity
    BY <1>0, SizeBounds DEF IInv
  <1> HIDE DEF cost, risk
  <1>2. free' = free - cost /\ worth' = worth + cost
        /\ spent' = spent + cost /\ risked' = risked + risk
    BY DEF Bought, cost, risk
  <1>3. cost <= free
    <2>1. cost * (Whole + Fee) <= free * Whole
      BY <1>0 DEF Payable, cost
    <2>2. Whole \in Nat \ {0} /\ Fee \in Nat /\ free \in Nat
      BY MoneyAssumption DEF IInv, TypeOK
    <2>3. cost * (Whole + Fee) = cost * Whole + cost * Fee
          /\ cost * Whole \in Nat /\ cost * Fee \in Nat /\ free * Whole \in Nat
      BY <1>1, <2>2
    <2>4. cost * Whole <= free * Whole
      BY <2>1, <2>3
    <2> QED
      BY <1>1, <2>2, <2>4, TimesCancel
  <1>4. slots \in Nat /\ slots > 0 /\ s \in todo /\ s \notin held /\ pc = "entries"
    BY <1>0 DEF Entering, IInv, TypeOK
  <1>5. TypeOK'
    <2>1. free' \in Nat /\ worth' \in Nat /\ spent' \in Nat /\ risked' \in Nat
      BY <1>1, <1>2, <1>3 DEF IInv, TypeOK
    <2>2. slots' \in Nat /\ entered' \in Nat
      BY <1>4 DEF Bought, IInv, TypeOK
    <2> QED
      BY <2>1, <2>2 DEF Bought, IInv, TypeOK, seen
  <1>6. CycleRisk'
    <2>1. equity' = equity /\ reg' = reg /\ entered' = entered + 1
      BY DEF Bought, seen
    <2>2. entered \in Nat /\ equity \in Nat /\ spent \in Nat /\ risked \in Nat
      BY DEF IInv, TypeOK
    <2>3. spent' * MaxPositions <= entered' * equity
      <3>1. spent * MaxPositions <= entered * equity
        BY DEF IInv, CycleRisk
      <3> QED
        BY <1>1, <1>2, <2>1, <2>2, <3>1, Settings, OneMoreShare
    <2>4. risked' * RiskParts * (IF reg = "risk_off" THEN 2 ELSE 1) <= entered' * equity
      <3> DEFINE half == IF reg = "risk_off" THEN 2 ELSE 1
      <3>1. half \in Nat
        OBVIOUS
      <3>2. risked * RiskParts * half <= entered * equity /\ risk * RiskParts * half <= equity
        BY <1>1 DEF IInv, CycleRisk
      <3> HIDE DEF half
      <3>3. risked * RiskParts \in Nat /\ risk * RiskParts \in Nat
            /\ (risked + risk) * RiskParts = risked * RiskParts + risk * RiskParts
        BY <1>1, <2>2, Settings
      <3>4. (risked * RiskParts + risk * RiskParts) * half <= (entered + 1) * equity
        BY <2>2, <3>1, <3>2, <3>3, OneMoreShare
      <3>5. risked' * RiskParts * half <= entered' * equity
        BY <1>2, <2>1, <3>3, <3>4
      <3> QED
        BY <3>5 DEF half
    <2> QED
      BY <2>1, <2>3, <2>4 DEF CycleRisk
  <1>7. CapHeld'
    <2>1. held \in SUBSET Symbol
      BY DEF IInv, TypeOK
    <2>2. IsFiniteSet(held) /\ Cardinality(held) \in Nat
      BY <2>1, HeldFinite
    <2>3. Cardinality(held \cup {s}) = Cardinality(held) + 1
      BY <1>4, <2>2, FS_AddElement
    <2>4. held' = held \cup {s} /\ slots' = slots - 1
      BY DEF Bought
    <2>5. Cardinality(held) + slots <= MaxPositions
      BY DEF IInv, CapHeld
    <2> QED
      BY <1>4, <2>2, <2>3, <2>4, <2>5, Settings DEF CapHeld
  <1>8. todo' \cap held' = {} /\ pc' = "entries"
    BY <1>4 DEF Bought, IInv
  <1> QED
    BY <1>5, <1>6, <1>7, <1>8 DEF IInv

\* Once the slots are counted, the coins held and the slots left are within
\* the cap (trader._run, slots).
LEMMA EntriesInv ==
  ASSUME IInv, NEW file \in PolicyFile, NEW btc \in Reading, Entries(file, btc)
  PROVE  IInv'
  <1>0. file.cap \in Int /\ file.blocked \subseteq Symbol
    BY PolicyAssumption
  <1>1. computed' \in Regimes /\ reg' \in Regimes
    BY DEF Entries, Computed, Effective, Regimes
  <1>2. Cap(file) \in Nat /\ Cap(file) <= MaxPositions
    BY <1>0, Settings DEF Cap, Least
  <1>3. Cardinality(held) \in Nat
    BY HeldFinite DEF IInv, TypeOK
  <1>4. slots' \in Nat /\ Cardinality(held) + slots' <= MaxPositions
    BY <1>2, <1>3, Settings DEF Entries
  <1>5. todo' \subseteq Symbol /\ todo' \cap held = {}
    BY DEF Entries, Candidates
  <1>6. TypeOK'
    BY <1>1, <1>4, <1>5 DEF Entries, IInv, TypeOK, account, tally
  <1>7. pc = "exits" /\ pc' = "entries" /\ UNCHANGED <<account, cash, equity, tally>>
    BY DEF Entries
  <1>8. CycleRisk'
    <2>1. entered' = 0 /\ spent' = 0 /\ risked' = 0
      BY <1>7 DEF IInv, tally
    <2> QED
      BY <2>1, <1>6, NothingRisked DEF TypeOK
  <1>9. CapHeld' /\ held' = held
    BY <1>4, <1>7 DEF CapHeld, account
  <1> QED
    BY <1>5, <1>6, <1>7, <1>8, <1>9 DEF IInv

\* Every step keeps the invariant.
LEMMA StepInv ==
  ASSUME IInv, [Next]_vars
  PROVE  IInv'
  <1>1. CASE Start
    <2>1. TypeOK'
      BY <1>1 DEF Start, IInv, TypeOK, account, tally
    <2>2. CycleRisk'
      <3>1. entered' = 0 /\ spent' = 0 /\ risked' = 0
        BY <1>1 DEF Start, IInv, tally
      <3> QED
        BY <2>1, <3>1, NothingRisked DEF TypeOK
    <2> QED
      BY <1>1, <2>1, <2>2 DEF Start, IInv, CapHeld, account, tally
  <1>2. ASSUME NEW s \in Symbol, Exit(s) PROVE IInv'
    <2>1. PICK v \in 0..worth : worth' = worth - v /\ free' = free + v
      BY <1>2 DEF Exit
    <2>2. worth' \in Nat /\ free' \in Nat
      BY <2>1 DEF IInv, TypeOK
    <2>3. TypeOK' /\ held' = held \ {s} /\ slots' = slots
      BY <1>2, <2>2 DEF Exit, IInv, TypeOK, seen, tally
    <2>4. CycleRisk'
      BY <1>2 DEF Exit, IInv, CycleRisk, seen, tally
    <2>5. CapHeld'
      BY <2>3, FewerHeld
    <2> QED
      BY <1>2, <2>3, <2>4, <2>5 DEF Exit, IInv, seen, tally
  <1>3. ASSUME NEW s \in Symbol, Skipped(s) PROVE IInv'
    BY <1>3 DEF Skipped, IInv, TypeOK, CycleRisk, CapHeld, account, seen, tally
  <1>4. CASE NoEntries
    BY <1>4, EndInv DEF NoEntries
  <1>5. ASSUME NEW file \in PolicyFile, NEW btc \in Reading, Entries(file, btc)
        PROVE  IInv'
    BY <1>5, EntriesInv
  <1>6. ASSUME NEW s \in Symbol, NEW n \in 1..equity, Bought(s, n) PROVE IInv'
    BY <1>6, BoughtInv
  <1>7. ASSUME NEW s \in Symbol, NEW n \in 1..equity, Refused(s, n) PROVE IInv'
    BY <1>7 DEF Refused, IInv, TypeOK, CycleRisk, CapHeld, account, seen, tally
  <1>8. CASE Done
    BY <1>8, EndInv DEF Done
  <1>9. CASE MarketMoves
    <2>1. worth' \in Nat
      BY <1>9 DEF MarketMoves
    <2> QED
      BY <1>9, <2>1 DEF MarketMoves, IInv, TypeOK, CycleRisk, CapHeld, seen, tally
  <1>10. CASE OwnerMoves
    <2>1. free' \in Nat /\ tied' \in Nat
      BY <1>10, Settings DEF OwnerMoves, IInv, TypeOK
    <2> QED
      BY <1>10, <2>1 DEF OwnerMoves, IInv, TypeOK, CycleRisk, CapHeld, seen, tally
  <1>11. CASE UNCHANGED vars
    BY <1>11 DEF vars, IInv, TypeOK, CycleRisk, CapHeld
  <1> QED
    BY <1>1, <1>2, <1>3, <1>4, <1>5, <1>6, <1>7, <1>8, <1>9, <1>10, <1>11 DEF Next

\* The inductive invariant holds for all money, readings and policies.
THEOREM Entry == Spec => []IInv
  <1>1. IInv /\ [Next]_vars => IInv'
    BY StepInv
  <1> QED
    BY <1>1, InitInv, PTL DEF Spec

\* What a cycle's entries cost, and lose at their stops, stays within the share
\* and the risk budget of the equity for each (risk.position_size).
THEOREM RiskIsBounded == Spec => []CycleRisk
  <1>1. IInv => CycleRisk
    BY DEF IInv
  <1> QED
    BY <1>1, Entry, PTL

\* The coins held and the entries still allowed never exceed MAX_POSITIONS.
THEOREM CapHolds == Spec => []CapHeld
  <1>1. IInv => CapHeld
    BY DEF IInv
  <1> QED
    BY <1>1, Entry, PTL

-----------------------------------------------------------------------------
\* A coin that passes in a more severe regime passes in a milder one too
\* (strategy.evaluate_entry).
LEMMA SevereIsStricter ==
  ASSUME NEW r \in Reading, NEW mild \in Regimes, NEW severe \in Regimes,
         Severity[mild] <= Severity[severe], Passes(r, severe)
  PROVE  Passes(r, mild) /\ (mild = "risk_off" => severe = "risk_off")
  <1>1. /\ Severity["risk_on"] = 0 /\ Severity["neutral"] = 1
        /\ Severity["risk_off"] = 2
    BY DEF Severity, Regimes
  <1>2. (mild = "risk_off" => severe = "risk_off") /\ (severe = "risk_on" => mild = "risk_on")
    BY <1>1 DEF Regimes
  <1>3. r.adx \in Nat
    BY ReadingTypes
  <1> QED
    BY <1>2, <1>3, Settings DEF Passes

\* The policy never makes the regime milder (strategy.effective_regime).
LEMMA EffectiveIsSevere ==
  ASSUME NEW regime \in Regimes, NEW file \in PolicyFile
  PROVE  /\ Effective(regime, file) \in Regimes
         /\ Severity[regime] <= Severity[Effective(regime, file)]
  <1>1. \A r \in Regimes : Severity[r] \in 0..2
    BY DEF Severity, Regimes
  <1> QED
    BY <1>1 DEF Effective

\* Whatever the policy file holds, every candidate qualifies by the snapshot
\* alone too (policy.py: "only make the engine more conservative").
THEOREM PolicyOnlyTightens == Spec => []PolicyTightens
  <1>1. Init => PolicyTightens
    BY DEF Init, PolicyTightens
  <1>2. ASSUME IInv, PolicyTightens, [Next]_vars PROVE PolicyTightens'
    <2>1. ASSUME NEW file \in PolicyFile, NEW btc \in Reading, Entries(file, btc)
          PROVE  PolicyTightens'
      <3>1. computed' \in Regimes
        BY <2>1 DEF Entries, Computed, Regimes
      <3>2. reg' \in Regimes /\ Severity[computed'] <= Severity[reg']
        BY <2>1, <3>1, EffectiveIsSevere DEF Entries
      <3>3. ASSUME NEW s \in todo'
            PROVE  s \in Candidates(reading', {}, computed', {})
        <4>1. /\ s \in Symbol /\ Passes(reading'[s], reg')
              /\ ~(s = Btc /\ reg' = "risk_off")
          BY <2>1, <3>3 DEF Entries, Candidates
        <4>2. reading'[s] \in Reading
          BY <2>1, <4>1 DEF Entries
        <4>3. Passes(reading'[s], computed')
              /\ (computed' = "risk_off" => reg' = "risk_off")
          BY <3>1, <3>2, <4>1, <4>2, SevereIsStricter
        <4> QED
          BY <4>1, <4>3 DEF Candidates
      <3> QED
        BY <3>3 DEF PolicyTightens
    <2>2. ASSUME pc' = "entries" => pc = "entries" /\ todo' \subseteq todo
                                    /\ computed' = computed /\ reading' = reading
          PROVE  PolicyTightens'
      BY <1>2, <2>2 DEF PolicyTightens, Candidates
    <2>3. ASSUME NEW s \in Symbol, Exit(s) \/ Skipped(s) PROVE PolicyTightens'
      BY <2>2, <2>3 DEF Exit, Skipped, seen
    <2>4. ASSUME NEW s \in Symbol, NEW n \in 1..equity, Bought(s, n) \/ Refused(s, n)
          PROVE  PolicyTightens'
      BY <2>2, <2>4 DEF Bought, Refused, seen
    <2>5. CASE Start \/ NoEntries \/ Done
      BY <2>2, <2>5 DEF Start, NoEntries, Done, End
    <2>6. CASE MarketMoves \/ OwnerMoves
      BY <2>2, <2>6 DEF MarketMoves, OwnerMoves, seen
    <2>7. CASE UNCHANGED vars
      BY <2>2, <2>7 DEF vars
    <2> QED
      BY <1>2, <2>1, <2>3, <2>4, <2>5, <2>6, <2>7 DEF Next
  <1> QED
    BY <1>1, <1>2, Entry, PTL DEF Spec

\* An order is refused for want of money only if less is free than the cash the
\* cycle has read (risk.position_size with the cash buffer).
THEOREM OnlyForWant == Spec => RefusedForWant
  <1>1. ASSUME IInv, NEW s \in Symbol, NEW n \in 1..equity, Refused(s, n)
        PROVE  free < cash
    <2>1. IsSize(n, reading[s]) /\ ~Payable(n, reading[s])
      BY <1>1 DEF Refused
    <2>2. n * reading[s].price \in Nat /\ cash \in Nat /\ free \in Nat
      BY <1>1, <2>1, SizeBounds DEF IInv, TypeOK
    <2>3. n * reading[s].price * Whole <= cash * (Whole - Buffer)
      BY <2>1 DEF IsSize, Fits
    <2>4. CASE cash <= free
      BY <2>1, <2>2, <2>3, <2>4, BufferCoversFee DEF Payable
    <2> QED
      BY <2>2, <2>4
  <1>2. IInv => \A s \in Symbol, n \in 1..equity : Refused(s, n) => free < cash
    BY <1>1
  <1> QED
    BY <1>2, Entry, PTL DEF RefusedForWant
=============================================================================
