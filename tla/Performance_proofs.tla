-------------------------- MODULE Performance_proofs --------------------------
(***************************************************************************)
(* What the pages and checks of the account say is true of the account,    *)
(* for every set of coins and prices, every fee, and any number of trades, *)
(* transfers and snapshots.                                                *)
(*                                                                         *)
(* The invariant AInv says that the account is what its bookings add up    *)
(* to, at each instant of the past: cash by cash, and as long as no sale   *)
(* was missed, worth by worth.  Bookings come one at a time, and a booking *)
(* at one instant leaves the earlier ones alone, so that it is inductive.  *)
(* Each of the five properties is then arithmetic of sums.                 *)
(***************************************************************************)
EXTENDS Performance, SumTheorems, TLAPS

-----------------------------------------------------------------------------
(***************************************************************************)
(* Money.                                                                  *)
(***************************************************************************)
IsBuy(p)   == p.qty \in Nat /\ p.entry \in Nat /\ p.in \in Nat
IsTrade(t) == IsBuy(t) /\ t.exit \in Nat /\ t.out \in Nat
IsFlow(f)  == f.at \in Nat /\ f.amount \in Int

\* What the trade log, the flow log and the account record is money and times.
LEMMA Recordable ==
    /\ \A p \in Position : IsBuy(p) /\ p.coin \in Coins
    /\ \A t \in Trade : IsTrade(t) /\ t.coin \in Coins
    /\ \A u \in Sale : IsTrade(u) /\ u.coin \in Coins
    /\ \A f \in Flow : IsFlow(f)
  BY PerformanceAssumption DEF Position, Trade, Sale, Flow, IsBuy, IsTrade, IsFlow

\* The fees and the first deposit are natural numbers.
LEMMA Fees == BuyFee \in Nat /\ SellFee \in Nat /\ StartEquity \in Nat
  BY PerformanceAssumption

\* A product of integers is an integer.
LEMMA TimesNat ==
  ASSUME NEW a \in Int, NEW b \in Int
  PROVE  a * b \in Int
  OBVIOUS

\* Products distribute over differences.
LEMMA TimesMinus ==
  ASSUME NEW a \in Int, NEW b \in Int, NEW c \in Int
  PROVE  a * (b - c) = a * b - a * c
  OBVIOUS

\* What a purchase costs, a mark makes of it, and a trade leaves.
LEMMA BuyMoney ==
  ASSUME NEW p, IsBuy(p)
  PROVE  /\ Paid(p) \in Int
         /\ \A m \in Int : Gain(p, m) \in Int /\ Gain(p, m) = p.qty * m - Paid(p) + BuyFee
                           /\ p.qty * m \in Int
         /\ p.qty * p.entry \in Int
  <1>1. p.qty \in Int /\ p.entry \in Int /\ p.qty * p.entry \in Int /\ BuyFee \in Int
    BY Fees, TimesNat DEF IsBuy
  <1>2. Paid(p) = p.qty * p.entry + BuyFee
    BY DEF Paid
  <1>3. ASSUME NEW m \in Int
        PROVE  /\ Gain(p, m) = p.qty * m - p.qty * p.entry
               /\ p.qty * m \in Int
    BY <1>1, TimesMinus, TimesNat DEF Gain
  <1> QED
    BY <1>1, <1>2, <1>3

\* The gain of a trade is what it got less what it paid, fees included.
LEMMA TradeMoney ==
  ASSUME NEW t, IsTrade(t)
  PROVE  /\ Paid(t) \in Int /\ Got(t) \in Int /\ Pnl(t) \in Int
         /\ Pnl(t) = Got(t) - Paid(t)
         /\ Got(t) = t.qty * t.exit - SellFee /\ t.qty * t.exit \in Int
  <1>1. /\ t.qty \in Int /\ t.entry \in Int /\ t.exit \in Int
        /\ t.qty * t.entry \in Int /\ t.qty * t.exit \in Int
        /\ BuyFee \in Int /\ SellFee \in Int
    BY Fees, TimesNat DEF IsTrade, IsBuy
  <1>2. Paid(t) = t.qty * t.entry + BuyFee /\ Got(t) = t.qty * t.exit - SellFee
    BY DEF Paid, Got
  <1>3. Pnl(t) = t.qty * t.exit - t.qty * t.entry - BuyFee - SellFee
    BY <1>1, TimesMinus DEF Pnl
  <1> QED
    BY <1>1, <1>2, <1>3

\* An amount that may have moved or not is an amount.
LEMMA IfInt ==
  ASSUME NEW amount \in Int, NEW happened \in BOOLEAN
  PROVE  If(happened, amount) \in Int
  BY DEF If

\* What a position adds to the account is an amount.
LEMMA ShareInt ==
  ASSUME NEW p, IsBuy(p), p.coin \in Coins, NEW a \in Nat, NEW mark \in [Coins -> Nat]
  PROVE  Share(p, a, mark) \in Int
  <1>1. Gain(p, mark[p.coin]) \in Int /\ BuyFee \in Int
    BY BuyMoney, Fees
  <1> QED
    BY <1>1 DEF Share, If

-----------------------------------------------------------------------------
(***************************************************************************)
(* One flow, trade or position more.                                       *)
(***************************************************************************)
\* One more transfer moves its amount, if it has happened.
LEMMA MovedAdd ==
  ASSUME NEW F, IsFiniteSet(F), \A x \in F : IsFlow(x), NEW f, IsFlow(f), f \notin F, NEW a \in Nat
  PROVE  /\ Moved(F, a) \in Int
         /\ Moved(F \cup {f}, a) = Moved(F, a) + If(f.at <= a, f.amount)
  <1> DEFINE of == [x \in F |-> If(x.at <= a, x.amount)]
             more == [x \in F \cup {f} |-> If(x.at <= a, x.amount)]
  <1>1. /\ DOMAIN of = F /\ DOMAIN more = F \cup {f}
        /\ more[f] = If(f.at <= a, f.amount) /\ \A x \in F : of[x] = more[x]
    OBVIOUS
  <1>2. (\A x \in F : of[x] \in Int) /\ \A x \in F \cup {f} : more[x] \in Int
    BY DEF If, IsFlow
  <1>3. Moved(F, a) = SumFunction(of) /\ Moved(F \cup {f}, a) = SumFunction(more)
    BY DEF Moved
  <1> HIDE DEF of, more
  <1> QED
    BY <1>1, <1>2, <1>3, SumFunctionType, SumFunctionAdd

\* One more trade adds what it got, if it ended, and takes what it paid, if it began.
LEMMA TradedAdd ==
  ASSUME NEW T, IsFiniteSet(T), \A x \in T : IsTrade(x), NEW t, IsTrade(t), t \notin T, NEW a \in Nat
  PROVE  /\ Traded(T, a) \in Int
         /\ Traded(T \cup {t}, a)
                = Traded(T, a) + (If(t.out <= a, Got(t)) - If(t.in <= a, Paid(t)))
  <1> DEFINE of == [x \in T |-> If(x.out <= a, Got(x)) - If(x.in <= a, Paid(x))]
             more == [x \in T \cup {t} |-> If(x.out <= a, Got(x)) - If(x.in <= a, Paid(x))]
  <1>1. /\ DOMAIN of = T /\ DOMAIN more = T \cup {t}
        /\ more[t] = If(t.out <= a, Got(t)) - If(t.in <= a, Paid(t))
        /\ \A x \in T : of[x] = more[x]
    OBVIOUS
  <1>2. (\A x \in T : of[x] \in Int) /\ \A x \in T \cup {t} : more[x] \in Int
    <2>1. \A x \in T \cup {t} : Got(x) \in Int /\ Paid(x) \in Int
      BY TradeMoney
    <2> QED
      BY <2>1 DEF If
  <1>3. Traded(T, a) = SumFunction(of) /\ Traded(T \cup {t}, a) = SumFunction(more)
    BY DEF Traded
  <1> HIDE DEF of, more
  <1> QED
    BY <1>1, <1>2, <1>3, SumFunctionType, SumFunctionAdd

\* One more position takes what was paid for it.
LEMMA BoughtAdd ==
  ASSUME NEW P, IsFiniteSet(P), \A x \in P : IsBuy(x), NEW p, IsBuy(p), p \notin P, NEW a \in Nat
  PROVE  /\ Bought(P, a) \in Int
         /\ Bought(P \cup {p}, a) = Bought(P, a) + If(p.in <= a, Paid(p))
  <1> DEFINE of == [x \in P |-> If(x.in <= a, Paid(x))]
             more == [x \in P \cup {p} |-> If(x.in <= a, Paid(x))]
  <1>1. /\ DOMAIN of = P /\ DOMAIN more = P \cup {p}
        /\ more[p] = If(p.in <= a, Paid(p)) /\ \A x \in P : of[x] = more[x]
    OBVIOUS
  <1>2. (\A x \in P : of[x] \in Int) /\ \A x \in P \cup {p} : more[x] \in Int
    <2>1. \A x \in P \cup {p} : Paid(x) \in Int
      BY BuyMoney
    <2> QED
      BY <2>1 DEF If
  <1>3. Bought(P, a) = SumFunction(of) /\ Bought(P \cup {p}, a) = SumFunction(more)
    BY DEF Bought
  <1> HIDE DEF of, more
  <1> QED
    BY <1>1, <1>2, <1>3, SumFunctionType, SumFunctionAdd

\* One more trade adds its gain, or the share it had as a position.
LEMMA EarnedAdd ==
  ASSUME NEW T, IsFiniteSet(T), \A x \in T : IsTrade(x) /\ x.coin \in Coins,
         NEW t, IsTrade(t), t.coin \in Coins, t \notin T,
         NEW a \in Nat, NEW mark \in [Coins -> Nat]
  PROVE  /\ Earned(T, a, mark) \in Int
         /\ Earned(T \cup {t}, a, mark)
                = Earned(T, a, mark) + (IF t.out <= a THEN Pnl(t) ELSE Share(t, a, mark))
  <1> DEFINE of == [x \in T |-> IF x.out <= a THEN Pnl(x) ELSE Share(x, a, mark)]
             more == [x \in T \cup {t} |-> IF x.out <= a THEN Pnl(x) ELSE Share(x, a, mark)]
  <1>1. /\ DOMAIN of = T /\ DOMAIN more = T \cup {t}
        /\ more[t] = (IF t.out <= a THEN Pnl(t) ELSE Share(t, a, mark))
        /\ \A x \in T : of[x] = more[x]
    OBVIOUS
  <1>2. (\A x \in T : of[x] \in Int) /\ \A x \in T \cup {t} : more[x] \in Int
    <2>1. \A x \in T \cup {t} : Pnl(x) \in Int /\ Share(x, a, mark) \in Int
      BY TradeMoney, ShareInt DEF IsTrade
    <2> QED
      BY <2>1
  <1>3. Earned(T, a, mark) = SumFunction(of) /\ Earned(T \cup {t}, a, mark) = SumFunction(more)
    BY DEF Earned
  <1> HIDE DEF of, more
  <1> QED
    BY <1>1, <1>2, <1>3, SumFunctionType, SumFunctionAdd

\* One more position adds its share.
LEMMA PendingAdd ==
  ASSUME NEW P, IsFiniteSet(P), \A x \in P : IsBuy(x) /\ x.coin \in Coins,
         NEW p, IsBuy(p), p.coin \in Coins, p \notin P, NEW a \in Nat, NEW mark \in [Coins -> Nat]
  PROVE  /\ Pending(P, a, mark) \in Int
         /\ Pending(P \cup {p}, a, mark) = Pending(P, a, mark) + Share(p, a, mark)
  <1> DEFINE of == [x \in P |-> Share(x, a, mark)]
             more == [x \in P \cup {p} |-> Share(x, a, mark)]
  <1>1. /\ DOMAIN of = P /\ DOMAIN more = P \cup {p}
        /\ more[p] = Share(p, a, mark) /\ \A x \in P : of[x] = more[x]
    OBVIOUS
  <1>2. (\A x \in P : of[x] \in Int) /\ \A x \in P \cup {p} : more[x] \in Int
    BY ShareInt
  <1>3. Pending(P, a, mark) = SumFunction(of) /\ Pending(P \cup {p}, a, mark) = SumFunction(more)
    BY DEF Pending
  <1> HIDE DEF of, more
  <1> QED
    BY <1>1, <1>2, <1>3, SumFunctionType, SumFunctionAdd

-----------------------------------------------------------------------------
(***************************************************************************)
(* What lies after an instant does not count at it, and at two instants    *)
(* after all of them the same counts.                                      *)
(***************************************************************************)
\* Transfers made by two instants moved the same by both.
LEMMA MovedLater ==
  ASSUME NEW F, NEW a, NEW b, \A f \in F : f.at <= a /\ f.at <= b
  PROVE  Moved(F, a) = Moved(F, b)
  <1>1. [f \in F |-> If(f.at <= a, f.amount)] = [f \in F |-> If(f.at <= b, f.amount)]
    BY DEF If
  <1> QED
    BY <1>1 DEF Moved

\* Trades that are over by two instants moved the same by both.
LEMMA TradedLater ==
  ASSUME NEW T, NEW a, NEW b, \A t \in T : t.in <= a /\ t.in <= b /\ t.out <= a /\ t.out <= b
  PROVE  Traded(T, a) = Traded(T, b)
  <1>1. [t \in T |-> If(t.out <= a, Got(t)) - If(t.in <= a, Paid(t))]
            = [t \in T |-> If(t.out <= b, Got(t)) - If(t.in <= b, Paid(t))]
    BY DEF If
  <1> QED
    BY <1>1 DEF Traded

\* Positions entered by two instants cost the same by both.
LEMMA BoughtLater ==
  ASSUME NEW P, NEW a, NEW b, \A p \in P : p.in <= a /\ p.in <= b
  PROVE  Bought(P, a) = Bought(P, b)
  <1>1. [p \in P |-> If(p.in <= a, Paid(p))] = [p \in P |-> If(p.in <= b, Paid(p))]
    BY DEF If
  <1> QED
    BY <1>1 DEF Bought

-----------------------------------------------------------------------------
(***************************************************************************)
(* The account as a function of what was booked.                           *)
(***************************************************************************)
Books(F, C, U, P) ==
    /\ IsFiniteSet(F) /\ IsFiniteSet(C) /\ IsFiniteSet(U) /\ IsFiniteSet(P)
    /\ F \subseteq Flow /\ C \subseteq Trade /\ U \subseteq Sale /\ P \subseteq Position

Past(F, C, U, P, a) ==
    /\ \A f \in F : f.at <= a
    /\ \A t \in C \cup U : t.in <= a /\ t.out <= a
    /\ \A p \in P : p.in <= a

CashOf(F, C, U, P, a) ==
    StartEquity + Moved(F, a) + Traded(C, a) + Traded(U, a) - Bought(P, a)

WorthOf(F, C, P, a, mark) ==
    StartEquity + Moved(F, a) + Earned(C, a, mark) + Pending(P, a, mark)

\* The sums over the books of an account are amounts.
LEMMA SumsInt ==
  ASSUME NEW F, NEW C, NEW U, NEW P, Books(F, C, U, P), NEW a \in Nat
  PROVE  /\ Moved(F, a) \in Int /\ Traded(C, a) \in Int /\ Traded(U, a) \in Int
         /\ Bought(P, a) \in Int /\ CashOf(F, C, U, P, a) \in Int
         /\ \A mark \in [Coins -> Nat] :
               /\ Earned(C, a, mark) \in Int /\ Pending(P, a, mark) \in Int
               /\ WorthOf(F, C, P, a, mark) \in Int
  <1>1. /\ \A f \in F : If(f.at <= a, f.amount) \in Int
        /\ \A t \in C \cup U : If(t.out <= a, Got(t)) - If(t.in <= a, Paid(t)) \in Int
        /\ \A t \in C : Pnl(t) \in Int
        /\ \A p \in P : If(p.in <= a, Paid(p)) \in Int
    <2>1. \A f \in F : f.amount \in Int
      BY Recordable DEF Books, IsFlow
    <2>2. \A t \in C \cup U : IsTrade(t)
      BY Recordable DEF Books
    <2>3. \A t \in C \cup U : Got(t) \in Int /\ Paid(t) \in Int /\ Pnl(t) \in Int
      BY <2>2, TradeMoney
    <2>4. \A p \in P : IsBuy(p)
      BY Recordable DEF Books
    <2>5. \A p \in P : Paid(p) \in Int
      BY <2>4, BuyMoney
    <2> QED
      BY <2>1, <2>3, <2>5 DEF If
  <1>2. Moved(F, a) \in Int
    <2> DEFINE v == [f \in F |-> If(f.at <= a, f.amount)]
    <2>1. DOMAIN v = F /\ (\A x \in F : v[x] \in Int) /\ IsFiniteSet(F)
      BY <1>1 DEF Books
    <2>2. Moved(F, a) = SumFunction(v)
      BY DEF Moved
    <2> HIDE DEF v
    <2> QED
      BY <2>1, <2>2, SumFunctionType
  <1>3. ASSUME NEW T, T = C \/ T = U PROVE Traded(T, a) \in Int
    <2> DEFINE v == [t \in T |-> If(t.out <= a, Got(t)) - If(t.in <= a, Paid(t))]
    <2>1. DOMAIN v = T /\ (\A x \in T : v[x] \in Int) /\ IsFiniteSet(T)
      BY <1>1, <1>3 DEF Books
    <2>2. Traded(T, a) = SumFunction(v)
      BY DEF Traded
    <2> HIDE DEF v
    <2> QED
      BY <2>1, <2>2, SumFunctionType
  <1>4. Bought(P, a) \in Int
    <2> DEFINE v == [p \in P |-> If(p.in <= a, Paid(p))]
    <2>1. DOMAIN v = P /\ (\A x \in P : v[x] \in Int) /\ IsFiniteSet(P)
      BY <1>1 DEF Books
    <2>2. Bought(P, a) = SumFunction(v)
      BY DEF Bought
    <2> HIDE DEF v
    <2> QED
      BY <2>1, <2>2, SumFunctionType
  <1>5. ASSUME NEW mark \in [Coins -> Nat]
        PROVE  /\ \A t \in C : Share(t, a, mark) \in Int
               /\ \A p \in P : Share(p, a, mark) \in Int
    <2>1. \A t \in C : IsBuy(t) /\ t.coin \in Coins
      BY Recordable DEF Books, IsTrade
    <2>2. \A p \in P : IsBuy(p) /\ p.coin \in Coins
      BY Recordable DEF Books
    <2> QED
      BY <2>1, <2>2, ShareInt
  <1>6. ASSUME NEW mark \in [Coins -> Nat] PROVE Earned(C, a, mark) \in Int
    <2> DEFINE v == [t \in C |-> IF t.out <= a THEN Pnl(t) ELSE Share(t, a, mark)]
    <2>1. DOMAIN v = C /\ (\A x \in C : v[x] \in Int) /\ IsFiniteSet(C)
      BY <1>1, <1>5 DEF Books
    <2>2. Earned(C, a, mark) = SumFunction(v)
      BY DEF Earned
    <2> HIDE DEF v
    <2> QED
      BY <2>1, <2>2, SumFunctionType
  <1>7. ASSUME NEW mark \in [Coins -> Nat] PROVE Pending(P, a, mark) \in Int
    <2> DEFINE v == [p \in P |-> Share(p, a, mark)]
    <2>1. DOMAIN v = P /\ (\A x \in P : v[x] \in Int) /\ IsFiniteSet(P)
      BY <1>5 DEF Books
    <2>2. Pending(P, a, mark) = SumFunction(v)
      BY DEF Pending
    <2> HIDE DEF v
    <2> QED
      BY <2>1, <2>2, SumFunctionType
  <1>8. Traded(C, a) \in Int /\ Traded(U, a) \in Int
    BY <1>3
  <1>9. CashOf(F, C, U, P, a) \in Int
    BY <1>2, <1>4, <1>8, Fees DEF CashOf
  <1>10. ASSUME NEW mark \in [Coins -> Nat]
         PROVE  WorthOf(F, C, P, a, mark) \in Int
    BY <1>2, <1>6, <1>7, Fees DEF WorthOf
  <1> QED
    BY <1>2, <1>4, <1>6, <1>7, <1>8, <1>9, <1>10

\* Time alone changes nothing.
LEMMA CashLater ==
  ASSUME NEW F, NEW C, NEW U, NEW P, NEW a, NEW b,
         Past(F, C, U, P, a), Past(F, C, U, P, b)
  PROVE  CashOf(F, C, U, P, a) = CashOf(F, C, U, P, b)
  <1>1. Moved(F, a) = Moved(F, b)
    BY MovedLater DEF Past
  <1>2. Traded(C, a) = Traded(C, b) /\ Traded(U, a) = Traded(U, b)
    BY TradedLater DEF Past
  <1>3. Bought(P, a) = Bought(P, b)
    BY BoughtLater DEF Past
  <1> QED
    BY <1>1, <1>2, <1>3 DEF CashOf

\* A transfer moves the cash from its instant on.
LEMMA CashTransfer ==
  ASSUME NEW F, NEW C, NEW U, NEW P, Books(F, C, U, P), NEW a \in Nat,
         NEW f \in Flow, f \notin F
  PROVE  CashOf(F \cup {f}, C, U, P, a) = CashOf(F, C, U, P, a) + If(f.at <= a, f.amount)
  <1>1. IsFiniteSet(F) /\ (\A x \in F : IsFlow(x)) /\ IsFlow(f)
    BY Recordable DEF Books
  <1>2. Moved(F \cup {f}, a) = Moved(F, a) + If(f.at <= a, f.amount)
    BY <1>1, MovedAdd
  <1>3. If(f.at <= a, f.amount) \in Int
    BY <1>1 DEF If, IsFlow
  <1> QED
    BY <1>2, <1>3, SumsInt, Fees DEF CashOf

\* A purchase takes its price and its fee from its instant on.
LEMMA CashBuy ==
  ASSUME NEW F, NEW C, NEW U, NEW P, Books(F, C, U, P), NEW a \in Nat,
         NEW p \in Position, p \notin P
  PROVE  CashOf(F, C, U, P \cup {p}, a) = CashOf(F, C, U, P, a) - If(p.in <= a, Paid(p))
  <1>1. IsFiniteSet(P) /\ (\A x \in P : IsBuy(x)) /\ IsBuy(p)
    BY Recordable DEF Books
  <1>2. Bought(P \cup {p}, a) = Bought(P, a) + If(p.in <= a, Paid(p))
    BY <1>1, BoughtAdd
  <1>3. If(p.in <= a, Paid(p)) \in Int
    BY <1>1, BuyMoney DEF If
  <1> QED
    BY <1>2, <1>3, SumsInt, Fees DEF CashOf

\* p, one of the positions, is sold in trade t.
Ends(p, t) == /\ t.coin = p.coin /\ t.qty = p.qty /\ t.entry = p.entry /\ t.in = p.in

\* A trade paid what its position paid, and had its share until it ended.
LEMMA SoldPaid ==
  ASSUME NEW p, NEW t, Ends(p, t)
  PROVE  /\ Paid(t) = Paid(p)
         /\ \A a, mark : Share(t, a, mark) = Share(p, a, mark)
  BY DEF Ends, Paid, Share, Gain

\* A sale that is booked brings what it got from its instant on.
LEMMA CashSell ==
  ASSUME NEW F, NEW C, NEW U, NEW P, Books(F, C, U, P), NEW a \in Nat,
         NEW p \in P, NEW t \in Trade, t \notin C, Ends(p, t)
  PROVE  CashOf(F, C \cup {t}, U, P \ {p}, a) = CashOf(F, C, U, P, a) + If(t.out <= a, Got(t))
  <1>1. /\ IsFiniteSet(P \ {p}) /\ (\A x \in P \ {p} : IsBuy(x)) /\ IsBuy(p) /\ p \notin P \ {p}
        /\ IsFiniteSet(C) /\ (\A x \in C : IsTrade(x)) /\ IsTrade(t)
        /\ P = (P \ {p}) \cup {p} /\ P \ {p} \subseteq Position
    BY Recordable, FS_RemoveElement DEF Books
  <1>2. Bought(P, a) = Bought(P \ {p}, a) + If(p.in <= a, Paid(p))
    BY <1>1, BoughtAdd
  <1>3. Traded(C \cup {t}, a) = Traded(C, a) + (If(t.out <= a, Got(t)) - If(t.in <= a, Paid(t)))
    BY <1>1, TradedAdd
  <1>4. /\ If(p.in <= a, Paid(p)) \in Int /\ If(t.out <= a, Got(t)) \in Int
        /\ If(t.in <= a, Paid(t)) = If(p.in <= a, Paid(p))
    <2>1. Paid(p) \in Int /\ Got(t) \in Int /\ Paid(t) = Paid(p) /\ t.in = p.in
      BY <1>1, BuyMoney, TradeMoney, SoldPaid DEF Ends
    <2> QED
      BY <2>1 DEF If
  <1>5. /\ Moved(F, a) \in Int /\ Traded(C, a) \in Int /\ Traded(U, a) \in Int
        /\ Bought(P, a) \in Int
    BY SumsInt
  <1>6. Bought(P \ {p}, a) \in Int
    <2>1. Books(F, C, U, P \ {p})
      BY <1>1 DEF Books
    <2> QED
      BY <2>1, SumsInt
  <1> QED
    BY <1>2, <1>3, <1>4, <1>5, <1>6, Fees DEF CashOf

\* So does a sale that is not.
LEMMA CashSellUnseen ==
  ASSUME NEW F, NEW C, NEW U, NEW P, Books(F, C, U, P), NEW a \in Nat,
         NEW p \in P, NEW t \in Sale, t \notin U, Ends(p, t)
  PROVE  CashOf(F, C, U \cup {t}, P \ {p}, a) = CashOf(F, C, U, P, a) + If(t.out <= a, Got(t))
  <1>1. /\ IsFiniteSet(P \ {p}) /\ (\A x \in P \ {p} : IsBuy(x)) /\ IsBuy(p) /\ p \notin P \ {p}
        /\ IsFiniteSet(U) /\ (\A x \in U : IsTrade(x)) /\ IsTrade(t)
        /\ P = (P \ {p}) \cup {p} /\ P \ {p} \subseteq Position
    BY Recordable, FS_RemoveElement DEF Books
  <1>2. Bought(P, a) = Bought(P \ {p}, a) + If(p.in <= a, Paid(p))
    BY <1>1, BoughtAdd
  <1>3. Traded(U \cup {t}, a) = Traded(U, a) + (If(t.out <= a, Got(t)) - If(t.in <= a, Paid(t)))
    BY <1>1, TradedAdd
  <1>4. /\ If(p.in <= a, Paid(p)) \in Int /\ If(t.out <= a, Got(t)) \in Int
        /\ If(t.in <= a, Paid(t)) = If(p.in <= a, Paid(p))
    <2>1. Paid(p) \in Int /\ Got(t) \in Int /\ Paid(t) = Paid(p) /\ t.in = p.in
      BY <1>1, BuyMoney, TradeMoney, SoldPaid DEF Ends
    <2> QED
      BY <2>1 DEF If
  <1>5. /\ Moved(F, a) \in Int /\ Traded(C, a) \in Int /\ Traded(U, a) \in Int
        /\ Bought(P, a) \in Int
    BY SumsInt
  <1>6. Bought(P \ {p}, a) \in Int
    <2>1. Books(F, C, U, P \ {p})
      BY <1>1 DEF Books
    <2> QED
      BY <2>1, SumsInt
  <1> QED
    BY <1>2, <1>3, <1>4, <1>5, <1>6, Fees DEF CashOf

-----------------------------------------------------------------------------
\* A later transfer leaves an instant's worth alone,
LEMMA WorthTransfer ==
  ASSUME NEW F, NEW C, NEW U, NEW P, Books(F, C, U, P), NEW a \in Nat, NEW mark \in [Coins -> Nat],
         NEW f \in Flow, f \notin F, a < f.at
  PROVE  WorthOf(F \cup {f}, C, P, a, mark) = WorthOf(F, C, P, a, mark)
  <1>1. IsFiniteSet(F) /\ (\A x \in F : IsFlow(x)) /\ IsFlow(f)
    BY Recordable DEF Books
  <1>2. Moved(F \cup {f}, a) = Moved(F, a) + If(f.at <= a, f.amount)
    BY <1>1, MovedAdd
  <1>3. If(f.at <= a, f.amount) = 0
    BY <1>1 DEF If, IsFlow
  <1>4. Moved(F, a) \in Int
    BY SumsInt
  <1> QED
    BY <1>2, <1>3, <1>4 DEF WorthOf

\* and so does a later purchase,
LEMMA WorthBuy ==
  ASSUME NEW F, NEW C, NEW U, NEW P, Books(F, C, U, P), NEW a \in Nat, NEW mark \in [Coins -> Nat],
         NEW p \in Position, p \notin P, a < p.in
  PROVE  WorthOf(F, C, P \cup {p}, a, mark) = WorthOf(F, C, P, a, mark)
  <1>1. /\ IsFiniteSet(P) /\ (\A x \in P : IsBuy(x) /\ x.coin \in Coins)
        /\ IsBuy(p) /\ p.coin \in Coins
    BY Recordable DEF Books
  <1>2. Pending(P \cup {p}, a, mark) = Pending(P, a, mark) + Share(p, a, mark)
    BY <1>1, PendingAdd
  <1>3. Share(p, a, mark) = 0
    BY <1>1 DEF Share, If, IsBuy
  <1>4. Pending(P, a, mark) \in Int
    BY SumsInt
  <1> QED
    BY <1>2, <1>3, <1>4 DEF WorthOf

\* and so does a later sale: what is sold later was a position then.
LEMMA WorthSell ==
  ASSUME NEW F, NEW C, NEW U, NEW P, Books(F, C, U, P), NEW a \in Nat, NEW mark \in [Coins -> Nat],
         NEW p \in P, NEW t \in Trade, t \notin C, Ends(p, t), a < t.out
  PROVE  WorthOf(F, C \cup {t}, P \ {p}, a, mark) = WorthOf(F, C, P, a, mark)
  <1>1. /\ IsFiniteSet(P \ {p}) /\ (\A x \in P \ {p} : IsBuy(x) /\ x.coin \in Coins)
        /\ IsBuy(p) /\ p.coin \in Coins /\ p \notin P \ {p}
        /\ IsFiniteSet(C) /\ (\A x \in C : IsTrade(x) /\ x.coin \in Coins)
        /\ IsTrade(t) /\ t.coin \in Coins
        /\ P = (P \ {p}) \cup {p} /\ P \ {p} \subseteq Position
    BY Recordable, FS_RemoveElement DEF Books
  <1>2. Pending(P, a, mark) = Pending(P \ {p}, a, mark) + Share(p, a, mark)
    BY <1>1, PendingAdd
  <1>3. Earned(C \cup {t}, a, mark)
            = Earned(C, a, mark) + (IF t.out <= a THEN Pnl(t) ELSE Share(t, a, mark))
    BY <1>1, EarnedAdd
  <1>4. (IF t.out <= a THEN Pnl(t) ELSE Share(t, a, mark)) = Share(p, a, mark)
    <2>1. ~(t.out <= a)
      BY <1>1 DEF IsTrade
    <2>2. Share(t, a, mark) = Share(p, a, mark)
      BY SoldPaid
    <2> QED
      BY <2>1, <2>2
  <1>5. Share(p, a, mark) \in Int
    BY <1>1, ShareInt
  <1>6. Earned(C, a, mark) \in Int /\ Moved(F, a) \in Int
    BY SumsInt
  <1>7. Pending(P \ {p}, a, mark) \in Int
    <2>1. Books(F, C, U, P \ {p})
      BY <1>1 DEF Books
    <2> QED
      BY <2>1, SumsInt
  <1>8. Earned(C \cup {t}, a, mark) + Pending(P \ {p}, a, mark)
            = Earned(C, a, mark) + Pending(P, a, mark)
    BY <1>2, <1>3, <1>4, <1>5, <1>6, <1>7
  <1>9. /\ Earned(C \cup {t}, a, mark) \in Int /\ Pending(P, a, mark) \in Int
    BY <1>2, <1>3, <1>4, <1>5, <1>6, <1>7
  <1> QED
    BY <1>6, <1>7, <1>8, <1>9, Fees DEF WorthOf

\* What a position is worth when its coin is marked, its price if it is not.
Marked(p, mark) == p.qty * (IF mark[p.coin] # 0 THEN mark[p.coin] ELSE p.entry)

\* The cash and the positions as they are marked are the worth.
LEMMA WorthNow ==
  ASSUME NEW F, NEW C, NEW P, Books(F, C, {}, P), NEW a \in Nat, NEW mark \in [Coins -> Nat],
         Past(F, C, {}, P, a)
  PROVE  CashOf(F, C, {}, P, a) + SumFunction([p \in P |-> Marked(p, mark)])
             = WorthOf(F, C, P, a, mark)
  <1>1. Earned(C, a, mark) = Traded(C, a)
    <2>1. ASSUME NEW t \in C
          PROVE  (IF t.out <= a THEN Pnl(t) ELSE Share(t, a, mark))
                     = If(t.out <= a, Got(t)) - If(t.in <= a, Paid(t))
      <3>1. t.out <= a /\ t.in <= a
        BY DEF Past
      <3>2. IsTrade(t)
        BY Recordable DEF Books
      <3>3. Pnl(t) = Got(t) - Paid(t)
        BY <3>2, TradeMoney
      <3> QED
        BY <3>1, <3>3 DEF If
    <2> QED
      BY <2>1 DEF Earned, Traded
  <1>2. Traded({}, a) = 0
    <2>1. DOMAIN [t \in {} |-> If(t.out <= a, Got(t)) - If(t.in <= a, Paid(t))] = {}
      OBVIOUS
    <2> QED
      BY <2>1, SumEmpty DEF Traded, SumFunction
  <1>3. Pending(P, a, mark) + Bought(P, a) = SumFunction([p \in P |-> Marked(p, mark)]) + 0
    <2> DEFINE share  == [p \in P |-> Share(p, a, mark)]
               paid   == [p \in P |-> If(p.in <= a, Paid(p))]
               value  == [p \in P |-> Marked(p, mark)]
               none   == [p \in P |-> 0]
    <2>1. ASSUME NEW p \in P
          PROVE  /\ share[p] \in Int /\ paid[p] \in Int /\ value[p] \in Int /\ none[p] \in Int
                 /\ share[p] + paid[p] = value[p] + none[p]
      <3>1. IsBuy(p) /\ p.coin \in Coins /\ p.in <= a
        BY Recordable DEF Books, Past
      <3>2. PICK m \in Nat : m = mark[p.coin]
        BY <3>1
      <3>3. /\ Paid(p) \in Int /\ Gain(p, m) \in Int /\ Gain(p, m) = p.qty * m - Paid(p) + BuyFee
            /\ p.qty * m \in Int /\ p.qty * p.entry \in Int
            /\ Paid(p) = p.qty * p.entry + BuyFee
        BY <3>1, BuyMoney DEF Paid
      <3>4. share[p] = If(m # 0, Gain(p, m)) - BuyFee /\ paid[p] = Paid(p) /\ none[p] = 0
        BY <3>1, <3>2 DEF Share, If
      <3>5. value[p] = IF m # 0 THEN p.qty * m ELSE p.qty * p.entry
        BY <3>2 DEF Marked
      <3>6. CASE m # 0
        <4>1. share[p] = Gain(p, m) - BuyFee /\ value[p] = p.qty * m
          BY <3>4, <3>5, <3>6 DEF If
        <4> HIDE DEF share, paid, value, none
        <4> QED
          BY <3>3, <3>4, <4>1, Fees
      <3>7. CASE m = 0
        <4>1. share[p] = 0 - BuyFee /\ value[p] = p.qty * p.entry
          BY <3>4, <3>5, <3>7 DEF If
        <4> HIDE DEF share, paid, value, none
        <4> QED
          BY <3>3, <3>4, <4>1, Fees
      <3> QED
        BY <3>6, <3>7
    <2>2. DOMAIN share = P /\ DOMAIN paid = P /\ DOMAIN value = P /\ DOMAIN none = P
      OBVIOUS
    <2>3. IsFiniteSet(P) /\ \A x \in P : none[x] = 0
      BY DEF Books
    <2>4. Pending(P, a, mark) = SumFunction(share) /\ Bought(P, a) = SumFunction(paid)
      BY DEF Pending, Bought
    <2> HIDE DEF share, paid, none, value
    <2>5. SumFunction(share) + SumFunction(paid) = SumFunction(value) + SumFunction(none)
      BY <2>1, <2>2, <2>3, SumFunctionBalance
    <2>6. SumFunction(none) = 0 * Cardinality(P) /\ Cardinality(P) \in Nat
      BY <2>2, <2>3, SumFunctionConstant, FS_CardinalityType
    <2>7. SumFunction(none) = 0
      BY <2>6
    <2>8. SumFunction([p \in P |-> Marked(p, mark)]) = SumFunction(value)
      BY DEF value
    <2> QED
      BY <2>4, <2>5, <2>7, <2>8
  <1>4. SumFunction([p \in P |-> Marked(p, mark)]) \in Int
    <2>1. ASSUME NEW p \in P PROVE Marked(p, mark) \in Int
      <3>1. IsBuy(p) /\ p.coin \in Coins
        BY Recordable DEF Books
      <3>2. mark[p.coin] \in Int /\ p.qty \in Int /\ p.entry \in Int
        BY <3>1 DEF IsBuy
      <3>3. p.qty * mark[p.coin] \in Int /\ p.qty * p.entry \in Int
        BY <3>2, TimesNat
      <3> QED
        BY <3>3 DEF Marked
    <2> DEFINE value == [p \in P |-> Marked(p, mark)]
    <2>2. DOMAIN value = P /\ IsFiniteSet(P) /\ \A x \in P : value[x] \in Int
      BY <2>1 DEF Books
    <2> HIDE DEF value
    <2>3. SumFunction(value) \in Int
      BY <2>2, SumFunctionType
    <2> QED
      BY <2>3 DEF value
  <1>5. /\ Moved(F, a) \in Int /\ Traded(C, a) \in Int /\ Bought(P, a) \in Int
        /\ Pending(P, a, mark) \in Int
    BY SumsInt
  <1> QED
    BY <1>1, <1>2, <1>3, <1>4, <1>5, Fees DEF CashOf, WorthOf

-----------------------------------------------------------------------------
(***************************************************************************)
(* The marks.                                                              *)
(***************************************************************************)
MarksIn(s, n) ==
    [c \in Coins |->
        LET priced == {i \in 1..n : s[i].closes[c] # 0}
        IN  IF priced = {} THEN 0 ELSE s[Max(priced)].closes[c]]

Snap == [at : Nat, closes : Quotes]

\* The marks give each coin a price, or 0 for none.
LEMMA MarksType ==
  ASSUME NEW s \in Seq(Snap), NEW n \in 0..Len(s)
  PROVE  MarksIn(s, n) \in [Coins -> Nat]
  <1> SUFFICES ASSUME NEW c \in Coins, NEW T, T = {i \in 1..n : s[i].closes[c] # 0}, T # {}
               PROVE  s[Max(T)].closes[c] \in Nat
    BY DEF MarksIn
  <1>1. n \in Nat /\ T \in SUBSET (0..n)
    OBVIOUS
  <1>2. Max(T) \in T
    BY <1>1, Greatest
  <1>3. Max(T) \in 1..Len(s)
    BY <1>2
  <1>4. s[Max(T)] \in Snap
    BY <1>3
  <1> QED
    BY <1>4, PerformanceAssumption DEF Snap

\* A snapshot leaves the marks of the earlier ones alone.
LEMMA MarksAppend ==
  ASSUME NEW s \in Seq(Snap), NEW x \in Snap, NEW n \in 0..Len(s)
  PROVE  MarksIn(Append(s, x), n) = MarksIn(s, n)
  <1> SUFFICES ASSUME NEW c \in Coins
               PROVE  MarksIn(Append(s, x), n)[c] = MarksIn(s, n)[c]
    BY DEF MarksIn
  <1>1. \A i \in 1..n : Append(s, x)[i] = s[i]
    OBVIOUS
  <1>2. PICK T : T = {i \in 1..n : s[i].closes[c] # 0}
    OBVIOUS
  <1>3. {i \in 1..n : Append(s, x)[i].closes[c] # 0} = T
    BY <1>1, <1>2
  <1>4. CASE T = {}
    BY <1>2, <1>3, <1>4 DEF MarksIn
  <1>5. CASE T # {}
    <2>1. n \in Nat /\ T \in SUBSET (0..n)
      BY <1>2
    <2>2. Max(T) \in T
      BY <1>5, <2>1, Greatest
    <2>3. Append(s, x)[Max(T)] = s[Max(T)]
      BY <2>2, <1>1, <1>2
    <2> QED
      BY <1>2, <1>3, <1>5, <2>3 DEF MarksIn
  <1> QED
    BY <1>4, <1>5

\* The greatest of a set of numbers is the one that none of them exceeds.
LEMMA MaxIs ==
  ASSUME NEW n \in Nat, NEW T \in SUBSET (0..n), NEW m \in T, \A y \in T : m >= y
  PROVE  Max(T) = m
  <1>1. Max(T) \in T /\ \A y \in T : Max(T) >= y
    BY Greatest
  <1>2. PICK x \in T : x = Max(T)
    BY <1>1
  <1>3. x \in Int /\ m \in Int /\ x >= m /\ m >= x
    BY <1>1, <1>2
  <1> QED
    BY <1>2, <1>3

\* The next snapshot carries the marks on where it has no close.
LEMMA MarksNext ==
  ASSUME NEW s \in Seq(Snap), NEW n \in Nat, n + 1 \in 1..Len(s), NEW c \in Coins
  PROVE  MarksIn(s, n + 1)[c]
             = IF s[n + 1].closes[c] # 0 THEN s[n + 1].closes[c] ELSE MarksIn(s, n)[c]
  <1>1. PICK T : T = {i \in 1..n : s[i].closes[c] # 0}
    OBVIOUS
  <1>2. PICK R : R = {i \in 1..(n + 1) : s[i].closes[c] # 0}
    OBVIOUS
  <1>3. 1..(n + 1) = (1..n) \cup {n + 1} /\ n + 1 \notin 1..n /\ n + 1 \in Nat
    OBVIOUS
  <1>4. CASE s[n + 1].closes[c] # 0
    <2>1. n + 1 \in R /\ (\A y \in R : n + 1 >= y) /\ R \in SUBSET (0..(n + 1))
      BY <1>2, <1>4
    <2>2. Max(R) = n + 1
      BY <1>3, <2>1, MaxIs
    <2> QED
      BY <1>2, <1>4, <2>1, <2>2 DEF MarksIn
  <1>5. CASE s[n + 1].closes[c] = 0
    <2>1. R = T
      BY <1>1, <1>2, <1>3, <1>5
    <2> QED
      BY <1>1, <1>2, <1>5, <2>1 DEF MarksIn
  <1> QED
    BY <1>4, <1>5

-----------------------------------------------------------------------------
(***************************************************************************)
(* The invariant.                                                          *)
(***************************************************************************)
\* The two parts of the invariant, in this state and in the next, as statements about
\* the books.
LEMMA Accounts ==
    /\ Balanced <=>
           /\ cash = CashOf(transfers, closed, unseen, Live, now)
           /\ \A k \in DOMAIN lines :
                 lines[k].cash = CashOf(transfers, closed, unseen, Live, lines[k].at)
    /\ Balanced' <=>
           /\ cash' = CashOf(transfers', closed', unseen', Live', now')
           /\ \A k \in DOMAIN lines' :
                 lines'[k].cash = CashOf(transfers', closed', unseen', Live', lines'[k].at)
    /\ WorthKept <=>
           (unseen = {} =>
              \A n \in DOMAIN snaps :
                 worth[n] = WorthOf(transfers, closed, open, snaps[n].at, MarksIn(snaps, n)))
    /\ WorthKept' <=>
           (unseen' = {} =>
              \A n \in DOMAIN snaps' :
                 worth'[n] = WorthOf(transfers', closed', open', snaps'[n].at, MarksIn(snaps', n)))
  BY DEF Balanced, CashAt, CashOf, WorthKept, WorthAt, WorthOf, Marks, MarksIn

\* In a state of the invariant nothing booked lies ahead of the clock.
LEMMA Standing ==
  ASSUME TypeOK, BooksOK
  PROVE  /\ Books(transfers, closed, unseen, open) /\ Books(transfers, closed, unseen, Live)
         /\ Past(transfers, closed, unseen, open, now)
         /\ Past(transfers, closed, unseen, Live, now)
         /\ \A k \in DOMAIN lines : lines[k].at \in Nat /\ lines[k].at <= now
                                    /\ lines[k].cash \in Int
         /\ snaps \in Seq(Snap) /\ now \in Nat /\ now + 1 \in Nat /\ Len(snaps) \in Nat
         /\ \A n \in DOMAIN snaps :
               /\ snaps[n].at \in Nat /\ snaps[n].at <= now /\ n \in 0..Len(snaps)
               /\ MarksIn(snaps, n) \in [Coins -> Nat]
  <1>1. snaps \in Seq(Snap) /\ now \in Nat /\ now + 1 \in Nat /\ Len(snaps) \in Nat
    BY DEF TypeOK, Snap
  <1>2. IsFiniteSet(Live) /\ Live \subseteq open
    BY FS_Subset DEF Live, BooksOK
  <1>3. Books(transfers, closed, unseen, open) /\ Books(transfers, closed, unseen, Live)
    BY <1>2 DEF Books, BooksOK, TypeOK
  <1>4. \A t \in closed \cup unseen : t.in <= now /\ t.out <= now
    <2>1. \A t \in closed \cup unseen : IsTrade(t)
      BY Recordable DEF TypeOK
    <2> QED
      BY <2>1, <1>1 DEF TypeOK, IsTrade, IsBuy
  <1>5. Past(transfers, closed, unseen, open, now) /\ Past(transfers, closed, unseen, Live, now)
    BY <1>2, <1>4 DEF Past, BooksOK, TypeOK
  <1>6. \A k \in DOMAIN lines : lines[k].at \in Nat /\ lines[k].at <= now /\ lines[k].cash \in Int
    <2>1. PICK R : R = [at : Nat, cash : Int]
      OBVIOUS
    <2>2. lines \in Seq(R)
      BY <2>1 DEF TypeOK
    <2>4. \A k \in DOMAIN lines : lines[k] \in R
      BY <2>2
    <2>3. \A k \in DOMAIN lines : lines[k].at <= now
      BY DEF BooksOK
    <2> QED
      BY <2>1, <2>3, <2>4
  <1>7. ASSUME NEW n \in DOMAIN snaps
        PROVE  /\ snaps[n].at \in Nat /\ snaps[n].at <= now /\ n \in 0..Len(snaps)
               /\ MarksIn(snaps, n) \in [Coins -> Nat]
    <2>1. snaps[n] \in Snap /\ n \in 0..Len(snaps)
      BY <1>1
    <2>2. snaps[n].at \in Nat /\ snaps[n].at <= now
      BY <2>1 DEF Snap, TypeOK
    <2> QED
      BY <1>1, <2>1, <2>2, MarksType
  <1> QED
    BY <1>1, <1>3, <1>5, <1>6, <1>7

\* What happens at the next instant moves the cash from then on.
LEMMA CashStep ==
  ASSUME TypeOK, BooksOK, Balanced, now' = now + 1, lines' = lines,
         NEW d \in Int, cash' = cash + d,
         \A a \in Nat : CashOf(transfers', closed', unseen', Live', a)
                            = CashOf(transfers, closed, unseen, Live, a) + If(now + 1 <= a, d)
  PROVE  Balanced'
  <1>1. \A a \in Nat : CashOf(transfers, closed, unseen, Live, a) \in Int
    BY Standing, SumsInt
  <1>2. cash' = CashOf(transfers', closed', unseen', Live', now')
    <2>1. Past(transfers, closed, unseen, Live, now + 1)
      <3>1. \A f \in transfers : f.at \in Nat
        BY Recordable DEF TypeOK, IsFlow
      <3>2. \A t \in closed \cup unseen : t.in \in Nat /\ t.out \in Nat
        BY Recordable DEF TypeOK, IsTrade, IsBuy
      <3>3. \A p \in Live : p.in \in Nat
        BY Recordable DEF TypeOK, IsBuy, Live
      <3> QED
        BY <3>1, <3>2, <3>3, Standing DEF Past
    <2>2. CashOf(transfers, closed, unseen, Live, now + 1) = cash
      BY <2>1, CashLater, Standing, Accounts
    <2>3. If(now + 1 <= now + 1, d) = d
      BY Standing DEF If
    <2> QED
      BY <2>2, <2>3, Standing
  <1>3. ASSUME NEW k \in DOMAIN lines'
        PROVE  lines'[k].cash = CashOf(transfers', closed', unseen', Live', lines'[k].at)
    <2>1. lines'[k].at \in Nat /\ lines'[k].at <= now
      BY <1>3, Standing
    <2>2. If(now + 1 <= lines'[k].at, d) = 0
      BY <2>1, Standing DEF If
    <2>3. lines'[k].cash = CashOf(transfers, closed, unseen, Live, lines'[k].at)
      BY <1>3, Accounts
    <2> QED
      BY <1>1, <2>1, <2>2, <2>3
  <1> QED
    BY <1>2, <1>3, Accounts

\* The worth of the past stays what it was.
LEMMA WorthStep ==
  ASSUME TypeOK, BooksOK, WorthKept, snaps' = snaps, worth' = worth, unseen' = {} => unseen = {},
         unseen' = {} =>
           \A a \in 0..now, mark \in [Coins -> Nat] :
             WorthOf(transfers', closed', open', a, mark) = WorthOf(transfers, closed, open, a, mark)
  PROVE  WorthKept'
  <1>1. ASSUME unseen' = {}, NEW n \in DOMAIN snaps
        PROVE  worth'[n] = WorthOf(transfers', closed', open', snaps'[n].at, MarksIn(snaps', n))
    <2>1. worth[n] = WorthOf(transfers, closed, open, snaps[n].at, MarksIn(snaps, n))
      BY <1>1, Accounts
    <2>2. snaps[n].at \in 0..now /\ MarksIn(snaps, n) \in [Coins -> Nat]
      BY Standing
    <2> QED
      BY <1>1, <2>1, <2>2
  <1> QED
    BY <1>1, Accounts

\* A program that starts has booked nothing and holds its first deposit.
LEMMA InitInv == Init => AInv
  <1> SUFFICES ASSUME Init PROVE AInv
    OBVIOUS
  <1>1. /\ now = 0 /\ cash = StartEquity /\ open = {} /\ closed = {} /\ unseen = {}
        /\ transfers = {} /\ flows = {} /\ adds = {} /\ snaps = <<>> /\ worth = <<>> /\ lines = <<>>
    BY DEF Init
  <1>2. TypeOK
    BY <1>1, Fees DEF TypeOK
  <1>3. BooksOK
    BY <1>1, FS_EmptySet DEF BooksOK
  <1>4. \A f : DOMAIN f = {} => SumFunction(f) = 0
    BY SumEmpty DEF SumFunction
  <1>5. Moved({}, 0) = 0 /\ Traded({}, 0) = 0 /\ Bought({}, 0) = 0
    BY <1>4 DEF Moved, Traded, Bought
  <1>6. CashOf({}, {}, {}, {}, 0) = StartEquity
    BY <1>5, Fees DEF CashOf
  <1>7. Live = {}
    BY <1>1 DEF Live
  <1>8. Balanced
    BY <1>1, <1>6, <1>7, Accounts
  <1>9. WorthKept
    BY <1>1, Accounts
  <1> QED
    BY <1>2, <1>3, <1>8, <1>9 DEF AInv

\* A purchase is booked as it is paid.
LEMMA StepBuy ==
  ASSUME AInv, NEW c \in Coins, NEW price \in Prices, Buy(c, price)
  PROVE  AInv'
  <1>1. TypeOK /\ BooksOK /\ Balanced /\ WorthKept
    BY DEF AInv
  <1>2. PICK p : p = [coin |-> c, qty |-> Qty, entry |-> price, in |-> now']
    OBVIOUS
  <1>3. /\ now' = now + 1 /\ now \in Nat /\ now + 1 \in Nat
        /\ cash' = cash - Qty * price - BuyFee
        /\ open' = open \cup {p} /\ closed' = closed /\ unseen' = unseen
        /\ transfers' = transfers /\ flows' = flows /\ adds' = adds
        /\ snaps' = snaps /\ worth' = worth /\ lines' = lines
        /\ \A q \in open : q.coin # p.coin
    BY <1>1, <1>2 DEF Buy, Tick, money, seen, TypeOK
  <1>4. p \in Position /\ p.in = now + 1 /\ p.coin = c
    BY <1>2, <1>3, PerformanceAssumption DEF Position
  <1>5. /\ \A q \in open : q.in \in Nat /\ q.in <= now
        /\ \A t \in closed \cup unseen : t.in \in Nat /\ t.in <= now
    BY <1>1, Standing, Recordable DEF Past, IsTrade, IsBuy, Books
  <1>6. p \notin open
    BY <1>3, <1>4, <1>5
  <1>7. TypeOK'
    <2>1. open' \subseteq Position
      BY <1>1, <1>3, <1>4 DEF TypeOK
    <2>2. /\ \A t \in closed \cup unseen : t.in < t.out /\ t.out <= now + 1
          /\ \A i \in DOMAIN snaps : snaps[i].at <= now + 1
      <3>1. \A t \in closed \cup unseen : t.out \in Nat /\ t.in < t.out /\ t.out <= now
        BY <1>1, Recordable DEF TypeOK, IsTrade
      <3> QED
        BY <3>1, <1>1, <1>3, Standing
    <2>3. \A t \in closed, q \in open' : t.in # q.in
      BY <1>1, <1>3, <1>4, <1>5 DEF TypeOK
    <2>4. \A q, r \in open' : q.in <= now + 1 /\ (q.coin = r.coin => q = r)
      BY <1>1, <1>3, <1>4, <1>5 DEF TypeOK
    <2>5. cash' \in Int
      <3>1. Qty * price \in Int /\ BuyFee \in Int
        BY Fees, TimesNat, PerformanceAssumption
      <3> QED
        BY <1>1, <1>3, <3>1 DEF TypeOK
    <2> QED
      BY <1>1, <1>3, <2>1, <2>2, <2>3, <2>4, <2>5 DEF TypeOK
  <1>8. BooksOK'
    <2>1. IsFiniteSet(open')
      BY <1>1, <1>3, FS_AddElement DEF BooksOK
    <2>2. \A f \in transfers : f.at <= now + 1
      BY <1>1, <1>3, Recordable DEF BooksOK, TypeOK, IsFlow
    <2>3. \A u \in unseen : \A q \in open' : u.in = q.in => u.qty = q.qty /\ u.entry = q.entry
      BY <1>1, <1>3, <1>4, <1>5 DEF BooksOK
    <2>4. \A q, r \in open' : q.in = r.in => q = r
      BY <1>1, <1>3, <1>4, <1>5 DEF BooksOK
    <2>5. \A k \in DOMAIN lines : lines[k].at <= now + 1
      BY <1>1, Standing
    <2> QED
      BY <1>1, <1>3, <2>1, <2>2, <2>3, <2>4, <2>5 DEF BooksOK
  <1>9. Live' = Live \cup {p} /\ p \notin Live
    <2>1. \A u \in unseen : u.in # p.in
      BY <1>3, <1>4, <1>5
    <2> QED
      BY <1>3, <1>6, <2>1 DEF Live, Gone
  <1>10. Balanced'
    <2>1. Paid(p) \in Int /\ cash' = cash + (0 - Paid(p))
      <3>1. Paid(p) \in Int /\ Paid(p) = Qty * price + BuyFee /\ Qty * price \in Int
        BY <1>2, <1>4, Recordable, BuyMoney, TimesNat, PerformanceAssumption DEF Paid
      <3> QED
        BY <1>1, <1>3, <3>1, Fees DEF TypeOK
    <2>2. ASSUME NEW a \in Nat
          PROVE  CashOf(transfers', closed', unseen', Live', a)
                   = CashOf(transfers, closed, unseen, Live, a) + If(now + 1 <= a, 0 - Paid(p))
      <3>1. Books(transfers, closed, unseen, Live)
        BY <1>1, Standing
      <3>2. CashOf(transfers, closed, unseen, Live \cup {p}, a)
              = CashOf(transfers, closed, unseen, Live, a) - If(p.in <= a, Paid(p))
        BY <1>4, <1>9, <3>1, CashBuy
      <3>3. CashOf(transfers, closed, unseen, Live, a) \in Int
        BY <3>1, SumsInt
      <3> QED
        BY <1>3, <1>4, <1>9, <2>1, <3>2, <3>3 DEF If
    <2> QED
      BY <1>1, <1>3, <2>1, <2>2, CashStep
  <1>11. WorthKept'
    <2>1. ASSUME NEW a \in 0..now, NEW mark \in [Coins -> Nat]
          PROVE  WorthOf(transfers', closed', open', a, mark) = WorthOf(transfers, closed, open, a, mark)
      <3>1. a \in Nat /\ a < p.in
        BY <1>3, <1>4
      <3> QED
        BY <1>1, <1>3, <1>4, <1>6, <3>1, Standing, WorthBuy
    <2> QED
      BY <1>1, <1>3, <2>1, WorthStep
  <1> QED
    BY <1>7, <1>8, <1>10, <1>11 DEF AInv

\* A deposit or a withdrawal moves the cash, whether or not the record knows of it.
LEMMA StepTransfer ==
  ASSUME AInv, NEW amount \in Amounts, Transfer(amount)
  PROVE  AInv'
  <1>1. TypeOK /\ BooksOK /\ Balanced /\ WorthKept
    BY DEF AInv
  <1>2. PICK f : f = [at |-> now', amount |-> amount]
    OBVIOUS
  <1>3. /\ now' = now + 1 /\ now \in Nat /\ now + 1 \in Nat
        /\ cash' = cash + amount /\ amount \in Int
        /\ open' = open /\ closed' = closed /\ unseen' = unseen
        /\ transfers' = transfers \cup {f} /\ flows' = flows /\ adds' = adds
        /\ snaps' = snaps /\ worth' = worth /\ lines' = lines
    BY <1>1, <1>2, PerformanceAssumption DEF Transfer, Tick, book, seen, TypeOK
  <1>4. f \in Flow /\ f.at = now + 1 /\ f.amount = amount
    BY <1>2, <1>3 DEF Flow
  <1>5. f \notin transfers
    BY <1>1, <1>3, <1>4 DEF BooksOK
  <1>6. TypeOK'
    <2>1. transfers' \subseteq Flow
      BY <1>1, <1>3, <1>4 DEF TypeOK
    <2>2. /\ \A t \in closed \cup unseen : t.in < t.out /\ t.out <= now + 1
          /\ \A i \in DOMAIN snaps : snaps[i].at <= now + 1
          /\ \A p \in open : p.in <= now + 1
      <3>1. \A t \in closed \cup unseen : t.out \in Nat /\ t.in < t.out /\ t.out <= now
        BY <1>1, Recordable DEF TypeOK, IsTrade
      <3>2. \A p \in open : p.in \in Nat /\ p.in <= now
        BY <1>1, Recordable DEF TypeOK, IsBuy
      <3> QED
        BY <3>1, <3>2, <1>1, <1>3, Standing
    <2>3. cash' \in Int
      BY <1>1, <1>3 DEF TypeOK
    <2> QED
      BY <1>1, <1>3, <2>1, <2>2, <2>3 DEF TypeOK
  <1>7. BooksOK'
    <2>1. IsFiniteSet(transfers')
      BY <1>1, <1>3, FS_AddElement DEF BooksOK
    <2>2. \A g \in transfers' : g.at <= now + 1
      BY <1>1, <1>3, <1>4, Recordable DEF BooksOK, TypeOK, IsFlow
    <2>3. \A k \in DOMAIN lines : lines[k].at <= now + 1
      BY <1>1, Standing
    <2> QED
      BY <1>1, <1>3, <2>1, <2>2, <2>3 DEF BooksOK
  <1>8. Live' = Live
    BY <1>3 DEF Live, Gone
  <1>9. Balanced'
    <2>1. ASSUME NEW a \in Nat
          PROVE  CashOf(transfers', closed', unseen', Live', a)
                   = CashOf(transfers, closed, unseen, Live, a) + If(now + 1 <= a, amount)
      <3>1. Books(transfers, closed, unseen, Live)
        BY <1>1, Standing
      <3> QED
        BY <1>3, <1>4, <1>5, <1>8, <3>1, CashTransfer
    <2> QED
      BY <1>1, <1>3, <2>1, CashStep
  <1>10. WorthKept'
    <2>1. ASSUME NEW a \in 0..now, NEW mark \in [Coins -> Nat]
          PROVE  WorthOf(transfers', closed', open', a, mark) = WorthOf(transfers, closed, open, a, mark)
      <3>1. a \in Nat /\ a < f.at
        BY <1>3, <1>4
      <3> QED
        BY <1>1, <1>3, <1>4, <1>5, <3>1, Standing, WorthTransfer
    <2> QED
      BY <1>1, <1>3, <2>1, WorthStep
  <1> QED
    BY <1>6, <1>7, <1>9, <1>10 DEF AInv

\* A sale turns a position into a trade of the same coins.
LEMMA StepSell ==
  ASSUME AInv, NEW p \in open, NEW price \in Prices, NEW win \in BOOLEAN, Sell(p, price, win)
  PROVE  AInv'
  <1>1. TypeOK /\ BooksOK /\ Balanced /\ WorthKept
    BY DEF AInv
  <1>2. PICK t : t = [coin |-> p.coin, qty |-> p.qty, entry |-> p.entry, in |-> p.in,
                      exit |-> price, out |-> now', win |-> win]
    OBVIOUS
  <1>3. /\ now' = now + 1 /\ now \in Nat /\ now + 1 \in Nat /\ ~Gone(p)
        /\ cash' = cash + p.qty * price - SellFee
        /\ open' = open \ {p} /\ closed' = closed \cup {t} /\ unseen' = unseen
        /\ transfers' = transfers /\ flows' = flows /\ adds' = adds
        /\ snaps' = snaps /\ worth' = worth /\ lines' = lines
    BY <1>1, <1>2 DEF Sell, Tick, money, seen, TypeOK
  <1>4. /\ t \in Trade /\ t.out = now + 1 /\ Ends(p, t) /\ t.exit = price /\ t.qty = p.qty
        /\ p \in Position /\ p.in <= now
    BY <1>1, <1>2, <1>3 DEF Position, Trade, Ends, TypeOK
  <1>5. \A x \in closed \cup unseen : x.out \in Nat /\ x.in < x.out /\ x.out <= now
    BY <1>1, Recordable DEF TypeOK, IsTrade
  <1>6. t \notin closed
    BY <1>3, <1>4, <1>5
  <1>7. p.in \in Nat /\ t.in = p.in /\ t.in < t.out /\ t.out <= now + 1
    BY <1>3, <1>4, Recordable DEF IsBuy, Ends
  <1>8. TypeOK'
    <2>1. open' \subseteq Position /\ closed' \subseteq Trade
      BY <1>1, <1>3, <1>4 DEF TypeOK
    <2>2. /\ \A x \in closed' \cup unseen : x.in < x.out /\ x.out <= now + 1
          /\ \A i \in DOMAIN snaps : snaps[i].at <= now + 1
          /\ \A q \in open' : q.in <= now + 1
      <3>1. \A q \in open : q.in \in Nat /\ q.in <= now
        BY <1>1, Recordable DEF TypeOK, IsBuy
      <3> QED
        BY <3>1, <1>1, <1>3, <1>5, <1>7, Standing
    <2>3. \A x \in closed', q \in open' : x.in # q.in
      <3>1. \A q \in open' : q.in # p.in
        BY <1>1, <1>3 DEF BooksOK
      <3> QED
        BY <1>1, <1>3, <1>7, <3>1 DEF TypeOK
    <2>4. cash' \in Int
      <3>1. p.qty * price \in Int /\ SellFee \in Int
        BY <1>4, Fees, TimesNat, PerformanceAssumption DEF Position
      <3> QED
        BY <1>1, <1>3, <3>1 DEF TypeOK
    <2> QED
      BY <1>1, <1>3, <2>1, <2>2, <2>3, <2>4 DEF TypeOK
  <1>9. BooksOK'
    <2>1. IsFiniteSet(open') /\ IsFiniteSet(closed')
      BY <1>1, <1>3, FS_AddElement, FS_RemoveElement DEF BooksOK
    <2>2. \A f \in transfers : f.at <= now + 1
      BY <1>1, <1>3, Recordable DEF BooksOK, TypeOK, IsFlow
    <2>3. \A k \in DOMAIN lines : lines[k].at <= now + 1
      BY <1>1, Standing
    <2> QED
      BY <1>1, <1>3, <2>1, <2>2, <2>3 DEF BooksOK
  <1>10. p \in Live /\ Live' = Live \ {p}
    BY <1>3 DEF Live, Gone
  <1>11. Balanced'
    <2>1. Got(t) \in Int /\ cash' = cash + Got(t)
      <3>1. Got(t) \in Int /\ Got(t) = p.qty * price - SellFee /\ p.qty * price \in Int
        BY <1>4, Recordable, TradeMoney
      <3> QED
        BY <1>1, <1>3, <3>1, Fees DEF TypeOK
    <2>2. ASSUME NEW a \in Nat
          PROVE  CashOf(transfers', closed', unseen', Live', a)
                   = CashOf(transfers, closed, unseen, Live, a) + If(now + 1 <= a, Got(t))
      <3>1. Books(transfers, closed, unseen, Live)
        BY <1>1, Standing
      <3> QED
        BY <1>3, <1>4, <1>6, <1>10, <3>1, CashSell
    <2> QED
      BY <1>1, <1>3, <2>1, <2>2, CashStep
  <1>12. WorthKept'
    <2>1. ASSUME NEW a \in 0..now, NEW mark \in [Coins -> Nat]
          PROVE  WorthOf(transfers', closed', open', a, mark) = WorthOf(transfers, closed, open, a, mark)
      <3>1. a \in Nat /\ a < t.out
        BY <1>3, <1>4
      <3> QED
        BY <1>1, <1>3, <1>4, <1>6, <3>1, Standing, WorthSell
    <2> QED
      BY <1>1, <1>3, <2>1, WorthStep
  <1> QED
    BY <1>8, <1>9, <1>11, <1>12 DEF AInv

\* A sale that the ledger misses moves the cash and leaves its position in the ledger.
LEMMA StepSellUnseen ==
  ASSUME AInv, NEW p \in open, NEW price \in Prices, SellUnseen(p, price)
  PROVE  AInv'
  <1>1. TypeOK /\ BooksOK /\ Balanced /\ WorthKept
    BY DEF AInv
  <1>2. PICK t : t = [coin |-> p.coin, qty |-> p.qty, entry |-> p.entry, in |-> p.in,
                      exit |-> price, out |-> now']
    OBVIOUS
  <1>3. /\ now' = now + 1 /\ now \in Nat /\ now + 1 \in Nat /\ ~Gone(p)
        /\ cash' = cash + p.qty * price - SellFee
        /\ open' = open /\ closed' = closed /\ unseen' = unseen \cup {t}
        /\ transfers' = transfers /\ flows' = flows /\ adds' = adds
        /\ snaps' = snaps /\ worth' = worth /\ lines' = lines
    BY <1>1, <1>2 DEF SellUnseen, Tick, money, seen, TypeOK
  <1>4. /\ t \in Sale /\ t.out = now + 1 /\ Ends(p, t) /\ t.exit = price /\ t.qty = p.qty
        /\ t.entry = p.entry /\ p \in Position /\ p.in <= now
    BY <1>1, <1>2, <1>3 DEF Position, Sale, Ends, TypeOK
  <1>5. \A x \in closed \cup unseen : x.out \in Nat /\ x.in < x.out /\ x.out <= now
    BY <1>1, Recordable DEF TypeOK, IsTrade
  <1>6. t \notin unseen
    BY <1>3, <1>4, <1>5
  <1>7. p.in \in Nat /\ t.in = p.in /\ t.in < t.out /\ t.out <= now + 1
    BY <1>3, <1>4, Recordable DEF IsBuy, Ends
  <1>8. TypeOK'
    <2>1. unseen' \subseteq Sale
      BY <1>1, <1>3, <1>4 DEF TypeOK
    <2>2. /\ \A x \in closed \cup unseen' : x.in < x.out /\ x.out <= now + 1
          /\ \A i \in DOMAIN snaps : snaps[i].at <= now + 1
          /\ \A q \in open : q.in <= now + 1
      <3>1. \A q \in open : q.in \in Nat /\ q.in <= now
        BY <1>1, Recordable DEF TypeOK, IsBuy
      <3> QED
        BY <3>1, <1>1, <1>3, <1>5, <1>7, Standing
    <2>3. cash' \in Int
      <3>1. p.qty * price \in Int /\ SellFee \in Int
        BY <1>4, Fees, TimesNat, PerformanceAssumption DEF Position
      <3> QED
        BY <1>1, <1>3, <3>1 DEF TypeOK
    <2> QED
      BY <1>1, <1>3, <2>1, <2>2, <2>3 DEF TypeOK
  <1>9. BooksOK'
    <2>1. IsFiniteSet(unseen')
      BY <1>1, <1>3, FS_AddElement DEF BooksOK
    <2>2. \A f \in transfers : f.at <= now + 1
      BY <1>1, <1>3, Recordable DEF BooksOK, TypeOK, IsFlow
    <2>3. \A k \in DOMAIN lines : lines[k].at <= now + 1
      BY <1>1, Standing
    <2>4. \A u, v \in unseen' : u.in = v.in => u = v
      <3>1. \A u \in unseen : u.in # t.in
        BY <1>3, <1>7 DEF Gone
      <3> QED
        BY <1>1, <1>3, <3>1 DEF BooksOK
    <2>5. \A u \in unseen' : \A q \in open : u.in = q.in => u.qty = q.qty /\ u.entry = q.entry
      <3>1. \A q \in open : t.in = q.in => q = p
        BY <1>1, <1>7 DEF BooksOK
      <3> QED
        BY <1>1, <1>3, <1>4, <3>1 DEF BooksOK
    <2> QED
      BY <1>1, <1>3, <2>1, <2>2, <2>3, <2>4, <2>5 DEF BooksOK
  <1>10. p \in Live /\ Live' = Live \ {p}
    <2>1. \A q \in open : Gone(q)' <=> Gone(q) \/ q.in = p.in
      BY <1>3, <1>7 DEF Gone
    <2>2. \A q \in open : q.in = p.in <=> q = p
      BY <1>1 DEF BooksOK
    <2>3. Live' = {q \in open : ~(Gone(q)')}
      BY <1>3 DEF Live
    <2> QED
      BY <1>3, <2>1, <2>2, <2>3 DEF Live
  <1>11. Balanced'
    <2>1. Got(t) \in Int /\ cash' = cash + Got(t)
      <3>1. Got(t) \in Int /\ Got(t) = p.qty * price - SellFee /\ p.qty * price \in Int
        BY <1>4, Recordable, TradeMoney
      <3> QED
        BY <1>1, <1>3, <3>1, Fees DEF TypeOK
    <2>2. ASSUME NEW a \in Nat
          PROVE  CashOf(transfers', closed', unseen', Live', a)
                   = CashOf(transfers, closed, unseen, Live, a) + If(now + 1 <= a, Got(t))
      <3>1. Books(transfers, closed, unseen, Live)
        BY <1>1, Standing
      <3> QED
        BY <1>3, <1>4, <1>6, <1>10, <3>1, CashSellUnseen
    <2> QED
      BY <1>1, <1>3, <2>1, <2>2, CashStep
  <1>12. WorthKept'
    <2>1. unseen' # {}
      BY <1>3
    <2> QED
      BY <2>1, Accounts
  <1> QED
    BY <1>8, <1>9, <1>11, <1>12 DEF AInv

\* The record is no part of the account.
LEMMA StepRecord ==
  ASSUME AInv, \/ \E f \in transfers : \E at \in {f.at, now} : AddLoad(f, at)
               \/ \E r \in adds : AddSave(r)
               \/ \E r \in adds : AddDies(r)
  PROVE  AInv'
  <1>1. TypeOK /\ BooksOK /\ Balanced /\ WorthKept
    BY DEF AInv
  <1>2. /\ now' = now /\ cash' = cash /\ open' = open /\ closed' = closed /\ unseen' = unseen
        /\ transfers' = transfers /\ snaps' = snaps /\ worth' = worth /\ lines' = lines
    BY DEF AddLoad, AddSave, AddDies, book, seen
  <1>3. /\ flows' \subseteq Flow /\ adds' \subseteq [flow : Flow, copy : SUBSET Flow]
        /\ IsFiniteSet(flows') /\ \A r \in adds' : IsFiniteSet(r.copy)
    <2>1. ASSUME NEW f \in transfers, NEW at \in {f.at, now}, AddLoad(f, at)
          PROVE  /\ flows' \subseteq Flow /\ adds' \subseteq [flow : Flow, copy : SUBSET Flow]
                 /\ IsFiniteSet(flows') /\ \A r \in adds' : IsFiniteSet(r.copy)
      <3>1. f \in Flow /\ at \in Nat /\ [f EXCEPT !.at = at] \in Flow
        BY <1>1 DEF TypeOK, Flow
      <3>2. PICK r : r = [flow |-> [f EXCEPT !.at = at], copy |-> flows]
        OBVIOUS
      <3>3. flows' = flows /\ adds' = adds \cup {r}
        BY <2>1, <3>2 DEF AddLoad
      <3>4. r \in [flow : Flow, copy : SUBSET Flow] /\ IsFiniteSet(r.copy)
        BY <1>1, <3>1, <3>2 DEF TypeOK, BooksOK
      <3> QED
        BY <1>1, <3>3, <3>4 DEF TypeOK, BooksOK
    <2>2. ASSUME NEW r \in adds, AddSave(r) \/ AddDies(r)
          PROVE  /\ flows' \subseteq Flow /\ adds' \subseteq [flow : Flow, copy : SUBSET Flow]
                 /\ IsFiniteSet(flows') /\ \A q \in adds' : IsFiniteSet(q.copy)
      <3>1. r.flow \in Flow /\ r.copy \subseteq Flow /\ IsFiniteSet(r.copy)
        BY <1>1 DEF TypeOK, BooksOK
      <3>2. IsFiniteSet(r.copy \cup {r.flow}) /\ IsFiniteSet({})
        BY <3>1, FS_AddElement, FS_EmptySet
      <3>3. (flows' = r.copy \cup {r.flow} \/ flows' = {}) /\ adds' = adds \ {r}
        BY <2>2 DEF AddSave, AddDies
      <3> QED
        BY <1>1, <3>1, <3>2, <3>3 DEF TypeOK, BooksOK
    <2> QED
      BY <2>1, <2>2
  <1>4. TypeOK'
    BY <1>1, <1>2, <1>3 DEF TypeOK
  <1>5. BooksOK'
    BY <1>1, <1>2, <1>3 DEF BooksOK
  <1>6. Live' = Live
    BY <1>2 DEF Live, Gone
  <1>7. Balanced' /\ WorthKept'
    BY <1>1, <1>2, <1>6, Accounts
  <1> QED
    BY <1>4, <1>5, <1>7 DEF AInv

\* The trader reads the account, and drops what was sold unseen.
LEMMA StepCycle ==
  ASSUME AInv, Cycle
  PROVE  AInv'
  <1>1. TypeOK /\ BooksOK /\ Balanced /\ WorthKept
    BY DEF AInv
  <1>2. PICK l : l = [at |-> now', cash |-> cash]
    OBVIOUS
  <1>3. /\ now' = now + 1 /\ now \in Nat /\ now + 1 \in Nat
        /\ cash' = cash /\ open' = Live /\ closed' = closed /\ unseen' = unseen
        /\ transfers' = transfers /\ flows' = flows /\ adds' = adds
        /\ snaps' = snaps /\ worth' = worth /\ lines' = Append(lines, l)
        /\ Live \subseteq open /\ cash \in Int
    BY <1>1, <1>2 DEF Cycle, Tick, money, TypeOK, Live
  <1>4. l.at = now + 1 /\ l.cash = cash /\ l \in [at : Nat, cash : Int]
    BY <1>2, <1>3
  <1>5. PICK R : R = [at : Nat, cash : Int]
    OBVIOUS
  <1>6. /\ lines \in Seq(R) /\ l \in R /\ Len(lines) \in Nat
        /\ lines' \in Seq(R) /\ Len(lines') = Len(lines) + 1
        /\ lines'[Len(lines) + 1] = l
        /\ \A k \in DOMAIN lines : lines'[k] = lines[k]
        /\ DOMAIN lines' = DOMAIN lines \cup {Len(lines) + 1}
        /\ \A k \in DOMAIN lines : k < Len(lines) + 1
    <2>1. lines \in Seq(R) /\ l \in R
      BY <1>1, <1>4, <1>5 DEF TypeOK
    <2> QED
      BY <1>3, <2>1
  <1>7. TypeOK'
    <2>1. /\ \A t \in closed \cup unseen : t.in < t.out /\ t.out <= now + 1
          /\ \A i \in DOMAIN snaps : snaps[i].at <= now + 1
          /\ \A p \in open : p.in <= now + 1
      <3>1. \A t \in closed \cup unseen : t.out \in Nat /\ t.in < t.out /\ t.out <= now
        BY <1>1, Recordable DEF TypeOK, IsTrade
      <3>2. \A p \in open : p.in \in Nat /\ p.in <= now
        BY <1>1, Recordable DEF TypeOK, IsBuy
      <3> QED
        BY <3>1, <3>2, <1>1, <1>3, Standing
    <2> QED
      BY <1>1, <1>3, <1>5, <1>6, <2>1 DEF TypeOK
  <1>8. BooksOK'
    <2>1. IsFiniteSet(open')
      BY <1>1, <1>3, FS_Subset DEF BooksOK
    <2>2. \A f \in transfers : f.at <= now + 1
      BY <1>1, <1>3, Recordable DEF BooksOK, TypeOK, IsFlow
    <2>3. \A j, k \in DOMAIN lines' : /\ lines'[j].at <= now + 1
                                      /\ j < k => lines'[j].at < lines'[k].at
      <3>1. \A k \in DOMAIN lines : lines[k].at \in Nat /\ lines[k].at <= now
        BY <1>1, Standing
      <3>2. \A j, k \in DOMAIN lines : j < k => lines[j].at < lines[k].at
        BY <1>1 DEF BooksOK
      <3>3. \A k \in DOMAIN lines : ~(Len(lines) + 1 < k) /\ ~(Len(lines) + 1 < Len(lines) + 1)
        BY <1>6
      <3>4. ASSUME NEW j \in DOMAIN lines', NEW k \in DOMAIN lines'
            PROVE  lines'[j].at <= now + 1 /\ (j < k => lines'[j].at < lines'[k].at)
        <4>1. CASE j \in DOMAIN lines /\ k \in DOMAIN lines
          BY <1>3, <1>6, <3>1, <3>2, <4>1
        <4>2. CASE j \in DOMAIN lines /\ k = Len(lines) + 1
          BY <1>3, <1>4, <1>6, <3>1, <4>2
        <4>3. CASE j = Len(lines) + 1
          BY <1>3, <1>4, <1>6, <3>3, <4>3
        <4> QED
          BY <1>6, <4>1, <4>2, <4>3
      <3> QED
        BY <3>4
    <2>4. \A p, q \in open' : p.in = q.in => p = q
      BY <1>1, <1>3 DEF BooksOK
    <2>5. \A u \in unseen : \A p \in open' : u.in = p.in => u.qty = p.qty /\ u.entry = p.entry
      BY <1>1, <1>3 DEF BooksOK
    <2>6. /\ now' = now + 1 /\ closed' = closed /\ unseen' = unseen
          /\ transfers' = transfers /\ flows' = flows /\ adds' = adds
      BY <1>3
    <2>7. /\ IsFiniteSet(closed) /\ IsFiniteSet(unseen) /\ IsFiniteSet(transfers)
          /\ IsFiniteSet(flows) /\ (\A r \in adds : IsFiniteSet(r.copy))
          /\ \A u, v \in unseen : u.in = v.in => u = v
      BY <1>1 DEF BooksOK
    <2> QED
      BY <2>1, <2>2, <2>3, <2>4, <2>5, <2>6, <2>7 DEF BooksOK
  <1>9. Live' = Live
    BY <1>3 DEF Live, Gone
  <1>10. Balanced'
    <2>1. CashOf(transfers, closed, unseen, Live, now + 1) = cash
      <3>1. Past(transfers, closed, unseen, Live, now + 1)
        <4>1. \A f \in transfers : f.at \in Nat
          BY <1>1, Recordable DEF TypeOK, IsFlow
        <4>2. \A t \in closed \cup unseen : t.in \in Nat /\ t.out \in Nat
          BY <1>1, Recordable DEF TypeOK, IsTrade, IsBuy
        <4>3. \A p \in Live : p.in \in Nat
          BY <1>1, Recordable DEF TypeOK, IsBuy, Live
        <4> QED
          BY <4>1, <4>2, <4>3, <1>1, <1>3, Standing DEF Past
      <3> QED
        BY <1>1, <3>1, CashLater, Standing, Accounts
    <2>2. ASSUME NEW k \in DOMAIN lines'
          PROVE  lines'[k].cash = CashOf(transfers, closed, unseen, Live, lines'[k].at)
      <3>1. CASE k \in DOMAIN lines
        BY <1>1, <1>6, <3>1, Accounts
      <3>2. CASE k = Len(lines) + 1
        BY <1>4, <1>6, <2>1, <3>2
      <3> QED
        BY <1>6, <3>1, <3>2
    <2> QED
      BY <1>3, <1>9, <2>1, <2>2, Accounts
  <1>11. WorthKept'
    <2>1. unseen' = {} => open' = open
      BY <1>3 DEF Live, Gone
    <2> QED
      BY <1>1, <1>3, <2>1, WorthStep
  <1> QED
    BY <1>7, <1>8, <1>10, <1>11 DEF AInv

\* What the snapshot finds is what the curve will make of it.
LEMMA StepSnapshot ==
  ASSUME AInv, NEW closes \in Quotes, Snapshot(closes)
  PROVE  AInv'
  <1>1. TypeOK /\ BooksOK /\ Balanced /\ WorthKept
    BY DEF AInv
  <1>2. PICK x : x = [at |-> now', closes |-> closes]
    OBVIOUS
  <1>3. PICK N : N = Len(snaps)
    OBVIOUS
  <1>4. PICK mark : mark = [c \in Coins |-> IF closes[c] # 0 THEN closes[c] ELSE MarksIn(snaps, N)[c]]
    OBVIOUS
  <1>5. PICK w : w = cash + SumFunction([p \in Live |-> Marked(p, mark)])
    OBVIOUS
  <1>6. /\ now' = now + 1 /\ now \in Nat /\ now + 1 \in Nat
        /\ cash' = cash /\ open' = open /\ closed' = closed /\ unseen' = unseen
        /\ transfers' = transfers /\ flows' = flows /\ adds' = adds
        /\ lines' = lines /\ snaps' = Append(snaps, x) /\ cash \in Int
    <2>1. now \in Nat /\ cash \in Int
      BY <1>1 DEF TypeOK
    <2>2. now' = now + 1 /\ snaps' = Append(snaps, [at |-> now', closes |-> closes])
      BY DEF Snapshot, Tick
    <2>3. UNCHANGED <<cash, book, money, lines>>
      BY DEF Snapshot
    <2> QED
      BY <1>2, <2>1, <2>2, <2>3 DEF money, book
  <1>7. x.at = now + 1 /\ x.closes = closes /\ x \in Snap
    BY <1>2, <1>6 DEF Snap
  <1>8. snaps \in Seq(Snap) /\ worth \in Seq(Int) /\ N \in Nat /\ Len(worth) = N /\ Len(snaps) = N
    BY <1>1, <1>3 DEF TypeOK, Snap
  <1>9. /\ snaps' \in Seq(Snap) /\ Len(snaps') = N + 1 /\ snaps'[N + 1] = x
        /\ \A k \in DOMAIN snaps : snaps'[k] = snaps[k]
        /\ DOMAIN snaps' = DOMAIN snaps \cup {N + 1}
        /\ \A k \in DOMAIN snaps : k < N + 1 /\ ~(N + 1 < k) /\ k \in 0..N
    BY <1>6, <1>7, <1>8
  <1>10. MarksIn(snaps', N + 1) = mark /\ mark \in [Coins -> Nat]
    <2>1. MarksIn(snaps', N + 1) \in [Coins -> Nat]
      <3>1. N + 1 \in 0..Len(snaps')
        BY <1>8, <1>9
      <3> QED
        BY <1>9, <3>1, MarksType
    <2>2. ASSUME NEW c \in Coins PROVE MarksIn(snaps', N + 1)[c] = mark[c]
      <3>1. N + 1 \in 1..Len(snaps')
        BY <1>8, <1>9
      <3>2. MarksIn(snaps', N + 1)[c] = IF x.closes[c] # 0 THEN x.closes[c] ELSE MarksIn(snaps', N)[c]
        BY <1>8, <1>9, <3>1, MarksNext
      <3>3. MarksIn(snaps', N) = MarksIn(snaps, N)
        <4>1. N \in 0..Len(snaps)
          BY <1>8
        <4> QED
          BY <1>6, <1>7, <1>8, <4>1, MarksAppend
      <3> QED
        BY <1>4, <1>7, <3>2, <3>3
    <2>3. mark = [c \in Coins |-> mark[c]]
      BY <1>4
    <2>4. MarksIn(snaps', N + 1) = [c \in Coins |-> MarksIn(snaps', N + 1)[c]]
      BY DEF MarksIn
    <2> QED
      BY <2>1, <2>2, <2>3, <2>4
  <1>11. worth' = Append(worth, w)
    <2>1. ASSUME NEW p \in Live
          PROVE  p.qty * (IF (IF closes[p.coin] # 0 THEN closes[p.coin] ELSE Marks(Len(snaps))[p.coin]) # 0
                          THEN (IF closes[p.coin] # 0 THEN closes[p.coin] ELSE Marks(Len(snaps))[p.coin])
                          ELSE p.entry) = Marked(p, mark)
      <3>1. p.coin \in Coins
        BY <1>1, Recordable DEF Live, TypeOK
      <3>2. Marks(Len(snaps)) = MarksIn(snaps, N)
        BY <1>3 DEF Marks, MarksIn
      <3>3. mark[p.coin] = IF closes[p.coin] # 0 THEN closes[p.coin] ELSE Marks(Len(snaps))[p.coin]
        BY <1>4, <3>1, <3>2
      <3> QED
        BY <3>3 DEF Marked
    <2> QED
      BY <2>1, <1>5 DEF Snapshot, Sum, Live
  <1>12. w \in Int
    <2>1. IsFiniteSet(Live) /\ \A p \in Live : Marked(p, mark) \in Int
      <3>1. ASSUME NEW p \in Live PROVE Marked(p, mark) \in Int
        <4>1. IsBuy(p) /\ p.coin \in Coins
          BY <1>1, Recordable DEF TypeOK, Live
        <4>2. mark[p.coin] \in Int /\ p.qty \in Int /\ p.entry \in Int
          BY <1>10, <4>1 DEF IsBuy
        <4>3. p.qty * mark[p.coin] \in Int /\ p.qty * p.entry \in Int
          BY <4>2, TimesNat
        <4> QED
          BY <4>3 DEF Marked
      <3> QED
        BY <3>1, <1>1, Standing DEF Books
    <2>2. PICK v : v = [p \in Live |-> Marked(p, mark)]
      OBVIOUS
    <2>3. IsFiniteSet(DOMAIN v) /\ \A p \in DOMAIN v : v[p] \in Int
      BY <2>1, <2>2
    <2>4. SumFunction(v) \in Int
      BY <2>3, SumFunctionType
    <2> QED
      BY <1>5, <1>6, <2>2, <2>4
  <1>13. /\ worth' \in Seq(Int) /\ Len(worth') = N + 1 /\ worth'[N + 1] = w
         /\ \A k \in DOMAIN snaps : worth'[k] = worth[k]
    BY <1>8, <1>11, <1>12
  <1>14. TypeOK'
    <2>1. /\ \A t \in closed \cup unseen : t.in < t.out /\ t.out <= now + 1
          /\ \A p \in open : p.in <= now + 1
      <3>1. \A t \in closed \cup unseen : t.out \in Nat /\ t.in < t.out /\ t.out <= now
        BY <1>1, Recordable DEF TypeOK, IsTrade
      <3>2. \A p \in open : p.in \in Nat /\ p.in <= now
        BY <1>1, Recordable DEF TypeOK, IsBuy
      <3> QED
        BY <3>1, <3>2, <1>1, <1>6
    <2>2. ASSUME NEW j \in DOMAIN snaps', NEW k \in DOMAIN snaps'
          PROVE  snaps'[j].at <= now + 1 /\ (j < k => snaps'[j].at < snaps'[k].at)
      <3>1. \A i \in DOMAIN snaps : snaps[i].at \in Nat /\ snaps[i].at <= now
        BY <1>1, Standing
      <3>2. CASE j \in DOMAIN snaps /\ k \in DOMAIN snaps
        <4>1. j < k => snaps[j].at < snaps[k].at
          BY <1>1, <3>2 DEF TypeOK
        <4> QED
          BY <1>6, <1>9, <3>1, <3>2, <4>1
      <3>3. CASE j \in DOMAIN snaps /\ k = N + 1
        BY <1>6, <1>7, <1>9, <3>1, <3>3
      <3>4. CASE j = N + 1
        <4>1. ~(j < k)
          BY <1>8, <1>9, <3>4
        <4> QED
          BY <1>6, <1>7, <1>9, <3>4, <4>1
      <3> QED
        BY <1>9, <3>2, <3>3, <3>4
    <2> QED
      BY <1>1, <1>6, <1>9, <1>13, <2>1, <2>2 DEF TypeOK, Snap
  <1>15. BooksOK'
    <2>1. \A f \in transfers : f.at <= now + 1
      BY <1>1, <1>6, Recordable DEF BooksOK, TypeOK, IsFlow
    <2>2. \A k \in DOMAIN lines : lines[k].at <= now + 1
      BY <1>1, <1>6, Standing
    <2> QED
      BY <1>1, <1>6, <2>1, <2>2 DEF BooksOK
  <1>16. Past(transfers, closed, unseen, Live, now + 1)
    <2>1. \A f \in transfers : f.at \in Nat
      BY <1>1, Recordable DEF TypeOK, IsFlow
    <2>2. \A t \in closed \cup unseen : t.in \in Nat /\ t.out \in Nat
      BY <1>1, Recordable DEF TypeOK, IsTrade, IsBuy
    <2>3. \A p \in Live : p.in \in Nat
      BY <1>1, Recordable DEF TypeOK, IsBuy, Live
    <2> QED
      BY <2>1, <2>2, <2>3, <1>1, <1>6, Standing DEF Past
  <1>17. CashOf(transfers, closed, unseen, Live, now + 1) = cash
    BY <1>1, <1>16, CashLater, Standing, Accounts
  <1>18. Live' = Live
    BY <1>6 DEF Live, Gone
  <1>19. Balanced'
    BY <1>1, <1>6, <1>17, <1>18, Accounts
  <1>20. WorthKept'
    <2>1. ASSUME unseen = {}, NEW n \in DOMAIN snaps'
          PROVE  worth'[n] = WorthOf(transfers, closed, open, snaps'[n].at, MarksIn(snaps', n))
      <3>1. CASE n \in DOMAIN snaps
        <4>1. worth[n] = WorthOf(transfers, closed, open, snaps[n].at, MarksIn(snaps, n))
          BY <1>1, <2>1, <3>1, Accounts
        <4>2. n \in 0..Len(snaps)
          BY <1>8, <1>9, <3>1
        <4>3. MarksIn(snaps', n) = MarksIn(snaps, n)
          BY <1>6, <1>7, <1>8, <4>2, MarksAppend
        <4> QED
          BY <1>9, <1>13, <3>1, <4>1, <4>3
      <3>2. CASE n = N + 1
        <4>1. Live = open
          BY <2>1 DEF Live, Gone
        <4>2. /\ Books(transfers, closed, {}, open) /\ Past(transfers, closed, {}, open, now + 1)
              /\ CashOf(transfers, closed, {}, open, now + 1) = cash
          BY <1>1, <1>16, <1>17, <2>1, <4>1, Standing
        <4>3. cash + SumFunction([p \in open |-> Marked(p, mark)])
                = WorthOf(transfers, closed, open, now + 1, mark)
          BY <1>6, <1>10, <4>2, WorthNow
        <4> QED
          BY <1>5, <1>7, <1>9, <1>10, <1>13, <3>2, <4>1, <4>3
      <3> QED
        BY <1>9, <3>1, <3>2
    <2> QED
      BY <1>6, <2>1, Accounts
  <1> QED
    BY <1>14, <1>15, <1>19, <1>20 DEF AInv

\* Every step keeps the invariant.
LEMMA InvStep ==
  ASSUME AInv, [Next]_vars
  PROVE  AInv'
  <1>1. ASSUME NEW c \in Coins, NEW price \in Prices, Buy(c, price) PROVE AInv'
    BY <1>1, StepBuy
  <1>2. ASSUME NEW p \in open, NEW price \in Prices, NEW win \in BOOLEAN, Sell(p, price, win)
        PROVE  AInv'
    BY <1>2, StepSell
  <1>3. ASSUME NEW p \in open, NEW price \in Prices, SellUnseen(p, price) PROVE AInv'
    BY <1>3, StepSellUnseen
  <1>4. ASSUME NEW amount \in Amounts, Transfer(amount) PROVE AInv'
    BY <1>4, StepTransfer
  <1>5. ASSUME \/ \E f \in transfers : \E at \in {f.at, now} : AddLoad(f, at)
               \/ \E r \in adds : AddSave(r)
               \/ \E r \in adds : AddDies(r)
        PROVE  AInv'
    BY <1>5, StepRecord
  <1>6. ASSUME NEW closes \in Quotes, Snapshot(closes) PROVE AInv'
    BY <1>6, StepSnapshot
  <1>7. CASE Cycle
    BY <1>7, StepCycle
  <1>8. CASE UNCHANGED vars
    <2>1. /\ now' = now /\ cash' = cash /\ open' = open /\ closed' = closed /\ unseen' = unseen
          /\ transfers' = transfers /\ flows' = flows /\ adds' = adds
          /\ snaps' = snaps /\ worth' = worth /\ lines' = lines
      BY <1>8 DEF vars
    <2>2. TypeOK /\ BooksOK /\ Balanced /\ WorthKept
      BY DEF AInv
    <2>3. Live' = Live
      BY <2>1 DEF Live, Gone
    <2>4. TypeOK'
      BY <2>1, <2>2 DEF TypeOK
    <2>5. BooksOK'
      BY <2>1, <2>2 DEF BooksOK
    <2>6. Balanced' /\ WorthKept'
      BY <2>1, <2>2, <2>3, Accounts
    <2> QED
      BY <2>4, <2>5, <2>6 DEF AInv
  <1> QED
    BY <1>1, <1>2, <1>3, <1>4, <1>5, <1>6, <1>7, <1>8 DEF Next

\* The account is what its bookings add up to, at every instant: the cash and every
\* line of the decision log (trader.py) is what transfers, purchases and sales left of it,
\* and as long as no sale was missed, every snapshot found it worth what they make of it.
THEOREM Account == Spec => []AInv
  BY InitInv, InvStep, PTL DEF Spec

-----------------------------------------------------------------------------
(***************************************************************************)
(* The curve.                                                              *)
(***************************************************************************)
\* A sum over some is a sum over all in which the others count nothing.
LEMMA SumIf ==
  ASSUME NEW S, IsFiniteSet(S), NEW Q, Q \subseteq S, NEW f, NEW w, DOMAIN f = Q, DOMAIN w = S,
         \A x \in Q : f[x] \in Int, \A x \in Q : w[x] = f[x], \A x \in S \ Q : w[x] = 0
  PROVE  SumFunction(f) = SumFunction(w) /\ SumFunction(f) \in Int /\ \A x \in S : w[x] \in Int
  <1>1. SumFunction(w) = SumFunction(f)
    BY SumFunctionWithin
  <1>2. \A x \in S : w[x] \in Int
    OBVIOUS
  <1>3. SumFunction(w) \in Int
    BY <1>2, SumFunctionType
  <1> QED
    BY <1>1, <1>2, <1>3

\* What is recorded up to an instant is what had moved the cash.
LEMMA RecordedMoves ==
  ASSUME NEW F, IsFiniteSet(F), \A x \in F : IsFlow(x), NEW a \in Nat
  PROVE  SumFunction([f \in {f \in F : f.at <= a} |-> f.amount]) = Moved(F, a)
  <1>1. PICK Q : Q = {f \in F : f.at <= a}
    OBVIOUS
  <1>2. PICK v : v = [f \in Q |-> f.amount]
    OBVIOUS
  <1>3. PICK w : w = [f \in F |-> If(f.at <= a, f.amount)]
    OBVIOUS
  <1>4. Q \subseteq F /\ DOMAIN v = Q /\ DOMAIN w = F
    BY <1>1, <1>2, <1>3
  <1>5. \A x \in Q : v[x] \in Int
    BY <1>2, <1>4 DEF IsFlow
  <1>6. (\A x \in Q : w[x] = v[x]) /\ \A x \in F \ Q : w[x] = 0
    BY <1>1, <1>2, <1>3 DEF If
  <1>7. SumFunction(v) = SumFunction(w)
    BY <1>4, <1>5, <1>6, SumIf
  <1>8. Moved(F, a) = SumFunction(w)
    BY <1>3 DEF Moved
  <1> QED
    BY <1>1, <1>2, <1>7, <1>8

\* A constant for some of them.
LEMMA SumCount ==
  ASSUME NEW S, IsFiniteSet(S), NEW Q, Q \subseteq S, NEW k \in Int, NEW w, DOMAIN w = S,
         \A x \in Q : w[x] = k, \A x \in S \ Q : w[x] = 0
  PROVE  SumFunction(w) = k * Cardinality(Q) /\ IsFiniteSet(Q) /\ Cardinality(Q) \in Nat
  <1>1. PICK f : f = [x \in Q |-> k]
    OBVIOUS
  <1>2. DOMAIN f = Q /\ \A x \in Q : f[x] = k
    BY <1>1
  <1>3. IsFiniteSet(Q) /\ Cardinality(Q) \in Nat
    BY FS_Subset, FS_CardinalityType
  <1>4. \A x \in Q : f[x] \in Int
    BY <1>2
  <1>5. \A x \in Q : w[x] = f[x]
    BY <1>2
  <1>6. SumFunction(f) = SumFunction(w)
    BY <1>2, <1>4, <1>5, SumIf
  <1>7. SumFunction(f) = k * Cardinality(Q)
    BY <1>2, <1>3, SumFunctionConstant
  <1> QED
    BY <1>3, <1>6, <1>7

\* The trades that the curve has at an instant: sums v of those that are done
\* and u of those that were positions then.
TradesAt(C, a, mark, done, later, late, v, u) ==
    /\ done \subseteq C /\ \A t \in C : t \in done <=> t.out <= a
    /\ late \subseteq C /\ \A t \in C : t \in late <=> t.in <= a /\ a < t.out
    /\ later \subseteq C /\ \A t \in C : t \in later <=> t.in <= a /\ a < t.out /\ mark[t.coin] # 0
    /\ DOMAIN v = done /\ \A t \in done : v[t] = Pnl(t)
    /\ DOMAIN u = later /\ \A t \in later : u[t] = Gain(t, mark[t.coin])

PositionsAt(P, a, mark, current, unpriced, v) ==
    /\ current \subseteq P /\ \A p \in P : p \in current <=> p.in <= a /\ mark[p.coin] # 0
    /\ unpriced \subseteq P /\ \A p \in P : p \in unpriced <=> p.in <= a /\ mark[p.coin] = 0
    /\ DOMAIN v = current /\ \A p \in current : v[p] = Gain(p, mark[p.coin]) - BuyFee

\* What they sum to.  The fee of the entry is
\* missing while they were positions.
LEMMA EarnedOnCurve ==
  ASSUME NEW C, IsFiniteSet(C), C \subseteq Trade, NEW a \in Nat, NEW mark \in [Coins -> Nat],
         \A t \in C : t.in < t.out,
         NEW done, NEW later, NEW late, NEW v, NEW u, TradesAt(C, a, mark, done, later, late, v, u)
  PROVE  /\ SumFunction(v) \in Int /\ SumFunction(u) \in Int /\ Cardinality(late) \in Nat
         /\ SumFunction(v) + SumFunction(u)
                = Earned(C, a, mark) + BuyFee * Cardinality(late)
  <1>6. PICK e : e = [t \in C |-> IF t.out <= a THEN Pnl(t) ELSE Share(t, a, mark)]
    OBVIOUS
  <1>7. PICK vw : vw = [t \in C |-> If(t \in done, v[t])]
    OBVIOUS
  <1>8. PICK uw : uw = [t \in C |-> If(t \in later, u[t])]
    OBVIOUS
  <1>9. PICK k : k = [t \in C |-> If(t \in late, BuyFee)]
    OBVIOUS
  <1>10. /\ done \subseteq C /\ later \subseteq C /\ late \subseteq C
         /\ DOMAIN v = done /\ DOMAIN u = later /\ DOMAIN e = C
         /\ DOMAIN vw = C /\ DOMAIN uw = C /\ DOMAIN k = C
    BY <1>6, <1>7, <1>8, <1>9 DEF TradesAt
  <1>11. \A t \in C : /\ Pnl(t) \in Int /\ Gain(t, mark[t.coin]) \in Int
                      /\ t.in \in Nat /\ t.out \in Nat
    <2>1. \A t \in C : IsTrade(t) /\ t.coin \in Coins
      BY Recordable
    <2>2. \A t \in C : Pnl(t) \in Int
      BY <2>1, TradeMoney
    <2>3. \A t \in C : mark[t.coin] \in Int
      BY <2>1
    <2>4. \A t \in C : Gain(t, mark[t.coin]) \in Int
      BY <2>1, <2>3, BuyMoney DEF IsTrade
    <2> QED
      BY <2>1, <2>2, <2>4 DEF IsTrade, IsBuy
  <1>12. \A t \in done : v[t] \in Int
    BY <1>10, <1>11 DEF TradesAt
  <1>19. \A t \in later : u[t] \in Int
    BY <1>10, <1>11 DEF TradesAt
  <1>13. /\ SumFunction(v) = SumFunction(vw) /\ SumFunction(v) \in Int
         /\ \A t \in C : vw[t] \in Int
    <2>1. (\A t \in done : vw[t] = v[t]) /\ \A t \in C \ done : vw[t] = 0
      BY <1>7, <1>10 DEF If
    <2>2. done \subseteq C /\ DOMAIN v = done /\ DOMAIN vw = C
      BY <1>10
    <2> QED
      BY <1>12, <2>1, <2>2, SumIf
  <1>14. /\ SumFunction(u) = SumFunction(uw) /\ SumFunction(u) \in Int
         /\ \A t \in C : uw[t] \in Int
    <2>1. (\A t \in later : uw[t] = u[t]) /\ \A t \in C \ later : uw[t] = 0
      BY <1>8, <1>10 DEF If
    <2>2. later \subseteq C /\ DOMAIN u = later /\ DOMAIN uw = C
      BY <1>10
    <2> QED
      BY <1>19, <2>1, <2>2, SumIf
  <1>15. SumFunction(k) = BuyFee * Cardinality(late) /\ Cardinality(late) \in Nat
    <2>1. (\A t \in late : k[t] = BuyFee) /\ \A t \in C \ late : k[t] = 0
      BY <1>9, <1>10 DEF If
    <2> QED
      BY <1>10, <2>1, Fees, SumCount
  <1>16. ASSUME NEW t \in C
         PROVE  /\ e[t] \in Int /\ k[t] \in Int
                /\ vw[t] + uw[t] = e[t] + k[t]
    <2>1. CASE t.out <= a
      <3>1. ~(a < t.out) /\ t \in done /\ t \notin later /\ t \notin late
        BY <1>11, <2>1 DEF TradesAt
      <3>2. vw[t] = Pnl(t) /\ uw[t] = 0 /\ e[t] = Pnl(t) /\ k[t] = 0
        BY <1>6, <1>7, <1>8, <1>9, <2>1, <3>1 DEF If, TradesAt
      <3> QED
        BY <1>11, <3>2
    <2>2. CASE ~(t.out <= a) /\ t.in <= a
      <3>1. /\ a < t.out /\ t \notin done /\ t \in late
            /\ t \in later <=> mark[t.coin] # 0
        BY <1>11, <2>2 DEF TradesAt
      <3>2. /\ vw[t] = 0 /\ uw[t] = If(mark[t.coin] # 0, Gain(t, mark[t.coin]))
            /\ e[t] = If(mark[t.coin] # 0, Gain(t, mark[t.coin])) - BuyFee /\ k[t] = BuyFee
        BY <1>6, <1>7, <1>8, <1>9, <2>2, <3>1 DEF If, Share, TradesAt
      <3>3. If(mark[t.coin] # 0, Gain(t, mark[t.coin])) \in Int
        BY <1>11 DEF If
      <3> QED
        BY <3>2, <3>3, Fees
    <2>3. CASE ~(t.out <= a) /\ ~(t.in <= a)
      <3>1. t \notin done /\ t \notin late /\ t \notin later
        BY <2>3 DEF TradesAt
      <3>2. vw[t] = 0 /\ uw[t] = 0 /\ e[t] = 0 /\ k[t] = 0
        BY <1>6, <1>7, <1>8, <1>9, <2>3, <3>1 DEF If, Share, TradesAt
      <3> QED
        BY <3>2
    <2> QED
      BY <2>1, <2>2, <2>3
  <1>17. SumFunction(vw) + SumFunction(uw) = SumFunction(e) + SumFunction(k)
    BY <1>10, <1>13, <1>14, <1>16, SumFunctionBalance
  <1>18. Earned(C, a, mark) = SumFunction(e)
    BY <1>6 DEF Earned
  <1> QED
    BY <1>13, <1>14, <1>15, <1>17, <1>18

\* The open part of the curve, over the positions, against their shares.
LEMMA PendingOnCurve ==
  ASSUME NEW P, IsFiniteSet(P), P \subseteq Position, NEW a \in Nat, NEW mark \in [Coins -> Nat],
         NEW current, NEW unpriced, NEW v, PositionsAt(P, a, mark, current, unpriced, v)
  PROVE  /\ SumFunction(v) \in Int /\ Cardinality(unpriced) \in Nat
         /\ SumFunction(v) = Pending(P, a, mark) + BuyFee * Cardinality(unpriced)
  <1>4. PICK e : e = [p \in P |-> Share(p, a, mark)]
    OBVIOUS
  <1>5. PICK vw : vw = [p \in P |-> If(p \in current, v[p])]
    OBVIOUS
  <1>6. PICK k : k = [p \in P |-> If(p \in unpriced, BuyFee)]
    OBVIOUS
  <1>7. PICK z : z = [p \in P |-> 0]
    OBVIOUS
  <1>8. /\ current \subseteq P /\ unpriced \subseteq P /\ {} \subseteq P
        /\ DOMAIN v = current /\ DOMAIN e = P /\ DOMAIN vw = P /\ DOMAIN k = P /\ DOMAIN z = P
    BY <1>4, <1>5, <1>6, <1>7 DEF PositionsAt
  <1>9. \A p \in P : Gain(p, mark[p.coin]) \in Int
    <2>1. \A p \in P : IsBuy(p) /\ p.coin \in Coins
      BY Recordable
    <2>2. \A p \in P : mark[p.coin] \in Int
      BY <2>1
    <2> QED
      BY <2>1, <2>2, BuyMoney
  <1>10. \A p \in current : v[p] \in Int
    BY <1>8, <1>9, Fees DEF PositionsAt
  <1>11. /\ SumFunction(v) = SumFunction(vw) /\ SumFunction(v) \in Int
         /\ \A p \in P : vw[p] \in Int
    <2>1. (\A p \in current : vw[p] = v[p]) /\ \A p \in P \ current : vw[p] = 0
      BY <1>5, <1>8 DEF If
    <2> QED
      BY <1>8, <1>10, <2>1, SumIf
  <1>12. SumFunction(k) = BuyFee * Cardinality(unpriced) /\ Cardinality(unpriced) \in Nat
    <2>1. (\A p \in unpriced : k[p] = BuyFee) /\ \A p \in P \ unpriced : k[p] = 0
      BY <1>6, <1>8 DEF If
    <2> QED
      BY <1>8, <2>1, Fees, SumCount
  <1>13. SumFunction(z) = 0
    <2>1. \A p \in P : z[p] = 0
      BY <1>7
    <2>2. SumFunction(z) = 0 * Cardinality(P) /\ Cardinality(P) \in Nat
      BY <1>8, <2>1, SumFunctionConstant, FS_CardinalityType
    <2> QED
      BY <2>2
  <1>14. ASSUME NEW p \in P
         PROVE  e[p] \in Int /\ k[p] \in Int /\ z[p] \in Int /\ vw[p] + z[p] = e[p] + k[p]
    <2>1. CASE ~(p.in <= a)
      <3>1. vw[p] = 0 /\ e[p] = 0 /\ k[p] = 0 /\ z[p] = 0
        BY <1>4, <1>5, <1>6, <1>7, <2>1 DEF If, Share, PositionsAt
      <3> QED
        BY <3>1
    <2>2. CASE p.in <= a /\ mark[p.coin] # 0
      <3>1. /\ vw[p] = Gain(p, mark[p.coin]) - BuyFee /\ e[p] = Gain(p, mark[p.coin]) - BuyFee
            /\ k[p] = 0 /\ z[p] = 0
        BY <1>4, <1>5, <1>6, <1>7, <2>2 DEF If, Share, PositionsAt
      <3> QED
        BY <1>9, <3>1, Fees
    <2>3. CASE p.in <= a /\ mark[p.coin] = 0
      <3>1. vw[p] = 0 /\ e[p] = 0 - BuyFee /\ k[p] = BuyFee /\ z[p] = 0
        BY <1>4, <1>5, <1>6, <1>7, <2>3 DEF If, Share, PositionsAt
      <3> QED
        BY <3>1, Fees
    <2> QED
      BY <2>1, <2>2, <2>3
  <1>15. SumFunction(vw) + SumFunction(z) = SumFunction(e) + SumFunction(k)
    BY <1>8, <1>11, <1>14, SumFunctionBalance
  <1>16. Pending(P, a, mark) = SumFunction(e)
    BY <1>4 DEF Pending
  <1>17. SumFunction(e) \in Int
    BY <1>8, <1>14, SumFunctionType
  <1> QED
    BY <1>11, <1>12, <1>13, <1>15, <1>16, <1>17

Late(n) == {t \in closed : t.in <= snaps[n].at /\ snaps[n].at < t.out}
Unpriced(n) == {p \in open : p.in <= snaps[n].at /\ Marks(n)[p.coin] = 0}

\* The profit of the curve, from what the trades and positions add.
LEMMA ProfitIs ==
  ASSUME TypeOK, BooksOK, NEW n \in DOMAIN snaps
  PROVE  /\ Earned(closed, snaps[n].at, Marks(n)) \in Int
         /\ Pending(open, snaps[n].at, Marks(n)) \in Int
         /\ Cardinality(Late(n)) \in Nat /\ Cardinality(Unpriced(n)) \in Nat
         /\ Profit(n) = Earned(closed, snaps[n].at, Marks(n)) + Pending(open, snaps[n].at, Marks(n))
                        + BuyFee * (Cardinality(Late(n)) + Cardinality(Unpriced(n)))
         /\ Profit(n) \in Int
  <1>1. PICK a \in Nat : a = snaps[n].at
    BY Standing
  <1>2. PICK mark \in [Coins -> Nat] : mark = Marks(n)
    BY Standing DEF Marks, MarksIn
  <1>3. /\ IsFiniteSet(closed) /\ closed \subseteq Trade /\ (\A t \in closed : t.in < t.out)
        /\ IsFiniteSet(open) /\ open \subseteq Position
    BY DEF TypeOK, BooksOK
  <1>4. Books(transfers, closed, unseen, open)
    BY Standing
  <1>5. Earned(closed, a, mark) \in Int /\ Pending(open, a, mark) \in Int
    BY <1>4, SumsInt
  <1>6. PICK done, later, late :
           /\ done = {t \in closed : t.out <= a}
           /\ later = {t \in closed : t.in <= a /\ a < t.out /\ mark[t.coin] # 0}
           /\ late = {t \in closed : t.in <= a /\ a < t.out}
    OBVIOUS
  <1>7. PICK current, unpriced :
           /\ current = {p \in open : p.in <= a /\ mark[p.coin] # 0}
           /\ unpriced = {p \in open : p.in <= a /\ mark[p.coin] = 0}
    OBVIOUS
  <1>8. PICK v, u, w :
           /\ v = [t \in done |-> Pnl(t)]
           /\ u = [t \in later |-> Gain(t, mark[t.coin])]
           /\ w = [p \in current |-> Gain(p, mark[p.coin]) - BuyFee]
    OBVIOUS
  <1>14. Late(n) = late /\ Unpriced(n) = unpriced
    BY <1>1, <1>2, <1>6, <1>7 DEF Late, Unpriced
  <1>9. /\ SumFunction(v) \in Int /\ SumFunction(u) \in Int /\ Cardinality(Late(n)) \in Nat
        /\ SumFunction(v) + SumFunction(u)
              = Earned(closed, a, mark) + BuyFee * Cardinality(Late(n))
    <2>1. /\ done \subseteq closed /\ later \subseteq closed /\ late \subseteq closed
          /\ DOMAIN v = done /\ DOMAIN u = later
      BY <1>6, <1>8
    <2>2. \A t \in closed : t \in done <=> t.out <= a
      BY <1>6
    <2>3. \A t \in closed : t \in later <=> t.in <= a /\ a < t.out /\ mark[t.coin] # 0
      BY <1>6
    <2>4. \A t \in closed : t \in late <=> t.in <= a /\ a < t.out
      BY <1>6
    <2>5. \A t \in done : v[t] = Pnl(t)
      BY <1>8
    <2>6. \A t \in later : u[t] = Gain(t, mark[t.coin])
      BY <1>8
    <2>7. TradesAt(closed, a, mark, done, later, late, v, u)
      BY <2>1, <2>2, <2>3, <2>4, <2>5, <2>6 DEF TradesAt
    <2> QED
      BY <1>3, <1>14, <2>7, EarnedOnCurve
  <1>10. /\ SumFunction(w) \in Int /\ Cardinality(Unpriced(n)) \in Nat
         /\ SumFunction(w) = Pending(open, a, mark) + BuyFee * Cardinality(Unpriced(n))
    <2>1. current \subseteq open /\ unpriced \subseteq open /\ DOMAIN w = current
      BY <1>7, <1>8
    <2>2. \A p \in open : p \in current <=> p.in <= a /\ mark[p.coin] # 0
      BY <1>7
    <2>3. \A p \in open : p \in unpriced <=> p.in <= a /\ mark[p.coin] = 0
      BY <1>7
    <2>4. \A p \in current : w[p] = Gain(p, mark[p.coin]) - BuyFee
      BY <1>8
    <2>5. PositionsAt(open, a, mark, current, unpriced, w)
      BY <2>1, <2>2, <2>3, <2>4 DEF PositionsAt
    <2> QED
      BY <1>3, <1>14, <2>5, PendingOnCurve
  <1>11. Profit(n) = SumFunction(v) + SumFunction(u) + SumFunction(w)
    BY <1>1, <1>2, <1>6, <1>7, <1>8 DEF Profit, Sum
  <1>12. BuyFee * (Cardinality(Late(n)) + Cardinality(Unpriced(n)))
            = BuyFee * Cardinality(Late(n)) + BuyFee * Cardinality(Unpriced(n))
    <2>1. \A b, i, j \in Int : b * (i + j) = b * i + b * j
      OBVIOUS
    <2> QED
      BY <1>9, <1>10, <2>1, Fees
  <1>13. BuyFee * Cardinality(Late(n)) \in Int /\ BuyFee * Cardinality(Unpriced(n)) \in Int
    BY <1>9, <1>10, Fees, TimesNat
  <1> QED
    BY <1>1, <1>2, <1>5, <1>9, <1>10, <1>11, <1>12, <1>13

\* The record at an instant.
LEMMA NetIs ==
  ASSUME TypeOK, BooksOK, NEW a \in Nat
  PROVE  NetAt(a) = Moved(flows, a) /\ NetAt(a) \in Int
  <1>1. IsFiniteSet(flows) /\ \A f \in flows : IsFlow(f)
    BY Recordable DEF TypeOK, BooksOK
  <1>2. SumFunction([f \in {f \in flows : f.at <= a} |-> f.amount]) = Moved(flows, a)
    BY <1>1, RecordedMoves
  <1>3. Moved(flows, a) \in Int
    <2>1. PICK w : w = [f \in flows |-> If(f.at <= a, f.amount)]
      OBVIOUS
    <2>2. IsFiniteSet(DOMAIN w) /\ \A f \in DOMAIN w : w[f] \in Int
      BY <1>1, <2>1 DEF If, IsFlow
    <2> QED
      BY <2>1, <2>2, SumFunctionType DEF Moved
  <1> QED
    BY <1>2, <1>3 DEF NetAt, Sum

\* Record complete, no sale missed: every point of the equity curve (performance.py)
\* is the account's worth then, but for the fee of each position that was open.
THEOREM CurveTells == Spec => []CurveIsAccount
  <1>1. ASSUME AInv, Recorded, NEW n \in DOMAIN snaps
        PROVE  Point(n).equity
                 = worth[n] + BuyFee * (Cardinality(Late(n)) + Cardinality(Unpriced(n)))
    <2>1. TypeOK /\ BooksOK /\ WorthKept /\ flows = transfers /\ unseen = {}
      BY <1>1 DEF AInv, Recorded
    <2>2. worth[n] = StartEquity + Moved(flows, snaps[n].at)
                     + Earned(closed, snaps[n].at, Marks(n)) + Pending(open, snaps[n].at, Marks(n))
      BY <2>1 DEF WorthKept, WorthAt
    <2>3. NetAt(snaps[n].at) = Moved(flows, snaps[n].at) /\ NetAt(snaps[n].at) \in Int
      BY <2>1, Standing, NetIs
    <2>4. Point(n).equity = StartEquity + NetAt(snaps[n].at) + Profit(n)
      BY DEF Point
    <2>5. BuyFee * (Cardinality(Late(n)) + Cardinality(Unpriced(n))) \in Int
      BY <2>1, ProfitIs, Fees, TimesNat
    <2> QED
      BY <2>1, <2>2, <2>3, <2>4, <2>5, ProfitIs, Fees
  <1>2. AInv => CurveIsAccount
    BY <1>1 DEF CurveIsAccount, Late, Unpriced
  <1> QED
    BY <1>2, Account, PTL

-----------------------------------------------------------------------------
(***************************************************************************)
(* The page.                                                               *)
(***************************************************************************)
\* A later instant is of no earlier day.
LEMMA DayMono ==
  ASSUME NEW a \in Nat, NEW b \in Nat, a <= b
  PROVE  a \div DayLength <= b \div DayLength /\ a \div DayLength \in Nat /\ b \div DayLength \in Nat
  <1> DEFINE p == a \div DayLength
             q == b \div DayLength
  <1>1. DayLength \in Nat \ {0}
    BY PerformanceAssumption
  <1>2. p \in Nat /\ q \in Nat /\ p * DayLength <= a /\ b < q * DayLength + DayLength
    BY <1>1
  <1> HIDE DEF p, q
  <1>3. SUFFICES ASSUME p >= q + 1 PROVE FALSE
    BY <1>2 DEF p, q
  <1>4. PICK k \in Nat : p = q + 1 + k
    <2>1. p - q - 1 \in Nat /\ p = q + 1 + (p - q - 1)
      BY <1>2, <1>3
    <2> QED
      BY <2>1
  <1>5. /\ p * DayLength = q * DayLength + DayLength + k * DayLength
        /\ k * DayLength \in Nat /\ q * DayLength \in Nat
    BY <1>1, <1>2, <1>4
  <1> QED
    BY <1>1, <1>2, <1>5

\* The sum over f's arguments is taken by key: g sums the rows.
ByKey(f, S, K, key, part, row, g) ==
    /\ DOMAIN f = S /\ \A x \in S : f[x] \in Int /\ key[x] \in K
    /\ \A k \in K : part[k] = {x \in S : key[x] = k}
    /\ \A k \in K : DOMAIN row[k] = part[k] /\ \A x \in part[k] : row[k][x] = f[x]
    /\ DOMAIN g = K /\ \A k \in K : g[k] = SumFunction(row[k])

\* A sum by key is the sum.
LEMMA SumByKey ==
  ASSUME NEW S, IsFiniteSet(S), NEW K, IsFiniteSet(K),
         NEW f, NEW key, NEW part, NEW row, NEW g, ByKey(f, S, K, key, part, row, g)
  PROVE  SumFunction(g) = SumFunction(f) /\ \A k \in K : g[k] \in Int
  <1>1. ASSUME NEW k \in K
        PROVE  g[k] = SumFunctionOnSet(f, {x \in S : key[x] = k}) /\ g[k] \in Int
    <2>1. PICK Q : Q = {x \in S : key[x] = k}
      OBVIOUS
    <2>2. PICK r : r = row[k]
      OBVIOUS
    <2>3. Q \subseteq S /\ DOMAIN r = Q /\ \A x \in Q : r[x] = f[x]
      BY <2>1, <2>2 DEF ByKey
    <2>4. IsFiniteSet(Q)
      BY <2>3, FS_Subset
    <2>5. \A x \in Q : r[x] \in Int /\ r[x] = f[x]
      BY <2>3 DEF ByKey
    <2>6. SumFunctionOnSet(r, Q) = SumFunctionOnSet(f, Q)
      BY <2>4, <2>5, SumSame
    <2>7. SumFunction(r) = SumFunctionOnSet(r, Q) /\ SumFunction(r) \in Int
      BY <2>3, <2>4, <2>5, SumFunctionType DEF SumFunction
    <2>8. g[k] = SumFunction(r)
      BY <2>2 DEF ByKey
    <2> QED
      BY <2>1, <2>6, <2>7, <2>8
  <1>2. DOMAIN f = S /\ DOMAIN g = K /\ \A x \in S : f[x] \in Int /\ key[x] \in K
    BY DEF ByKey
  <1>3. \A k \in K : g[k] = SumFunctionOnSet(f, {x \in S : key[x] = k})
    BY <1>1
  <1>4. SumFunction(g) = SumFunction(f)
    BY <1>2, <1>3, SumFunctionParts
  <1> QED
    BY <1>1, <1>4

\* The sum of what is added, term by term.
LEMMA SumOfTwo ==
  ASSUME NEW S, IsFiniteSet(S), NEW d, NEW g, NEW u, DOMAIN d = S, DOMAIN g = S, DOMAIN u = S,
         \A x \in S : g[x] \in Int /\ u[x] \in Int /\ d[x] = g[x] + u[x]
  PROVE  SumFunction(d) = SumFunction(g) + SumFunction(u)
  <1>1. PICK z : z = [x \in S |-> 0]
    OBVIOUS
  <1>2. DOMAIN z = S /\ \A x \in S : z[x] = 0
    BY <1>1
  <1>3. SumFunction(z) = 0 * Cardinality(S) /\ Cardinality(S) \in Nat
    BY <1>2, SumFunctionConstant, FS_CardinalityType
  <1>4. \A x \in S : /\ d[x] \in Int /\ z[x] \in Int /\ g[x] \in Int /\ u[x] \in Int
                     /\ d[x] + z[x] = g[x] + u[x]
    BY <1>2
  <1>5. SumFunction(d) + SumFunction(z) = SumFunction(g) + SumFunction(u)
    BY <1>2, <1>4, SumFunctionBalance
  <1>6. SumFunction(d) \in Int
    BY <1>4, SumFunctionType
  <1> QED
    BY <1>3, <1>5, <1>6

\* The days of the page are all the days on which a trade ended.
LEMMA DaysAddUp ==
  ASSUME TypeOK, BooksOK
  PROVE  Sum(DailyNet, 0..(now \div DayLength)) = Sum(Pnl, closed)
  <1>1. PICK f : f = [t \in closed |-> Pnl(t)]
    OBVIOUS
  <1>2. PICK K : K = 0..(now \div DayLength)
    OBVIOUS
  <1>3. PICK key : key = [t \in closed |-> t.out \div DayLength]
    OBVIOUS
  <1>4. PICK part : part = [k \in K |-> {t \in closed : t.out \div DayLength = k}]
    OBVIOUS
  <1>5. PICK row : row = [k \in K |-> [t \in {t \in closed : t.out \div DayLength = k} |-> Pnl(t)]]
    OBVIOUS
  <1>6. PICK g : g = [k \in K |-> DailyNet(k)]
    OBVIOUS
  <1>7. IsFiniteSet(closed) /\ \A t \in closed : IsTrade(t) /\ t.out <= now /\ now \in Nat
    BY Recordable DEF TypeOK, BooksOK
  <1>8. \A t \in closed : f[t] \in Int
    BY <1>1, <1>7, TradeMoney
  <1>9. IsFiniteSet(K) /\ \A t \in closed : key[t] \in K
    <2>1. \A t \in closed : /\ t.out \div DayLength \in Nat /\ now \div DayLength \in Nat
                            /\ t.out \div DayLength <= now \div DayLength
      BY <1>7, DayMono DEF IsTrade
    <2>2. IsFiniteSet(0..(now \div DayLength))
      <3>1. now \in Nat /\ DayLength \in Nat \ {0}
        BY PerformanceAssumption DEF TypeOK
      <3>2. now \div DayLength \in Int
        BY <3>1
      <3> QED
        BY <3>2, FS_Interval
    <2> QED
      BY <1>2, <1>3, <2>1, <2>2
  <1>10. \A k \in K : part[k] = {t \in closed : key[t] = k}
    BY <1>3, <1>4
  <1>11. \A k \in K : DOMAIN row[k] = part[k] /\ \A t \in part[k] : row[k][t] = f[t]
    BY <1>1, <1>4, <1>5
  <1>12. DOMAIN g = K /\ \A k \in K : g[k] = SumFunction(row[k])
    BY <1>5, <1>6 DEF DailyNet, Sum
  <1>13. DOMAIN f = closed
    BY <1>1
  <1>14. ByKey(f, closed, K, key, part, row, g)
    BY <1>8, <1>9, <1>10, <1>11, <1>12, <1>13 DEF ByKey
  <1>15. SumFunction(g) = SumFunction(f)
    <2>1. IsFiniteSet(closed) /\ IsFiniteSet(K)
      BY <1>7, <1>9
    <2> QED
      BY <1>14, <2>1, SumByKey
  <1> QED
    BY <1>1, <1>2, <1>6, <1>15 DEF Sum

\* What a coin's position adds to the row of the coin.
OpenGain(p, mark) == IF mark[p.coin] # 0 THEN Gain(p, mark[p.coin]) - BuyFee ELSE 0

\* The n-th snapshot is the last and no trade is newer.
NoneNewer(n) ==
    /\ n > 0 /\ n = Len(snaps)
    /\ \A t \in open \cup closed : t.in <= snaps[n].at /\ (t \in closed => t.out <= snaps[n].at)

\* The rows per coin add up to the profit of the curve.
LEMMA CoinsAddUp ==
  ASSUME TypeOK, BooksOK, NEW n, NoneNewer(n)
  PROVE  Sum(Contribution, Coins) = Profit(n)
  <1>1. PICK a \in Nat : a = snaps[n].at
    <2>1. n \in DOMAIN snaps
      BY Standing DEF NoneNewer
    <2> QED
      BY <2>1, Standing
  <1>2. PICK mark \in [Coins -> Nat] : mark = Marks(n)
    <2>1. n \in DOMAIN snaps
      BY Standing DEF NoneNewer
    <2> QED
      BY <2>1, Standing DEF Marks, MarksIn
  <1>3. /\ IsFiniteSet(closed) /\ IsFiniteSet(open) /\ IsFiniteSet(Coins)
        /\ (\A t \in closed : IsTrade(t) /\ t.coin \in Coins /\ t.in <= a /\ t.out <= a)
        /\ \A p \in open : IsBuy(p) /\ p.coin \in Coins /\ p.in <= a
    BY <1>1, Recordable, PerformanceAssumption DEF TypeOK, BooksOK, NoneNewer
  <1>4. \A p \in open : Gain(p, mark[p.coin]) \in Int
    <2>1. \A p \in open : mark[p.coin] \in Int
      BY <1>3
    <2> QED
      BY <1>3, <2>1, BuyMoney
  <1>5. PICK f : f = [t \in closed |-> Pnl(t)]
    OBVIOUS
  <1>6. PICK h : h = [p \in open |-> OpenGain(p, mark)]
    OBVIOUS
  <1>7. /\ DOMAIN f = closed /\ (\A t \in closed : f[t] \in Int)
        /\ DOMAIN h = open /\ \A p \in open : h[p] \in Int
    BY <1>3, <1>4, <1>5, <1>6, TradeMoney, Fees DEF OpenGain
  <1>8. PICK g : g = [c \in Coins |-> Sum(Pnl, {t \in closed : t.coin = c})]
    OBVIOUS
  <1>9. PICK u : u = [c \in Coins |-> SumFunction([p \in {p \in open : p.coin = c} |-> h[p]])]
    OBVIOUS
  <1>10. SumFunction(g) = SumFunction(f) /\ \A c \in Coins : g[c] \in Int
    <2>1. PICK key : key = [t \in closed |-> t.coin]
      OBVIOUS
    <2>2. PICK part : part = [c \in Coins |-> {t \in closed : t.coin = c}]
      OBVIOUS
    <2>3. PICK row : row = [c \in Coins |-> [t \in {t \in closed : t.coin = c} |-> Pnl(t)]]
      OBVIOUS
    <2>4. \A t \in closed : key[t] \in Coins
      BY <1>3, <2>1
    <2>5. \A c \in Coins : part[c] = {t \in closed : key[t] = c}
      BY <2>1, <2>2
    <2>6. \A c \in Coins : DOMAIN row[c] = part[c] /\ \A t \in part[c] : row[c][t] = f[t]
      BY <1>5, <2>2, <2>3
    <2>7. DOMAIN g = Coins /\ \A c \in Coins : g[c] = SumFunction(row[c])
      BY <1>8, <2>3 DEF Sum
    <2>8. ByKey(f, closed, Coins, key, part, row, g)
      BY <1>7, <2>4, <2>5, <2>6, <2>7 DEF ByKey
    <2>9. IsFiniteSet(closed) /\ IsFiniteSet(Coins)
      BY <1>3
    <2> QED
      BY <2>8, <2>9, SumByKey
  <1>11. SumFunction(u) = SumFunction(h) /\ \A c \in Coins : u[c] \in Int
    <2>1. PICK key : key = [p \in open |-> p.coin]
      OBVIOUS
    <2>2. PICK part : part = [c \in Coins |-> {p \in open : p.coin = c}]
      OBVIOUS
    <2>3. PICK row : row = [c \in Coins |-> [p \in {p \in open : p.coin = c} |-> h[p]]]
      OBVIOUS
    <2>4. \A p \in open : key[p] \in Coins
      BY <1>3, <2>1
    <2>5. \A c \in Coins : part[c] = {p \in open : key[p] = c}
      BY <2>1, <2>2
    <2>6. \A c \in Coins : DOMAIN row[c] = part[c] /\ \A p \in part[c] : row[c][p] = h[p]
      BY <2>2, <2>3
    <2>7. DOMAIN u = Coins /\ \A c \in Coins : u[c] = SumFunction(row[c])
      BY <1>9, <2>3
    <2>8. ByKey(h, open, Coins, key, part, row, u)
      BY <1>7, <2>4, <2>5, <2>6, <2>7 DEF ByKey
    <2>9. IsFiniteSet(open) /\ IsFiniteSet(Coins)
      BY <1>3
    <2> QED
      BY <2>8, <2>9, SumByKey
  <1>12. ASSUME NEW c \in Coins PROVE Contribution(c) = g[c] + u[c]
    <2>1. PICK Q : Q = {p \in open : p.coin = c}
      OBVIOUS
    <2>2. PICK R : R = {p \in open : p.coin = c /\ mark[c] # 0}
      OBVIOUS
    <2>3. PICK v : v = [p \in R |-> Gain(p, mark[c]) - BuyFee]
      OBVIOUS
    <2>4. PICK w : w = [p \in Q |-> h[p]]
      OBVIOUS
    <2>5. IsFiniteSet(Q) /\ R \subseteq Q /\ DOMAIN v = R /\ DOMAIN w = Q
      BY <1>3, <2>1, <2>2, <2>3, <2>4, FS_Subset
    <2>6. \A p \in R : v[p] \in Int
      BY <1>4, <2>2, <2>3, Fees
    <2>7. \A p \in R : w[p] = v[p]
      BY <1>6, <2>1, <2>2, <2>3, <2>4 DEF OpenGain
    <2>8. \A p \in Q \ R : w[p] = 0
      BY <1>6, <2>1, <2>2, <2>4 DEF OpenGain
    <2>9. SumFunction(v) = SumFunction(w)
      BY <2>5, <2>6, <2>7, <2>8, SumIf
    <2>10. u[c] = SumFunction(w)
      BY <1>9, <2>1, <2>4
    <2>11. Contribution(c) = g[c] + SumFunction(v)
      BY <1>2, <1>8, <2>2, <2>3 DEF Contribution, Sum, NoneNewer
    <2> QED
      BY <2>9, <2>10, <2>11
  <1>13. Sum(Contribution, Coins) = SumFunction(g) + SumFunction(u)
    <2>1. PICK d : d = [c \in Coins |-> Contribution(c)]
      OBVIOUS
    <2>2. \A c \in Coins : g[c] \in Int /\ u[c] \in Int /\ d[c] = g[c] + u[c]
      BY <1>10, <1>11, <1>12, <2>1
    <2>3. IsFiniteSet(Coins) /\ DOMAIN d = Coins /\ DOMAIN g = Coins /\ DOMAIN u = Coins
      BY <1>3, <1>8, <1>9, <2>1
    <2>4. SumFunction(d) = SumFunction(g) + SumFunction(u)
      BY <2>2, <2>3, SumOfTwo
    <2> QED
      BY <2>1, <2>4 DEF Sum
  <1>14. PICK R : R = {p \in open : p.in <= a /\ mark[p.coin] # 0}
    OBVIOUS
  <1>15. PICK v : v = [p \in R |-> Gain(p, mark[p.coin]) - BuyFee]
    OBVIOUS
  <1>16. SumFunction(v) = SumFunction(h)
    <2>1. PICK P : P = open
      OBVIOUS
    <2>2. IsFiniteSet(P) /\ DOMAIN h = P /\ R \subseteq P /\ DOMAIN v = R
      BY <1>3, <1>7, <1>14, <1>15, <2>1
    <2>3. \A p \in R : v[p] \in Int
      BY <1>4, <1>14, <1>15, Fees
    <2>4. \A p \in R : h[p] = v[p]
      BY <1>6, <1>14, <1>15 DEF OpenGain
    <2>5. \A p \in P \ R : h[p] = 0
      BY <1>3, <1>6, <1>14, <2>1 DEF OpenGain
    <2> QED
      BY <2>2, <2>3, <2>4, <2>5, SumIf
  <1>17. Profit(n) = SumFunction(f) + 0 + SumFunction(v)
    <2>1. {t \in closed : t.out <= a} = closed
      BY <1>3
    <2>2. {t \in closed : t.in <= a /\ a < t.out /\ mark[t.coin] # 0} = {}
      BY <1>3 DEF IsTrade
    <2>3. PICK e : e = [t \in {} |-> Gain(t, mark[t.coin])]
      OBVIOUS
    <2>4. SumFunction(e) = 0
      BY <2>3, SumEmpty DEF SumFunction
    <2>5. Profit(n) = SumFunction(f) + SumFunction(e) + SumFunction(v)
      BY <1>1, <1>2, <1>5, <1>14, <1>15, <2>1, <2>2, <2>3 DEF Profit, Sum
    <2> QED
      BY <2>4, <2>5
  <1>18. SumFunction(f) \in Int /\ SumFunction(h) \in Int
    BY <1>3, <1>7, SumFunctionType
  <1> QED
    BY <1>10, <1>11, <1>13, <1>16, <1>17, <1>18

\* The page (dashboard.py) adds up: its days to the realised gain, its coins to the
\* profit of its last point.
THEOREM PageAdds == Spec => []PageAddsUp
  <1>1. ASSUME AInv PROVE PageAddsUp
    <2>1. TypeOK /\ BooksOK
      BY <1>1 DEF AInv
    <2>2. Sum(DailyNet, 0..(now \div DayLength)) = Sum(Pnl, closed)
      BY <2>1, DaysAddUp
    <2>3. ASSUME NoneNewer(Len(snaps))
          PROVE  Sum(Contribution, Coins) = Point(Len(snaps)).equity - Point(Len(snaps)).capital
      <3>1. PICK n : n = Len(snaps)
        OBVIOUS
      <3>2. n \in DOMAIN snaps
        BY <2>1, <2>3, <3>1, Standing DEF NoneNewer
      <3>3. Profit(n) \in Int
        BY <2>1, <3>2, ProfitIs
      <3>4. Point(n).capital = StartEquity + NetAt(snaps[n].at)
            /\ Point(n).equity = StartEquity + NetAt(snaps[n].at) + Profit(n)
        BY DEF Point
      <3>5. NetAt(snaps[n].at) \in Int
        BY <2>1, <3>2, Standing, NetIs
      <3>6. Sum(Contribution, Coins) = Profit(n)
        BY <2>1, <2>3, <3>1, CoinsAddUp
      <3> QED
        BY <3>1, <3>3, <3>4, <3>5, <3>6, Fees
    <2> QED
      BY <2>2, <2>3 DEF PageAddsUp, NoneNewer
  <1> QED
    BY <1>1, Account, PTL

-----------------------------------------------------------------------------
(***************************************************************************)
(* The check for unrecorded moves.                                         *)
(***************************************************************************)
\* A function that differs from another on a part of its arguments.
LEMMA SumStep ==
  ASSUME NEW S, IsFiniteSet(S), NEW Q, Q \subseteq S, NEW f, NEW g, NEW w,
         DOMAIN f = S, DOMAIN g = S, DOMAIN w = Q,
         \A x \in S : f[x] \in Int, \A x \in Q : w[x] \in Int,
         \A x \in Q : g[x] = f[x] + w[x], \A x \in S \ Q : g[x] = f[x]
  PROVE  /\ SumFunction(g) = SumFunction(f) + SumFunction(w)
         /\ SumFunction(f) \in Int /\ SumFunction(w) \in Int
  <1>1. PICK v : v = [x \in S |-> If(x \in Q, w[x])]
    OBVIOUS
  <1>2. DOMAIN v = S /\ (\A x \in Q : v[x] = w[x]) /\ \A x \in S \ Q : v[x] = 0
    BY <1>1 DEF If
  <1>3. SumFunction(w) = SumFunction(v) /\ SumFunction(w) \in Int /\ \A x \in S : v[x] \in Int
    BY <1>2, SumIf
  <1>4. \A x \in S : g[x] = f[x] + v[x]
    BY <1>2
  <1>5. SumFunction(g) = SumFunction(f) + SumFunction(v)
    BY <1>2, <1>3, <1>4, SumOfTwo
  <1>6. SumFunction(f) \in Int
    BY SumFunctionType
  <1> QED
    BY <1>3, <1>5, <1>6

\* A set and a part of it.
LEMMA SumRest ==
  ASSUME NEW S, IsFiniteSet(S), NEW A, NEW B, A \cup B = S, A \cap B = {}, NEW f, NEW a, NEW b,
         DOMAIN f = S, DOMAIN a = A, DOMAIN b = B, \A x \in S : f[x] \in Int,
         \A x \in A : a[x] = f[x], \A x \in B : b[x] = f[x]
  PROVE  /\ SumFunction(f) = SumFunction(a) + SumFunction(b)
         /\ SumFunction(a) \in Int /\ SumFunction(b) \in Int
  <1>1. IsFiniteSet(A) /\ IsFiniteSet(B)
    BY FS_Subset
  <1>2. SumFunctionOnSet(f, A \cup B) = SumFunctionOnSet(f, A) + SumFunctionOnSet(f, B)
    BY <1>1, SumUnion
  <1>3. SumFunctionOnSet(a, A) = SumFunctionOnSet(f, A)
    <2>1. \A x \in A : a[x] \in Int /\ a[x] = f[x]
      OBVIOUS
    <2> QED
      BY <1>1, <2>1, SumSame
  <1>4. SumFunctionOnSet(b, B) = SumFunctionOnSet(f, B)
    <2>1. \A x \in B : b[x] \in Int /\ b[x] = f[x]
      OBVIOUS
    <2> QED
      BY <1>1, <2>1, SumSame
  <1>5. SumFunction(a) \in Int /\ SumFunction(b) \in Int
    BY <1>1, SumFunctionType
  <1> QED
    BY <1>2, <1>3, <1>4, <1>5 DEF SumFunction

\* What came and went between two instants.
GotIn(T, a, b)   == SumFunction([t \in {t \in T : a < t.out /\ t.out <= b} |-> Got(t)])
PaidIn(P, a, b)  == SumFunction([p \in {p \in P : a < p.in /\ p.in <= b} |-> Paid(p)])
MovedIn(F, a, b) == SumFunction([f \in {f \in F : a < f.at /\ f.at <= b} |-> f.amount])

\* What had moved by a later instant is what had by an earlier one and what moved between.
LEMMA MovedBetween ==
  ASSUME NEW F, IsFiniteSet(F), \A x \in F : IsFlow(x), NEW a \in Nat, NEW b \in Nat, a <= b
  PROVE  /\ Moved(F, b) = Moved(F, a) + MovedIn(F, a, b)
         /\ Moved(F, a) \in Int /\ MovedIn(F, a, b) \in Int
  <1>1. PICK Q : Q = {f \in F : a < f.at /\ f.at <= b}
    OBVIOUS
  <1>2. PICK f : f = [x \in F |-> If(x.at <= a, x.amount)]
    OBVIOUS
  <1>3. PICK g : g = [x \in F |-> If(x.at <= b, x.amount)]
    OBVIOUS
  <1>4. PICK w : w = [x \in Q |-> x.amount]
    OBVIOUS
  <1>5. Q \subseteq F /\ DOMAIN f = F /\ DOMAIN g = F /\ DOMAIN w = Q
    BY <1>1, <1>2, <1>3, <1>4
  <1>6. \A x \in F : x.at \in Nat /\ x.amount \in Int
    BY DEF IsFlow
  <1>7. (\A x \in F : f[x] \in Int) /\ \A x \in Q : w[x] \in Int
    BY <1>2, <1>4, <1>5, <1>6 DEF If
  <1>8. \A x \in Q : g[x] = f[x] + w[x]
    BY <1>1, <1>2, <1>3, <1>4, <1>6 DEF If
  <1>9. \A x \in F \ Q : g[x] = f[x]
    BY <1>1, <1>2, <1>3, <1>6 DEF If
  <1>10. /\ SumFunction(g) = SumFunction(f) + SumFunction(w)
         /\ SumFunction(f) \in Int /\ SumFunction(w) \in Int
    BY <1>5, <1>7, <1>8, <1>9, SumStep
  <1> QED
    BY <1>1, <1>2, <1>3, <1>4, <1>10 DEF Moved, MovedIn

\* The same of the purchases,
LEMMA BoughtBetween ==
  ASSUME NEW P, IsFiniteSet(P), \A x \in P : IsBuy(x), NEW a \in Nat, NEW b \in Nat, a <= b
  PROVE  /\ Bought(P, b) = Bought(P, a) + PaidIn(P, a, b)
         /\ Bought(P, a) \in Int /\ PaidIn(P, a, b) \in Int
  <1>1. PICK Q : Q = {p \in P : a < p.in /\ p.in <= b}
    OBVIOUS
  <1>2. PICK f : f = [x \in P |-> If(x.in <= a, Paid(x))]
    OBVIOUS
  <1>3. PICK g : g = [x \in P |-> If(x.in <= b, Paid(x))]
    OBVIOUS
  <1>4. PICK w : w = [x \in Q |-> Paid(x)]
    OBVIOUS
  <1>5. Q \subseteq P /\ DOMAIN f = P /\ DOMAIN g = P /\ DOMAIN w = Q
    BY <1>1, <1>2, <1>3, <1>4
  <1>6. \A x \in P : x.in \in Nat /\ Paid(x) \in Int
    BY BuyMoney DEF IsBuy
  <1>7. (\A x \in P : f[x] \in Int) /\ \A x \in Q : w[x] \in Int
    BY <1>2, <1>4, <1>5, <1>6 DEF If
  <1>8. \A x \in Q : g[x] = f[x] + w[x]
    BY <1>1, <1>2, <1>3, <1>4, <1>6 DEF If
  <1>9. \A x \in P \ Q : g[x] = f[x]
    BY <1>1, <1>2, <1>3, <1>6 DEF If
  <1>10. /\ SumFunction(g) = SumFunction(f) + SumFunction(w)
         /\ SumFunction(f) \in Int /\ SumFunction(w) \in Int
    BY <1>5, <1>7, <1>8, <1>9, SumStep
  <1> QED
    BY <1>1, <1>2, <1>3, <1>4, <1>10 DEF Bought, PaidIn

\* and of both ends of the trades.
LEMMA TradedBetween ==
  ASSUME NEW T, IsFiniteSet(T), \A x \in T : IsTrade(x), NEW a \in Nat, NEW b \in Nat, a <= b
  PROVE  /\ Traded(T, b) + PaidIn(T, a, b) = Traded(T, a) + GotIn(T, a, b)
         /\ Traded(T, a) \in Int /\ Traded(T, b) \in Int
         /\ PaidIn(T, a, b) \in Int /\ GotIn(T, a, b) \in Int
  <1>1. PICK O : O = {t \in T : a < t.out /\ t.out <= b}
    OBVIOUS
  <1>2. PICK Q : Q = {t \in T : a < t.in /\ t.in <= b}
    OBVIOUS
  <1>3. PICK f : f = [x \in T |-> If(x.out <= a, Got(x)) - If(x.in <= a, Paid(x))]
    OBVIOUS
  <1>4. PICK h : h = [x \in T |-> If(x.out <= b, Got(x)) - If(x.in <= a, Paid(x))]
    OBVIOUS
  <1>5. PICK g : g = [x \in T |-> If(x.out <= b, Got(x)) - If(x.in <= b, Paid(x))]
    OBVIOUS
  <1>6. PICK u : u = [x \in O |-> Got(x)]
    OBVIOUS
  <1>7. PICK w : w = [x \in Q |-> Paid(x)]
    OBVIOUS
  <1>8. /\ O \subseteq T /\ Q \subseteq T /\ DOMAIN f = T /\ DOMAIN g = T /\ DOMAIN h = T
        /\ DOMAIN u = O /\ DOMAIN w = Q
    BY <1>1, <1>2, <1>3, <1>4, <1>5, <1>6, <1>7
  <1>9. \A x \in T : x.in \in Nat /\ x.out \in Nat /\ Paid(x) \in Int /\ Got(x) \in Int
    BY TradeMoney DEF IsTrade, IsBuy
  <1>10. /\ \A x \in T : f[x] \in Int /\ h[x] \in Int /\ g[x] \in Int
         /\ \A x \in O : u[x] \in Int
         /\ \A x \in Q : w[x] \in Int
    BY <1>3, <1>4, <1>5, <1>6, <1>7, <1>8, <1>9 DEF If
  <1>11. /\ SumFunction(h) = SumFunction(f) + SumFunction(u)
         /\ SumFunction(f) \in Int /\ SumFunction(u) \in Int
    <2>1. \A x \in O : h[x] = f[x] + u[x]
      BY <1>1, <1>3, <1>4, <1>6, <1>9 DEF If
    <2>2. \A x \in T \ O : h[x] = f[x]
      BY <1>1, <1>3, <1>4, <1>9 DEF If
    <2>3. \A x \in T : f[x] \in Int
      BY <1>10
    <2>4. \A x \in O : u[x] \in Int
      BY <1>10
    <2> QED
      BY <1>8, <2>1, <2>2, <2>3, <2>4, SumStep
  <1>12. /\ SumFunction(h) = SumFunction(g) + SumFunction(w)
         /\ SumFunction(g) \in Int /\ SumFunction(w) \in Int
    <2>1. \A x \in Q : h[x] = g[x] + w[x]
      BY <1>2, <1>4, <1>5, <1>7, <1>9 DEF If
    <2>2. \A x \in T \ Q : h[x] = g[x]
      BY <1>2, <1>4, <1>5, <1>9 DEF If
    <2>3. \A x \in T : g[x] \in Int
      BY <1>10
    <2>4. \A x \in Q : w[x] \in Int
      BY <1>10
    <2> QED
      BY <1>8, <2>1, <2>2, <2>3, <2>4, SumStep
  <1>13. /\ Traded(T, a) = SumFunction(f) /\ Traded(T, b) = SumFunction(g)
         /\ GotIn(T, a, b) = SumFunction(u) /\ PaidIn(T, a, b) = SumFunction(w)
    BY <1>1, <1>2, <1>3, <1>5, <1>6, <1>7 DEF Traded, GotIn, PaidIn
  <1> QED
    BY <1>11, <1>12, <1>13

\* A sum of terms that all are greater by one number.
LEMMA SumShift ==
  ASSUME NEW S, IsFiniteSet(S), NEW d \in Int, NEW f, NEW g, DOMAIN f = S, DOMAIN g = S,
         \A x \in S : f[x] \in Int, \A x \in S : g[x] = f[x] + d
  PROVE  SumFunction(g) = SumFunction(f) + d * Cardinality(S) /\ SumFunction(f) \in Int
  <1>1. PICK k : k = [x \in S |-> d]
    OBVIOUS
  <1>2. DOMAIN k = S /\ \A x \in S : k[x] = d
    BY <1>1
  <1>3. SumFunction(k) = d * Cardinality(S)
    BY <1>2, SumFunctionConstant
  <1>4. \A x \in S : f[x] \in Int /\ k[x] \in Int /\ g[x] = f[x] + k[x]
    BY <1>2
  <1>5. SumFunction(g) = SumFunction(f) + SumFunction(k)
    BY <1>2, <1>4, SumOfTwo
  <1>6. SumFunction(f) \in Int
    BY SumFunctionType
  <1> QED
    BY <1>3, <1>5, <1>6

\* Each side of a trade is off by this, for the fees are not recorded apart.
Skew == HalfFees - BuyFee
Ended(a, b)  == {t \in closed : a < t.out /\ t.out <= b}
Opened(a, b) == {t \in closed : a < t.in /\ t.in <= b}

\* Half the fees of a trade are a number of their own, for their sum is even.
LEMMA SkewIs == HalfFees \in Int /\ Skew \in Int /\ SellFee - HalfFees = Skew
  <1>1. BuyFee \in Nat /\ SellFee \in Nat /\ (BuyFee + SellFee) % 2 = 0
    BY PerformanceAssumption
  <1>2. HalfFees \in Int /\ HalfFees + HalfFees = BuyFee + SellFee
    BY <1>1 DEF HalfFees
  <1> QED
    BY <1>1, <1>2 DEF Skew

\* What the ledger says the cash moved by.
LEMMA TradeCashIs ==
  ASSUME TypeOK, BooksOK, NEW a \in Nat, NEW b \in Nat
  PROVE  /\ TradeCash(a, b) = (GotIn(closed, a, b) + Skew * Cardinality(Ended(a, b)))
                              - (PaidIn(closed, a, b) + Skew * Cardinality(Opened(a, b)))
                              - PaidIn(open, a, b)
         /\ Cardinality(Ended(a, b)) \in Nat /\ Cardinality(Opened(a, b)) \in Nat
  <1>1. /\ IsFiniteSet(closed) /\ IsFiniteSet(Ended(a, b)) /\ IsFiniteSet(Opened(a, b))
        /\ Ended(a, b) \subseteq closed /\ Opened(a, b) \subseteq closed
    <2>1. IsFiniteSet(closed)
      BY DEF BooksOK
    <2>2. Ended(a, b) \subseteq closed /\ Opened(a, b) \subseteq closed
      BY DEF Ended, Opened
    <2> QED
      BY <2>1, <2>2, FS_Subset
  <1>2. \A t \in closed : /\ Got(t) \in Int /\ Paid(t) \in Int
                          /\ t.qty * t.exit - HalfFees = Got(t) + Skew
                          /\ t.qty * t.entry + HalfFees = Paid(t) + Skew
    <2>1. ASSUME NEW t \in closed
          PROVE  /\ Got(t) \in Int /\ Paid(t) \in Int
                 /\ t.qty * t.exit - HalfFees = Got(t) + Skew
                 /\ t.qty * t.entry + HalfFees = Paid(t) + Skew
      <3>1. IsTrade(t)
        BY Recordable DEF TypeOK
      <3>2. /\ Got(t) \in Int /\ Paid(t) \in Int /\ Got(t) = t.qty * t.exit - SellFee
            /\ t.qty * t.exit \in Int /\ t.qty * t.entry \in Int
        BY <3>1, TradeMoney, BuyMoney DEF IsTrade
      <3>3. Paid(t) = t.qty * t.entry + BuyFee
        BY DEF Paid
      <3>4. PICK x \in Int, y \in Int : x = t.qty * t.exit /\ y = t.qty * t.entry
        BY <3>2
      <3>5. Skew \in Int /\ HalfFees \in Int /\ SellFee - HalfFees = Skew /\ HalfFees - BuyFee = Skew
        BY SkewIs DEF Skew
      <3>6. x - HalfFees = (x - SellFee) + Skew /\ y + HalfFees = (y + BuyFee) + Skew
        BY <3>5, Fees
      <3> QED
        BY <3>2, <3>3, <3>4, <3>6
    <2> QED
      BY <2>1
  <1>3. PICK E : E = Ended(a, b)
    OBVIOUS
  <1>4. PICK O : O = Opened(a, b)
    OBVIOUS
  <1>5. PICK sold : sold = [t \in E |-> t.qty * t.exit - HalfFees]
    OBVIOUS
  <1>6. PICK bought : bought = [t \in O |-> t.qty * t.entry + HalfFees]
    OBVIOUS
  <1>7. SumFunction(sold) = GotIn(closed, a, b) + Skew * Cardinality(E)
    <2>1. PICK f : f = [t \in E |-> Got(t)]
      OBVIOUS
    <2>2. IsFiniteSet(E) /\ DOMAIN f = E /\ DOMAIN sold = E
      BY <1>1, <1>3, <1>5, <2>1
    <2>3. \A t \in E : f[t] \in Int
      BY <1>1, <1>2, <1>3, <2>1
    <2>4. \A t \in E : sold[t] = f[t] + Skew
      BY <1>1, <1>2, <1>3, <1>5, <2>1
    <2>5. SumFunction(sold) = SumFunction(f) + Skew * Cardinality(E)
      BY <2>2, <2>3, <2>4, SkewIs, SumShift
    <2> QED
      BY <1>3, <2>1, <2>5 DEF GotIn, Ended
  <1>8. SumFunction(bought) = PaidIn(closed, a, b) + Skew * Cardinality(O)
    <2>1. PICK f : f = [t \in O |-> Paid(t)]
      OBVIOUS
    <2>2. IsFiniteSet(O) /\ DOMAIN f = O /\ DOMAIN bought = O
      BY <1>1, <1>4, <1>6, <2>1
    <2>3. \A t \in O : f[t] \in Int
      BY <1>1, <1>2, <1>4, <2>1
    <2>4. \A t \in O : bought[t] = f[t] + Skew
      BY <1>1, <1>2, <1>4, <1>6, <2>1
    <2>5. SumFunction(bought) = SumFunction(f) + Skew * Cardinality(O)
      BY <2>2, <2>3, <2>4, SkewIs, SumShift
    <2> QED
      BY <1>4, <2>1, <2>5 DEF PaidIn, Opened
  <1>9. TradeCash(a, b) = SumFunction(sold) - SumFunction(bought) - PaidIn(open, a, b)
    BY <1>3, <1>4, <1>5, <1>6 DEF TradeCash, Sum, PaidIn, Paid, Ended, Opened
  <1> QED
    BY <1>1, <1>3, <1>4, <1>7, <1>8, <1>9, FS_CardinalityType

\* The purchases of unseen sales whose position the ledger has dropped.
Dropped(a, b) == {u \in unseen : /\ a < u.in /\ u.in <= b /\ \A p \in open : p.in # u.in}
DroppedPaid(a, b) == SumFunction([u \in Dropped(a, b) |-> Paid(u)])

\* A position that is gone counts as the sale that went unseen.
LEMMA GoneIs ==
  ASSUME TypeOK, BooksOK, NEW a \in Nat, NEW b \in Nat
  PROVE  /\ PaidIn(open, a, b) + DroppedPaid(a, b) = PaidIn(Live, a, b) + PaidIn(unseen, a, b)
         /\ DroppedPaid(a, b) \in Int /\ PaidIn(open, a, b) \in Int
  <1>1. PICK S, A, B :
           /\ S = {p \in open : a < p.in /\ p.in <= b}
           /\ A = {p \in Live : a < p.in /\ p.in <= b}
           /\ B = {p \in open : Gone(p) /\ a < p.in /\ p.in <= b}
    OBVIOUS
  <1>2. PICK U, V, W :
           /\ U = {u \in unseen : a < u.in /\ u.in <= b}
           /\ V = {u \in unseen : a < u.in /\ u.in <= b /\ \E p \in open : p.in = u.in}
           /\ W = Dropped(a, b)
    OBVIOUS
  <1>3. PICK s, sA, sB, t, tV, tW :
           /\ s = [p \in S |-> Paid(p)] /\ sA = [p \in A |-> Paid(p)] /\ sB = [p \in B |-> Paid(p)]
           /\ t = [u \in U |-> Paid(u)] /\ tV = [u \in V |-> Paid(u)] /\ tW = [u \in W |-> Paid(u)]
    OBVIOUS
  <1>4. /\ DOMAIN s = S /\ DOMAIN sA = A /\ DOMAIN sB = B
        /\ DOMAIN t = U /\ DOMAIN tV = V /\ DOMAIN tW = W
    BY <1>3
  <1>5. A \cup B = S /\ A \cap B = {} /\ S \subseteq open
    BY <1>1 DEF Live
  <1>6. V \cup W = U /\ V \cap W = {} /\ U \subseteq unseen
    BY <1>2 DEF Dropped
  <1>7. IsFiniteSet(S) /\ IsFiniteSet(U) /\ IsFiniteSet(B) /\ IsFiniteSet(V)
    <2>1. IsFiniteSet(open) /\ IsFiniteSet(unseen)
      BY DEF BooksOK
    <2>2. B \subseteq open /\ V \subseteq unseen
      BY <1>5, <1>6
    <2> QED
      BY <1>5, <1>6, <2>1, <2>2, FS_Subset
  <1>8. (\A p \in S : s[p] \in Int) /\ \A u \in U : t[u] \in Int
    <2>1. (\A p \in open : IsBuy(p)) /\ \A u \in unseen : IsBuy(u)
      BY Recordable DEF TypeOK, IsTrade
    <2>2. (\A p \in open : Paid(p) \in Int) /\ \A u \in unseen : Paid(u) \in Int
      BY <2>1, BuyMoney
    <2> QED
      BY <1>3, <1>5, <1>6, <2>2
  <1>9. /\ SumFunction(s) = SumFunction(sA) + SumFunction(sB)
        /\ SumFunction(sA) \in Int /\ SumFunction(sB) \in Int
    <2>1. \A p \in A : sA[p] = s[p]
      BY <1>3, <1>5
    <2>2. \A p \in B : sB[p] = s[p]
      BY <1>3, <1>5
    <2>3. \A p \in S : s[p] \in Int
      BY <1>8
    <2>4. A \cup B = S /\ A \cap B = {} /\ IsFiniteSet(S)
      BY <1>5, <1>7
    <2>5. DOMAIN s = S /\ DOMAIN sA = A /\ DOMAIN sB = B
      BY <1>4
    <2> QED
      BY <2>1, <2>2, <2>3, <2>4, <2>5, SumRest
  <1>10. /\ SumFunction(t) = SumFunction(tV) + SumFunction(tW)
         /\ SumFunction(tV) \in Int /\ SumFunction(tW) \in Int
    <2>1. \A u \in V : tV[u] = t[u]
      BY <1>3, <1>6
    <2>2. \A u \in W : tW[u] = t[u]
      BY <1>3, <1>6
    <2>3. \A u \in U : t[u] \in Int
      BY <1>8
    <2> QED
      BY <1>4, <1>6, <1>7, <2>1, <2>2, <2>3, SumRest
  <1>11. SumFunction(sB) = SumFunction(tV)
    <2>1. PICK m : m = [p \in B |-> CHOOSE u \in unseen : u.in = p.in]
      OBVIOUS
    <2>2. ASSUME NEW p \in B
          PROVE  m[p] \in unseen /\ m[p].in = p.in
      <3>1. \E u \in unseen : u.in = p.in
        BY <1>1 DEF Gone
      <3> QED
        BY <2>1, <3>1
    <2>3. \A p \in B : m[p] \in V
      BY <1>1, <1>2, <2>2
    <2>4. ASSUME NEW p \in B PROVE sB[p] = tV[m[p]]
      <3>1. m[p] \in unseen /\ m[p].in = p.in /\ p \in open /\ m[p] \in V
        BY <1>1, <2>2, <2>3
      <3>2. m[p].qty = p.qty /\ m[p].entry = p.entry
        BY <3>1 DEF BooksOK
      <3>3. Paid(m[p]) = Paid(p)
        BY <3>2 DEF Paid
      <3> QED
        BY <1>3, <3>1, <3>3
    <2>5. \A p, q \in B : m[p] = m[q] => p = q
      <3>1. \A p, q \in B : m[p] = m[q] => p.in = q.in /\ p \in open /\ q \in open
        BY <1>1, <2>2
      <3> QED
        BY <3>1 DEF BooksOK
    <2>6. ASSUME NEW u \in V PROVE \E p \in B : m[p] = u
      <3>1. u \in unseen
        BY <1>2
      <3>2. PICK p \in open : p.in = u.in
        BY <1>2
      <3>3. p \in B
        BY <1>1, <1>2, <3>1, <3>2 DEF Gone
      <3>4. m[p] \in unseen /\ m[p].in = u.in
        BY <2>2, <3>2, <3>3
      <3>5. m[p] = u
        BY <3>1, <3>4 DEF BooksOK
      <3> QED
        BY <3>3, <3>5
    <2>7. \A u \in V : tV[u] \in Int
      BY <1>3, <1>6, <1>8
    <2>8. \A p \in B : m[p] \in V /\ sB[p] = tV[m[p]]
      BY <2>3, <2>4
    <2> QED
      BY <1>4, <1>7, <2>5, <2>6, <2>7, <2>8, SumFunctionImage
  <1>12. PaidIn(open, a, b) = SumFunction(s) /\ PaidIn(Live, a, b) = SumFunction(sA)
    BY <1>1, <1>3 DEF PaidIn
  <1>13. PaidIn(unseen, a, b) = SumFunction(t) /\ DroppedPaid(a, b) = SumFunction(tW)
    BY <1>2, <1>3 DEF PaidIn, DroppedPaid
  <1> QED
    BY <1>9, <1>10, <1>11, <1>12, <1>13

\* A product is no greater than that of the absolute values.
LEMMA AbsTimes ==
  ASSUME NEW d \in Int, NEW n \in Nat
  PROVE  /\ d * n \in Int /\ Abs(d) \in Nat /\ n * Abs(d) \in Nat
         /\ d * n <= n * Abs(d) /\ -(n * Abs(d)) <= d * n
  <1>1. CASE d >= 0
    <2>1. Abs(d) = d /\ d \in Nat
      BY <1>1 DEF Abs
    <2>2. d * n \in Nat /\ n * d = d * n
      BY <2>1
    <2> QED
      BY <2>1, <2>2
  <1>2. CASE d < 0
    <2>1. PICK e \in Nat : e = -d /\ Abs(d) = e
      BY <1>2 DEF Abs
    <2>2. d = -e
      BY <2>1
    <2>3. e * n \in Nat /\ n * e = e * n /\ (-e) * n = -(e * n)
      OBVIOUS
    <2> QED
      BY <2>1, <2>2, <2>3
  <1> QED
    BY <1>1, <1>2

\* The unrecorded moves of the k-th interval.
MovedUnseen(a, b) ==
    MovedIn(transfers, a, b) - MovedIn(flows, a, b) + GotIn(unseen, a, b) - DroppedPaid(a, b)

\* What the check for unrecorded moves leaves of an interval is what did move
\* unrecorded in it, and half the difference of the fees for every side of a trade.
LEMMA ResidualIs ==
  ASSUME AInv, NEW k \in Intervals, NEW a \in Nat, NEW b \in Nat,
         a = lines[k].at, b = lines[k + 1].at
  PROVE  /\ MovedUnseen(a, b) \in Int
         /\ Residual(k) = MovedUnseen(a, b) - Skew * Cardinality(Ended(a, b))
                          + Skew * Cardinality(Opened(a, b))
  <1>1. TypeOK /\ BooksOK /\ Balanced
    BY DEF AInv
  <1>2. k \in DOMAIN lines /\ k + 1 \in DOMAIN lines /\ k < k + 1
    <2>1. lines \in Seq([at : Nat, cash : Int])
      BY <1>1 DEF TypeOK
    <2>2. DOMAIN lines = 1..Len(lines) /\ Len(lines) \in Nat
      BY <2>1
    <2> QED
      BY <2>2 DEF Intervals
  <1>3. a <= b
    <2>1. a < b
      BY <1>1, <1>2 DEF BooksOK
    <2> QED
      BY <2>1
  <1>4. lines[k].cash = CashAt(a) /\ lines[k + 1].cash = CashAt(b)
    BY <1>1, <1>2 DEF Balanced
  <1>5. Books(transfers, closed, unseen, Live) /\ Books(transfers, closed, unseen, open)
    BY <1>1, Standing
  <1>6. /\ IsFiniteSet(transfers) /\ IsFiniteSet(flows) /\ IsFiniteSet(closed)
        /\ IsFiniteSet(unseen) /\ IsFiniteSet(Live)
        /\ (\A x \in transfers : IsFlow(x)) /\ (\A x \in flows : IsFlow(x))
        /\ (\A x \in closed : IsTrade(x)) /\ (\A x \in unseen : IsTrade(x))
        /\ \A x \in Live : IsBuy(x)
    <2>1. /\ IsFiniteSet(transfers) /\ IsFiniteSet(closed) /\ IsFiniteSet(unseen) /\ IsFiniteSet(Live)
          /\ transfers \subseteq Flow /\ closed \subseteq Trade /\ unseen \subseteq Sale
          /\ Live \subseteq Position
      BY <1>5 DEF Books
    <2>2. IsFiniteSet(flows) /\ flows \subseteq Flow
      BY <1>1 DEF TypeOK, BooksOK
    <2> QED
      BY <2>1, <2>2, Recordable
  <1>7. /\ Moved(transfers, b) = Moved(transfers, a) + MovedIn(transfers, a, b)
        /\ Moved(transfers, a) \in Int /\ MovedIn(transfers, a, b) \in Int
    BY <1>3, <1>6, MovedBetween
  <1>8. /\ NetAt(b) = NetAt(a) + MovedIn(flows, a, b)
        /\ NetAt(a) \in Int /\ MovedIn(flows, a, b) \in Int
    <2>1. /\ Moved(flows, b) = Moved(flows, a) + MovedIn(flows, a, b)
          /\ Moved(flows, a) \in Int /\ MovedIn(flows, a, b) \in Int
      BY <1>3, <1>6, MovedBetween
    <2> QED
      BY <1>1, <2>1, NetIs
  <1>9. /\ Traded(closed, b) + PaidIn(closed, a, b) = Traded(closed, a) + GotIn(closed, a, b)
        /\ Traded(closed, a) \in Int /\ Traded(closed, b) \in Int
        /\ PaidIn(closed, a, b) \in Int /\ GotIn(closed, a, b) \in Int
    BY <1>3, <1>6, TradedBetween
  <1>10. /\ Traded(unseen, b) + PaidIn(unseen, a, b) = Traded(unseen, a) + GotIn(unseen, a, b)
         /\ Traded(unseen, a) \in Int /\ Traded(unseen, b) \in Int
         /\ PaidIn(unseen, a, b) \in Int /\ GotIn(unseen, a, b) \in Int
    BY <1>3, <1>6, TradedBetween
  <1>11. /\ Bought(Live, b) = Bought(Live, a) + PaidIn(Live, a, b)
         /\ Bought(Live, a) \in Int /\ PaidIn(Live, a, b) \in Int
    BY <1>3, <1>6, BoughtBetween
  <1>12. /\ PaidIn(open, a, b) + DroppedPaid(a, b) = PaidIn(Live, a, b) + PaidIn(unseen, a, b)
         /\ DroppedPaid(a, b) \in Int /\ PaidIn(open, a, b) \in Int
    BY <1>1, GoneIs
  <1>13. PICK x, y : x = Skew * Cardinality(Ended(a, b)) /\ y = Skew * Cardinality(Opened(a, b))
    OBVIOUS
  <1>14. /\ x \in Int /\ y \in Int
         /\ TradeCash(a, b) = (GotIn(closed, a, b) + x) - (PaidIn(closed, a, b) + y) - PaidIn(open, a, b)
    <2>1. Cardinality(Ended(a, b)) \in Int /\ Cardinality(Opened(a, b)) \in Int
      BY <1>1, TradeCashIs
    <2>2. x \in Int /\ y \in Int
      BY <1>13, <2>1, SkewIs, TimesNat
    <2> QED
      BY <1>1, <1>13, <2>2, TradeCashIs
  <1>15. /\ CashAt(a) = StartEquity + Moved(transfers, a) + Traded(closed, a) + Traded(unseen, a)
                        - Bought(Live, a)
         /\ CashAt(b) = StartEquity + Moved(transfers, b) + Traded(closed, b) + Traded(unseen, b)
                        - Bought(Live, b)
    BY DEF CashAt
  <1>16. CashAt(b) - CashAt(a)
            = MovedIn(transfers, a, b) + (GotIn(closed, a, b) - PaidIn(closed, a, b))
              + (GotIn(unseen, a, b) - PaidIn(unseen, a, b)) - PaidIn(Live, a, b)
    BY <1>7, <1>9, <1>10, <1>11, <1>15, Fees
  <1>17. Residual(k) = CashAt(b) - CashAt(a) - (TradeCash(a, b) + NetAt(b) - NetAt(a))
    BY <1>4 DEF Residual
  <1>18. TradeCash(a, b) + NetAt(b) - NetAt(a) = TradeCash(a, b) + MovedIn(flows, a, b)
    <2>1. TradeCash(a, b) \in Int
      BY <1>9, <1>12, <1>14
    <2> QED
      BY <1>8, <2>1
  <1>19. MovedUnseen(a, b) \in Int
    BY <1>7, <1>8, <1>10, <1>12 DEF MovedUnseen
  <1>20. Residual(k) = MovedUnseen(a, b) - x + y
    <2>1. Residual(k)
             = (MovedIn(transfers, a, b) + (GotIn(closed, a, b) - PaidIn(closed, a, b))
                + (GotIn(unseen, a, b) - PaidIn(unseen, a, b)) - PaidIn(Live, a, b))
               - (((GotIn(closed, a, b) + x) - (PaidIn(closed, a, b) + y) - PaidIn(open, a, b))
                  + MovedIn(flows, a, b))
      BY <1>14, <1>16, <1>17, <1>18
    <2>2. PICK m \in Int, f \in Int, g \in Int, p \in Int, u \in Int, v \in Int, l \in Int,
               o \in Int, d \in Int :
             /\ m = MovedIn(transfers, a, b) /\ f = MovedIn(flows, a, b)
             /\ g = GotIn(closed, a, b) /\ p = PaidIn(closed, a, b)
             /\ u = GotIn(unseen, a, b) /\ v = PaidIn(unseen, a, b)
             /\ l = PaidIn(Live, a, b) /\ o = PaidIn(open, a, b) /\ d = DroppedPaid(a, b)
      BY <1>7, <1>8, <1>9, <1>10, <1>11, <1>12
    <2>3. MovedUnseen(a, b) = m - f + u - d
      BY <2>2 DEF MovedUnseen
    <2>4. Residual(k) = (m + (g - p) + (u - v) - l) - (((g + x) - (p + y) - o) + f)
      BY <2>1, <2>2
    <2>5. o + d = l + v
      BY <1>12, <2>2
    <2>6. (m + (g - p) + (u - v) - l) - (((g + x) - (p + y) - o) + f) = (m - f + u - d) - x + y
      BY <1>14, <2>5
    <2> QED
      BY <2>3, <2>4, <2>6
  <1> QED
    BY <1>13, <1>19, <1>20

\* Whatever is off by no more than the slack.
LEMMA WithinSlack ==
  ASSUME NEW m \in Int, NEW r \in Int, NEW s \in Nat, m - r <= s, r - m <= s
  PROVE  Abs(m) <= Abs(r) + s /\ Abs(r) <= Abs(m) + s /\ Abs(m) \in Nat /\ Abs(r) \in Nat
  BY DEF Abs

\* The check for unrecorded moves (cashflow.py) flags each interval in which more moved
\* than its tolerance and the fees it mixes up, and flags none in which less moved than
\* its tolerance less those.
THEOREM CheckFinds == Spec => []GapsFound
  <1>1. ASSUME AInv, NEW k \in Intervals, NEW a \in Nat, NEW b \in Nat,
               a = lines[k].at, b = lines[k + 1].at
        PROVE  /\ Abs(MovedUnseen(a, b)) > Tolerance
                      + (Cardinality(Opened(a, b)) + Cardinality(Ended(a, b))) * Abs(Skew)
                   => k \in Unexplained
               /\ k \in Unexplained =>
                   Abs(MovedUnseen(a, b)) > Tolerance
                      - (Cardinality(Opened(a, b)) + Cardinality(Ended(a, b))) * Abs(Skew)
    <2>2. PICK m, r : m = MovedUnseen(a, b) /\ r = Residual(k)
      OBVIOUS
    <2>3. PICK e, o : e = Cardinality(Ended(a, b)) /\ o = Cardinality(Opened(a, b))
      OBVIOUS
    <2>4. m \in Int /\ r = m - Skew * e + Skew * o
      BY <1>1, <2>2, <2>3, ResidualIs
    <2>5. e \in Nat /\ o \in Nat
      BY <1>1, <2>3, TradeCashIs DEF AInv
    <2>6. PICK x, y, xx, yy : x = Skew * e /\ y = Skew * o /\ xx = e * Abs(Skew) /\ yy = o * Abs(Skew)
      OBVIOUS
    <2>7. x \in Int /\ y \in Int /\ xx \in Nat /\ yy \in Nat
      BY <2>5, <2>6, SkewIs, AbsTimes
    <2>8. x <= xx /\ -xx <= x /\ y <= yy /\ -yy <= y
      BY <2>5, <2>6, SkewIs, AbsTimes
    <2>9. (o + e) * Abs(Skew) = yy + xx
      <3>1. PICK d \in Nat : d = Abs(Skew)
        BY SkewIs, AbsTimes
      <3>2. (o + e) * d = o * d + e * d
        BY <2>5
      <3> QED
        BY <2>6, <3>1, <3>2
    <2>10. r = m - x + y /\ r \in Int
      BY <2>4, <2>6, <2>7
    <2>11. m - r <= yy + xx /\ r - m <= yy + xx /\ yy + xx \in Nat
      BY <2>4, <2>7, <2>8, <2>10
    <2>12. /\ Abs(m) <= Abs(r) + (yy + xx) /\ Abs(r) <= Abs(m) + (yy + xx)
           /\ Abs(m) \in Nat /\ Abs(r) \in Nat
      BY <2>4, <2>10, <2>11, WithinSlack
    <2>13. k \in Unexplained <=> Abs(r) > Tolerance
      BY <2>2 DEF Unexplained
    <2>14. Tolerance \in Nat
      BY PerformanceAssumption
    <2>15. /\ Abs(m) > Tolerance + (yy + xx) => k \in Unexplained
           /\ k \in Unexplained => Abs(m) > Tolerance - (yy + xx)
      BY <2>11, <2>12, <2>13, <2>14
    <2> QED
      BY <2>2, <2>3, <2>9, <2>15
  <1>2. ASSUME AInv, NEW k \in Intervals
        PROVE  \E a, b \in Nat : a = lines[k].at /\ b = lines[k + 1].at
    <2>1. lines \in Seq([at : Nat, cash : Int])
      BY <1>2 DEF AInv, TypeOK
    <2>2. k \in DOMAIN lines /\ k + 1 \in DOMAIN lines
      BY <2>1 DEF Intervals
    <2> QED
      BY <1>2, <2>2, Standing DEF AInv
  <1>3. ASSUME NEW a \in Nat, NEW b \in Nat
        PROVE  /\ MovedUnseen(a, b) = Unrecorded(a, b)
               /\ Cardinality(Opened(a, b)) + Cardinality(Ended(a, b)) = Sides(a, b)
    <2>1. Dropped(a, b) = {u \in unseen : (a < u.in /\ u.in <= b) /\ \A p \in open : p.in # u.in}
      BY DEF Dropped
    <2> QED
      BY <2>1 DEF MovedUnseen, MovedIn, GotIn, DroppedPaid, Unrecorded, Ended, Opened, Sides, Sum
  <1>4. ASSUME AInv, NEW k \in Intervals
        PROVE  /\ Abs(Unrecorded(lines[k].at, lines[k + 1].at))
                        > Tolerance + Sides(lines[k].at, lines[k + 1].at) * Abs(HalfFees - BuyFee)
                     => k \in Unexplained
               /\ k \in Unexplained =>
                     Abs(Unrecorded(lines[k].at, lines[k + 1].at))
                        > Tolerance - Sides(lines[k].at, lines[k + 1].at) * Abs(HalfFees - BuyFee)
    <2>1. PICK a \in Nat, b \in Nat : a = lines[k].at /\ b = lines[k + 1].at
      BY <1>2, <1>4
    <2>2. /\ MovedUnseen(a, b) = Unrecorded(a, b)
          /\ Cardinality(Opened(a, b)) + Cardinality(Ended(a, b)) = Sides(a, b)
      BY <1>3
    <2>3. /\ Abs(MovedUnseen(a, b)) > Tolerance
                      + (Cardinality(Opened(a, b)) + Cardinality(Ended(a, b))) * Abs(Skew)
                   => k \in Unexplained
          /\ k \in Unexplained =>
                   Abs(MovedUnseen(a, b)) > Tolerance
                      - (Cardinality(Opened(a, b)) + Cardinality(Ended(a, b))) * Abs(Skew)
      BY <1>1, <1>4, <2>1
    <2> QED
      BY <2>1, <2>2, <2>3 DEF Skew
  <1>5. AInv => GapsFound
    BY <1>4 DEF GapsFound
  <1> QED
    BY <1>5, Account, PTL

-----------------------------------------------------------------------------
(***************************************************************************)
(* The verdict.                                                            *)
(***************************************************************************)
\* A snapshot that prices every coin leaves no mark of an earlier one.
LEMMA MarksFresh ==
  ASSUME TypeOK, NEW n \in Nat, n = Len(snaps), n > 0, \A c \in Coins : snaps[n].closes[c] # 0
  PROVE  Marks(n) = snaps[n].closes
  <1>1. snaps \in Seq(Snap) /\ n - 1 \in Nat /\ (n - 1) + 1 = n /\ n \in 1..Len(snaps)
    BY DEF TypeOK, Snap
  <1>2. snaps[n] \in Snap
    BY <1>1
  <1>3. snaps[n].closes \in [Coins -> Nat]
    BY <1>2, PerformanceAssumption DEF Snap
  <1>4. ASSUME NEW c \in Coins PROVE MarksIn(snaps, n)[c] = snaps[n].closes[c]
    <2>1. PICK m \in Nat : m + 1 = n
      BY <1>1
    <2>2. MarksIn(snaps, m + 1)[c]
             = IF snaps[m + 1].closes[c] # 0 THEN snaps[m + 1].closes[c] ELSE MarksIn(snaps, m)[c]
      BY <1>1, <2>1, MarksNext
    <2> QED
      BY <2>1, <2>2
  <1>5. MarksIn(snaps, n) = [c \in Coins |-> MarksIn(snaps, n)[c]]
    BY DEF MarksIn
  <1>6. MarksIn(snaps, n) = snaps[n].closes
    BY <1>3, <1>4, <1>5
  <1> QED
    BY <1>6 DEF Marks, MarksIn

\* Right after such a snapshot the balance is the last point of the curve.
LEMMA BalanceOnCurve ==
  ASSUME AInv, Recorded, NEW n \in Nat, n = Len(snaps), n > 0, snaps[n].at = now,
         \A c \in Coins : snaps[n].closes[c] # 0
  PROVE  Point(n).equity = LiveEquity(Marks(n))
  <1>1. /\ TypeOK /\ BooksOK /\ Balanced /\ WorthKept /\ flows = transfers /\ unseen = {}
    BY DEF AInv, Recorded
  <1>2. n \in DOMAIN snaps
    BY <1>1, Standing
  <1>3. PICK mark \in [Coins -> Nat] : mark = Marks(n)
    BY <1>1, <1>2, Standing DEF Marks, MarksIn
  <1>4. \A c \in Coins : mark[c] # 0
    BY <1>1, <1>3, MarksFresh
  <1>5. Live = open /\ {p \in open : ~Gone(p)} = open
    BY <1>1 DEF Live, Gone
  <1>6. \A p \in open : p.coin \in Coins
    BY <1>1, Recordable DEF TypeOK
  <1>7. PICK v : v = [p \in open |-> p.qty * mark[p.coin]]
    OBVIOUS
  <1>8. v = [p \in open |-> Marked(p, mark)]
    BY <1>4, <1>6, <1>7 DEF Marked
  <1>9. LiveEquity(mark) = cash + SumFunction(v)
    BY <1>5, <1>7 DEF LiveEquity, Sum
  <1>10. cash = CashOf(transfers, closed, {}, open, now)
    BY <1>1, <1>5, Accounts
  <1>11. cash + SumFunction(v) = WorthOf(transfers, closed, open, now, mark)
    <2>1. Books(transfers, closed, {}, open) /\ Past(transfers, closed, {}, open, now) /\ now \in Nat
      BY <1>1, Standing
    <2>2. CashOf(transfers, closed, {}, open, now) + SumFunction([p \in open |-> Marked(p, mark)])
             = WorthOf(transfers, closed, open, now, mark)
      BY <2>1, WorthNow
    <2> QED
      BY <1>8, <1>10, <2>2
  <1>12. Cardinality(Late(n)) = 0 /\ Cardinality(Unpriced(n)) = 0
    <2>1. \A t \in closed : ~(now < t.out)
      <3>1. \A t \in closed : t.out \in Nat /\ t.out <= now /\ now \in Nat
        BY <1>1, Recordable DEF TypeOK, IsTrade
      <3> QED
        BY <3>1
    <2>2. Late(n) = {}
      BY <2>1 DEF Late
    <2>3. Unpriced(n) = {}
      BY <1>3, <1>4, <1>6 DEF Unpriced
    <2> QED
      BY <2>2, <2>3, FS_EmptySet
  <1>13. PICK e, w : /\ e = Earned(closed, now, mark) + Pending(open, now, mark)
                     /\ w = Moved(flows, now)
    OBVIOUS
  <1>14. NetAt(now) = w /\ w \in Int
    <2>1. now \in Nat
      BY <1>1 DEF TypeOK
    <2> QED
      BY <1>1, <1>13, <2>1, NetIs
  <1>15. Profit(n) = e /\ e \in Int
    <2>1. /\ Earned(closed, now, mark) \in Int /\ Pending(open, now, mark) \in Int
          /\ Profit(n) = Earned(closed, now, mark) + Pending(open, now, mark) + BuyFee * (0 + 0)
      BY <1>1, <1>2, <1>3, <1>12, ProfitIs
    <2> QED
      BY <1>13, <2>1, Fees
  <1>16. WorthOf(transfers, closed, open, now, mark)
            = StartEquity + w + Earned(closed, now, mark) + Pending(open, now, mark)
    BY <1>1, <1>13 DEF WorthOf
  <1>17. Point(n).equity = StartEquity + w + e
    BY <1>14, <1>15 DEF Point
  <1>18. Earned(closed, now, mark) \in Int /\ Pending(open, now, mark) \in Int
    BY <1>1, <1>2, <1>3, ProfitIs
  <1>19. StartEquity + w + e
            = StartEquity + w + Earned(closed, now, mark) + Pending(open, now, mark)
    BY <1>13, <1>14, <1>18, Fees
  <1> QED
    BY <1>3, <1>9, <1>11, <1>16, <1>17, <1>19

\* With the record complete, no sale missed and a fresh snapshot, the page and the daily
\* check give the same verdict, as both judge one equity and one capital.
THEOREM OneVerdict == Spec => []VerdictsAgree
  <1>1. ASSUME AInv, Recorded, snaps # <<>>, Last(snaps).at = now,
               \A c \in Coins : Last(snaps).closes[c] # 0,
               \E c \in Coins : snaps[1].closes[c] # 0,
               NEW reached \in BOOLEAN
        PROVE  PageVerdict(reached) = ScoreVerdict
    <2>1. TypeOK /\ BooksOK
      BY <1>1 DEF AInv
    <2>2. PICK n \in Nat : n = Len(snaps)
      BY <2>1, Standing
    <2>3. n > 0 /\ n \in DOMAIN snaps /\ Last(snaps) = snaps[n]
      <3>1. snaps \in Seq(Snap)
        BY <2>1 DEF TypeOK, Snap
      <3> QED
        BY <1>1, <2>2, <3>1 DEF Last
    <2>4. Marks(n) = Last(snaps).closes
      BY <1>1, <2>1, <2>2, <2>3, MarksFresh
    <2>5. Point(n).equity = LiveEquity(Marks(n))
      BY <1>1, <2>2, <2>3, BalanceOnCurve
    <2>6. [Curve EXCEPT ![n].equity = LiveEquity(Marks(n))] = Curve
      <3>1. Curve[n] = Point(n)
        BY <2>3 DEF Curve
      <3>2. [Point(n) EXCEPT !.equity = Point(n).equity] = Point(n)
        BY DEF Point
      <3>3. [Curve EXCEPT ![n] = Curve[n]] = Curve
        BY <2>3 DEF Curve
      <3> QED
        BY <2>5, <3>1, <3>2, <3>3
    <2>7. Anchored(reached) = Curve
      BY <2>2, <2>6 DEF Anchored
    <2>8. \E c \in Coins : snaps[1].closes[c] # 0 /\ Last(snaps).closes[c] # 0
      BY <1>1
    <2> QED
      BY <2>2, <2>4, <2>7, <2>8 DEF PageVerdict, ScoreVerdict
  <1>2. AInv => VerdictsAgree
    BY <1>1 DEF VerdictsAgree
  <1> QED
    BY <1>2, Account, PTL

-----------------------------------------------------------------------------
(***************************************************************************)
(* The growth along a curve, one point after the other.                    *)
(***************************************************************************)
Grown(curve, g, n) ==
    LET base == curve[n - 1].equity + curve[n].capital - curve[n - 1].capital
        gain == (curve[n].equity - curve[n].capital) - (curve[n - 1].equity - curve[n - 1].capital)
    IN  IF base > 0 THEN <<g[1] * (base + gain), g[2] * base>> ELSE g

\* h has the growth over each set of steps of the curve.
IsGrowth(curve, m, h) ==
    h = [s \in SUBSET (1..m) |->
            IF s = {} THEN <<1, 1>> ELSE Grown(curve, h[s \ {Max(s)}], Max(s) + 1)]

Numbers(curve, m) == \A i \in 1..(m + 1) : curve[i].equity \in Int /\ curve[i].capital \in Int

\* A step of the growth is a pair of numbers.
LEMMA GrownType ==
  ASSUME NEW m \in Nat, NEW curve, Numbers(curve, m), NEW g \in Int \X Int, NEW x \in 1..m
  PROVE  Grown(curve, g, x + 1) \in Int \X Int
  <1>1. x \in 1..(m + 1) /\ x + 1 \in 1..(m + 1) /\ (x + 1) - 1 = x
    OBVIOUS
  <1>2. PICK e, c, f, d \in Int : /\ e = curve[x].equity /\ c = curve[x].capital
                                  /\ f = curve[x + 1].equity /\ d = curve[x + 1].capital
    BY <1>1 DEF Numbers
  <1>3. PICK base \in Int, sum \in Int : base = e + d - c /\ sum = base + ((f - d) - (e - c))
    OBVIOUS
  <1>4. g[1] * sum \in Int /\ g[2] * base \in Int
    BY TimesNat
  <1>5. Grown(curve, g, x + 1) = IF base > 0 THEN <<g[1] * sum, g[2] * base>> ELSE g
    BY <1>1, <1>2, <1>3 DEF Grown
  <1> QED
    BY <1>4, <1>5

\* The greatest of a set of steps, and the set without it.
LEMMA LastStep ==
  ASSUME NEW m \in Nat, NEW s \in SUBSET (1..m), s # {}
  PROVE  /\ Max(s) \in s /\ Max(s) \in 1..m /\ s \ {Max(s)} \in SUBSET (1..m)
         /\ IsFiniteSet(s) /\ Cardinality(s) \in Nat /\ Cardinality(s \ {Max(s)}) \in Nat
         /\ Cardinality(s \ {Max(s)}) < Cardinality(s)
  <1>1. s \in SUBSET (0..m)
    OBVIOUS
  <1>2. Max(s) \in s
    BY <1>1, Greatest
  <1>3. IsFiniteSet(s)
    <2>1. IsFiniteSet(1..m)
      BY FS_Interval
    <2> QED
      BY <2>1, FS_Subset
  <1>4. PICK x \in s : x = Max(s)
    BY <1>2
  <1> QED
    BY <1>2, <1>3, <1>4, Without

\* Such a function exists: each set's value is that of a set with one step less.
LEMMA GrowthExists ==
  ASSUME NEW m \in Nat, NEW curve, Numbers(curve, m)
  PROVE  \E h \in [SUBSET (1..m) -> Int \X Int] : IsGrowth(curve, m, h)
  <1> DEFINE Low(n) == {s \in SUBSET (1..m) : Cardinality(s) <= n}
             Body(h, s) == IF s = {} THEN <<1, 1>> ELSE Grown(curve, h[s \ {Max(s)}], Max(s) + 1)
             Has(n) == \E h \in [Low(n) -> Int \X Int] : \A s \in Low(n) : h[s] = Body(h, s)
             U == {n \in Nat : ~Has(n)}
  <1>1. \A s \in SUBSET (1..m) : IsFiniteSet(s) /\ Cardinality(s) \in Nat
    <2>1. IsFiniteSet(1..m)
      BY FS_Interval
    <2> QED
      BY <2>1, FS_Subset, FS_CardinalityType
  <1>2. Has(0)
    <2>1. \A s \in Low(0) : s = {}
      BY <1>1, FS_EmptySet
    <2>2. [s \in Low(0) |-> <<1, 1>>] \in [Low(0) -> Int \X Int]
      OBVIOUS
    <2> QED
      BY <2>1, <2>2
  <1>3. ASSUME NEW n \in Nat, Has(n)
        PROVE  Has(n + 1)
    <2>1. PICK h \in [Low(n) -> Int \X Int] : \A s \in Low(n) : h[s] = Body(h, s)
      BY <1>3
    <2> DEFINE k == [s \in Low(n + 1) |-> Body(h, s)]
    <2>2. ASSUME NEW s \in Low(n + 1), s # {}
          PROVE  s \ {Max(s)} \in Low(n) /\ Max(s) \in 1..m
      <3>1. /\ Max(s) \in 1..m /\ s \ {Max(s)} \in SUBSET (1..m)
            /\ Cardinality(s) \in Nat /\ Cardinality(s \ {Max(s)}) \in Nat
            /\ Cardinality(s \ {Max(s)}) < Cardinality(s)
        BY <2>2, LastStep
      <3> QED
        BY <3>1
    <2>3. ASSUME NEW s \in Low(n + 1) PROVE Body(h, s) \in Int \X Int
      <3>1. CASE s = {}
        BY <3>1
      <3>2. CASE s # {}
        <4>1. PICK g \in Int \X Int : g = h[s \ {Max(s)}]
          BY <2>2, <3>2
        <4>2. PICK x \in 1..m : x = Max(s)
          BY <2>2, <3>2
        <4>3. Grown(curve, g, x + 1) \in Int \X Int
          BY GrownType
        <4> QED
          BY <3>2, <4>1, <4>2, <4>3
      <3> QED
        BY <3>1, <3>2
    <2>4. \A s \in Low(n) : s \in Low(n + 1) /\ k[s] = h[s]
      <3>1. \A s \in Low(n) : s \in Low(n + 1)
        BY <1>1
      <3> QED
        BY <2>1, <3>1
    <2>5. \A s \in Low(n + 1) : k[s] = Body(k, s)
      <3> SUFFICES ASSUME NEW s \in Low(n + 1), s # {}
                   PROVE  k[s] = Grown(curve, k[s \ {Max(s)}], Max(s) + 1)
        OBVIOUS
      <3>1. k[s \ {Max(s)}] = h[s \ {Max(s)}]
        BY <2>2, <2>4
      <3> QED
        BY <3>1
    <2>6. k \in [Low(n + 1) -> Int \X Int]
      BY <2>3
    <2> QED
      BY <2>5, <2>6
  <1>4. U = {}
    <2> SUFFICES ASSUME U # {} PROVE FALSE
      OBVIOUS
    <2> HIDE DEF Has
    <2>1. PICK u \in U : \A y \in U : ~(y < u)
      BY Least
    <2>2. u \in Nat /\ u # 0 /\ ~Has(u)
      BY <1>2
    <2>3. PICK n \in Nat : u = n + 1
      <3>1. u - 1 \in Nat /\ u = (u - 1) + 1
        BY <2>2
      <3> QED
        BY <3>1
    <2>4. n \notin U
      BY <2>1, <2>3
    <2>5. Has(n)
      BY <2>4
    <2>6. Has(n + 1)
      BY <1>3, <2>5
    <2> QED
      BY <2>2, <2>3, <2>6
  <1>5. Low(m) = SUBSET (1..m)
    <2>1. \A s \in SUBSET (1..m) : Cardinality(s) <= m
      <3>1. IsFiniteSet(1..m) /\ Cardinality(1..m) = m
        BY FS_Interval
      <3> QED
        BY <3>1, FS_Subset
    <2> QED
      BY <2>1
  <1>6. Has(m)
    BY <1>4
  <1>7. PICK h \in [SUBSET (1..m) -> Int \X Int] : \A s \in SUBSET (1..m) : h[s] = Body(h, s)
    BY <1>5, <1>6
  <1> QED
    BY <1>7 DEF IsGrowth

\* Two curves that agree as far as the shorter one goes grow alike so far.
LEMMA GrowthAgrees ==
  ASSUME NEW m \in Nat, NEW q \in 0..m, NEW curve, NEW other, NEW h, NEW k,
         IsGrowth(curve, m, h), IsGrowth(other, q, k), \A i \in 1..(q + 1) : curve[i] = other[i]
  PROVE  h[1..q] = k[1..q]
  <1> DEFINE B == {s \in SUBSET (1..q) : h[s] # k[s]}
  <1> SUFFICES ASSUME B # {} PROVE FALSE
    OBVIOUS
  <1>1. \A s \in SUBSET (1..q) : IsFiniteSet(s) /\ s \in SUBSET (1..m)
    <2>1. IsFiniteSet(1..q) /\ 1..q \subseteq 1..m
      BY FS_Interval
    <2> QED
      BY <2>1, FS_Subset
  <1>2. PICK s \in B : \A r \in B : ~(Cardinality(r) < Cardinality(s))
    BY <1>1, LeastSet
  <1>3. s \in SUBSET (1..q) /\ s \in SUBSET (1..m) /\ h[s] # k[s] /\ q \in Nat
    BY <1>1, <1>2
  <1>4. s # {}
    BY <1>3 DEF IsGrowth
  <1>5. /\ Max(s) \in 1..q /\ s \ {Max(s)} \in SUBSET (1..q)
        /\ Cardinality(s \ {Max(s)}) < Cardinality(s)
    BY <1>3, <1>4, LastStep
  <1>6. h[s \ {Max(s)}] = k[s \ {Max(s)}]
    BY <1>2, <1>5
  <1>7. PICK x \in 1..q : x = Max(s)
    BY <1>5
  <1>8. PICK g : g = h[s \ {Max(s)}]
    OBVIOUS
  <1>9. h[s] = Grown(curve, g, x + 1) /\ k[s] = Grown(other, g, x + 1)
    BY <1>3, <1>4, <1>6, <1>7, <1>8 DEF IsGrowth
  <1>10. x \in 1..(q + 1) /\ x + 1 \in 1..(q + 1) /\ (x + 1) - 1 = x
    OBVIOUS
  <1>11. curve[x] = other[x] /\ curve[x + 1] = other[x + 1]
    BY <1>10
  <1>12. Grown(curve, g, x + 1) = Grown(other, g, x + 1)
    BY <1>10, <1>11 DEF Grown
  <1> QED
    BY <1>3, <1>9, <1>12

\* The same, over the sequence of the numbers that is folded.
IsFold(curve, seq, h) ==
    h = [s \in SUBSET DOMAIN seq |->
            IF s = {} THEN <<1, 1>> ELSE Grown(curve, h[s \ {Max(s)}], seq[Max(s)])]

\* The function that the fold over the curve chooses is such a function.
LEMMA FoldIsGrowth ==
  ASSUME NEW m \in Nat, NEW curve, NEW h, NEW seq, seq = [i \in 1..m |-> i + 1]
  PROVE  IsFold(curve, seq, h) <=> IsGrowth(curve, m, h)
  <1>1. DOMAIN seq = 1..m
    OBVIOUS
  <1>2. ASSUME NEW s \in SUBSET (1..m), s # {}
        PROVE  seq[Max(s)] = Max(s) + 1
    <2>1. Max(s) \in 1..m
      BY <1>2, LastStep
    <2> QED
      BY <2>1
  <1> QED
    BY <1>1, <1>2 DEF IsFold, IsGrowth

\* The library's fold is the value of every such function.
LEMMA GrowthIs ==
  ASSUME NEW m \in Nat, NEW curve, Len(curve) = m + 1, Numbers(curve, m),
         NEW h, IsGrowth(curve, m, h)
  PROVE  Growth(curve) = h[1..m] /\ h[1..m] \in Int \X Int
  <1> DEFINE seq == [i \in 1..(Len(curve) - 1) |-> i + 1]
             f == CHOOSE k : IsFold(curve, seq, k)
  <1>1. PICK k \in [SUBSET (1..m) -> Int \X Int] : IsGrowth(curve, m, k)
    BY GrowthExists
  <1>2. Growth(curve) = f[DOMAIN seq]
    BY DEF Growth, FoldLeft, MapThenFoldSet, IsFold, Grown
  <1>3. seq = [i \in 1..m |-> i + 1] /\ DOMAIN seq = 1..m
    OBVIOUS
  <1> HIDE DEF seq
  <1>4. IsGrowth(curve, m, f)
    <2>1. IsFold(curve, seq, k)
      BY <1>1, <1>3, FoldIsGrowth
    <2>2. IsFold(curve, seq, f)
      BY <2>1, Zenon
    <2> HIDE DEF f
    <2> QED
      BY <1>3, <2>2, FoldIsGrowth
  <1> HIDE DEF f
  <1>5. m \in 0..m
    OBVIOUS
  <1>6. f[1..m] = h[1..m] /\ k[1..m] = h[1..m]
    BY <1>1, <1>4, <1>5, GrowthAgrees
  <1> QED
    BY <1>1, <1>2, <1>3, <1>6

\* The account held no coin after the snapshot before the n-th and up to it.
Idle(n) ==
    \A t \in open \cup closed :
        \/ t.in > snaps[n].at
        \/ t \in closed /\ t.out <= snaps[n - 1].at

\* The profit stood still while no coin was held.
LEMMA IdleProfit ==
  ASSUME TypeOK, BooksOK, NEW n \in Nat, n \in DOMAIN snaps, n - 1 \in DOMAIN snaps, Idle(n)
  PROVE  Profit(n) = Profit(n - 1)
  <1>1. PICK a \in Nat, b \in Nat : a = snaps[n - 1].at /\ b = snaps[n].at
    BY Standing
  <1>2. a < b
    <2>1. n - 1 < n
      OBVIOUS
    <2> QED
      BY <1>1, <2>1 DEF TypeOK
  <1>3. ASSUME NEW t \in closed
        PROVE  /\ t.out <= a <=> t.out <= b
               /\ ~(t.in <= a /\ a < t.out) /\ ~(t.in <= b /\ b < t.out)
    <2>1. t.in \in Nat /\ t.out \in Nat /\ t.in < t.out
      BY Recordable DEF TypeOK, IsTrade, IsBuy
    <2>2. t \notin open => t \in open \cup closed
      OBVIOUS
    <2>3. t.in > b \/ t.out <= a
      BY <1>1 DEF Idle
    <2> QED
      BY <1>2, <2>1, <2>3
  <1>4. ASSUME NEW p \in open
        PROVE  ~(p.in <= a) /\ ~(p.in <= b)
    <2>1. p.in \in Nat
      BY Recordable DEF TypeOK, IsBuy
    <2>2. p \notin closed
      BY DEF TypeOK
    <2>3. p.in > b
      BY <1>1, <2>2 DEF Idle
    <2> QED
      BY <1>2, <2>1, <2>3
  <1>5. PICK mark, last : mark = Marks(n) /\ last = Marks(n - 1)
    OBVIOUS
  <1>6. {t \in closed : t.out <= a} = {t \in closed : t.out <= b}
    BY <1>3
  <1>7. /\ {t \in closed : t.in <= a /\ a < t.out /\ last[t.coin] # 0} = {}
        /\ {t \in closed : t.in <= b /\ b < t.out /\ mark[t.coin] # 0} = {}
    BY <1>3
  <1>8. /\ {p \in open : p.in <= a /\ last[p.coin] # 0} = {}
        /\ {p \in open : p.in <= b /\ mark[p.coin] # 0} = {}
    BY <1>4
  <1>9. /\ [t \in {} |-> Gain(t, last[t.coin])] = [t \in {} |-> Gain(t, mark[t.coin])]
        /\ [p \in {} |-> Gain(p, last[p.coin]) - BuyFee] = [p \in {} |-> Gain(p, mark[p.coin]) - BuyFee]
    OBVIOUS
  <1>10. Profit(n) = SumFunction([t \in {t \in closed : t.out <= b} |-> Pnl(t)])
                     + SumFunction([t \in {} |-> Gain(t, mark[t.coin])])
                     + SumFunction([p \in {} |-> Gain(p, mark[p.coin]) - BuyFee])
    BY <1>1, <1>5, <1>7, <1>8 DEF Profit, Sum
  <1>11. Profit(n - 1) = SumFunction([t \in {t \in closed : t.out <= a} |-> Pnl(t)])
                         + SumFunction([t \in {} |-> Gain(t, last[t.coin])])
                         + SumFunction([p \in {} |-> Gain(p, last[p.coin]) - BuyFee])
    BY <1>1, <1>5, <1>7, <1>8 DEF Profit, Sum
  <1> QED
    BY <1>6, <1>9, <1>10, <1>11

\* The first elements of a sequence.
LEMMA FirstOf ==
  ASSUME NEW R, NEW c \in Seq(R), NEW n \in Nat, n <= Len(c)
  PROVE  Len(SubSeq(c, 1, n)) = n /\ \A i \in 1..n : SubSeq(c, 1, n)[i] = c[i] /\ c[i] \in R
  OBVIOUS

\* The growth up to a point is that of the step to it, of the growth before.
LEMMA GrowthStep ==
  ASSUME NEW R, \A x \in R : x.capital \in Int /\ x.equity \in Int, NEW c \in Seq(R),
         NEW n \in Nat, 2 <= n, n <= Len(c)
  PROVE  /\ Growth(SubSeq(c, 1, n - 1)) \in Int \X Int
         /\ Growth(SubSeq(c, 1, n)) = Grown(c, Growth(SubSeq(c, 1, n - 1)), n)
  <1>1. PICK m \in Nat, q \in Nat : n = m + 1 /\ m = q + 1
    <2>1. n - 1 \in Nat /\ n - 2 \in Nat /\ n = (n - 1) + 1 /\ n - 1 = (n - 2) + 1
      OBVIOUS
    <2> QED
      BY <2>1
  <1>2. PICK long, short : long = SubSeq(c, 1, n) /\ short = SubSeq(c, 1, m)
    OBVIOUS
  <1>3. Len(long) = m + 1 /\ \A i \in 1..(m + 1) : long[i] = c[i] /\ c[i] \in R
    <2>1. n \in Nat /\ n <= Len(c) /\ n = m + 1
      BY <1>1
    <2>2. Len(SubSeq(c, 1, n)) = n /\ \A i \in 1..n : SubSeq(c, 1, n)[i] = c[i] /\ c[i] \in R
      BY <2>1, FirstOf
    <2> QED
      BY <1>2, <2>1, <2>2
  <1>4. Len(short) = q + 1 /\ \A i \in 1..(q + 1) : short[i] = c[i] /\ c[i] \in R
    <2>1. m \in Nat /\ m <= Len(c) /\ m = q + 1
      BY <1>1
    <2>2. Len(SubSeq(c, 1, m)) = m /\ \A i \in 1..m : SubSeq(c, 1, m)[i] = c[i] /\ c[i] \in R
      BY <2>1, FirstOf
    <2> QED
      BY <1>2, <2>1, <2>2
  <1>5. Numbers(long, m)
    BY <1>3 DEF Numbers
  <1>6. Numbers(short, q)
    BY <1>4 DEF Numbers
  <1>7. PICK h : IsGrowth(long, m, h)
    BY <1>5, GrowthExists
  <1>8. PICK k : IsGrowth(short, q, k)
    BY <1>6, GrowthExists
  <1>9. Growth(long) = h[1..m]
    BY <1>3, <1>5, <1>7, GrowthIs
  <1>10. Growth(short) = k[1..q] /\ k[1..q] \in Int \X Int
    BY <1>4, <1>6, <1>8, GrowthIs
  <1>11. h[1..q] = k[1..q]
    <2>1. q \in 0..m
      BY <1>1
    <2>2. \A i \in 1..(q + 1) : long[i] = short[i]
      BY <1>1, <1>3, <1>4
    <2> QED
      BY <1>7, <1>8, <2>1, <2>2, GrowthAgrees
  <1>12. h[1..m] = Grown(long, h[1..q], m + 1)
    <2>1. PICK s \in SUBSET (1..m) : s = 1..m
      OBVIOUS
    <2>2. s # {} /\ m \in s /\ s \ {m} = 1..q
      <3>1. m >= 1 /\ 1..m = 1..q \cup {m} /\ m \notin 1..q
        BY <1>1
      <3> QED
        BY <2>1, <3>1
    <2>3. Max(s) = m
      <3>1. s \in SUBSET (0..m) /\ \A y \in s : m >= y
        BY <2>1
      <3> QED
        BY <2>2, <3>1, MaxIs
    <2>4. h[s] = Grown(long, h[s \ {Max(s)}], Max(s) + 1)
      BY <1>7, <2>2 DEF IsGrowth
    <2> QED
      BY <2>1, <2>2, <2>3, <2>4
  <1>13. Grown(long, k[1..q], n) = Grown(c, k[1..q], n)
    <2>1. n \in 1..(m + 1) /\ n - 1 \in 1..(m + 1)
      BY <1>1
    <2>2. long[n] = c[n] /\ long[n - 1] = c[n - 1]
      BY <1>3, <2>1
    <2> QED
      BY <2>2 DEF Grown
  <1>14. n - 1 = m
    BY <1>1
  <1> QED
    BY <1>1, <1>2, <1>9, <1>10, <1>11, <1>12, <1>13, <1>14

\* A step without a gain leaves the growth as it was, written with other terms.
LEMMA NoGain ==
  ASSUME NEW c, NEW n, NEW g \in Int \X Int, NEW base \in Int,
         base = c[n - 1].equity + c[n].capital - c[n - 1].capital,
         (c[n].equity - c[n].capital) - (c[n - 1].equity - c[n - 1].capital) = 0,
         NEW a, a = Grown(c, g, n)
  PROVE  a[1] * g[2] = g[1] * a[2]
  <1>1. a = IF base > 0 THEN <<g[1] * (base + 0), g[2] * base>> ELSE g
    BY DEF Grown
  <1>2. PICK x \in Int, y \in Int : g = <<x, y>>
    OBVIOUS
  <1>3. CASE base > 0
    <2>1. a[1] = x * base /\ a[2] = y * base
      BY <1>1, <1>2, <1>3
    <2>2. (x * base) * y = x * (y * base)
      BY <1>2
    <2> QED
      BY <1>2, <2>1, <2>2
  <1>4. CASE ~(base > 0)
    BY <1>1, <1>2, <1>4
  <1> QED
    BY <1>3, <1>4

\* A time without a coin in the account leaves the growth factor as it was, whatever
\* was deposited or withdrawn meanwhile (performance.py: time_weighted_return).
THEOREM IdleEarns == Spec => []IdleEarnsNothing
  <1>1. ASSUME AInv, NEW n \in 2..Len(snaps), Idle(n)
        PROVE  LET before == Growth(SubSeq(Curve, 1, n - 1))
                   after  == Growth(SubSeq(Curve, 1, n))
               IN  after[1] * before[2] = before[1] * after[2]
    <2>1. TypeOK /\ BooksOK
      BY <1>1 DEF AInv
    <2>2. /\ n \in Nat /\ 2 <= n /\ n \in DOMAIN snaps /\ n - 1 \in DOMAIN snaps
          /\ DOMAIN snaps = 1..Len(snaps) /\ Len(snaps) \in Nat /\ n <= Len(snaps)
      <3>1. snaps \in Seq(Snap)
        BY <2>1, Standing
      <3> QED
        BY <3>1
    <2>3. PICK R : R = [capital : Int, equity : Int]
      OBVIOUS
    <2>4. ASSUME NEW i \in DOMAIN snaps
          PROVE  /\ Point(i) \in R /\ Profit(i) \in Int /\ NetAt(snaps[i].at) \in Int
                 /\ Point(i).equity = Point(i).capital + Profit(i)
      <3>1. Profit(i) \in Int
        BY <2>1, ProfitIs
      <3>2. NetAt(snaps[i].at) \in Int
        BY <2>1, Standing, NetIs
      <3> QED
        BY <2>3, <3>1, <3>2, Fees DEF Point
    <2>5. PICK c : c = Curve
      OBVIOUS
    <2>6. /\ c \in Seq(R) /\ Len(c) = Len(snaps)
          /\ c[n] = Point(n) /\ c[n - 1] = Point(n - 1)
      <3>1. c = [i \in 1..Len(snaps) |-> Point(i)]
        BY <2>2, <2>5 DEF Curve
      <3>2. \A i \in 1..Len(snaps) : Point(i) \in R
        BY <2>2, <2>4
      <3> QED
        BY <2>2, <3>1, <3>2
    <2>7. PICK g, a : g = Growth(SubSeq(c, 1, n - 1)) /\ a = Growth(SubSeq(c, 1, n))
      OBVIOUS
    <2>8. g \in Int \X Int /\ a = Grown(c, g, n)
      BY <2>2, <2>3, <2>6, <2>7, GrowthStep
    <2>9. Profit(n) = Profit(n - 1)
      BY <1>1, <2>1, <2>2, IdleProfit
    <2>10. PICK e, f, d, b \in Int : /\ e = c[n].equity /\ f = c[n].capital
                                     /\ d = c[n - 1].equity /\ b = c[n - 1].capital
      BY <2>2, <2>3, <2>4, <2>6
    <2>11. (e - f) - (d - b) = 0
      <3>1. PICK p \in Int : p = Profit(n) /\ p = Profit(n - 1)
        BY <2>2, <2>4, <2>9
      <3>2. /\ Point(n).equity = Point(n).capital + Profit(n)
            /\ Point(n - 1).equity = Point(n - 1).capital + Profit(n - 1)
        BY <2>2, <2>4
      <3>3. e = f + p /\ d = b + p
        BY <2>6, <2>10, <3>1, <3>2
      <3> QED
        BY <3>3
    <2>12. PICK base \in Int : base = d + f - b
      BY <2>10
    <2>13. base = c[n - 1].equity + c[n].capital - c[n - 1].capital
      BY <2>10, <2>12
    <2>14. (c[n].equity - c[n].capital) - (c[n - 1].equity - c[n - 1].capital) = 0
      BY <2>10, <2>11
    <2>15. a[1] * g[2] = g[1] * a[2]
      BY <2>8, <2>13, <2>14, NoGain
    <2> QED
      BY <2>5, <2>7, <2>15
  <1>2. AInv => IdleEarnsNothing
    BY <1>1 DEF IdleEarnsNothing, Idle
  <1> QED
    BY <1>2, Account, PTL
===============================================================================
