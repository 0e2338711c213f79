--------------------------- MODULE Trading_proofs ---------------------------
(***************************************************************************)
(* Proofs about module Trading, for any set of processes and symbols, any  *)
(* caps and settings.                                                      *)
(*                                                                         *)
(* With every fault: the types, and that one process at a time is past the *)
(* lock, both from IInv; when no process dies, that every save of the      *)
(* ledger file continues the one before it; when besides no answer is      *)
(* lost, that the throttle holds, from ThrottleInv; and when nothing but   *)
(* market data fails (Undisturbed), that the ledger and the account agree: *)
(* what is sold and held is booked, the cap holds and the breaker halts    *)
(* the entries, from BooksInv.                                             *)
(***************************************************************************)
EXTENDS Trading, SequenceTheorems, FiniteSetTheorems, TLAPS

-----------------------------------------------------------------------------
(***************************************************************************)
(* The operations of module Ledger: what each of them does to the type of  *)
(* a book, and that its result continues (Extends) every book that its     *)
(* argument continues.                                                     *)
(***************************************************************************)
\* A missing or torn file reads as a well-formed book.
LEMMA EmptyType == Empty \in Book
  BY DEF Empty, Book, Position, NoPos, Never, Trade

\* open_position keeps a book well-formed.
LEMMA OpenType ==
  ASSUME NEW l \in Book, NEW s \in Symbol, NEW q \in Nat, NEW h \in Nat, NEW i \in Nat
  PROVE  OpenPosition(l, s, q, h, i) \in Book
  BY DEF OpenPosition, Book, Position

\* close_position keeps a book well-formed.
LEMMA CloseType ==
  ASSUME NEW l \in Book, NEW s \in Symbol, NEW loss \in BOOLEAN, NEW h \in Nat
  PROVE  ClosePosition(l, s, loss, h) \in Book
  <1>1. l.open[s].qty \in Nat
    BY DEF Book, Position
  <1>2. [symbol |-> s, qty |-> l.open[s].qty, loss |-> loss, hour |-> h] \in Trade
    BY <1>1 DEF Trade
  <1>3. Append(l.closed, [symbol |-> s, qty |-> l.open[s].qty, loss |-> loss, hour |-> h])
          \in Seq(Trade)
    BY <1>2 DEF Book
  <1>4. NoPos \in Position
    BY DEF NoPos, Position
  <1> QED
    BY <1>3, <1>4 DEF ClosePosition, Book

\* update_position keeps a book well-formed.
LEMMA UpdateType ==
  ASSUME NEW l \in Book, NEW s \in Symbol, NEW stop \in Nat
  PROVE  UpdatePosition(l, s, stop) \in Book
  BY DEF UpdatePosition, Book, Position

\* record_entry_attempt keeps a book well-formed.
LEMMA AttemptType ==
  ASSUME NEW l \in Book, NEW s \in Symbol, NEW h \in Nat
  PROVE  RecordEntryAttempt(l, s, h) \in Book
  BY DEF RecordEntryAttempt, Book

\* reconcile keeps a book well-formed, whatever the balances are.
LEMMA ReconcileType ==
  ASSUME NEW l \in Book, NEW b \in [Symbol -> Balance], NEW h \in Nat
  PROVE  Reconcile(l, b, h) \in Book
  <1>1. ASSUME NEW s \in Symbol
        PROVE  ReconciledPosition(l.open[s], b[s], h) \in Position
    <2>1. l.open[s] \in Position /\ b[s] \in Balance
      BY DEF Book
    <2> QED
      BY <2>1 DEF ReconciledPosition, Position, Balance, NoPos, Adopted
  <1> QED
    BY <1>1 DEF Reconcile, Book

-----------------------------------------------------------------------------
\* A book continues itself.
LEMMA ExtendsItself ==
  ASSUME NEW l \in Book
  PROVE  Extends(l, l)
  BY DEF Extends, KeepsTrades, KeepsAttempts, KeepsLevels, SamePosition,
         Book, Position, Never

\* Reconciling with the balances drops or adopts positions but touches no
\* trade, no attempt and no level.
LEMMA ExtendsReconcile ==
  ASSUME NEW l \in Book, NEW b \in [Symbol -> Balance], NEW h \in Nat
  PROVE  Extends(l, Reconcile(l, b, h))
  <1> DEFINE n == Reconcile(l, b, h)
  <1>1. n.closed = l.closed /\ n.attempt = l.attempt
    BY DEF Reconcile, Book
  <1>2. ASSUME NEW s \in Symbol, SamePosition(l.open[s], n.open[s])
        PROVE  l.open[s].stop <= n.open[s].stop
    <2>1. n.open[s] = ReconciledPosition(l.open[s], b[s], h)
      BY DEF Reconcile, Book
    <2>2. l.open[s] \in Position /\ b[s] \in Balance
      BY DEF Book
    <2>3. l.open[s].qty > 0
      BY <1>2 DEF SamePosition
    <2>4. n.open[s] = NoPos \/ n.open[s] = [l.open[s] EXCEPT !.qty = b[s].qty]
      BY <2>1, <2>2, <2>3 DEF ReconciledPosition, Position, Balance
    <2>5. n.open[s].qty > 0
      BY <1>2 DEF SamePosition
    <2> QED
      BY <2>2, <2>4, <2>5 DEF NoPos, Position
  <1>3. KeepsLevels(l, n)
    BY <1>2 DEF KeepsLevels
  <1>4. KeepsTrades(l, n) /\ KeepsAttempts(l, n)
    BY <1>1 DEF KeepsTrades, KeepsAttempts, Book, Never
  <1> QED
    BY <1>3, <1>4 DEF Extends

\* Closing a position appends to the trades and takes it off the list.
LEMMA ExtendsClose ==
  ASSUME NEW o \in Book, NEW l \in Book, Extends(o, l),
         NEW s \in Symbol, NEW loss \in BOOLEAN, NEW h \in Nat
  PROVE  Extends(o, ClosePosition(l, s, loss, h))
  <1> DEFINE n == ClosePosition(l, s, loss, h)
             t == [symbol |-> s, qty |-> l.open[s].qty, loss |-> loss, hour |-> h]
  <1>1. /\ n.closed = Append(l.closed, t)
        /\ n.attempt = l.attempt
        /\ n.open = [l.open EXCEPT ![s] = NoPos]
    BY DEF ClosePosition, Book
  <1>2. t \in Trade
    BY DEF Book, Position, Trade
  <1>3. KeepsTrades(o, n)
    <2> HIDE DEF t, n
    <2>1. l.closed \in Seq(Trade) /\ o.closed \in Seq(Trade)
      BY DEF Book
    <2>2. KeepsTrades(o, l)
      BY DEF Extends
    <2>3. /\ Len(n.closed) = Len(l.closed) + 1
          /\ \A i \in 1..Len(l.closed) : n.closed[i] = l.closed[i]
      BY <1>1, <1>2, <2>1
    <2> QED
      BY <2>1, <2>2, <2>3 DEF KeepsTrades
  <1>4. KeepsAttempts(o, n)
    BY <1>1 DEF Extends, KeepsAttempts
  <1>5. KeepsLevels(o, n)
    <2> HIDE DEF n
    <2>1. \A r \in Symbol : n.open[r] = IF r = s THEN NoPos ELSE l.open[r]
      BY <1>1 DEF Book
    <2> QED
      BY <2>1 DEF Extends, KeepsLevels, SamePosition, NoPos
  <1> QED
    BY <1>3, <1>4, <1>5 DEF Extends

\* Ratcheting the levels of a position up keeps them from being lowered.
LEMMA ExtendsUpdate ==
  ASSUME NEW o \in Book, NEW l \in Book, Extends(o, l),
         NEW s \in Symbol, NEW stop \in Nat, l.open[s].stop <= stop
  PROVE  Extends(o, UpdatePosition(l, s, stop))
  <1> DEFINE n == UpdatePosition(l, s, stop)
  <1>1. /\ n.closed = l.closed
        /\ n.attempt = l.attempt
        /\ n.open = [l.open EXCEPT ![s] = [l.open[s] EXCEPT !.stop = stop]]
    BY DEF UpdatePosition, Book
  <1>2. KeepsTrades(o, n) /\ KeepsAttempts(o, n)
    BY <1>1 DEF Extends, KeepsTrades, KeepsAttempts
  <1>3. KeepsLevels(o, n)
    <2> HIDE DEF n
    <2>1. /\ \A r \in Symbol : r # s => n.open[r] = l.open[r]
          /\ n.open[s] = [l.open[s] EXCEPT !.stop = stop]
      BY <1>1 DEF Book
    <2>2. o.open[s] \in Position /\ l.open[s] \in Position
      BY DEF Book
    <2> QED
      BY <2>1, <2>2 DEF Extends, KeepsLevels, SamePosition, Position
  <1> QED
    BY <1>2, <1>3 DEF Extends

\* A position opened for a new order is no position of the older book.
LEMMA ExtendsOpen ==
  ASSUME NEW o \in Book, NEW l \in Book, Extends(o, l),
         NEW s \in Symbol, NEW q \in Nat, NEW h \in Nat, NEW i \in Nat,
         o.open[s].id # i
  PROVE  Extends(o, OpenPosition(l, s, q, h, i))
  <1> DEFINE n == OpenPosition(l, s, q, h, i)
  <1>1. /\ n.closed = l.closed
        /\ n.attempt = l.attempt
        /\ n.open = [l.open EXCEPT ![s] = [qty |-> q, stop |-> 0, hour |-> h, id |-> i]]
    BY DEF OpenPosition, Book
  <1>2. KeepsTrades(o, n) /\ KeepsAttempts(o, n)
    BY <1>1 DEF Extends, KeepsTrades, KeepsAttempts
  <1>3. KeepsLevels(o, n)
    <2> HIDE DEF n
    <2>1. /\ \A r \in Symbol : r # s => n.open[r] = l.open[r]
          /\ n.open[s].id = i
      BY <1>1 DEF Book
    <2> QED
      BY <2>1 DEF Extends, KeepsLevels, SamePosition
  <1> QED
    BY <1>2, <1>3 DEF Extends

\* An attempt recorded now is not earlier than one recorded before.
LEMMA ExtendsAttempt ==
  ASSUME NEW o \in Book, NEW l \in Book, Extends(o, l),
         NEW s \in Symbol, NEW h \in Nat, o.attempt[s] <= h
  PROVE  Extends(o, RecordEntryAttempt(l, s, h))
  <1> DEFINE n == RecordEntryAttempt(l, s, h)
  <1>1. /\ n.closed = l.closed
        /\ n.open = l.open
        /\ n.attempt = [l.attempt EXCEPT ![s] = h]
    BY DEF RecordEntryAttempt, Book
  <1>2. KeepsTrades(o, n) /\ KeepsLevels(o, n)
    BY <1>1 DEF Extends, KeepsTrades, KeepsLevels
  <1>3. KeepsAttempts(o, n)
    <2> HIDE DEF n
    <2>1. \A r \in Symbol : n.attempt[r] = IF r = s THEN h ELSE l.attempt[r]
      BY <1>1 DEF Book
    <2> QED
      BY <2>1 DEF Extends, KeepsAttempts
  <1> QED
    BY <1>2, <1>3 DEF Extends

-----------------------------------------------------------------------------
(***************************************************************************)
(* The invariant of the two programs.                                      *)
(***************************************************************************)
\* The balances of a process that has read none are balances.
LEMMA UnreadType == Unread \in [Symbol -> Balance]
  BY DEF Unread, Balance

\* The initial state satisfies the inductive invariant.
LEMMA InitInv == Init => IInv
  <1> SUFFICES ASSUME Init PROVE IInv
    OBVIOUS
  <1> USE DEF Init
  <1>1. TypeOK
    <2>1. disk \in Book /\ led \in [Proc -> Book] /\ seen \in [Proc -> [Symbol -> Balance]]
      BY EmptyType, UnreadType
    <2>2. orders \in Seq(Order)
      OBVIOUS
    <2>3. pc \in [Proc -> Label] /\ todo \in [Proc -> SUBSET Symbol]
      BY DEF Label
    <2> QED
      BY <2>1, <2>2, <2>3 DEF TypeOK
  <1>2. OrdersOK
    BY DEF OrdersOK
  <1>3. WaitOK
    BY DEF WaitOK, AwaitsFill
  <1>4. LockOK
    BY DEF LockOK, Locked
  <1>5. PastOK
    BY DEF PastOK, PastBook, Empty, NoPos, Never
  <1>6. FreshOK
    BY DEF FreshOK
  <1>7. BaseOK
    BY DEF BaseOK, Working
  <1> QED
    BY <1>1, <1>2, <1>3, <1>4, <1>5, <1>6, <1>7 DEF IInv

\* A process that ends leaves nothing behind but the file and its orders.
LEMMA EndInv ==
  ASSUME IInv, NEW p \in Proc, pc[p] # "idle", End(p),
         UNCHANGED <<disk, torn, hour, free, locked, orders>>, faults' \in Nat,
         pc[p] = "writing" => "crash" \in Faults
  PROVE  IInv'
  <1> USE DEF IInv
  <1>1. TypeOK'
    BY EmptyType, UnreadType DEF TypeOK, End, Goto, Label, Proc
  <1>2. OrdersOK'
    BY DEF OrdersOK
  <1>3. WaitOK'
    BY DEF TypeOK, WaitOK, AwaitsFill, End, Goto
  <1>4. LockOK'
    BY DEF TypeOK, LockOK, Locked, End, Goto
  <1>5. PastOK'
    BY DEF TypeOK, PastOK, PastBook, Empty, NoPos, Never, End
  <1>6. FreshOK'
    BY DEF TypeOK, FreshOK, End, Goto
  <1>7. BaseOK'
    BY DEF TypeOK, BaseOK, Working, End, Goto
  <1> QED
    BY <1>1, <1>2, <1>3, <1>4, <1>5, <1>6, <1>7 DEF IInv

\* A process that only moves on, neither into nor out of a wait, a write or the
\* part of its cycle that works on a book.
LEMMA MoveInv ==
  ASSUME IInv, NEW p \in Proc, NEW l \in Label, Goto(p, l),
         UNCHANGED <<disk, lock, hour, led, seen, todo, slots, mine, free, locked, orders, faults>>,
         l \notin {"selling", "buying"}, pc[p] # "writing",
         l \in Locked => lock = p,
         l \in Working => pc[p] \in Working,
         torn' = (torn \/ l = "writing")
  PROVE  IInv'
  <1> USE DEF IInv
  <1>1. TypeOK'
    BY DEF TypeOK, Goto, Label
  <1>2. OrdersOK'
    BY DEF OrdersOK, Goto, Label
  <1>3. WaitOK'
    BY DEF TypeOK, WaitOK, AwaitsFill, Goto, Label
  <1>4. LockOK'
    BY DEF TypeOK, LockOK, Locked, Goto, Label
  <1>5. PastOK'
    BY DEF TypeOK, PastOK, PastBook, Goto, Label
  <1>6. FreshOK'
    BY DEF TypeOK, FreshOK, Goto, Label
  <1>7. BaseOK'
    BY DEF TypeOK, BaseOK, Working, Goto, Label
  <1> QED
    BY <1>1, <1>2, <1>3, <1>4, <1>5, <1>6, <1>7 DEF IInv

\* Taking the free lock lets nobody else past it.
LEMMA AcquireInv ==
  ASSUME IInv, NEW p \in Proc, NEW l \in {"begin", "load"}, pc[p] = "waiting",
         lock = NoProc, lock' = p, Goto(p, l),
         UNCHANGED <<disk, torn, hour, led, seen, todo, slots, mine, free, locked, orders, faults>>
  PROVE  IInv'
  <1> USE DEF IInv
  <1>1. TypeOK'
    BY DEF TypeOK, Goto, Label
  <1>2. OrdersOK'
    BY DEF OrdersOK, Goto, Label
  <1>3. WaitOK'
    BY DEF TypeOK, WaitOK, AwaitsFill, Goto, Label
  <1>4. LockOK'
    BY ProcAssumption DEF TypeOK, LockOK, Locked, Goto
  <1>5. PastOK'
    BY DEF TypeOK, PastOK, PastBook, Goto, Label
  <1>6. FreshOK'
    BY DEF TypeOK, FreshOK, Goto, Label
  <1>7. BaseOK'
    BY DEF TypeOK, BaseOK, Working, Goto, Label
  <1> QED
    BY <1>1, <1>2, <1>3, <1>4, <1>5, <1>6, <1>7 DEF IInv

-----------------------------------------------------------------------------
\* What every change of the orders keeps: they stay well-formed, none is
\* forgotten and none changes its side, its symbol or its hour.
Sound ==
    /\ orders' \in Seq(Order)
    /\ Len(orders) <= Len(orders')
    /\ \A i \in DOMAIN orders : /\ orders'[i].side = orders[i].side
                                /\ orders'[i].symbol = orders[i].symbol
                                /\ orders'[i].hour = orders[i].hour
    /\ OrdersOK'
    /\ free' \in [Symbol -> Nat]
    /\ locked' \in [Symbol -> Nat]

\* Leaving the account alone is sound.
LEMMA UnchangedSound ==
  ASSUME IInv, UNCHANGED <<free, locked, orders>>
  PROVE  Sound
  BY DEF Sound, IInv, TypeOK, OrdersOK

\* What has been filled of an order, after a part more of it, is an order again.
LEMMA FilledType ==
  ASSUME NEW o \in Order, NEW f \in Nat
  PROVE  [o EXCEPT !.filled = f] \in Order
  BY DEF Order

\* An execution that does not exceed what is left of the order is sound.
LEMMA ExecuteSound ==
  ASSUME IInv, NEW i \in DOMAIN orders, NEW k \in Nat,
         k <= orders[i].qty - orders[i].filled, Execute(i, k)
  PROVE  Sound
  <1> DEFINE o == orders[i]
             n == [o EXCEPT !.filled = o.filled + k]
  <1>1. orders \in Seq(Order) /\ o \in Order
    BY DEF IInv, TypeOK
  <1>2. orders' = [orders EXCEPT ![i] = n]
    BY <1>1 DEF Execute, Order
  <1>a. /\ n.side = o.side /\ n.symbol = o.symbol /\ n.hour = o.hour
        /\ n.filled = o.filled + k /\ n.qty = o.qty
    BY <1>1 DEF Order
  <1>3. /\ n \in Order /\ n.filled <= n.qty
        /\ n.side = o.side /\ n.symbol = o.symbol /\ n.hour = o.hour
    <2>1. o.filled \in Nat /\ o.qty \in Nat
      BY <1>1 DEF Order
    <2>2. n \in Order
      <3>1. o.filled + k \in Nat
        BY <2>1
      <3>2. PICK f \in Nat : f = o.filled + k
        BY <3>1
      <3>3. n = [o EXCEPT !.filled = f]
        BY <3>2
      <3> QED
        BY <1>1, <3>3, FilledType, Zenon
    <2> QED
      BY <1>a, <2>1, <2>2
  <1>4. o.symbol \in Symbol
    BY <1>1 DEF Order
  <1>5. free' \in [Symbol -> Nat] /\ locked' \in [Symbol -> Nat]
    <2>1. free \in [Symbol -> Nat] /\ locked \in [Symbol -> Nat]
      BY DEF IInv, TypeOK
    <2>2. CASE o.side = "sell"
      BY <1>4, <2>1, <2>2 DEF Execute
    <2>3. CASE o.side # "sell"
      BY <1>4, <2>1, <2>3 DEF Execute
    <2> QED
      BY <2>2, <2>3
  <1> QED
    <2> HIDE DEF n
    <2> QED
      BY <1>1, <1>2, <1>3, <1>5 DEF Sound, IInv, OrdersOK

\* Withdrawing what is left of an order is sound.
LEMMA WithdrawSound ==
  ASSUME IInv, NEW i \in DOMAIN orders, Withdraw(i)
  PROVE  Sound
  <1> DEFINE o == orders[i]
             n == [o EXCEPT !.cancelled = TRUE]
  <1>1. orders \in Seq(Order) /\ o \in Order
    BY DEF IInv, TypeOK
  <1>2. orders' = [orders EXCEPT ![i] = n]
    BY <1>1 DEF Withdraw, Order
  <1>3. n \in Order /\ n.side = o.side /\ n.symbol = o.symbol
        /\ n.filled = o.filled /\ n.qty = o.qty /\ n.hour = o.hour
    BY <1>1 DEF Order
  <1>4. o.symbol \in Symbol /\ o.qty \in Nat /\ o.filled \in Nat /\ o.filled <= o.qty
    BY <1>1 DEF Order, IInv, OrdersOK
  <1>5. free' \in [Symbol -> Nat] /\ locked' \in [Symbol -> Nat]
    <2>1. free \in [Symbol -> Nat] /\ locked \in [Symbol -> Nat]
      BY DEF IInv, TypeOK
    <2>2. CASE o.side = "sell"
      BY <1>4, <2>1, <2>2 DEF Withdraw
    <2>3. CASE o.side # "sell"
      BY <1>4, <2>1, <2>3 DEF Withdraw
    <2> QED
      BY <2>2, <2>3
  <1> QED
    <2> HIDE DEF n
    <2> QED
      BY <1>1, <1>2, <1>3, <1>4, <1>5 DEF Sound, IInv, OrdersOK

\* Accepting an order is sound, and the order is the last one.
LEMMA AcceptSound ==
  ASSUME IInv, NEW side \in {"buy", "sell"}, NEW s \in Symbol, NEW q \in Nat, q > 0,
         NEW loss \in BOOLEAN, Accept(side, s, q, loss)
  PROVE  /\ Sound
         /\ Len(orders') = Len(orders) + 1
         /\ orders'[Len(orders')].side = side
  <1> DEFINE n == [side |-> side, symbol |-> s, qty |-> q, filled |-> 0,
                   cancelled |-> FALSE, loss |-> loss, hour |-> hour]
  <1>1. orders \in Seq(Order)
    BY DEF IInv, TypeOK
  <1>2. n \in Order /\ n.filled < n.qty /\ n.filled <= n.qty /\ n.side = side
    BY DEF Order, IInv, TypeOK
  <1>3. orders' = Append(orders, n)
    BY DEF Accept
  <1> HIDE DEF n
  <1>4. /\ orders' \in Seq(Order)
        /\ Len(orders') = Len(orders) + 1
        /\ \A j \in DOMAIN orders : orders'[j] = orders[j]
        /\ orders'[Len(orders')] = n
    BY <1>1, <1>2, <1>3
  <1>5. OrdersOK'
    BY <1>1, <1>2, <1>4 DEF IInv, OrdersOK
  <1>6. free' \in [Symbol -> Nat] /\ locked' \in [Symbol -> Nat]
    <2>1. free \in [Symbol -> Nat] /\ locked \in [Symbol -> Nat]
      BY DEF IInv, TypeOK
    <2>2. CASE side = "sell"
      <3>1. /\ q <= free[s]
            /\ free' = [free EXCEPT ![s] = free[s] - q]
            /\ locked' = [locked EXCEPT ![s] = locked[s] + q]
        BY <2>2 DEF Accept
      <3> QED
        BY <2>1, <3>1
    <2>3. CASE side # "sell"
      <3>1. free' = free /\ locked' = locked
        BY <2>3 DEF Accept
      <3> QED
        BY <2>1, <3>1
    <2> QED
      BY <2>2, <2>3
  <1> QED
    BY <1>1, <1>2, <1>4, <1>5, <1>6 DEF Sound

\* What a book says of the past stays so.
LEMMA LaterPast ==
  ASSUME NEW l \in Book, NEW n \in Nat, NEW m \in Nat, NEW h \in Nat, NEW k \in Nat,
         PastBook(l, n, h), n <= m, h <= k
  PROVE  PastBook(l, m, k)
  <1>1. \A s \in Symbol : l.open[s].id \in Nat /\ l.attempt[s] \in Int
    BY DEF Book, Position, Never
  <1> QED
    BY <1>1 DEF PastBook

\* The exchange acting on its own disturbs no process.
LEMMA AccountInv ==
  ASSUME IInv, Sound, faults' \in Nat,
         UNCHANGED <<disk, torn, lock, hour, pc, led, seen, todo, slots, mine>>
  PROVE  IInv'
  <1> USE DEF IInv
  <1>a. /\ DOMAIN orders = 1..Len(orders) /\ DOMAIN orders' = 1..Len(orders')
        /\ Len(orders) \in Nat /\ Len(orders') \in Nat /\ Len(orders) <= Len(orders')
    BY DEF TypeOK, Sound
  <1>1. TypeOK'
    BY DEF TypeOK, Sound
  <1>2. OrdersOK'
    BY DEF Sound
  <1>3. WaitOK'
    BY <1>a DEF TypeOK, WaitOK, AwaitsFill, Sound
  <1>4. LockOK'
    BY DEF LockOK
  <1>5. PastOK'
    BY <1>a, LaterPast DEF TypeOK, PastOK
  <1>6. FreshOK'
    BY DEF FreshOK
  <1>7. BaseOK'
    BY DEF BaseOK
  <1> QED
    BY <1>1, <1>2, <1>3, <1>4, <1>5, <1>6, <1>7 DEF IInv

-----------------------------------------------------------------------------
\* A step of process p inside its cycle: it holds the lock, leaves the file
\* alone and changes no other process.
Inside(p) ==
    /\ lock = p
    /\ UNCHANGED <<disk, torn, lock, hour>>
    /\ pc' \in [Proc -> Label] /\ led' \in [Proc -> Book]
    /\ seen' \in [Proc -> [Symbol -> Balance]] /\ todo' \in [Proc -> SUBSET Symbol]
    /\ slots' \in [Proc -> Nat] /\ mine' \in [Proc -> Nat] /\ faults' \in Nat
    /\ pc[p] # "writing" /\ pc'[p] # "writing"
    /\ \A q \in Proc \ {p} : /\ pc'[q] = pc[q] /\ led'[q] = led[q]
                             /\ slots'[q] = slots[q] /\ mine'[q] = mine[q]

\* What such a step owes: a book that continues the file, and a fresh order
\* for every wait.
Owes(p) ==
    /\ PastBook(led'[p], Len(orders'), hour)
    /\ "crash" \notin Faults /\ pc'[p] \in Working => Extends(disk, led'[p])
    /\ pc'[p] \in {"selling", "buying"} =>
          /\ mine'[p] \in DOMAIN orders'
          /\ orders'[mine'[p]].side = IF pc'[p] = "selling" THEN "sell" ELSE "buy"
    /\ pc'[p] = "buying" => /\ slots'[p] > 0
                            /\ \A s \in Symbol : disk.open[s].id < mine'[p]

\* Such a step, if it delivers, keeps the invariant.
LEMMA InsideInv ==
  ASSUME IInv, NEW p \in Proc, Inside(p), Sound, Owes(p)
  PROVE  IInv'
  <1> USE DEF IInv
  <1>a. /\ DOMAIN orders = 1..Len(orders) /\ DOMAIN orders' = 1..Len(orders')
        /\ Len(orders) \in Nat /\ Len(orders') \in Nat /\ Len(orders) <= Len(orders')
    BY DEF TypeOK, Sound
  <1>1. TypeOK'
    BY DEF TypeOK, Sound, Inside
  <1>2. OrdersOK'
    BY DEF Sound
  <1>3. WaitOK'
    <2> SUFFICES ASSUME NEW q \in Proc, AwaitsFill(q)'
                 PROVE  /\ mine'[q] \in DOMAIN orders'
                        /\ orders'[mine'[q]].side = IF pc'[q] = "selling" THEN "sell" ELSE "buy"
                        /\ pc'[q] = "buying" => slots'[q] > 0
      BY DEF WaitOK
    <2>1. CASE q = p
      BY <2>1 DEF Owes, AwaitsFill
    <2>2. CASE q # p
      <3>1. pc'[q] = pc[q] /\ slots'[q] = slots[q] /\ mine'[q] = mine[q]
        BY <2>2 DEF Inside
      <3>2. AwaitsFill(q)
        BY <3>1 DEF AwaitsFill
      <3>3. /\ mine[q] \in DOMAIN orders
            /\ orders[mine[q]].side = IF pc[q] = "selling" THEN "sell" ELSE "buy"
            /\ pc[q] = "buying" => slots[q] > 0
        BY <3>2 DEF WaitOK
      <3>4. mine[q] \in DOMAIN orders' /\ orders'[mine[q]].side = orders[mine[q]].side
        BY <1>a, <3>3 DEF Sound
      <3> QED
        BY <3>1, <3>3, <3>4
    <2> QED
      BY <2>1, <2>2
  <1>4. LockOK'
    BY DEF LockOK, Inside
  <1>5. PastOK'
    <2>1. PastBook(disk, Len(orders'), hour)
      BY <1>a, LaterPast DEF TypeOK, PastOK
    <2>2. ASSUME NEW q \in Proc
          PROVE  PastBook(led'[q], Len(orders'), hour)
      <3>1. CASE q = p
        BY <3>1 DEF Owes
      <3>2. CASE q # p
        <4>1. led'[q] = led[q] /\ led[q] \in Book
          BY <3>2 DEF Inside, TypeOK
        <4>2. PastBook(led[q], Len(orders'), hour)
          BY <1>a, <4>1, LaterPast DEF TypeOK, PastOK
        <4> QED
          BY <4>1, <4>2
      <3> QED
        BY <3>1, <3>2
    <2> QED
      BY <2>1, <2>2 DEF PastOK, Inside
  <1>6. FreshOK'
    BY DEF FreshOK, Owes, Inside
  <1>7. BaseOK'
    <2> SUFFICES ASSUME "crash" \notin Faults
                 PROVE  /\ torn' => \E q \in Proc : pc'[q] = "writing"
                        /\ \A q \in Proc : pc'[q] \in Working => Extends(disk', led'[q])
      BY DEF BaseOK
    <2>1. torn' => \E q \in Proc : pc'[q] = "writing"
      BY DEF BaseOK, Inside
    <2>2. \A q \in Proc : pc'[q] \in Working => Extends(disk, led'[q])
      BY DEF BaseOK, Inside, Owes
    <2> QED
      BY <2>1, <2>2 DEF Inside
  <1> QED
    BY <1>1, <1>2, <1>3, <1>4, <1>5, <1>6, <1>7 DEF IInv

\* What the invariant says of a process at work on its book.
LEMMA AtWork ==
  ASSUME IInv, NEW p \in Proc, pc[p] \in Locked
  PROVE  /\ lock = p
         /\ led[p] \in Book
         /\ PastBook(led[p], Len(orders), hour)
         /\ "crash" \notin Faults /\ pc[p] \in Working => Extends(disk, led[p])
  BY DEF IInv, TypeOK, LockOK, PastOK, BaseOK

-----------------------------------------------------------------------------
\* The operations on a book keep it about the past.
LEMMA PastOperations ==
  ASSUME NEW l \in Book, NEW n \in Nat, NEW h \in Nat, PastBook(l, n, h), NEW s \in Symbol
  PROVE  /\ \A loss \in BOOLEAN : PastBook(ClosePosition(l, s, loss, h), n, h)
         /\ \A stop \in Nat : PastBook(UpdatePosition(l, s, stop), n, h)
         /\ \A q \in Nat, i \in 0..n : PastBook(OpenPosition(l, s, q, h, i), n, h)
         /\ PastBook(RecordEntryAttempt(l, s, h), n, h)
  <1>1. /\ l.open \in [Symbol -> Position] /\ l.attempt \in [Symbol -> Nat \cup {Never}]
        /\ \A r \in Symbol : l.open[r].id <= n /\ l.attempt[r] <= h
    BY DEF Book, PastBook
  <1>2. ASSUME NEW loss \in BOOLEAN
        PROVE  PastBook(ClosePosition(l, s, loss, h), n, h)
    <2>1. /\ ClosePosition(l, s, loss, h).open = [l.open EXCEPT ![s] = NoPos]
          /\ ClosePosition(l, s, loss, h).attempt = l.attempt
      BY DEF ClosePosition, Book
    <2> QED
      BY <1>1, <2>1 DEF PastBook, NoPos
  <1>3. ASSUME NEW stop \in Nat
        PROVE  PastBook(UpdatePosition(l, s, stop), n, h)
    <2>1. /\ UpdatePosition(l, s, stop).open =
                [l.open EXCEPT ![s] = [l.open[s] EXCEPT !.stop = stop]]
          /\ UpdatePosition(l, s, stop).attempt = l.attempt
      BY DEF UpdatePosition, Book
    <2>2. [l.open[s] EXCEPT !.stop = stop].id = l.open[s].id
      BY <1>1 DEF Position
    <2> QED
      BY <1>1, <2>1, <2>2 DEF PastBook
  <1>4. ASSUME NEW q \in Nat, NEW i \in 0..n
        PROVE  PastBook(OpenPosition(l, s, q, h, i), n, h)
    <2>1. /\ OpenPosition(l, s, q, h, i).open =
                [l.open EXCEPT ![s] = [qty |-> q, stop |-> 0, hour |-> h, id |-> i]]
          /\ OpenPosition(l, s, q, h, i).attempt = l.attempt
      BY DEF OpenPosition, Book
    <2> QED
      BY <1>1, <2>1 DEF PastBook
  <1>5. PastBook(RecordEntryAttempt(l, s, h), n, h)
    <2>1. /\ RecordEntryAttempt(l, s, h).open = l.open
          /\ RecordEntryAttempt(l, s, h).attempt = [l.attempt EXCEPT ![s] = h]
      BY DEF RecordEntryAttempt, Book
    <2> QED
      BY <1>1, <2>1 DEF PastBook
  <1> QED
    BY <1>2, <1>3, <1>4, <1>5

\* reconcile keeps a book about the past: adopted positions have no order.
LEMMA PastReconcile ==
  ASSUME NEW l \in Book, NEW b \in [Symbol -> Balance], NEW n \in Nat, NEW h \in Nat,
         PastBook(l, n, h)
  PROVE  PastBook(Reconcile(l, b, h), n, h)
  <1>1. ASSUME NEW s \in Symbol
        PROVE  ReconciledPosition(l.open[s], b[s], h).id <= n
    <2>1. l.open[s] \in Position /\ b[s] \in Balance /\ l.open[s].id <= n
      BY DEF Book, PastBook
    <2>2. [l.open[s] EXCEPT !.qty = b[s].qty].id <= n
      BY <2>1 DEF Position
    <2> QED
      BY <2>1, <2>2 DEF ReconciledPosition, NoPos, Adopted
  <1>2. Reconcile(l, b, h).attempt = l.attempt
    BY DEF Reconcile, Book
  <1>3. \A s \in Symbol : Reconcile(l, b, h).open[s] = ReconciledPosition(l.open[s], b[s], h)
    BY DEF Reconcile, Book
  <1> QED
    BY <1>1, <1>2, <1>3 DEF PastBook

-----------------------------------------------------------------------------
\* Sales, entries and reads, action by action.
LEMMA VisibleType ==
  ASSUME IInv, NEW dust, NEW unpriced
  PROVE  Visible(dust, unpriced) \in [Symbol -> Balance]
  <1>1. \A s \in Symbol : free[s] \in Nat /\ free[s] + locked[s] \in Nat
    BY DEF IInv, TypeOK
  <1> QED
    BY <1>1 DEF Visible, Balance

\* A step that moves only the label, the list and the balances of a process at
\* work leaves it owing nothing.
LEMMA LoopInv ==
  ASSUME IInv, NEW p \in Proc, pc[p] \in Locked \ {"writing"},
         UNCHANGED <<disk, torn, lock, hour, led, mine>>, Sound, faults' \in Nat,
         NEW l \in Locked \ {"selling", "buying", "writing"}, Goto(p, l),
         l \in Working => pc[p] \in Working,
         seen' \in [Proc -> [Symbol -> Balance]], todo' \in [Proc -> SUBSET Symbol],
         slots' \in [Proc -> Nat], \A q \in Proc \ {p} : slots'[q] = slots[q]
  PROVE  IInv'
  <1>1. pc' = [pc EXCEPT ![p] = l] /\ l \in Label /\ pc \in [Proc -> Label]
    BY DEF Goto, Locked, IInv, TypeOK
  <1>2. Inside(p)
    BY <1>1, AtWork DEF Inside, IInv, TypeOK
  <1>3. PastBook(led'[p], Len(orders'), hour)
    BY AtWork, LaterPast DEF IInv, TypeOK, Sound
  <1>4. Owes(p)
    BY <1>1, <1>3, AtWork DEF Owes
  <1> QED
    BY <1>2, <1>4, InsideInv

\* Balances that were just read keep the invariant (get_positions).
LEMMA ReadInv ==
  ASSUME IInv, NEW p \in Proc, TraderRead(p) \/ WatcherRead(p)
  PROVE  IInv'
  <1>1. seen' \in [Proc -> [Symbol -> Balance]]
    <2>1. CASE TraderRead(p)
      BY <2>1, VisibleType DEF TraderRead, IInv, TypeOK
    <2>2. CASE WatcherRead(p)
      BY <2>2, VisibleType DEF WatcherRead, IInv, TypeOK
    <2> QED
      BY <2>1, <2>2
  <1>2. CASE TraderRead(p)
    <2>1. pc[p] = "begin" /\ Goto(p, "load") /\ Sound
      BY <1>2, UnchangedSound DEF TraderRead, exchange
    <2> QED
      BY <1>1, <1>2, <2>1, LoopInv DEF TraderRead, file, Locked, Label, Working, IInv, TypeOK
  <1>3. CASE WatcherRead(p)
    <2>1. pc[p] = "read" /\ Goto(p, "exits") /\ Sound
      BY <1>3, UnchangedSound DEF WatcherRead, exchange
    <2> QED
      BY <1>1, <1>3, <2>1, LoopInv DEF WatcherRead, file, Locked, Label, Working, IInv, TypeOK
  <1> QED
    BY <1>2, <1>3

\* Leaving a symbol out of the list keeps the list a set of symbols.
LEMMA SkipType ==
  ASSUME IInv, NEW p, NEW s, Skip(p, s)
  PROVE  todo' \in [Proc -> SUBSET Symbol]
  BY DEF Skip, IInv, TypeOK

\* What may be sold of a position is a quantity (_sellable_qty).
LEMMA SellableType ==
  ASSUME IInv, NEW p \in Proc, NEW s \in Symbol
  PROVE  SellableQty(p, s) \in Nat
  <1>1. led[p].open[s] \in Position /\ seen[p][s] \in Balance
    BY DEF IInv, TypeOK, Book
  <1> QED
    BY <1>1 DEF SellableQty, Position, Balance

\* An order sent to the exchange, whoever sent it, is sound.
LEMMA SendSound ==
  ASSUME IInv, NEW p \in Proc, NEW s \in Symbol
  PROVE  /\ SellableQty(p, s) > 0 /\ (\E loss \in BOOLEAN : Accept("sell", s, SellableQty(p, s), loss))
               => Sound /\ Len(orders') = Len(orders) + 1 /\ orders'[Len(orders')].side = "sell"
         /\ Accept("buy", s, Lot, FALSE)
               => Sound /\ Len(orders') = Len(orders) + 1 /\ orders'[Len(orders')].side = "buy"
  <1>1. ASSUME SellableQty(p, s) > 0, NEW loss \in BOOLEAN, Accept("sell", s, SellableQty(p, s), loss)
        PROVE  Sound /\ Len(orders') = Len(orders) + 1 /\ orders'[Len(orders')].side = "sell"
    <2>1. PICK q \in Nat : q = SellableQty(p, s)
      BY SellableType
    <2>2. q > 0 /\ Accept("sell", s, q, loss)
      BY <1>1, <2>1
    <2> QED
      BY <2>2, AcceptSound
  <1>2. ASSUME Accept("buy", s, Lot, FALSE)
        PROVE  Sound /\ Len(orders') = Len(orders) + 1 /\ orders'[Len(orders')].side = "buy"
    <2>1. Lot \in Nat /\ Lot > 0
      BY SizeAssumption
    <2> QED
      BY <1>2, <2>1, AcceptSound
  <1> QED
    BY <1>1, <1>2

\* A refused order, or one whose answer is lost, leaves the book alone.
LEMMA RefusedInv ==
  ASSUME IInv, NEW p \in Proc, NEW s \in Symbol,
         SellRefused(p, s) \/ SellReplyLost(p, s) \/ EntrySkipped(p, s) \/ BuyReplyLost(p, s)
  PROVE  IInv'
  <1>1. /\ pc[p] \in {"exits", "entries"} /\ Skip(p, s)
        /\ UNCHANGED <<disk, torn, lock, hour, pc, led, seen, slots, mine>>
        /\ faults' \in Nat
        /\ Sound
    <2>a. faults \in Nat
      BY DEF IInv, TypeOK
    <2>1. CASE SellRefused(p, s)
      BY <2>1, <2>a, UnchangedSound DEF SellRefused, Leaving, file, exchange
    <2>2. CASE EntrySkipped(p, s)
      BY <2>2, <2>a, UnchangedSound DEF EntrySkipped, Entering, file, exchange
    <2>3. CASE SellReplyLost(p, s)
      <3>1. Sound
        BY <2>3, SendSound DEF SellReplyLost
      <3> QED
        BY <2>3, <2>a, <3>1 DEF SellReplyLost, Leaving, Fault, file
    <2>4. CASE BuyReplyLost(p, s)
      <3>1. Sound
        BY <2>4, SendSound DEF BuyReplyLost
      <3> QED
        BY <2>4, <2>a, <3>1 DEF BuyReplyLost, Entering, Fault, file
    <2> QED
      BY <2>1, <2>2, <2>3, <2>4
  <1>2. PICK l \in {"exits", "entries"} : l = pc[p]
    BY <1>1
  <1>3. Goto(p, l)
    BY <1>1, <1>2 DEF Goto, IInv, TypeOK
  <1>4. /\ todo' \in [Proc -> SUBSET Symbol]
        /\ seen' \in [Proc -> [Symbol -> Balance]] /\ slots' \in [Proc -> Nat]
    BY <1>1, SkipType DEF IInv, TypeOK
  <1>5. l \in Locked \ {"selling", "buying", "writing"}
    BY <1>2 DEF Locked, Label
  <1>6. l \in Working => pc[p] \in Working
    BY <1>2
  <1> QED
    BY <1>1, <1>2, <1>3, <1>4, <1>5, <1>6, LoopInv

\* A process that rewrites its book, with or without a new order, and goes on
\* with its work: what InsideInv needs beyond types.
LEMMA BookInv ==
  ASSUME IInv, NEW p \in Proc, pc[p] \in Locked \ {"writing"},
         UNCHANGED <<disk, torn, lock, hour, seen>>, Sound, faults' \in Nat,
         NEW l \in Locked \ {"writing"}, Goto(p, l),
         NEW b \in Book, led' = [led EXCEPT ![p] = b],
         PastBook(b, Len(orders'), hour),
         "crash" \notin Faults => Extends(disk, b),
         NEW m \in Nat, mine' = [mine EXCEPT ![p] = m],
         NEW n \in Nat, slots' = [slots EXCEPT ![p] = n],
         todo' \in [Proc -> SUBSET Symbol],
         l \in {"selling", "buying"} =>
            /\ m \in DOMAIN orders'
            /\ orders'[m].side = IF l = "selling" THEN "sell" ELSE "buy",
         l = "buying" => n > 0 /\ \A s \in Symbol : disk.open[s].id < m
  PROVE  IInv'
  <1>1. /\ pc' = [pc EXCEPT ![p] = l] /\ l \in Label /\ pc \in [Proc -> Label]
        /\ led \in [Proc -> Book] /\ mine \in [Proc -> Nat] /\ slots \in [Proc -> Nat]
        /\ seen \in [Proc -> [Symbol -> Balance]]
    BY DEF Goto, Locked, IInv, TypeOK
  <1>2. /\ pc'[p] = l /\ led'[p] = b /\ mine'[p] = m /\ slots'[p] = n
    BY <1>1
  <1>3. Inside(p)
    BY <1>1, <1>2, AtWork DEF Inside
  <1>4. Owes(p)
    BY <1>2 DEF Owes
  <1> QED
    BY <1>3, <1>4, InsideInv

\* What a process at work reads from the file without crashes is the file.
LEMMA LoadFacts ==
  ASSUME IInv, NEW p \in Proc, pc[p] \in Locked \ {"writing"}
  PROVE  /\ Load \in Book
         /\ PastBook(Load, Len(orders), hour)
         /\ "crash" \notin Faults => Load = disk
  <1>1. Load \in Book
    BY EmptyType DEF Load, IInv, TypeOK
  <1>2. PastBook(Load, Len(orders), hour)
    <2>1. PastBook(Empty, Len(orders), hour)
      BY DEF PastBook, Empty, NoPos, Never, IInv, TypeOK
    <2> QED
      BY <2>1 DEF Load, IInv, PastOK
  <1>3. "crash" \notin Faults => ~torn
    BY DEF IInv, BaseOK, LockOK, Locked, Label
  <1> QED
    BY <1>1, <1>2, <1>3 DEF Load

\* The trader's load and reconcile keep the invariant: the reconciled book
\* continues the one on disk.
LEMMA TraderLoadInv ==
  ASSUME IInv, NEW p \in Proc, TraderLoad(p)
  PROVE  IInv'
  <1>1. /\ pc[p] \in Locked \ {"writing"}
        /\ UNCHANGED <<disk, torn, lock, hour, seen, mine, slots, free, locked, orders, faults>>
        /\ Goto(p, "exits") /\ "exits" \in Locked \ {"writing"}
    BY DEF TraderLoad, file, exchange, Locked, Label
  <1>2. Sound
    BY <1>1, UnchangedSound
  <1>a. /\ led \in [Proc -> Book] /\ seen[p] \in [Symbol -> Balance] /\ hour \in Nat
        /\ mine \in [Proc -> Nat] /\ slots \in [Proc -> Nat] /\ faults \in Nat
        /\ Len(orders) \in Nat /\ todo \in [Proc -> SUBSET Symbol]
    BY DEF IInv, TypeOK
  <1>3. PICK b : b = Reconcile(Load, seen[p], hour)
    OBVIOUS
  <1>4. led' = [led EXCEPT ![p] = b]
    BY <1>3 DEF TraderLoad
  <1>5. b \in Book /\ PastBook(b, Len(orders'), hour)
    BY <1>1, <1>3, <1>a, LoadFacts, ReconcileType, PastReconcile
  <1>6. "crash" \notin Faults => Extends(disk, b)
    BY <1>1, <1>3, <1>a, LoadFacts, ExtendsReconcile, ExtendsItself DEF IInv, TypeOK
  <1>7. PICK m \in Nat, n \in Nat : m = mine[p] /\ n = slots[p]
    BY <1>a
  <1>8. mine' = [mine EXCEPT ![p] = m] /\ slots' = [slots EXCEPT ![p] = n] /\ faults' \in Nat
    BY <1>1, <1>7, <1>a
  <1>9. todo' \in [Proc -> SUBSET Symbol]
    BY <1>a DEF TraderLoad, OpenSymbols
  <1>10. PICK l \in Locked \ {"writing"} : l = "exits"
    BY <1>1
  <1>11. l \notin {"selling", "buying"} /\ l # "buying" /\ Goto(p, l)
    BY <1>1, <1>10
  <1> QED
    BY <1>1, <1>2, <1>4, <1>5, <1>6, <1>8, <1>9, <1>11, BookInv

\* The watcher's second load, under the lock, keeps the invariant.
LEMMA WatcherLoadInv ==
  ASSUME IInv, NEW p \in Proc, WatcherLoad(p)
  PROVE  IInv'
  <1>1. /\ pc[p] \in Locked \ {"writing"}
        /\ UNCHANGED <<disk, torn, lock, hour, seen, mine, slots, free, locked, orders, faults>>
        /\ Goto(p, "read") /\ "read" \in Locked \ {"writing"}
    BY DEF WatcherLoad, file, exchange, Locked, Label
  <1>2. Sound
    BY <1>1, UnchangedSound
  <1>a. /\ led \in [Proc -> Book] /\ hour \in Nat /\ disk \in Book
        /\ mine \in [Proc -> Nat] /\ slots \in [Proc -> Nat] /\ faults \in Nat
        /\ todo \in [Proc -> SUBSET Symbol]
    BY DEF IInv, TypeOK
  <1>3. PICK b : b = Load
    OBVIOUS
  <1>4. led' = [led EXCEPT ![p] = b]
    BY <1>3 DEF WatcherLoad
  <1>5. b \in Book /\ PastBook(b, Len(orders'), hour)
    BY <1>1, <1>3, LoadFacts
  <1>6. "crash" \notin Faults => Extends(disk, b)
    BY <1>1, <1>3, <1>a, LoadFacts, ExtendsItself
  <1>7. PICK m \in Nat, n \in Nat : m = mine[p] /\ n = slots[p]
    BY <1>a
  <1>8. mine' = [mine EXCEPT ![p] = m] /\ slots' = [slots EXCEPT ![p] = n] /\ faults' \in Nat
    BY <1>1, <1>7, <1>a
  <1>9. todo' \in [Proc -> SUBSET Symbol]
    BY <1>a DEF WatcherLoad, OpenSymbols
  <1>10. PICK l \in Locked \ {"writing"} : l = "read"
    BY <1>1
  <1>11. l \notin {"selling", "buying"} /\ l # "buying" /\ Goto(p, l)
    BY <1>1, <1>10
  <1> QED
    BY <1>1, <1>2, <1>4, <1>5, <1>6, <1>8, <1>9, <1>11, BookInv

\* The steps of the exit loop that rewrite the book without an order.
LEMMA ExitLoopInv ==
  ASSUME IInv, NEW p \in Proc, NEW s \in Symbol, DropUnsellable(p, s) \/ TraderHold(p, s)
  PROVE  IInv'
  <1>1. /\ pc[p] = "exits" /\ pc[p] \in Locked \ {"writing"} /\ pc[p] \in Working
        /\ UNCHANGED <<disk, torn, lock, hour, pc, seen, mine, slots, free, locked, orders, faults>>
        /\ Skip(p, s)
    BY DEF DropUnsellable, TraderHold, Leaving, file, exchange, Locked, Label, Working
  <1>2. Sound
    BY <1>1, UnchangedSound
  <1>a. /\ led \in [Proc -> Book] /\ hour \in Nat /\ led[p] \in Book /\ disk \in Book
        /\ mine \in [Proc -> Nat] /\ slots \in [Proc -> Nat] /\ faults \in Nat
        /\ Len(orders) \in Nat /\ PastBook(led[p], Len(orders), hour)
        /\ pc \in [Proc -> Label]
        /\ "crash" \notin Faults => Extends(disk, led[p])
    BY <1>1, AtWork DEF IInv, TypeOK
  <1>3. \E b \in Book : /\ led' = [led EXCEPT ![p] = b]
                        /\ PastBook(b, Len(orders), hour)
                        /\ "crash" \notin Faults => Extends(disk, b)
    <2>1. CASE DropUnsellable(p, s)
      <3>1. PICK loss \in BOOLEAN : led' = [led EXCEPT ![p] = ClosePosition(led[p], s, loss, hour)]
        BY <2>1 DEF DropUnsellable
      <3>2. ClosePosition(led[p], s, loss, hour) \in Book
        BY <1>a, CloseType
      <3>3. PastBook(ClosePosition(led[p], s, loss, hour), Len(orders), hour)
        BY <1>a, PastOperations
      <3>4. "crash" \notin Faults => Extends(disk, ClosePosition(led[p], s, loss, hour))
        BY <1>a, ExtendsClose
      <3> QED
        BY <3>1, <3>2, <3>3, <3>4
    <2>2. CASE TraderHold(p, s)
      <3>a. led[p].open[s].stop \in Nat
        BY <1>a DEF Book, Position
      <3>1. PICK stop \in led[p].open[s].stop..(led[p].open[s].stop + 1) :
               led' = [led EXCEPT ![p] = UpdatePosition(led[p], s, stop)]
        BY <2>2 DEF TraderHold
      <3>b. stop \in Nat /\ led[p].open[s].stop <= stop
        BY <3>a, <3>1
      <3>2. UpdatePosition(led[p], s, stop) \in Book
        BY <1>a, <3>b, UpdateType
      <3>3. PastBook(UpdatePosition(led[p], s, stop), Len(orders), hour)
        BY <1>a, <3>b, PastOperations
      <3>4. "crash" \notin Faults => Extends(disk, UpdatePosition(led[p], s, stop))
        BY <1>a, <3>b, ExtendsUpdate
      <3> QED
        BY <3>1, <3>2, <3>3, <3>4
    <2> QED
      BY <2>1, <2>2
  <1>4. PICK b \in Book : /\ led' = [led EXCEPT ![p] = b]
                          /\ PastBook(b, Len(orders'), hour)
                          /\ "crash" \notin Faults => Extends(disk, b)
    BY <1>1, <1>3
  <1>7. PICK m \in Nat, n \in Nat : m = mine[p] /\ n = slots[p]
    BY <1>a
  <1>8. mine' = [mine EXCEPT ![p] = m] /\ slots' = [slots EXCEPT ![p] = n] /\ faults' \in Nat
    BY <1>1, <1>7, <1>a
  <1>9. todo' \in [Proc -> SUBSET Symbol]
    BY <1>1, SkipType
  <1>10. PICK l \in Locked \ {"writing"} : l = "exits"
    BY <1>1
  <1>11. l \notin {"selling", "buying"} /\ l # "buying" /\ Goto(p, l)
    BY <1>1, <1>a, <1>10 DEF Goto
  <1> QED
    BY <1>1, <1>2, <1>4, <1>8, <1>9, <1>11, BookInv

\* A process that waits for the order it has just placed.
LEMMA SellAcceptedInv ==
  ASSUME IInv, NEW p \in Proc, NEW s \in Symbol, SellAccepted(p, s)
  PROVE  IInv'
  <1>1. /\ pc[p] = "exits" /\ pc[p] \in Locked \ {"writing"} /\ pc[p] \in Working
        /\ UNCHANGED <<disk, torn, lock, hour, seen, led, slots, todo, faults>>
        /\ Goto(p, "selling")
        /\ mine' = [mine EXCEPT ![p] = Len(orders')]
    BY DEF SellAccepted, Leaving, file, Locked, Label, Working
  <1>2. Sound /\ Len(orders') = Len(orders) + 1 /\ orders'[Len(orders')].side = "sell"
    BY SendSound DEF SellAccepted
  <1>a. /\ led \in [Proc -> Book] /\ slots \in [Proc -> Nat] /\ faults \in Nat
        /\ todo \in [Proc -> SUBSET Symbol] /\ hour \in Nat
        /\ Len(orders) \in Nat /\ led[p] \in Book /\ PastBook(led[p], Len(orders), hour)
        /\ "crash" \notin Faults => Extends(disk, led[p])
    BY <1>1, AtWork DEF IInv, TypeOK
  <1>3. PICK b \in Book : b = led[p]
    BY <1>a
  <1>4. led' = [led EXCEPT ![p] = b] /\ ("crash" \notin Faults => Extends(disk, b))
    BY <1>1, <1>3, <1>a
  <1>5. PastBook(b, Len(orders'), hour)
    BY <1>2, <1>3, <1>a, LaterPast
  <1>6. PICK m \in Nat, n \in Nat : m = Len(orders') /\ n = slots[p]
    BY <1>2, <1>a
  <1>7. mine' = [mine EXCEPT ![p] = m] /\ slots' = [slots EXCEPT ![p] = n] /\ faults' \in Nat
    BY <1>1, <1>6, <1>a
  <1>8. PICK l \in Locked \ {"writing"} : l = "selling"
    BY DEF Locked, Label
  <1>9. /\ m \in DOMAIN orders' /\ orders'[m].side = "sell" /\ l # "buying"
        /\ Goto(p, l) /\ todo' \in [Proc -> SUBSET Symbol]
    BY <1>1, <1>2, <1>6, <1>8, <1>a DEF Sound
  <1>10. /\ l \in {"selling", "buying"} =>
               /\ m \in DOMAIN orders'
               /\ orders'[m].side = IF l = "selling" THEN "sell" ELSE "buy"
         /\ l = "buying" => n > 0 /\ \A r \in Symbol : disk.open[r].id < m
    BY <1>8, <1>9
  <1> QED
    <2>1. pc[p] \in Locked \ {"writing"}
      BY <1>1
    <2>2. UNCHANGED <<disk, torn, lock, hour, seen>> /\ Sound /\ faults' \in Nat
      BY <1>1, <1>2, <1>7
    <2>3. Goto(p, l) /\ led' = [led EXCEPT ![p] = b] /\ PastBook(b, Len(orders'), hour)
      BY <1>4, <1>5, <1>9
    <2>4. "crash" \notin Faults => Extends(disk, b)
      BY <1>4
    <2>5. mine' = [mine EXCEPT ![p] = m] /\ slots' = [slots EXCEPT ![p] = n] /\ todo' \in [Proc -> SUBSET Symbol]
      BY <1>7, <1>9
    <2> QED
      BY <2>1, <2>2, <2>3, <2>4, <2>5, <1>10, BookInv

\* An accepted buy keeps the invariant: its order is newer than any on disk.
LEMMA BuyAcceptedInv ==
  ASSUME IInv, NEW p \in Proc, NEW s \in Symbol, BuyAccepted(p, s)
  PROVE  IInv'
  <1>1. /\ pc[p] = "entries" /\ pc[p] \in Locked \ {"writing"} /\ pc[p] \in Working
        /\ UNCHANGED <<disk, torn, lock, hour, seen, slots, todo, faults>>
        /\ Goto(p, "buying") /\ slots[p] > 0
        /\ led' = [led EXCEPT ![p] = RecordEntryAttempt(led[p], s, hour)]
        /\ mine' = [mine EXCEPT ![p] = Len(orders')]
    BY DEF BuyAccepted, Entering, file, Locked, Label, Working
  <1>2. Sound /\ Len(orders') = Len(orders) + 1 /\ orders'[Len(orders')].side = "buy"
    BY SendSound DEF BuyAccepted
  <1>a. /\ led \in [Proc -> Book] /\ slots \in [Proc -> Nat] /\ faults \in Nat
        /\ todo \in [Proc -> SUBSET Symbol] /\ hour \in Nat /\ disk \in Book
        /\ Len(orders) \in Nat /\ led[p] \in Book /\ PastBook(led[p], Len(orders), hour)
        /\ "crash" \notin Faults => Extends(disk, led[p])
        /\ PastBook(disk, Len(orders), hour)
    BY <1>1, AtWork DEF IInv, TypeOK, PastOK
  <1>3. PICK b : b = RecordEntryAttempt(led[p], s, hour)
    OBVIOUS
  <1>4. b \in Book
    BY <1>3, <1>a, AttemptType
  <1>5. PastBook(b, Len(orders), hour)
    BY <1>3, <1>a, PastOperations
  <1>b. PastBook(b, Len(orders'), hour)
    BY <1>2, <1>4, <1>5, <1>a, LaterPast
  <1>c. "crash" \notin Faults => Extends(disk, b)
    <2>1. disk.attempt[s] <= hour
      BY <1>a DEF PastBook
    <2> QED
      BY <2>1, <1>3, <1>a, ExtendsAttempt
  <1>6. PICK m \in Nat, n \in Nat : m = Len(orders') /\ n = slots[p]
    BY <1>2, <1>a
  <1>7. /\ mine' = [mine EXCEPT ![p] = m] /\ slots' = [slots EXCEPT ![p] = n] /\ faults' \in Nat
        /\ led' = [led EXCEPT ![p] = b]
    BY <1>1, <1>3, <1>6, <1>a
  <1>8. PICK l \in Locked \ {"writing"} : l = "buying"
    BY DEF Locked, Label
  <1>9. /\ m \in DOMAIN orders' /\ orders'[m].side = "buy" /\ l # "selling"
        /\ Goto(p, l) /\ todo' \in [Proc -> SUBSET Symbol] /\ n > 0
    BY <1>1, <1>2, <1>6, <1>8, <1>a DEF Sound
  <1>10. \A r \in Symbol : disk.open[r].id < m
    <2>1. \A r \in Symbol : disk.open[r].id \in Nat /\ disk.open[r].id <= Len(orders)
      BY <1>a DEF PastBook, Book, Position
    <2> QED
      BY <2>1, <1>2, <1>6, <1>a
  <1>11. /\ l \in {"selling", "buying"} =>
               /\ m \in DOMAIN orders'
               /\ orders'[m].side = IF l = "selling" THEN "sell" ELSE "buy"
         /\ l = "buying" => n > 0 /\ \A r \in Symbol : disk.open[r].id < m
    BY <1>8, <1>9, <1>10
  <1> QED
    <2>1. pc[p] \in Locked \ {"writing"}
      BY <1>1
    <2>2. UNCHANGED <<disk, torn, lock, hour, seen>> /\ Sound /\ faults' \in Nat
      BY <1>1, <1>2, <1>7
    <2>3. b \in Book /\ led' = [led EXCEPT ![p] = b] /\ PastBook(b, Len(orders'), hour)
      BY <1>4, <1>7, <1>b
    <2>4. Goto(p, l) /\ mine' = [mine EXCEPT ![p] = m] /\ slots' = [slots EXCEPT ![p] = n]
      BY <1>7, <1>9
    <2>5. todo' \in [Proc -> SUBSET Symbol]
      BY <1>9
    <2> QED
      BY <2>1, <2>2, <2>3, <2>4, <2>5, <1>c, <1>11, BookInv

-----------------------------------------------------------------------------
\* What a process that waits for a fill waits for.
LEMMA AwaitFacts ==
  ASSUME IInv, NEW p \in Proc, AwaitsFill(p)
  PROVE  /\ pc[p] \in Locked \ {"writing"} /\ pc[p] \in Working
         /\ mine[p] \in DOMAIN orders /\ mine[p] \in 1..Len(orders)
         /\ orders[mine[p]] \in Order
         /\ orders[mine[p]].side = "buy" => pc[p] = "buying" /\ slots[p] > 0
  BY DEF IInv, TypeOK, WaitOK, AwaitsFill, Locked, Label, Working

\* A process that stops waiting, with whatever book, as long as it is sound.
LEMMA ResumeInv ==
  ASSUME IInv, NEW p \in Proc, AwaitsFill(p), Resume(p),
         UNCHANGED <<disk, torn, lock, hour, seen>>, Sound, faults' \in Nat,
         NEW b \in Book, led' = [led EXCEPT ![p] = b],
         PastBook(b, Len(orders), hour),
         "crash" \notin Faults => Extends(disk, b),
         NEW n \in Nat, slots' = [slots EXCEPT ![p] = n]
  PROVE  IInv'
  <1>1. pc[p] \in Locked \ {"writing"}
    BY AwaitFacts
  <1>2. PICK l \in {"exits", "entries"} : Goto(p, l)
    <2>1. CASE pc[p] = "selling"
      BY <2>1 DEF Resume
    <2>2. CASE pc[p] # "selling"
      BY <2>2 DEF Resume
    <2> QED
      BY <2>1, <2>2
  <1>3. /\ l \in Locked \ {"writing"}
        /\ l \notin {"selling", "buying"} /\ l # "buying"
    BY <1>2 DEF Locked, Label
  <1>4. todo' \in [Proc -> SUBSET Symbol]
    BY DEF Resume, Skip, IInv, TypeOK
  <1>5. PastBook(b, Len(orders'), hour)
    <2>1. /\ Len(orders) \in Nat /\ Len(orders') \in Nat /\ Len(orders) <= Len(orders')
          /\ hour \in Nat
      BY DEF Sound, IInv, TypeOK
    <2> QED
      BY <2>1, LaterPast
  <1>6. PICK m \in Nat : m = 0
    OBVIOUS
  <1>7. mine' = [mine EXCEPT ![p] = m]
    BY <1>6 DEF Resume
  <1>8. /\ l \in {"selling", "buying"} =>
               /\ m \in DOMAIN orders'
               /\ orders'[m].side = IF l = "selling" THEN "sell" ELSE "buy"
        /\ l = "buying" => n > 0 /\ \A s \in Symbol : disk.open[s].id < m
    BY <1>3
  <1> QED
    <2>1. l \in Locked \ {"writing"} /\ Goto(p, l)
      BY <1>2, <1>3
    <2> QED
      BY <1>1, <1>4, <1>5, <1>7, <1>8, <2>1, BookInv

\* The book that settles an order continues the file as well.
LEMMA SettleBook ==
  ASSUME IInv, NEW p \in Proc, AwaitsFill(p), Settle(p)
  PROVE  \E b \in Book, n \in Nat :
            /\ led' = [led EXCEPT ![p] = b]
            /\ slots' = [slots EXCEPT ![p] = n]
            /\ PastBook(b, Len(orders), hour)
            /\ "crash" \notin Faults => Extends(disk, b)
  <1> DEFINE o == orders[mine[p]]
  <1>1. /\ led \in [Proc -> Book] /\ slots \in [Proc -> Nat] /\ hour \in Nat
        /\ Len(orders) \in Nat /\ led[p] \in Book /\ disk \in Book
        /\ PastBook(led[p], Len(orders), hour)
        /\ "crash" \notin Faults => Extends(disk, led[p])
    BY AwaitFacts, AtWork DEF IInv, TypeOK
  <1>2. /\ mine[p] \in 1..Len(orders) /\ o \in Order
        /\ o.side = "buy" => pc[p] = "buying" /\ slots[p] > 0
    BY AwaitFacts
  <1>3. /\ o.symbol \in Symbol /\ o.filled \in Nat /\ o.loss \in BOOLEAN
        /\ o.side \in {"buy", "sell"}
    BY <1>2 DEF Order
  <1>4. CASE o.filled = 0
    <2>1. led' = [led EXCEPT ![p] = led[p]] /\ slots' = [slots EXCEPT ![p] = slots[p]]
      BY <1>1, <1>4 DEF Settle
    <2> QED
      BY <1>1, <2>1
  <1>5. CASE o.filled > 0 /\ o.side = "sell"
    <2>1. /\ led' = [led EXCEPT ![p] = ClosePosition(led[p], o.symbol, o.loss, hour)]
          /\ slots' = [slots EXCEPT ![p] = slots[p]]
      BY <1>1, <1>5 DEF Settle
    <2>2. ClosePosition(led[p], o.symbol, o.loss, hour) \in Book
      BY <1>1, <1>3, CloseType
    <2>3. PastBook(ClosePosition(led[p], o.symbol, o.loss, hour), Len(orders), hour)
      BY <1>1, <1>3, PastOperations
    <2>4. "crash" \notin Faults => Extends(disk, ClosePosition(led[p], o.symbol, o.loss, hour))
      BY <1>1, <1>3, ExtendsClose
    <2> QED
      BY <1>1, <2>1, <2>2, <2>3, <2>4
  <1>6. CASE o.filled > 0 /\ o.side = "buy"
    <2>1. /\ led' = [led EXCEPT ![p] =
                        OpenPosition(led[p], o.symbol, o.filled, hour, mine[p])]
          /\ slots' = [slots EXCEPT ![p] = slots[p] - 1]
      <3>1. o.filled # 0 /\ o.side # "sell"
        BY <1>3, <1>6
      <3>2. o.filled > 0 /\ o.side = "buy"
        BY <1>6
      <3>3. /\ led' = [led EXCEPT ![p] =
                          OpenPosition(@, o.symbol, o.filled, hour, mine[p])]
            /\ slots' = [slots EXCEPT ![p] = @ - 1]
        BY <3>1 DEF Settle
      <3> QED
        BY <3>3
    <2>2. OpenPosition(led[p], o.symbol, o.filled, hour, mine[p]) \in Book
      <3>1. mine[p] \in Nat
        BY <1>1, <1>2
      <3> QED
        BY <1>1, <1>3, <3>1, OpenType
    <2>3. PastBook(OpenPosition(led[p], o.symbol, o.filled, hour, mine[p]), Len(orders), hour)
      <3>1. mine[p] \in 0..Len(orders)
        BY <1>1, <1>2
      <3> QED
        BY <1>1, <1>3, <3>1, PastOperations
    <2>4. "crash" \notin Faults =>
             Extends(disk, OpenPosition(led[p], o.symbol, o.filled, hour, mine[p]))
      <3>1. mine[p] \in Nat /\ disk.open[o.symbol].id # mine[p]
        <4>1. disk.open[o.symbol].id < mine[p]
          BY <1>2, <1>3, <1>6 DEF IInv, FreshOK
        <4>2. disk.open[o.symbol].id \in Nat
          BY <1>1, <1>3 DEF Book, Position
        <4> QED
          BY <1>2, <4>1, <4>2
      <3> QED
        BY <1>1, <1>3, <3>1, ExtendsOpen
    <2>5. slots[p] - 1 \in Nat
      BY <1>1, <1>2, <1>6
    <2> QED
      BY <2>1, <2>2, <2>3, <2>4, <2>5
  <1>7. o.filled = 0 \/ o.filled > 0
    BY <1>3
  <1> QED
    BY <1>3, <1>4, <1>5, <1>6, <1>7

\* Every answer to a wait keeps the invariant.
LEMMA FillInv ==
  ASSUME IInv, NEW p \in Proc,
         FillAnswered(p) \/ FillTimedOut(p) \/ FillCancelLost(p) \/ FillPollFailed(p)
  PROVE  IInv'
  <1>a. faults \in Nat /\ led \in [Proc -> Book] /\ slots \in [Proc -> Nat]
    BY DEF IInv, TypeOK
  <1>1. /\ AwaitsFill(p) /\ Resume(p) /\ UNCHANGED <<disk, torn, lock, hour, seen>>
        /\ faults' \in Nat /\ Sound
    <2>1. CASE FillAnswered(p)
      BY <1>a, <2>1, UnchangedSound DEF FillAnswered, Settle, file, exchange
    <2>2. CASE FillTimedOut(p)
      <3>1. PICK i \in DOMAIN orders : i = mine[p]
        BY <2>2, AwaitFacts DEF FillTimedOut
      <3>2. Withdraw(i)
        BY <2>2, <3>1 DEF FillTimedOut
      <3>3. Sound
        BY <3>2, WithdrawSound
      <3> QED
        BY <1>a, <2>2, <3>3 DEF FillTimedOut, Settle, file
    <2>3. CASE FillCancelLost(p)
      BY <1>a, <2>3, UnchangedSound DEF FillCancelLost, Settle, Fault, file, exchange
    <2>4. CASE FillPollFailed(p)
      BY <1>a, <2>4, UnchangedSound DEF FillPollFailed, Fault, file, exchange
    <2> QED
      BY <2>1, <2>2, <2>3, <2>4
  <1>2. \E b \in Book, n \in Nat :
           /\ led' = [led EXCEPT ![p] = b]
           /\ slots' = [slots EXCEPT ![p] = n]
           /\ PastBook(b, Len(orders), hour)
           /\ "crash" \notin Faults => Extends(disk, b)
    <2>1. CASE Settle(p)
      BY <1>1, <2>1, SettleBook
    <2>2. CASE FillPollFailed(p)
      <3>1. led' = [led EXCEPT ![p] = led[p]] /\ slots' = [slots EXCEPT ![p] = slots[p]]
        BY <1>a, <2>2 DEF FillPollFailed
      <3> QED
        BY <1>1, <1>a, <3>1, AwaitFacts, AtWork
    <2> QED
      BY <2>1, <2>2 DEF FillAnswered, FillTimedOut, FillCancelLost
  <1> QED
    BY <1>1, <1>2, ResumeInv

\* The entry loop begins: the book is not touched.
LEMMA EntriesInv ==
  ASSUME IInv, NEW p \in Proc, TraderEntries(p)
  PROVE  IInv'
  <1>1. /\ pc[p] = "exits" /\ pc[p] \in Locked \ {"writing"} /\ pc[p] \in Working
        /\ UNCHANGED <<disk, torn, lock, hour, led, seen, mine, free, locked, orders, faults>>
        /\ Goto(p, "entries")
    BY DEF TraderEntries, file, exchange, Locked, Label, Working
  <1>2. Sound
    BY <1>1, UnchangedSound
  <1>3. /\ seen' \in [Proc -> [Symbol -> Balance]] /\ faults' \in Nat
        /\ todo \in [Proc -> SUBSET Symbol] /\ slots \in [Proc -> Nat]
    BY <1>1 DEF IInv, TypeOK
  <1>4. todo' \in [Proc -> SUBSET Symbol]
    BY <1>3 DEF TraderEntries
  <1>5. slots' \in [Proc -> Nat] /\ \A q \in Proc \ {p} : slots'[q] = slots[q]
    <2>1. PICK cap \in 1..MaxPositions :
             /\ cap > Cardinality(OpenSymbols(led[p]))
             /\ slots' = [slots EXCEPT ![p] = cap - Cardinality(OpenSymbols(led[p]))]
      BY DEF TraderEntries
    <2>2. Cardinality(OpenSymbols(led[p])) \in Nat
      <3>1. IsFiniteSet(OpenSymbols(led[p]))
        BY SymbolAssumption, FS_Subset DEF OpenSymbols
      <3> QED
        BY <3>1, FS_CardinalityType
    <2>3. cap - Cardinality(OpenSymbols(led[p])) \in Nat
      BY <2>1, <2>2, SizeAssumption
    <2> QED
      BY <1>3, <2>1, <2>3
  <1>6. PICK l \in Locked \ {"selling", "buying", "writing"} : l = "entries"
    BY DEF Locked, Label
  <1>7. Goto(p, l)
    BY <1>1, <1>6
  <1> QED
    BY <1>1, <1>2, <1>3, <1>4, <1>5, <1>7, LoopInv

-----------------------------------------------------------------------------
\* The end of a cycle: the loops are over, the book is written, and the
\* process ends.
LEMMA LoopDoneInv ==
  ASSUME IInv, NEW p \in Proc,
         TraderNoEntries(p) \/ TraderEntriesDone(p) \/ WatcherExitsDone(p) \/ SaveTruncate(p)
  PROVE  IInv'
  <1>1. CASE SaveTruncate(p)
    <2>1. /\ pc[p] = "save" /\ Goto(p, "writing")
          /\ torn' = TRUE
          /\ UNCHANGED <<disk, lock, hour, led, seen, todo, slots, mine, free, locked, orders, faults>>
      BY <1>1 DEF SaveTruncate, local, exchange
    <2>2. PICK l \in Label : l = "writing"
      BY DEF Label
    <2>3. /\ l \notin {"selling", "buying"} /\ pc[p] # "writing" /\ lock = p
          /\ pc[p] \in Working /\ Goto(p, l)
      BY <2>1, <2>2, AtWork DEF Locked, Label, Working
    <2>4. torn' = (torn \/ l = "writing")
      BY <2>1, <2>2
    <2> QED
      BY <2>1, <2>3, <2>4, MoveInv
  <1>2. CASE TraderNoEntries(p) \/ TraderEntriesDone(p) \/ WatcherExitsDone(p)
    <2>1. /\ pc[p] \in {"exits", "entries"} /\ Goto(p, "save")
          /\ UNCHANGED <<disk, torn, lock, hour, led, seen, todo, slots, mine, free, locked, orders, faults>>
      BY <1>2 DEF TraderNoEntries, TraderEntriesDone, WatcherExitsDone, file, local, exchange
    <2>2. PICK l \in Label : l = "save"
      BY DEF Label
    <2>3. /\ l \notin {"selling", "buying"} /\ pc[p] # "writing" /\ lock = p
          /\ pc[p] \in Working /\ Goto(p, l)
      BY <2>1, <2>2, AtWork DEF Locked, Label, Working
    <2>4. torn' = (torn \/ l = "writing")
      BY <2>1, <2>2 DEF IInv, TypeOK
    <2> QED
      BY <2>1, <2>3, <2>4, MoveInv
  <1> QED
    BY <1>1, <1>2

\* Waiting for the lock, and giving up on it.
LEMMA QueueInv ==
  ASSUME IInv, NEW p \in Proc,
         TraderStart(p) \/ TraderGiveUp(p) \/ WatcherStart(p) \/ WatcherSkip(p)
  PROVE  IInv'
  <1>1. /\ pc[p] \in {"idle", "waiting"}
        /\ Goto(p, "waiting") \/ Goto(p, "idle")
        /\ UNCHANGED <<disk, torn, lock, hour, led, seen, todo, slots, mine, free, locked, orders, faults>>
    BY DEF TraderStart, TraderGiveUp, WatcherStart, WatcherSkip, file, local, exchange
  <1>2. PICK l \in Label : l \in {"idle", "waiting"} /\ Goto(p, l)
    BY <1>1 DEF Label
  <1>3. l \notin {"selling", "buying"} /\ pc[p] # "writing" /\ l \notin Locked /\ l \notin Working
    BY <1>1, <1>2 DEF Locked, Working
  <1>4. torn' = (torn \/ l = "writing")
    BY <1>1, <1>2 DEF IInv, TypeOK
  <1> QED
    BY <1>1, <1>2, <1>3, <1>4, MoveInv

\* Taking a free lock keeps the invariant (lock.held).
LEMMA LockInv ==
  ASSUME IInv, NEW p \in Proc, TraderAcquire(p) \/ WatcherAcquire(p)
  PROVE  IInv'
  <1>1. /\ pc[p] = "waiting" /\ lock = NoProc /\ lock' = p
        /\ Goto(p, "begin") \/ Goto(p, "load")
        /\ UNCHANGED <<disk, torn, hour, led, seen, todo, slots, mine, free, locked, orders, faults>>
    BY DEF TraderAcquire, WatcherAcquire, file, local, exchange
  <1>2. PICK l \in {"begin", "load"} : Goto(p, l)
    BY <1>1
  <1> QED
    BY <1>1, <1>2, AcquireInv

\* The write replaces the file by the book of its writer.
LEMMA SaveWriteInv ==
  ASSUME IInv, NEW p \in Proc, SaveWrite(p)
  PROVE  IInv'
  <1> USE DEF IInv
  <1>1. /\ pc[p] = "writing" /\ pc' = [pc EXCEPT ![p] = "report"]
        /\ disk' = led[p] /\ torn' = FALSE
        /\ UNCHANGED <<lock, hour, led, seen, todo, slots, mine, free, locked, orders, faults>>
    BY DEF SaveWrite, Goto, local, exchange
  <1>2. lock = p /\ pc[p] \in Locked
    BY <1>1, AtWork DEF Locked, Label
  <1>3. \A q \in Proc \ {p} : pc[q] \notin Locked /\ pc'[q] = pc[q]
    BY <1>1, <1>2 DEF LockOK, TypeOK
  <1>4. pc'[p] = "report" /\ pc' \in [Proc -> Label]
    BY <1>1 DEF TypeOK, Label
  <1>5. \A q \in Proc : pc'[q] \notin Working /\ pc'[q] \notin {"selling", "buying", "writing"}
    BY <1>3, <1>4 DEF Working, Locked, Label, TypeOK
  <1>6. TypeOK'
    BY <1>1, <1>4 DEF TypeOK
  <1>7. OrdersOK'
    BY <1>1 DEF OrdersOK
  <1>8. WaitOK'
    BY <1>5 DEF WaitOK, AwaitsFill
  <1>9. LockOK'
    BY <1>1, <1>2, <1>3 DEF LockOK
  <1>10. PastOK'
    BY <1>1 DEF PastOK
  <1>11. FreshOK'
    BY <1>5 DEF FreshOK
  <1>12. BaseOK'
    BY <1>1, <1>5 DEF BaseOK
  <1> QED
    BY <1>6, <1>7, <1>8, <1>9, <1>10, <1>11, <1>12 DEF IInv

\* However a process ends.
LEMMA EndsInv ==
  ASSUME IInv, NEW p \in Proc,
         TraderSkip(p) \/ WatcherLeave(p) \/ Finish(p) \/ Crash(p)
  PROVE  IInv'
  <1>a. faults \in Nat
    BY DEF IInv, TypeOK
  <1>1. CASE Crash(p)
    BY <1>1, <1>a, EndInv DEF Crash, Fault, file, exchange
  <1>2. CASE TraderSkip(p) \/ WatcherLeave(p) \/ Finish(p)
    <2>1. /\ End(p) /\ pc[p] # "idle" /\ pc[p] # "writing"
          /\ UNCHANGED <<disk, torn, hour, free, locked, orders>> /\ faults' \in Nat
      BY <1>2, <1>a DEF TraderSkip, WatcherLeave, Finish, file, exchange
    <2> QED
      BY <2>1, EndInv
  <1> QED
    BY <1>1, <1>2

\* The exchange fills, partly fills or withdraws an order; the owner trades.
LEMMA ExchangeInv ==
  ASSUME IInv, ExchangeStep
  PROVE  IInv'
  <1>a. faults \in Nat
    BY DEF IInv, TypeOK
  <1>1. ASSUME NEW i \in DOMAIN orders, Fill(i)
        PROVE  IInv'
    <2>a. orders[i] \in Order /\ orders[i].filled <= orders[i].qty
      BY DEF IInv, TypeOK, OrdersOK
    <2>1. orders[i].qty - orders[i].filled \in Nat
      BY <2>a DEF Order
    <2>2. PICK k \in Nat : k = orders[i].qty - orders[i].filled
      BY <2>1
    <2>3. Execute(i, k) /\ k <= orders[i].qty - orders[i].filled
      BY <1>1, <2>2 DEF Fill
    <2>4. Sound
      BY <2>3, ExecuteSound
    <2> QED
      BY <1>1, <1>a, <2>4, AccountInv DEF Fill, file, local
  <1>2. ASSUME NEW i \in DOMAIN orders, PartialFill(i)
        PROVE  IInv'
    <2>a. orders[i] \in Order
      BY DEF IInv, TypeOK
    <2>1. orders[i].qty \in Nat /\ orders[i].filled \in Nat
      BY <2>a DEF Order
    <2>2. PICK k \in 1..(orders[i].qty - orders[i].filled - 1) : Execute(i, k)
      BY <1>2 DEF PartialFill
    <2>3. k \in Nat /\ k <= orders[i].qty - orders[i].filled
      BY <2>1, <2>2
    <2>4. Sound
      BY <2>2, <2>3, ExecuteSound
    <2> QED
      BY <1>2, <1>a, <2>4, AccountInv DEF PartialFill, Fault, file, local
  <1>3. ASSUME NEW i \in DOMAIN orders, Reject(i)
        PROVE  IInv'
    BY <1>3, <1>a, WithdrawSound, AccountInv DEF Reject, file, local
  <1>4. ASSUME NEW s \in Symbol, OwnerTrades(s)
        PROVE  IInv'
    <2>1. free' \in [Symbol -> Nat]
      <3>1. free \in [Symbol -> Nat] /\ free[s] + Lot \in Nat
        BY SizeAssumption DEF IInv, TypeOK
      <3>2. free' = [free EXCEPT ![s] = 0] \/ free' = [free EXCEPT ![s] = free[s] + Lot]
        BY <1>4 DEF OwnerTrades
      <3> QED
        BY <3>1, <3>2
    <2>2. Sound
      BY <1>4, <2>1 DEF OwnerTrades, Sound, IInv, TypeOK, OrdersOK
    <2> QED
      BY <1>4, <1>a, <2>2, AccountInv DEF OwnerTrades, Fault, file, local
  <1> QED
    BY <1>1, <1>2, <1>3, <1>4 DEF ExchangeStep

\* The hour turns.
LEMMA TickInv ==
  ASSUME IInv, Tick
  PROVE  IInv'
  <1> USE DEF IInv
  <1>1. /\ hour' = hour + 1 /\ hour \in Nat /\ hour' \in Nat
        /\ UNCHANGED <<disk, torn, lock, pc, led, seen, todo, slots, mine, free, locked, orders, faults>>
    BY DEF Tick, TypeOK, file, local, exchange
  <1>2. TypeOK'
    BY <1>1 DEF TypeOK
  <1>3. OrdersOK' /\ WaitOK' /\ LockOK' /\ FreshOK' /\ BaseOK'
    BY <1>1 DEF OrdersOK, WaitOK, AwaitsFill, LockOK, FreshOK, BaseOK
  <1>4. PastOK'
    BY <1>1, LaterPast DEF PastOK, TypeOK
  <1> QED
    BY <1>2, <1>3, <1>4 DEF IInv

-----------------------------------------------------------------------------
\* Every step keeps the inductive invariant.
LEMMA StepInv ==
  ASSUME IInv, [Next]_vars
  PROVE  IInv'
  <1>1. CASE UNCHANGED vars
    BY <1>1 DEF vars, IInv, TypeOK, OrdersOK, WaitOK, AwaitsFill, LockOK, PastOK, FreshOK, BaseOK
  <1>2. ASSUME NEW t \in Trader, TraderStep(t) \/ TraderGiveUp(t)
        PROVE  IInv'
    <2>1. t \in Proc
      BY DEF Proc
    <2>2. CASE \E s \in Symbol : \/ TraderHold(t, s) \/ EntrySkipped(t, s)
                                 \/ BuyAccepted(t, s) \/ BuyReplyLost(t, s)
      BY <2>1, <2>2, ExitLoopInv, RefusedInv, BuyAcceptedInv
    <2>3. CASE TraderStart(t) \/ TraderAcquire(t) \/ TraderGiveUp(t) \/ TraderSkip(t)
               \/ TraderRead(t) \/ TraderLoad(t) \/ TraderNoEntries(t) \/ TraderEntriesDone(t)
      BY <2>1, <2>3, QueueInv, LockInv, EndsInv, ReadInv, TraderLoadInv, LoopDoneInv
    <2>4. CASE TraderEntries(t)
      BY <2>1, <2>4, EntriesInv
    <2> QED
      BY <1>2, <2>2, <2>3, <2>4 DEF TraderStep
  <1>3. ASSUME NEW w \in Watcher, WatcherStep(w)
        PROVE  IInv'
    <2>1. w \in Proc
      BY DEF Proc
    <2> QED
      BY <1>3, <2>1, QueueInv, LockInv, WatcherLoadInv, EndsInv, ReadInv, LoopDoneInv
         DEF WatcherStep
  <1>4. ASSUME NEW p \in Proc, CommonStep(p) \/ Crash(p)
        PROVE  IInv'
    <2>1. CASE \E s \in Symbol : \/ DropUnsellable(p, s) \/ SellRefused(p, s)
                                 \/ SellAccepted(p, s) \/ SellReplyLost(p, s)
      BY <2>1, ExitLoopInv, RefusedInv, SellAcceptedInv
    <2>2. CASE FillAnswered(p) \/ FillTimedOut(p) \/ FillCancelLost(p) \/ FillPollFailed(p)
      BY <2>2, FillInv
    <2>3. CASE SaveTruncate(p) \/ SaveWrite(p) \/ Finish(p) \/ Crash(p)
      BY <2>3, LoopDoneInv, SaveWriteInv, EndsInv
    <2> QED
      BY <1>4, <2>1, <2>2, <2>3 DEF CommonStep
  <1> QED
    BY <1>1, <1>2, <1>3, <1>4, ExchangeInv, TickInv DEF Next

\* Types, locks and books stay as IInv has them in every reachable state.
THEOREM Invariance == Spec => []IInv
  BY InitInv, StepInv, PTL DEF Spec

\* Every variable keeps its type, and a waiting process waits for an order that
\* exists (trader._exit_position, trader._enter_position).
THEOREM TypeCorrect == Spec => []TypeOK
  <1>1. IInv => TypeOK
    BY DEF IInv
  <1> QED
    BY <1>1, Invariance, PTL

\* lock.held lets one process at a time place orders, whoever crashes and
\* whatever the exchange answers.
THEOREM Exclusion == Spec => []OneOrderer
  <1>1. IInv => OneOrderer
    BY DEF IInv, LockOK, OneOrderer
  <1> QED
    BY <1>1, Invariance, PTL

\* The file changes only in a write, and when nobody dies the book written
\* continues the one it replaces.
LEMMA DiskStep ==
  ASSUME IInv, [Next]_vars, "crash" \notin Faults
  PROVE  UNCHANGED disk \/ (disk' \in Book /\ Extends(disk, disk'))
  <1>1. CASE \E p \in Proc : SaveWrite(p)
    <2>1. PICK p \in Proc : SaveWrite(p)
      BY <1>1
    <2>2. disk' = led[p] /\ pc[p] \in Locked /\ pc[p] \in Working
      BY <2>1 DEF SaveWrite, Locked, Label, Working
    <2> QED
      BY <2>2, AtWork
  <1>2. CASE UNCHANGED vars
    BY <1>2 DEF vars
  <1>3. ASSUME NEW t \in Trader, TraderStep(t) \/ TraderGiveUp(t)
        PROVE  UNCHANGED disk
    BY <1>3 DEF TraderStep, TraderStart, TraderAcquire, TraderGiveUp, TraderSkip, TraderRead,
       TraderLoad, TraderNoEntries, TraderEntries, TraderEntriesDone, TraderHold, EntrySkipped,
       BuyAccepted, BuyReplyLost, file
  <1>4. ASSUME NEW w \in Watcher, WatcherStep(w)
        PROVE  UNCHANGED disk
    BY <1>4 DEF WatcherStep, WatcherStart, WatcherAcquire, WatcherSkip, WatcherLoad,
       WatcherLeave, WatcherRead, WatcherExitsDone, file
  <1>5. ASSUME NEW p \in Proc, CommonStep(p) \/ Crash(p), ~SaveWrite(p)
        PROVE  UNCHANGED disk
    BY <1>5 DEF CommonStep, DropUnsellable, SellRefused, SellAccepted, SellReplyLost,
       FillAnswered, FillTimedOut, FillCancelLost, FillPollFailed, SaveTruncate, Finish, Crash,
       file
  <1>6. CASE ExchangeStep
    BY <1>6 DEF ExchangeStep, Fill, PartialFill, Reject, OwnerTrades, file
  <1>7. CASE Tick
    BY <1>7 DEF Tick, file
  <1> QED
    BY <1>1, <1>2, <1>3, <1>4, <1>5, <1>6, <1>7 DEF Next

\* As long as no process dies, the file of the two programs is a journal: no
\* save, of either, discards or changes what an earlier one wrote.
THEOREM Continuation ==
  ASSUME "crash" \notin Faults
  PROVE  Spec => SavesExtend
  <1>1. Init => J!JInit
    BY DEF Init, J!JInit, J!Empty, J!NoPos, J!Never, Empty, NoPos, Never
  <1>2. J!Book = Book
    BY DEF J!Book, J!Position, J!Trade, J!Never, Book, Position, Trade, Never
  <1>3. \A b, c : J!Extends(b, c) <=> Extends(b, c)
    BY DEF J!Extends, J!KeepsTrades, J!KeepsAttempts, J!KeepsLevels, J!SamePosition,
       Extends, KeepsTrades, KeepsAttempts, KeepsLevels, SamePosition
  <1>4. IInv /\ [Next]_vars => [J!JNext]_disk
    BY <1>2, <1>3, DiskStep DEF J!JNext
  <1> QED
    BY <1>1, <1>4, Invariance, PTL DEF Spec, SavesExtend, J!JSpec

-----------------------------------------------------------------------------
(***************************************************************************)
(* The book in force: what the file says or, while it is rewritten, what   *)
(* its writer has in memory.  Nobody dies, so it changes only where the    *)
(* code means it to.                                                       *)
(***************************************************************************)

\* The steps of a process that change no book: before it has the lock or as it
\* takes it, as it ends, and within its cycle.
Queues(p) ==
    \/ p \in Trader /\ (TraderStart(p) \/ TraderGiveUp(p) \/ TraderAcquire(p))
    \/ p \in Watcher /\ (WatcherStart(p) \/ WatcherSkip(p) \/ WatcherAcquire(p))

Ends(p) == TraderSkip(p) \/ WatcherLeave(p) \/ Finish(p)

Moves(p) ==
    \/ p \in Trader /\ (\/ TraderRead(p) \/ TraderNoEntries(p) \/ TraderEntries(p)
                        \/ TraderEntriesDone(p) \/ \E s \in Symbol : EntrySkipped(p, s))
    \/ p \in Watcher /\ (WatcherLoad(p) \/ WatcherRead(p) \/ WatcherExitsDone(p))
    \/ SaveTruncate(p) \/ SaveWrite(p)
    \/ \E s \in Symbol : SellRefused(p, s)

\* Those that may change it.
Changes(p) ==
    \/ p \in Trader /\ TraderLoad(p)
    \/ p \in Trader /\ \E s \in Symbol : TraderHold(p, s) \/ BuyAccepted(p, s) \/ BuyReplyLost(p, s)
    \/ \E s \in Symbol : DropUnsellable(p, s) \/ SellAccepted(p, s) \/ SellReplyLost(p, s)
    \/ FillAnswered(p) \/ FillTimedOut(p) \/ FillCancelLost(p) \/ FillPollFailed(p)

\* Every step, as long as nobody dies.
LEMMA NextCases ==
  ASSUME "crash" \notin Faults, [Next]_vars
  PROVE  \/ \E p \in Proc : Queues(p) \/ Ends(p) \/ Moves(p) \/ Changes(p)
         \/ ExchangeStep \/ Tick \/ UNCHANGED vars
  <1>1. ASSUME NEW t \in Trader, TraderStep(t) \/ TraderGiveUp(t)
        PROVE  Queues(t) \/ Ends(t) \/ Moves(t) \/ Changes(t)
    BY <1>1, Zenon DEF TraderStep, Queues, Ends, Moves, Changes
  <1>2. ASSUME NEW w \in Watcher, WatcherStep(w)
        PROVE  Queues(w) \/ Ends(w) \/ Moves(w)
    BY <1>2, Zenon DEF WatcherStep, Queues, Ends, Moves
  <1>3. ASSUME NEW p \in Proc, CommonStep(p)
        PROVE  Ends(p) \/ Moves(p) \/ Changes(p)
    BY <1>3, Zenon DEF CommonStep, Ends, Moves, Changes
  <1>4. ASSUME NEW p \in Proc, Crash(p)
        PROVE  FALSE
    BY <1>4 DEF Crash, Fault
  <1> QED
    BY <1>1, <1>2, <1>3, <1>4 DEF Next, Proc

\* Whose book is in force while process p has the lock.
LEMMA CurrentOf ==
  ASSUME IInv, NEW p \in Proc, pc[p] \in Locked
  PROVE  /\ lock = p
         /\ Current = IF pc[p] \in Rewriting THEN led[p] ELSE disk
         /\ \A q \in Proc : pc[q] \in Locked => q = p
  BY DEF IInv, LockOK, Current

\* The book in force is well-formed, and nobody's when nobody rewrites it.
LEMMA CurrentBook ==
  ASSUME IInv
  PROVE  /\ Current \in Book
         /\ (\A p \in Proc : pc[p] \notin Rewriting) => Current = disk
         /\ \A p \in Proc : pc[p] \in Rewriting => Current = led[p]
  <1>1. Current \in Book
    BY DEF Current, IInv, TypeOK
  <1>2. \A p \in Proc : pc[p] \in Rewriting => pc[p] \in Locked
    BY DEF Rewriting, Working, Locked, Label
  <1>3. (\A p \in Proc : pc[p] \notin Rewriting) => Current = disk
    BY DEF Current
  <1>4. \A p \in Proc : pc[p] \in Rewriting => Current = led[p]
    BY <1>2, CurrentOf
  <1> QED
    BY <1>1, <1>3, <1>4

\* A process that moves on without the lock, or takes it, changes no book.
LEMMA QueueCurrent ==
  ASSUME IInv, NEW p \in Proc, Queues(p)
  PROVE  /\ Current' = Current
         /\ UNCHANGED <<disk, torn, hour, led, seen, todo, slots, mine, free, locked, orders>>
         /\ pc[p] \in {"idle", "waiting"}
         /\ \E l \in {"idle", "waiting", "begin", "load"} :
               pc' = [pc EXCEPT ![p] = l] /\ (l = "load" => p \notin Trader)
  <1>1. /\ pc[p] \in {"idle", "waiting"}
        /\ UNCHANGED <<disk, torn, hour, led, seen, todo, slots, mine, free, locked, orders>>
        /\ \E l \in {"idle", "waiting", "begin", "load"} :
               pc' = [pc EXCEPT ![p] = l] /\ (l = "load" => p \notin Trader)
    BY ProcAssumption
       DEF Queues, TraderStart, TraderGiveUp, WatcherStart, WatcherSkip, TraderAcquire,
           WatcherAcquire, Goto, file, local, exchange
  <1>2. lock' = lock \/ (lock = NoProc /\ lock' = p)
    BY DEF Queues, TraderStart, TraderGiveUp, WatcherStart, WatcherSkip, TraderAcquire,
           WatcherAcquire
  <1>3. pc \in [Proc -> Label]
    BY DEF IInv, TypeOK
  <1>4. Current' = Current
    BY <1>1, <1>2, <1>3, ProcAssumption DEF Current, Rewriting, Working
  <1> QED
    BY <1>1, <1>4

\* A process that ends without having changed its book, or after the write.
LEMMA EndCurrent ==
  ASSUME IInv, NEW p \in Proc, Ends(p)
  PROVE  /\ Current' = Current
         /\ UNCHANGED <<disk, torn, hour, free, locked, orders>>
         /\ pc[p] \in {"begin", "load", "read", "report"}
         /\ End(p)
  <1>1. /\ UNCHANGED <<disk, torn, hour, free, locked, orders>>
        /\ pc[p] \in {"begin", "load", "read", "report"}
        /\ End(p)
    BY DEF Ends, TraderSkip, WatcherLeave, Finish, file, exchange
  <1>2. pc[p] \in Locked /\ pc[p] \notin Rewriting
    BY <1>1 DEF Locked, Label, Rewriting, Working
  <1>3. lock = p /\ Current = disk
    BY <1>2, CurrentOf
  <1>4. Current' = disk
    BY <1>1, <1>3, ProcAssumption DEF Current, End
  <1> QED
    BY <1>1, <1>3, <1>4

\* A process that has the lock and only moves on, or writes its book to the file,
\* does not change the book in force.
LEMMA MoveCurrent ==
  ASSUME IInv, IInv', ReadOK, NEW p \in Proc, Moves(p)
  PROVE  /\ Current' = Current
         /\ UNCHANGED <<lock, hour, mine, free, locked, orders>>
         /\ pc[p] \in Locked \ {"selling", "buying"}
         /\ pc'[p] \in Locked \ {"selling", "buying"}
         /\ \A q \in Proc \ {p} : pc'[q] = pc[q]
  <1>a. pc \in [Proc -> Label] /\ led \in [Proc -> Book]
    BY DEF IInv, TypeOK
  <1>1. CASE SaveWrite(p)
    <2>1. /\ UNCHANGED <<lock, hour, mine, free, locked, orders>>
          /\ pc[p] = "writing" /\ pc' = [pc EXCEPT ![p] = "report"] /\ disk' = led[p]
      BY <1>1 DEF SaveWrite, Goto, local, exchange
    <2>2. pc[p] \in Locked /\ pc'[p] \in Locked /\ pc'[p] = "report"
      BY <1>a, <2>1 DEF Locked, Label
    <2>3. Current = led[p] /\ Current' = disk'
      BY <2>1, <2>2, CurrentOf DEF Current, Rewriting, Working
    <2> QED
      BY <1>a, <2>1, <2>2, <2>3
  <1>2. CASE TraderRead(p) \/ WatcherLoad(p)
    <2>1. /\ UNCHANGED <<disk, lock, hour, mine, free, locked, orders>>
          /\ pc[p] \in {"begin", "load"}
          /\ \E l \in {"load", "read"} : pc' = [pc EXCEPT ![p] = l]
      BY <1>2 DEF TraderRead, WatcherLoad, Goto, file, exchange
    <2>2. /\ pc[p] \in Locked \ {"selling", "buying"} /\ pc[p] \notin Rewriting
          /\ pc'[p] \in Locked \ {"selling", "buying"} /\ pc'[p] \notin Rewriting
      BY <1>a, <2>1 DEF Locked, Label, Rewriting, Working
    <2>3. Current = disk /\ Current' = disk'
      BY <2>1, <2>2, CurrentOf DEF Current
    <2> QED
      BY <1>a, <2>1, <2>2, <2>3
  <1>3. CASE WatcherRead(p)
    <2>1. /\ UNCHANGED <<disk, lock, hour, led, mine, free, locked, orders>>
          /\ pc[p] = "read" /\ pc' = [pc EXCEPT ![p] = "exits"]
      BY <1>3 DEF WatcherRead, Goto, file, exchange
    <2>2. /\ pc[p] \in Locked \ {"selling", "buying"} /\ pc[p] \notin Rewriting
          /\ pc'[p] \in Locked \ {"selling", "buying"} /\ pc'[p] \in Rewriting
      BY <1>a, <2>1 DEF Locked, Label, Rewriting, Working
    <2>3. lock = p /\ Current = disk /\ led[p] = disk
      BY <2>1, <2>2, CurrentOf DEF ReadOK
    <2>4. Current' = led[p]
      BY <2>1, <2>2, <2>3 DEF Current
    <2> QED
      BY <1>a, <2>1, <2>2, <2>3, <2>4
  <1>4. CASE \/ TraderNoEntries(p) \/ TraderEntries(p) \/ TraderEntriesDone(p)
             \/ WatcherExitsDone(p) \/ SaveTruncate(p)
             \/ \E s \in Symbol : SellRefused(p, s) \/ EntrySkipped(p, s)
    <2>1. /\ UNCHANGED <<disk, lock, hour, led, mine, free, locked, orders>>
          /\ pc[p] \in {"exits", "entries", "save"}
          /\ \E l \in {"exits", "entries", "save", "writing"} : pc' = [pc EXCEPT ![p] = l]
      <3>1. CASE \E s \in Symbol : SellRefused(p, s) \/ EntrySkipped(p, s)
        <4>1. /\ UNCHANGED <<disk, lock, hour, led, mine, free, locked, orders, pc>>
              /\ pc[p] \in {"exits", "entries"}
          BY <3>1 DEF SellRefused, EntrySkipped, Leaving, Entering, file, exchange
        <4>2. pc' = [pc EXCEPT ![p] = pc[p]]
          BY <1>a, <4>1
        <4> QED
          BY <4>1, <4>2
      <3>2. CASE \/ TraderNoEntries(p) \/ TraderEntries(p) \/ TraderEntriesDone(p)
                 \/ WatcherExitsDone(p) \/ SaveTruncate(p)
        BY <3>2 DEF TraderNoEntries, TraderEntries, TraderEntriesDone, WatcherExitsDone,
                    SaveTruncate, Goto, file, local, exchange
      <3> QED
        BY <1>4, <3>1, <3>2
    <2>2. /\ pc[p] \in Locked \ {"selling", "buying"} /\ pc[p] \in Rewriting
          /\ pc'[p] \in Locked \ {"selling", "buying"} /\ pc'[p] \in Rewriting
      BY <1>a, <2>1 DEF Locked, Label, Rewriting, Working
    <2>3. lock = p /\ Current = led[p]
      BY <2>2, CurrentOf
    <2>4. Current' = led[p]
      BY <2>1, <2>2, <2>3 DEF Current
    <2> QED
      BY <1>a, <2>1, <2>2, <2>3, <2>4
  <1> QED
    BY <1>1, <1>2, <1>3, <1>4 DEF Moves

\* A process that goes on rewriting its book: it is in force before and after.
LEMMA WorkCurrent ==
  ASSUME IInv, NEW p \in Proc, pc[p] \in Rewriting, pc'[p] \in Rewriting, lock' = lock
  PROVE  /\ Current = led[p] /\ Current' = led'[p]
         /\ pc[p] \in Locked /\ lock = p
         /\ \A q \in Proc : pc[q] \in Locked => q = p
  <1>1. pc[p] \in Locked
    BY DEF Rewriting, Working, Locked, Label
  <1> QED
    BY <1>1, CurrentOf DEF Current

\* The trader's load puts the reconciled book in force (trader._run).
LEMMA LoadCurrent ==
  ASSUME IInv, "crash" \notin Faults, NEW p \in Proc, TraderLoad(p)
  PROVE  /\ Current = disk
         /\ Current' = Reconcile(disk, seen[p], hour) /\ led'[p] = Current'
         /\ pc[p] = "load" /\ pc' = [pc EXCEPT ![p] = "exits"]
         /\ led' = [led EXCEPT ![p] = Current']
         /\ todo' = [todo EXCEPT ![p] = OpenSymbols(Current')]
         /\ UNCHANGED <<disk, lock, hour, seen, slots, mine, free, locked, orders>>
  <1>1. /\ pc[p] = "load" /\ pc' = [pc EXCEPT ![p] = "exits"]
        /\ led' = [led EXCEPT ![p] = Reconcile(Load, seen[p], hour)]
        /\ todo' = [todo EXCEPT ![p] = OpenSymbols(led'[p])]
        /\ UNCHANGED <<disk, lock, hour, seen, slots, mine, free, locked, orders>>
    BY DEF TraderLoad, Goto, file, exchange
  <1>2. pc \in [Proc -> Label] /\ led \in [Proc -> Book]
    BY DEF IInv, TypeOK
  <1>3. /\ pc[p] \in Locked \ {"writing"} /\ pc[p] \notin Rewriting
        /\ pc'[p] = "exits" /\ pc'[p] \in Rewriting
    BY <1>1, <1>2 DEF Locked, Label, Rewriting, Working
  <1>4. Load = disk /\ lock = p /\ Current = disk
    BY <1>3, LoadFacts, CurrentOf
  <1>5. Current' = led'[p]
    BY <1>1, <1>3, <1>4 DEF Current
  <1> QED
    BY <1>1, <1>2, <1>4, <1>5

\* What the file holds is what a watcher that has just read it has.
LEMMA ReadStep ==
  ASSUME IInv, ReadOK, "crash" \notin Faults, [Next]_vars
  PROVE  ReadOK'
  <1>a. pc \in [Proc -> Label] /\ led \in [Proc -> Book]
    BY DEF IInv, TypeOK
  <1>1. ASSUME NEW p \in Proc, NEW l \in Label \ {"read"}, pc' = [pc EXCEPT ![p] = l],
               UNCHANGED disk, \A q \in Proc \ {p} : led'[q] = led[q]
        PROVE  ReadOK'
    BY <1>a, <1>1 DEF ReadOK
  <1>2. ASSUME UNCHANGED <<pc, disk>>, \A q \in Proc : pc[q] = "read" => led'[q] = led[q]
        PROVE  ReadOK'
    BY <1>2 DEF ReadOK
  <1>3. ASSUME NEW p \in Proc, WatcherLoad(p)
        PROVE  ReadOK'
    <2>1. /\ pc[p] = "load" /\ pc' = [pc EXCEPT ![p] = "read"]
          /\ led' = [led EXCEPT ![p] = Load] /\ UNCHANGED disk
      BY <1>3 DEF WatcherLoad, Goto, file
    <2>2. Load = disk
      BY <2>1, LoadFacts DEF Locked, Label
    <2> QED
      BY <1>a, <2>1, <2>2 DEF ReadOK
  <1>4. ASSUME NEW p \in Proc, SaveWrite(p)
        PROVE  ReadOK'
    <2>1. pc[p] = "writing" /\ pc' = [pc EXCEPT ![p] = "report"]
      BY <1>4 DEF SaveWrite, Goto
    <2>2. \A q \in Proc : pc[q] = "read" => q = p
      BY <2>1, CurrentOf DEF Locked, Label
    <2> QED
      BY <1>a, <2>1, <2>2 DEF ReadOK
  <1>5. ASSUME NEW p \in Proc, Queues(p) \/ Ends(p)
        PROVE  ReadOK'
    <2>1. CASE Queues(p)
      <3>1. PICK l \in {"idle", "waiting", "begin", "load"} : pc' = [pc EXCEPT ![p] = l]
        BY <2>1, QueueCurrent
      <3>2. l \in Label \ {"read"}
        BY DEF Label
      <3> QED
        BY <1>1, <2>1, <3>1, <3>2, QueueCurrent
    <2>2. CASE Ends(p)
      <3>1. End(p) /\ UNCHANGED disk
        BY <2>2, EndCurrent
      <3>2. pc' = [pc EXCEPT ![p] = "idle"] /\ "idle" \in Label \ {"read"}
            /\ \A q \in Proc \ {p} : led'[q] = led[q]
        BY <1>a, <3>1 DEF End, Goto, Label
      <3> QED
        BY <1>1, <3>1, <3>2
    <2> QED
      BY <1>5, <2>1, <2>2
  <1>6. ASSUME NEW p \in Proc, Moves(p)
        PROVE  ReadOK'
    <2>1. CASE TraderRead(p) \/ TraderNoEntries(p) \/ TraderEntries(p) \/ TraderEntriesDone(p)
               \/ WatcherRead(p) \/ WatcherExitsDone(p) \/ SaveTruncate(p)
      <3>1. /\ UNCHANGED <<disk, led>>
            /\ \E l \in {"load", "exits", "entries", "save", "writing"} : pc' = [pc EXCEPT ![p] = l]
        BY <2>1 DEF TraderRead, TraderNoEntries, TraderEntries, TraderEntriesDone, WatcherRead,
           WatcherExitsDone, SaveTruncate, Goto, file, local
      <3>2. {"load", "exits", "entries", "save", "writing"} \subseteq Label \ {"read"}
        BY DEF Label
      <3> QED
        BY <1>1, <3>1, <3>2
    <2>2. CASE \E s \in Symbol : SellRefused(p, s) \/ EntrySkipped(p, s)
      <3>1. UNCHANGED <<disk, led, pc>>
        BY <2>2 DEF SellRefused, EntrySkipped, file
      <3> QED
        BY <1>2, <3>1
    <2> QED
      BY <1>3, <1>4, <1>6, <2>1, <2>2 DEF Moves
  <1>7. ASSUME NEW p \in Proc, Changes(p)
        PROVE  ReadOK'
    <2>1. CASE TraderLoad(p)
      <3>1. /\ pc' = [pc EXCEPT ![p] = "exits"] /\ UNCHANGED disk /\ "exits" \in Label \ {"read"}
            /\ \A q \in Proc \ {p} : led'[q] = led[q]
        BY <1>a, <2>1 DEF TraderLoad, Goto, file, Label
      <3> QED
        BY <1>1, <3>1
    <2>2. CASE \E s \in Symbol : TraderHold(p, s) \/ BuyReplyLost(p, s)
                                  \/ DropUnsellable(p, s) \/ SellReplyLost(p, s)
      <3>1. /\ UNCHANGED <<disk, pc>> /\ pc[p] \in {"exits", "entries"}
            /\ \A q \in Proc \ {p} : led'[q] = led[q]
        BY <1>a, <2>2 DEF TraderHold, BuyReplyLost, DropUnsellable, SellReplyLost, Leaving,
           Entering, file
      <3> QED
        BY <1>2, <3>1
    <2>3. CASE \E s \in Symbol : SellAccepted(p, s) \/ BuyAccepted(p, s)
      <3>1. /\ UNCHANGED disk /\ \A q \in Proc \ {p} : led'[q] = led[q]
            /\ \E l \in {"selling", "buying"} : pc' = [pc EXCEPT ![p] = l]
        BY <1>a, <2>3 DEF SellAccepted, BuyAccepted, Goto, file
      <3>2. {"selling", "buying"} \subseteq Label \ {"read"}
        BY DEF Label
      <3> QED
        BY <1>1, <3>1, <3>2
    <2>4. CASE FillAnswered(p) \/ FillTimedOut(p) \/ FillCancelLost(p) \/ FillPollFailed(p)
      <3>1. UNCHANGED disk /\ Resume(p) /\ \A q \in Proc \ {p} : led'[q] = led[q]
        BY <1>a, <2>4 DEF FillAnswered, FillTimedOut, FillCancelLost, FillPollFailed, Settle, file
      <3>2. \E l \in {"exits", "entries"} : pc' = [pc EXCEPT ![p] = l]
        BY <3>1 DEF Resume, Goto
      <3>3. {"exits", "entries"} \subseteq Label \ {"read"}
        BY DEF Label
      <3> QED
        BY <1>1, <3>1, <3>2, <3>3
    <2> QED
      BY <1>7, <2>1, <2>2, <2>3, <2>4 DEF Changes
  <1>8. CASE ExchangeStep \/ Tick \/ UNCHANGED vars
    <2>1. UNCHANGED <<pc, disk, led>>
      BY <1>8 DEF ExchangeStep, Fill, PartialFill, Reject, OwnerTrades, Tick, file, local, vars
    <2> QED
      BY <1>2, <2>1
  <1> QED
    BY <1>5, <1>6, <1>7, <1>8, NextCases

-----------------------------------------------------------------------------
(***************************************************************************)
(* The throttle: every entry is on record in the book in force, so the     *)
(* next entry of its symbol is a window later.                             *)
(***************************************************************************)

\* The times a book and the orders have.
LEMMA HourTypes ==
  ASSUME IInv
  PROVE  /\ hour \in Nat /\ orders \in Seq(Order) /\ DOMAIN orders = 1..Len(orders)
         /\ Len(orders) \in Nat
         /\ \A i \in DOMAIN orders : /\ orders[i] \in Order /\ orders[i].hour \in Nat
                                     /\ orders[i].symbol \in Symbol
         /\ \A s \in Symbol : Current.attempt[s] \in Int
  <1>1. /\ hour \in Nat /\ orders \in Seq(Order) /\ DOMAIN orders = 1..Len(orders)
        /\ Len(orders) \in Nat
    BY DEF IInv, TypeOK
  <1>2. \A i \in DOMAIN orders : orders[i] \in Order
    BY <1>1
  <1>3. \A s \in Symbol : Current.attempt[s] \in Int
    BY CurrentBook DEF Book, Never
  <1> QED
    BY <1>1, <1>2, <1>3 DEF Order

\* The same after a step.
LEMMA HourTypesNext ==
  ASSUME IInv'
  PROVE  /\ hour' \in Nat /\ orders' \in Seq(Order) /\ DOMAIN orders' = 1..Len(orders')
         /\ Len(orders') \in Nat /\ Current' \in Book
         /\ \A s \in Symbol : Current'.attempt[s] \in Int
  <1>1. /\ hour' \in Nat /\ orders' \in Seq(Order) /\ DOMAIN orders' = 1..Len(orders')
        /\ Len(orders') \in Nat
    BY DEF IInv, TypeOK
  <1>2. Current' \in Book
    BY DEF Current, IInv, TypeOK
  <1>3. \A s \in Symbol : Current'.attempt[s] \in Int
    BY <1>2 DEF Book, Never
  <1> QED
    BY <1>1, <1>2, <1>3

\* A step that makes no entry and takes back no attempt honours the throttle.
LEMMA AttemptsKept ==
  ASSUME IInv, IInv', AttemptsOK, ThrottleHonoured, Sound, hour <= hour',
         \A s \in Symbol : Current.attempt[s] <= Current'.attempt[s],
         Len(orders') = Len(orders) \/
            (/\ Len(orders') = Len(orders) + 1
             /\ orders'[Len(orders')].side = "sell"
             /\ orders'[Len(orders')].hour <= hour')
  PROVE  AttemptsOK' /\ ThrottleHonoured'
  <1>1. /\ hour \in Nat /\ hour' \in Nat /\ DOMAIN orders = 1..Len(orders)
        /\ DOMAIN orders' = 1..Len(orders') /\ Len(orders) \in Nat /\ Len(orders') \in Nat
        /\ \A i \in DOMAIN orders : orders[i].hour \in Nat /\ orders[i].symbol \in Symbol
        /\ \A s \in Symbol : Current.attempt[s] \in Int /\ Current'.attempt[s] \in Int
    BY HourTypes, HourTypesNext
  <1>a. \A i \in DOMAIN orders : /\ orders'[i].side = orders[i].side
                                 /\ orders'[i].symbol = orders[i].symbol
                                 /\ orders'[i].hour = orders[i].hour
    BY DEF Sound
  <1>2. \A i \in DOMAIN orders' : \/ i \in DOMAIN orders /\ /\ orders'[i].side = orders[i].side
                                                           /\ orders'[i].symbol = orders[i].symbol
                                                           /\ orders'[i].hour = orders[i].hour
                                  \/ orders'[i].side = "sell" /\ orders'[i].hour <= hour'
    <2> SUFFICES ASSUME NEW i \in DOMAIN orders', i \notin DOMAIN orders
                 PROVE  orders'[i].side = "sell" /\ orders'[i].hour <= hour'
      BY <1>a
    <2>1. /\ i \in 1..Len(orders') /\ i \notin 1..Len(orders)
          /\ Len(orders) \in Nat /\ Len(orders') \in Nat
      BY <1>1
    <2>2. Len(orders') # Len(orders)
      BY <2>1
    <2>3. i = Len(orders')
      BY <2>1, <2>2
    <2> QED
      BY <2>2, <2>3
  <1>3. AttemptsOK'
    <2> SUFFICES ASSUME NEW i \in DOMAIN orders'
                 PROVE  /\ orders'[i].hour <= hour'
                        /\ orders'[i].side = "buy" =>
                              orders'[i].hour <= Current'.attempt[orders'[i].symbol]
      BY DEF AttemptsOK
    <2>1. CASE /\ i \in DOMAIN orders /\ orders'[i].side = orders[i].side
               /\ orders'[i].symbol = orders[i].symbol /\ orders'[i].hour = orders[i].hour
      <3>1. /\ orders[i].hour <= hour
            /\ orders[i].side = "buy" => orders[i].hour <= Current.attempt[orders[i].symbol]
        BY <2>1 DEF AttemptsOK
      <3>2. /\ orders[i].hour \in Nat /\ orders[i].symbol \in Symbol
            /\ Current.attempt[orders[i].symbol] \in Int
            /\ Current'.attempt[orders[i].symbol] \in Int
            /\ Current.attempt[orders[i].symbol] <= Current'.attempt[orders[i].symbol]
        BY <1>1, <2>1
      <3>3. orders'[i].hour = orders[i].hour /\ orders'[i].symbol = orders[i].symbol
            /\ orders'[i].side = orders[i].side
        BY <2>1
      <3> QED
        <4>a. hour \in Nat /\ hour' \in Nat
          BY <1>1
        <4>b. orders[i].hour \in Nat /\ orders[i].hour <= hour
          BY <3>1, <3>2
        <4>1. orders[i].hour <= hour'
          BY <4>a, <4>b
        <4>2. orders[i].side = "buy" => orders[i].hour <= Current'.attempt[orders[i].symbol]
          BY <3>1, <3>2
        <4> QED
          BY <3>3, <4>1, <4>2
    <2>2. CASE orders'[i].side = "sell" /\ orders'[i].hour <= hour'
      BY <2>2
    <2> QED
      BY <1>2, <2>1, <2>2
  <1>4. ThrottleHonoured'
    BY <1>1, <1>2 DEF ThrottleHonoured
  <1> QED
    BY <1>3, <1>4

\* An entry that the throttle lets pass is a window later than every earlier
\* one of its symbol, which the book in force has on record.
LEMMA EntryThrottled ==
  ASSUME IInv, IInv', AttemptsOK, ThrottleHonoured, NEW p \in Proc, NEW s \in Symbol,
         BuyAccepted(p, s)
  PROVE  AttemptsOK' /\ ThrottleHonoured'
  <1>a. pc \in [Proc -> Label] /\ led \in [Proc -> Book] /\ led[p] \in Book /\ Day \in Nat
    BY DayAssumption DEF IInv, TypeOK
  <1>1. /\ pc[p] = "entries" /\ pc' = [pc EXCEPT ![p] = "buying"]
        /\ UNCHANGED <<lock, hour>>
        /\ led' = [led EXCEPT ![p] = RecordEntryAttempt(led[p], s, hour)]
        /\ ~Throttled(led[p], s, hour)
        /\ Accept("buy", s, Lot, FALSE)
    BY DEF BuyAccepted, Entering, Goto
  <1>2. Current = led[p] /\ Current' = RecordEntryAttempt(led[p], s, hour)
    <2>1. pc[p] \in Rewriting /\ pc'[p] \in Rewriting
      BY <1>a, <1>1 DEF Rewriting, Working
    <2> QED
      BY <1>a, <1>1, <2>1, WorkCurrent
  <1>3. Current'.attempt = [Current.attempt EXCEPT ![s] = hour]
    BY <1>a, <1>2 DEF RecordEntryAttempt, Book
  <1>4. orders' = Append(orders, [side |-> "buy", symbol |-> s, qty |-> Lot, filled |-> 0,
                                  cancelled |-> FALSE, loss |-> FALSE, hour |-> hour])
    BY <1>1 DEF Accept
  <1>5. /\ hour \in Nat /\ orders \in Seq(Order) /\ Len(orders) \in Nat
        /\ DOMAIN orders = 1..Len(orders)
        /\ \A i \in DOMAIN orders : orders[i].hour \in Nat /\ orders[i].symbol \in Symbol
        /\ \A r \in Symbol : Current.attempt[r] \in Int
    BY HourTypes
  <1>6. /\ DOMAIN orders' = 1..(Len(orders) + 1)
        /\ \A i \in DOMAIN orders : orders'[i] = orders[i]
        /\ orders'[Len(orders) + 1].side = "buy" /\ orders'[Len(orders) + 1].symbol = s
        /\ orders'[Len(orders) + 1].hour = hour
    BY <1>4, <1>5
  <1>7. \A r \in Symbol : /\ Current'.attempt[r] = IF r = s THEN hour ELSE Current.attempt[r]
    BY <1>3, <1>a, <1>2 DEF Book
  <1>8. AttemptsOK'
    <2> SUFFICES ASSUME NEW i \in DOMAIN orders'
                 PROVE  /\ orders'[i].hour <= hour
                        /\ orders'[i].side = "buy" =>
                              orders'[i].hour <= Current'.attempt[orders'[i].symbol]
      BY <1>1 DEF AttemptsOK
    <2>1. CASE i \in DOMAIN orders
      BY <1>5, <1>6, <1>7, <2>1 DEF AttemptsOK
    <2>2. CASE i = Len(orders) + 1
      BY <1>5, <1>6, <1>7, <2>2
    <2> QED
      BY <1>5, <1>6, <2>1, <2>2
  <1>9. ASSUME NEW i \in DOMAIN orders, orders[i].side = "buy", orders[i].symbol = s
        PROVE  hour - orders[i].hour >= Day
    <2>1. orders[i].hour <= led[p].attempt[s] /\ led[p].attempt[s] \in Int
      BY <1>2, <1>5, <1>9 DEF AttemptsOK
    <2>2. led[p].attempt[s] # Never
      BY <1>5, <2>1 DEF Never
    <2>3. hour - led[p].attempt[s] >= Day
      BY <1>1, <1>5, <1>a, <2>1, <2>2 DEF Throttled
    <2> QED
      BY <1>5, <1>a, <2>1, <2>3
  <1>10. ThrottleHonoured'
    <2> SUFFICES ASSUME NEW i \in DOMAIN orders', NEW j \in DOMAIN orders', i < j,
                        orders'[i].side = "buy", orders'[j].side = "buy",
                        orders'[i].symbol = orders'[j].symbol
                 PROVE  orders'[j].hour - orders'[i].hour >= Day
      BY DEF ThrottleHonoured
    <2>1. i \in DOMAIN orders
      BY <1>5, <1>6
    <2>2. CASE j \in DOMAIN orders
      BY <1>6, <2>1, <2>2 DEF ThrottleHonoured
    <2>3. CASE j = Len(orders) + 1
      BY <1>6, <1>9, <2>1, <2>3
    <2> QED
      BY <1>5, <1>6, <2>2, <2>3
  <1> QED
    BY <1>8, <1>10

\* A change of a book in force that is no entry takes back no attempt.
LEMMA AttemptsStay ==
  ASSUME IInv, "crash" \notin Faults, "replyLost" \notin Faults, NEW p \in Proc, Changes(p),
         ~ \E s \in Symbol : BuyAccepted(p, s)
  PROVE  /\ Current'.attempt = Current.attempt /\ hour' = hour /\ Sound
         /\ Len(orders') = Len(orders) \/
              (/\ Len(orders') = Len(orders) + 1
               /\ orders'[Len(orders')].side = "sell"
               /\ orders'[Len(orders')].hour = hour)
  <1>a. /\ pc \in [Proc -> Label] /\ led \in [Proc -> Book] /\ led[p] \in Book /\ disk \in Book
        /\ seen[p] \in [Symbol -> Balance] /\ orders \in Seq(Order)
    BY DEF IInv, TypeOK
  <1>b. ASSUME lock' = lock, pc[p] \in {"exits", "entries", "selling", "buying"},
               pc'[p] \in {"exits", "entries", "selling", "buying"}
        PROVE  Current = led[p] /\ Current' = led'[p]
    <2>1. pc[p] \in Rewriting /\ pc'[p] \in Rewriting
      BY <1>b DEF Rewriting, Working
    <2> QED
      BY <1>b, <2>1, WorkCurrent
  <1>1. CASE TraderLoad(p)
    <2>1. Current'.attempt = Current.attempt
      BY <1>1, LoadCurrent, <1>a DEF Reconcile, Book
    <2> QED
      BY <1>1, <2>1, LoadCurrent, UnchangedSound
  <1>2. ASSUME NEW s \in Symbol, TraderHold(p, s) \/ DropUnsellable(p, s)
        PROVE  /\ Current'.attempt = Current.attempt
               /\ UNCHANGED <<hour, orders>> /\ Sound
    <2>1. /\ UNCHANGED <<lock, hour, pc, free, locked, orders>> /\ pc[p] = "exits"
      BY <1>2 DEF TraderHold, DropUnsellable, Leaving, file, exchange
    <2>2. led'[p].attempt = led[p].attempt
      <3>1. CASE DropUnsellable(p, s)
        <4>1. PICK loss \in BOOLEAN : led' = [led EXCEPT ![p] = ClosePosition(led[p], s, loss, hour)]
          BY <3>1 DEF DropUnsellable
        <4>2. led'[p] = ClosePosition(led[p], s, loss, hour)
          BY <1>a, <4>1
        <4> QED
          BY <1>a, <4>2 DEF ClosePosition, Book
      <3>2. CASE TraderHold(p, s)
        <4>1. PICK stop : led' = [led EXCEPT ![p] = UpdatePosition(led[p], s, stop)]
          BY <3>2 DEF TraderHold
        <4>2. led'[p] = UpdatePosition(led[p], s, stop)
          BY <1>a, <4>1
        <4> QED
          BY <1>a, <4>2 DEF UpdatePosition, Book
      <3> QED
        BY <1>2, <3>1, <3>2
    <2> QED
      BY <1>b, <2>1, <2>2, UnchangedSound
  <1>3. ASSUME NEW s \in Symbol, SellAccepted(p, s)
        PROVE  /\ Current'.attempt = Current.attempt /\ hour' = hour /\ Sound
               /\ Len(orders') = Len(orders) + 1
               /\ orders'[Len(orders')].side = "sell"
               /\ orders'[Len(orders')].hour = hour
    <2>1. /\ UNCHANGED <<lock, hour, led>> /\ pc[p] = "exits" /\ pc' = [pc EXCEPT ![p] = "selling"]
          /\ SellableQty(p, s) > 0
      BY <1>3 DEF SellAccepted, Leaving, Goto
    <2>2. PICK loss \in BOOLEAN : Accept("sell", s, SellableQty(p, s), loss)
      BY <1>3 DEF SellAccepted
    <2>4. PICK o : orders' = Append(orders, o) /\ o.side = "sell" /\ o.hour = hour
      BY <2>2 DEF Accept
    <2>5. Len(orders') = Len(orders) + 1 /\ orders'[Len(orders')] = o
      BY <1>a, <2>4
    <2> QED
      BY <1>a, <1>b, <2>1, <2>2, <2>4, <2>5, SendSound
  <1>4. CASE FillAnswered(p) \/ FillTimedOut(p) \/ FillCancelLost(p) \/ FillPollFailed(p)
    <2>1. /\ AwaitsFill(p) /\ UNCHANGED <<lock, hour>> /\ Resume(p)
          /\ Settle(p) \/ UNCHANGED led
      BY <1>4 DEF FillAnswered, FillTimedOut, FillCancelLost, FillPollFailed, Settle
    <2>2. led'[p].attempt = led[p].attempt
      <3> DEFINE o == orders[mine[p]]
      <3>1. CASE led' = [led EXCEPT ![p] = ClosePosition(led[p], o.symbol, o.loss, hour)]
        <4>1. led'[p] = ClosePosition(led[p], o.symbol, o.loss, hour)
          BY <1>a, <3>1
        <4> QED
          BY <1>a, <4>1 DEF ClosePosition, Book
      <3>2. CASE led' = [led EXCEPT ![p] =
                            OpenPosition(led[p], o.symbol, o.filled, hour, mine[p])]
        <4>1. led'[p] = OpenPosition(led[p], o.symbol, o.filled, hour, mine[p])
          BY <1>a, <3>2
        <4> QED
          BY <1>a, <4>1 DEF OpenPosition, Book
      <3> QED
        BY <2>1, <3>1, <3>2 DEF Settle
    <2>3. pc[p] \in {"selling", "buying"} /\ pc'[p] \in {"exits", "entries"}
      BY <1>a, <2>1 DEF AwaitsFill, Resume, Goto
    <2>4. Sound /\ Len(orders') = Len(orders)
      <3>1. CASE FillTimedOut(p)
        <4>1. PICK i \in DOMAIN orders : i = mine[p]
          BY <2>1, AwaitFacts
        <4>2. Withdraw(i)
          BY <3>1, <4>1 DEF FillTimedOut
        <4> QED
          <5>1. orders' = [orders EXCEPT ![i].cancelled = TRUE]
            BY <4>2 DEF Withdraw
          <5>2. DOMAIN orders' = DOMAIN orders
            BY <5>1
          <5>3. Sound
            BY <4>2, WithdrawSound
          <5>4. Len(orders') = Len(orders)
            BY <1>a, <5>2, <5>3 DEF Sound
          <5> QED
            BY <5>3, <5>4
      <3>2. CASE FillAnswered(p) \/ FillCancelLost(p) \/ FillPollFailed(p)
        BY <3>2, UnchangedSound DEF FillAnswered, FillCancelLost, FillPollFailed, exchange
      <3> QED
        BY <1>4, <3>1, <3>2
    <2> QED
      BY <1>b, <2>1, <2>2, <2>3, <2>4
  <1>5. ~ \E s \in Symbol : BuyReplyLost(p, s) \/ SellReplyLost(p, s)
    BY DEF BuyReplyLost, SellReplyLost, Fault
  <1> QED
    BY <1>1, <1>2, <1>3, <1>4, <1>5 DEF Changes

\* The exchange, the owner and the clock touch no book and send no order.
LEMMA OutsideStep ==
  ASSUME IInv, ExchangeStep \/ Tick
  PROVE  /\ UNCHANGED <<disk, lock, pc, led, seen, todo, slots, mine>>
         /\ Current' = Current
         /\ Sound /\ Len(orders') = Len(orders) /\ hour <= hour'
  <1>a. orders \in Seq(Order) /\ hour \in Nat
    BY DEF IInv, TypeOK
  <1>b. ASSUME Sound, DOMAIN orders' = DOMAIN orders
        PROVE  Len(orders') = Len(orders)
    BY <1>a, <1>b DEF Sound
  <1>1. CASE Tick
    <2>1. /\ UNCHANGED <<disk, lock, pc, led, seen, todo, slots, mine, free, locked, orders>>
          /\ hour' = hour + 1
      BY <1>1 DEF Tick, file, local, exchange
    <2> QED
      BY <1>a, <2>1, UnchangedSound DEF Current
  <1>2. CASE ExchangeStep
    <2>1. UNCHANGED <<disk, lock, pc, led, seen, todo, slots, mine, hour>>
      BY <1>2 DEF ExchangeStep, Fill, PartialFill, Reject, OwnerTrades, file, local
    <2>2. ASSUME NEW i \in DOMAIN orders, Fill(i) \/ PartialFill(i)
          PROVE  Sound /\ Len(orders') = Len(orders)
      <3>1. orders[i] \in Order /\ orders[i].filled <= orders[i].qty
        BY DEF IInv, TypeOK, OrdersOK
      <3>2. orders[i].qty \in Nat /\ orders[i].filled \in Nat
        BY <3>1 DEF Order
      <3>3. PICK k \in Nat : k <= orders[i].qty - orders[i].filled /\ Execute(i, k)
        <4>1. CASE Fill(i)
          BY <3>1, <3>2, <4>1 DEF Fill
        <4>2. CASE PartialFill(i)
          BY <3>1, <3>2, <4>2 DEF PartialFill
        <4> QED
          BY <2>2, <4>1, <4>2
      <3>4. Sound
        BY <3>3, ExecuteSound
      <3>5. DOMAIN orders' = DOMAIN orders
        BY <3>3 DEF Execute
      <3> QED
        BY <1>b, <3>4, <3>5
    <2>3. ASSUME NEW i \in DOMAIN orders, Reject(i)
          PROVE  Sound /\ Len(orders') = Len(orders)
      <3>1. Withdraw(i) /\ DOMAIN orders' = DOMAIN orders
        BY <2>3 DEF Reject, Withdraw
      <3> QED
        BY <1>b, <3>1, WithdrawSound
    <2>4. ASSUME NEW s \in Symbol, OwnerTrades(s)
          PROVE  Sound /\ Len(orders') = Len(orders)
      <3>1. orders' = orders /\ locked' = locked
            /\ (free' = [free EXCEPT ![s] = 0] \/ free' = [free EXCEPT ![s] = free[s] + Lot])
        BY <2>4 DEF OwnerTrades
      <3>2. free \in [Symbol -> Nat] /\ free[s] + Lot \in Nat
        BY SizeAssumption DEF IInv, TypeOK
      <3>3. free' \in [Symbol -> Nat]
        BY <3>1, <3>2
      <3> QED
        BY <3>1, <3>3 DEF Sound, IInv, TypeOK, OrdersOK
    <2>5. Sound /\ Len(orders') = Len(orders)
      BY <1>2, <2>2, <2>3, <2>4 DEF ExchangeStep
    <2> QED
      BY <1>a, <2>1, <2>5 DEF Current
  <1> QED
    BY <1>1, <1>2

\* As long as no process dies and no answer to an order is lost, every step keeps
\* the record of the entries complete, and the throttle honoured.
LEMMA ThrottleStep ==
  ASSUME IInv, IInv', ThrottleInv, "crash" \notin Faults, "replyLost" \notin Faults, [Next]_vars
  PROVE  ThrottleInv'
  <1>a. /\ ReadOK /\ AttemptsOK /\ ThrottleHonoured
        /\ hour \in Nat /\ Len(orders) \in Nat
    BY DEF ThrottleInv, IInv, TypeOK
  <1>b. \A s \in Symbol : Current.attempt[s] <= Current.attempt[s]
    BY HourTypes
  <1>1. ReadOK'
    BY <1>a, ReadStep
  <1> SUFFICES AttemptsOK' /\ ThrottleHonoured'
    BY <1>1 DEF ThrottleInv
  <1>2. ASSUME Current'.attempt = Current.attempt, Sound, hour <= hour',
               Len(orders') = Len(orders) \/
                 (/\ Len(orders') = Len(orders) + 1
                  /\ orders'[Len(orders')].side = "sell"
                  /\ orders'[Len(orders')].hour <= hour')
        PROVE  AttemptsOK' /\ ThrottleHonoured'
    BY <1>2, <1>a, <1>b, AttemptsKept
  <1>3. CASE \E p \in Proc : Queues(p) \/ Ends(p) \/ Moves(p)
    <2>1. PICK p \in Proc : Queues(p) \/ Ends(p) \/ Moves(p)
      BY <1>3
    <2>2. Current' = Current /\ UNCHANGED <<hour, free, locked, orders>>
      BY <1>a, <2>1, QueueCurrent, EndCurrent, MoveCurrent
    <2>3. Sound
      BY <2>2, UnchangedSound
    <2> QED
      BY <1>2, <1>a, <2>2, <2>3
  <1>4. CASE \E p \in Proc : Changes(p)
    <2>1. PICK p \in Proc : Changes(p)
      BY <1>4
    <2>2. CASE \E s \in Symbol : BuyAccepted(p, s)
      BY <1>a, <2>2, EntryThrottled
    <2>3. CASE ~ \E s \in Symbol : BuyAccepted(p, s)
      <3>1. /\ Current'.attempt = Current.attempt /\ hour' = hour /\ Sound
            /\ Len(orders') = Len(orders) \/
                 (/\ Len(orders') = Len(orders) + 1
                  /\ orders'[Len(orders')].side = "sell"
                  /\ orders'[Len(orders')].hour = hour)
        BY <2>1, <2>3, AttemptsStay
      <3>2. hour <= hour'
        BY <1>a, <3>1
      <3> QED
        BY <1>2, <1>a, <3>1, <3>2
    <2> QED
      BY <2>2, <2>3
  <1>5. CASE ExchangeStep \/ Tick
    BY <1>2, <1>5, OutsideStep
  <1>6. CASE UNCHANGED vars
    BY <1>a, <1>6 DEF vars, AttemptsOK, ThrottleHonoured, Current
  <1> QED
    BY <1>3, <1>4, <1>5, <1>6, NextCases

\* Two entries of one symbol are a throttle window apart, whoever saved the ledger
\* in between, as long as no process dies and no answer to an order is lost: both
\* can leave an entry without its record (ledger.throttled).
THEOREM EntriesApart ==
  ASSUME "crash" \notin Faults, "replyLost" \notin Faults
  PROVE  Spec => []ThrottleHonoured
  <1>1. Init => ThrottleInv
    BY DEF Init, ThrottleInv, ReadOK, AttemptsOK, ThrottleHonoured
  <1>2. IInv /\ IInv' /\ ThrottleInv /\ [Next]_vars => ThrottleInv'
    BY ThrottleStep
  <1>3. ThrottleInv => ThrottleHonoured
    BY DEF ThrottleInv
  <1> QED
    BY <1>1, <1>2, <1>3, Invariance, PTL DEF Spec

-----------------------------------------------------------------------------
(***************************************************************************)
(* How many elements of a sequence are of a kind.                          *)
(***************************************************************************)

\* A count is a number.
LEMMA CountType ==
  ASSUME NEW T, NEW seq \in Seq(T), NEW kind
  PROVE  /\ CountIn(seq, kind) \in Nat
         /\ IsFiniteSet({i \in DOMAIN seq : seq[i] \in kind})
  <1>1. IsFiniteSet(DOMAIN seq)
    <2>1. Len(seq) \in Nat /\ DOMAIN seq = 1..Len(seq)
      OBVIOUS
    <2> QED
      BY <2>1, FS_Interval
  <1>2. IsFiniteSet({i \in DOMAIN seq : seq[i] \in kind})
    BY <1>1, FS_Subset
  <1> QED
    BY <1>2, FS_CardinalityType DEF CountIn

\* Appending an element counts it, if it is of the kind.
LEMMA CountAppend ==
  ASSUME NEW T, NEW seq \in Seq(T), NEW e \in T, NEW kind
  PROVE  CountIn(Append(seq, e), kind) = CountIn(seq, kind) + IF e \in kind THEN 1 ELSE 0
  <1> DEFINE new == Append(seq, e)
             old == {i \in DOMAIN seq : seq[i] \in kind}
             now == {i \in DOMAIN new : new[i] \in kind}
  <1>1. /\ new \in Seq(T) /\ Len(new) = Len(seq) + 1 /\ Len(seq) \in Nat
        /\ DOMAIN seq = 1..Len(seq) /\ DOMAIN new = 1..(Len(seq) + 1)
        /\ \A i \in DOMAIN seq : new[i] = seq[i]
        /\ new[Len(seq) + 1] = e
    OBVIOUS
  <1> HIDE DEF new
  <1>2. IsFiniteSet(old) /\ Cardinality(old) \in Nat
    BY CountType, FS_CardinalityType
  <1>3. CASE e \in kind
    <2>1. now = old \cup {Len(seq) + 1} /\ Len(seq) + 1 \notin old
      BY <1>1, <1>3
    <2>2. Cardinality(now) = Cardinality(old) + 1
      BY <1>2, <2>1, FS_AddElement
    <2> QED
      BY <1>3, <2>2 DEF CountIn, new
  <1>4. CASE e \notin kind
    <2>1. now = old
      BY <1>1, <1>4
    <2>2. CountIn(seq, kind) = Cardinality(old) /\ CountIn(Append(seq, e), kind) = Cardinality(now)
      BY DEF CountIn, new
    <2> QED
      <3> HIDE DEF old, now
      <3> QED
        BY <1>2, <1>4, <2>1, <2>2
  <1> QED
    BY <1>3, <1>4

\* Changing one element that was not of the kind counts it, if it is now.
LEMMA CountChange ==
  ASSUME NEW T, NEW seq \in Seq(T), NEW new \in Seq(T), NEW i \in DOMAIN seq, NEW kind,
         DOMAIN new = DOMAIN seq, \A j \in DOMAIN seq \ {i} : new[j] = seq[j],
         seq[i] \notin kind
  PROVE  CountIn(new, kind) = CountIn(seq, kind) + IF new[i] \in kind THEN 1 ELSE 0
  <1> DEFINE old == {j \in DOMAIN seq : seq[j] \in kind}
             now == {j \in DOMAIN new : new[j] \in kind}
  <1>2. IsFiniteSet(old) /\ Cardinality(old) \in Nat
    BY CountType, FS_CardinalityType
  <1>3. CASE new[i] \in kind
    <2>1. now = old \cup {i} /\ i \notin old
      BY <1>3
    <2>2. Cardinality(now) = Cardinality(old) + 1
      BY <1>2, <2>1, FS_AddElement
    <2> QED
      BY <1>3, <2>2 DEF CountIn
  <1>4. CASE new[i] \notin kind
    <2>1. now = old
      BY <1>4
    <2>2. CountIn(seq, kind) = Cardinality(old) /\ CountIn(new, kind) = Cardinality(now)
      BY DEF CountIn
    <2> QED
      <3> HIDE DEF old, now
      <3> QED
        BY <1>2, <1>4, <2>1, <2>2
  <1> QED
    BY <1>3, <1>4

\* The sale that is waited for is the only one that is not booked.
LEMMA UnbookedOf ==
  ASSUME IInv, NEW kind
  PROVE  /\ Unbooked(kind) \in {0, 1}
         /\ (\A p \in Proc : ~AwaitsFill(p)) => Unbooked(kind) = 0
         /\ \A p \in Proc : AwaitsFill(p) =>
               Unbooked(kind) = IF pc[p] = "selling" /\ orders[mine[p]] \in kind THEN 1 ELSE 0
  <1>1. \A p, q \in Proc : AwaitsFill(p) /\ pc[q] = "selling" => p = q
    BY DEF AwaitsFill, IInv, LockOK, Locked, Label
  <1> QED
    BY <1>1 DEF Unbooked, AwaitsFill

\* The same after a step.
LEMMA UnbookedNext ==
  ASSUME IInv', NEW kind
  PROVE  /\ Unbooked(kind)' \in {0, 1}
         /\ (\A p \in Proc : ~AwaitsFill(p)') => Unbooked(kind)' = 0
         /\ \A p \in Proc : AwaitsFill(p)' =>
               Unbooked(kind)' = IF pc'[p] = "selling" /\ orders'[mine'[p]] \in kind THEN 1 ELSE 0
  <1>1. \A p, q \in Proc : AwaitsFill(p)' /\ pc'[q] = "selling" => p = q
    BY DEF AwaitsFill, IInv, LockOK, Locked, Label
  <1> QED
    BY <1>1 DEF Unbooked, AwaitsFill

\* A step that books nothing, and executes no sale but one that is waited for.
LEMMA BooksSame ==
  ASSUME BookedOK, Current'.closed = Current.closed,
         \A kind \in SUBSET Sales : Settled(kind)' = Settled(kind)
  PROVE  BookedOK'
  <1>1. /\ \A s : SalesOf(s) \in SUBSET Sales
        /\ \A loss, h : SalesSince(loss, h) \in SUBSET Sales
    BY DEF SalesOf, SalesSince
  <1>2. /\ \A s : Settled(SalesOf(s))' = Settled(SalesOf(s))
        /\ \A loss, h : Settled(SalesSince(loss, h))' = Settled(SalesSince(loss, h))
    BY <1>1
  <1> QED
    BY <1>2 DEF BookedOK

-----------------------------------------------------------------------------
(***************************************************************************)
(* The account and the book in force while nothing goes wrong.             *)
(***************************************************************************)

\* What a process that waits for a fill knows: it is the only one, its order is
\* the only one that lives, and the rest of its book is exact.
LEMMA WaitFacts ==
  ASSUME IInv, WholeOK, ExactOK, NEW p \in Proc, AwaitsFill(p)
  PROVE  /\ mine[p] \in DOMAIN orders /\ orders[mine[p]] \in Order
         /\ \A q \in Proc : AwaitsFill(q) => q = p
         /\ \A j \in DOMAIN orders : Live(orders[j]) => j = mine[p]
         /\ Current = led[p] /\ lock = p
         /\ \A r \in Symbol : r # orders[mine[p]].symbol =>
               Current.open[r].qty = Held(r) /\ locked[r] = 0
  <1>1. /\ mine[p] \in DOMAIN orders /\ orders[mine[p]] \in Order /\ pc[p] \in Locked
    BY AwaitFacts
  <1>2. \A q \in Proc : AwaitsFill(q) => q = p
    BY DEF AwaitsFill, IInv, LockOK, Locked, Label
  <1>3. \A j \in DOMAIN orders : Live(orders[j]) => j = mine[p]
    BY <1>2 DEF WholeOK
  <1>4. pc[p] \in Rewriting
    BY DEF AwaitsFill, Rewriting, Working
  <1>5. Current = led[p] /\ lock = p
    BY <1>1, <1>4, CurrentOf
  <1>6. \A r \in Symbol : r # orders[mine[p]].symbol =>
               Current.open[r].qty = Held(r) /\ locked[r] = 0
    BY <1>2 DEF ExactOK, Awaits
  <1> QED
    BY <1>1, <1>2, <1>3, <1>5, <1>6

\* What a process in its cycle knows that waits for no fill.
LEMMA RestFacts ==
  ASSUME IInv, WholeOK, ExactOK, NEW p \in Proc, pc[p] \in Locked, ~AwaitsFill(p)
  PROVE  /\ \A q \in Proc : ~AwaitsFill(q)
         /\ \A j \in DOMAIN orders : ~Live(orders[j])
         /\ \A r \in Symbol : Current.open[r].qty = Held(r) /\ locked[r] = 0
  <1>1. \A q \in Proc : ~AwaitsFill(q)
    BY DEF AwaitsFill, IInv, LockOK, Locked, Label
  <1> QED
    BY <1>1 DEF WholeOK, ExactOK, Awaits

\* An account and a book that agree when nobody waits.
LEMMA RestMade ==
  ASSUME IInv', \A q \in Proc : ~AwaitsFill(q)',
         \A i \in DOMAIN orders' :
            orders'[i].qty = Lot /\ orders'[i].filled \in {0, Lot} /\ ~Live(orders'[i]),
         \A s \in Symbol : /\ Held(s)' \in {0, Lot}
                           /\ Current'.open[s].qty = Held(s)' /\ locked'[s] = 0
  PROVE  WholeOK' /\ ExactOK'
  <1>1. WholeOK'
    BY DEF WholeOK, Live
  <1>2. ExactOK'
    BY DEF ExactOK
  <1> QED
    BY <1>1, <1>2

\* An account and a book that agree but for the order that process p waits for.
LEMMA WaitMade ==
  ASSUME IInv', NEW p \in Proc, AwaitsFill(p)', NEW o, o = orders'[mine'[p]],
         NEW s \in Symbol, s = o.symbol,
         \A i \in DOMAIN orders' :
            /\ orders'[i].qty = Lot /\ orders'[i].filled \in {0, Lot}
            /\ Live(orders'[i]) => i = mine'[p],
         \A r \in Symbol : /\ Held(r)' \in {0, Lot}
                           /\ r # s => Current'.open[r].qty = Held(r)' /\ locked'[r] = 0,
         IF pc'[p] = "selling"
         THEN /\ Current'.open[s].qty = Lot
              /\ Held(s)' = Lot - o.filled
              /\ locked'[s] = IF Live(o) THEN Lot ELSE 0
         ELSE /\ Current'.open[s].qty = 0
              /\ Held(s)' = o.filled
              /\ locked'[s] = 0
  PROVE  WholeOK' /\ ExactOK'
  <1>1. \A q \in Proc : AwaitsFill(q)' => q = p
    BY DEF AwaitsFill, IInv, LockOK, Locked, Label
  <1>2. WholeOK'
    BY DEF WholeOK, Live
  <1>3. ASSUME NEW r \in Symbol, \A q \in Proc : ~Awaits(q, r)'
        PROVE  Current'.open[r].qty = Held(r)' /\ locked'[r] = 0
    BY <1>3 DEF Awaits
  <1>4. WaitExact(p)'
    BY DEF WaitExact, Held
  <1>5. ExactOK'
    BY <1>1, <1>3, <1>4 DEF ExactOK
  <1> QED
    BY <1>2, <1>5

\* A step that leaves the account, the hour, the waits and what the book in force
\* says of quantities and trades keeps what relates them.
Still ==
    /\ UNCHANGED <<free, locked, orders>>
    /\ Current'.closed = Current.closed
    /\ \A s \in Symbol : Current'.open[s].qty = Current.open[s].qty
    /\ \A q \in Proc : /\ AwaitsFill(q)' <=> AwaitsFill(q)
                       /\ AwaitsFill(q) => pc'[q] = pc[q] /\ mine'[q] = mine[q]

LEMMA StillKeeps ==
  ASSUME IInv, IInv', Still, WholeOK, ExactOK, BookedOK
  PROVE  /\ WholeOK' /\ ExactOK' /\ BookedOK'
         /\ OpenSymbols(Current)' = OpenSymbols(Current)
  <1>1. WholeOK'
    BY DEF Still, WholeOK, Held
  <1>2. \A q \in Proc, s \in Symbol : Awaits(q, s)' <=> Awaits(q, s)
    BY DEF Still, Awaits
  <1>3. ExactOK'
    <2>1. \A s \in Symbol : Held(s)' = Held(s) /\ locked'[s] = locked[s]
      BY DEF Still, Held
    <2>2. ASSUME NEW s \in Symbol, \A q \in Proc : ~Awaits(q, s)'
          PROVE  Current'.open[s].qty = Held(s)' /\ locked'[s] = 0
      BY <1>2, <2>1, <2>2 DEF Still, ExactOK
    <2>3. ASSUME NEW q \in Proc, AwaitsFill(q)'
          PROVE  WaitExact(q)'
      <3> DEFINE o == orders[mine[q]]
                 s == o.symbol
      <3>1. /\ AwaitsFill(q) /\ pc'[q] = pc[q] /\ mine'[q] = mine[q]
            /\ UNCHANGED <<orders, free, locked>>
            /\ \A r \in Symbol : Current'.open[r].qty = Current.open[r].qty
        BY <2>3 DEF Still
      <3>2. s \in Symbol
        BY <3>1, AwaitFacts DEF Order
      <3>3. WaitExact(q)
        BY <3>1 DEF ExactOK
      <3>4. orders'[mine'[q]] = o /\ Current'.open[s].qty = Current.open[s].qty
        BY <3>1, <3>2
      <3> QED
        BY <3>1, <3>3, <3>4 DEF WaitExact, Held
    <2> QED
      BY <2>2, <2>3 DEF ExactOK
  <1>4. \A kind : Unbooked(kind)' = Unbooked(kind)
    BY DEF Still, Unbooked, AwaitsFill
  <1>5. BookedOK'
    BY <1>4, BooksSame DEF Settled, Still
  <1>6. OpenSymbols(Current)' = OpenSymbols(Current)
    BY DEF OpenSymbols, Still
  <1> QED
    BY <1>1, <1>3, <1>5, <1>6

-----------------------------------------------------------------------------
\* Without faults nobody dies, no answer is lost, and orders fill in one piece.
LEMMA NoFault ==
  ASSUME Undisturbed
  PROVE  /\ \A f : Fault(f) => f = "noData"
         /\ "crash" \notin Faults /\ "replyLost" \notin Faults
         /\ Lot \in Nat /\ Lot > 0 /\ DustQty \in Nat /\ DustQty < Lot
  <1>1. \A f : Fault(f) => f = "noData"
    BY DEF Undisturbed, Fault
  <1>2. "crash" \notin Faults /\ "replyLost" \notin Faults
    BY DEF Undisturbed
  <1>3. Lot \in Nat /\ Lot > 0 /\ DustQty \in Nat /\ DustQty < Lot
    BY SizeAssumption DEF Undisturbed
  <1> QED
    BY <1>1, <1>2, <1>3

\* What is held is worth more than dust, so balances are read as they are
\* (broker.get_positions).
LEMMA VisibleExact ==
  ASSUME Undisturbed, IInv, WholeOK, NEW unpriced, NEW dust \in SUBSET MayBeDust
  PROVE  \A s \in Symbol : /\ Visible(dust, unpriced)[s].qty = Held(s)
                           /\ Visible(dust, unpriced)[s].free = free[s]
  <1>1. MayBeDust = {}
    BY NoFault DEF MayBeDust, WholeOK, Held
  <1> QED
    BY <1>1 DEF Visible, Held

\* A process out of the loops relies on nothing.
LEMMA AsideWork ==
  ASSUME NEW q \in Proc,
         \/ pc'[q] \in {"idle", "waiting", "begin", "save", "writing", "report"}
         \/ pc'[q] = "load" /\ q \notin Trader
  PROVE  WorkOK(q)'
  BY DEF WorkOK, SeenOK, SlotsOK, BreakerOK, AwaitsFill

\* Who has the lock is the only one to rely on anything.
LEMMA CycleWork ==
  ASSUME IInv', NEW p \in Proc, pc'[p] \in Locked, WorkOK(p)'
  PROVE  \A q \in Proc : WorkOK(q)'
  <1>1. \A q \in Proc : q # p => pc'[q] \notin Locked
    BY DEF IInv, LockOK
  <1>2. \A q \in Proc : q # p => pc'[q] \in {"idle", "waiting"}
    BY <1>1 DEF IInv, TypeOK, Locked
  <1> QED
    BY <1>2, AsideWork

\* What process q relies on stays true as long as nothing of it changes.
LEMMA StillWork ==
  ASSUME Still, hour' = hour, NEW q \in Proc, WorkOK(q), pc'[q] = pc[q], led'[q] = led[q],
         seen'[q] = seen[q], todo'[q] = todo[q], slots'[q] = slots[q]
  PROVE  WorkOK(q)'
  <1>1. \A s : Awaits(q, s)' <=> Awaits(q, s)
    BY DEF Still, Awaits
  <1>2. \A s \in Symbol : Held(s)' = Held(s) /\ free'[s] = free[s]
    BY DEF Still, Held
  <1>3. SeenOK(q)'
    BY <1>1, <1>2 DEF WorkOK, SeenOK, OpenSymbols, Still
  <1>4. SlotsOK(q)'
    BY DEF WorkOK, SlotsOK, OpenSymbols
  <1>5. BreakerOK(q)'
    BY DEF WorkOK, BreakerOK, Still
  <1> QED
    BY <1>3, <1>4, <1>5 DEF WorkOK

\* Before the lock and after the cycle.
LEMMA OutsideWork ==
  ASSUME IInv, NEW p \in Proc, Queues(p) \/ Ends(p), \A q \in Proc : WorkOK(q)
  PROVE  Still /\ hour' = hour /\ \A q \in Proc : WorkOK(q)'
  <1>a. /\ pc \in [Proc -> Label] /\ led \in [Proc -> Book] /\ todo \in [Proc -> SUBSET Symbol]
        /\ seen \in [Proc -> [Symbol -> Balance]] /\ slots \in [Proc -> Nat] /\ mine \in [Proc -> Nat]
    BY DEF IInv, TypeOK
  <1>1. /\ Current' = Current /\ UNCHANGED <<hour, free, locked, orders>>
        /\ pc[p] \in {"idle", "waiting", "begin", "load", "read", "report"}
    BY QueueCurrent, EndCurrent
  <1>2. \E l \in {"idle", "waiting", "begin", "load"} :
           pc' = [pc EXCEPT ![p] = l] /\ (l = "load" => p \notin Trader)
    <2>1. CASE Queues(p)
      BY <2>1, QueueCurrent
    <2>2. CASE Ends(p)
      <3>1. pc' = [pc EXCEPT ![p] = "idle"]
        BY <2>2, EndCurrent DEF End, Goto
      <3> QED
        BY <3>1
    <2> QED
      BY <2>1, <2>2
  <1>3. \A q \in Proc \ {p} : /\ pc'[q] = pc[q] /\ led'[q] = led[q] /\ seen'[q] = seen[q]
                              /\ todo'[q] = todo[q] /\ slots'[q] = slots[q] /\ mine'[q] = mine[q]
    <2>1. CASE Queues(p)
      BY <2>1, <1>a, <1>2, QueueCurrent
    <2>2. CASE Ends(p)
      BY <2>2, <1>a, EndCurrent DEF End, Goto
    <2> QED
      BY <2>1, <2>2
  <1>4. pc'[p] \in {"idle", "waiting", "begin", "load"} /\ (pc'[p] = "load" => p \notin Trader)
    BY <1>a, <1>2
  <1>5. Still
    BY <1>1, <1>3, <1>4 DEF Still, AwaitsFill
  <1>6. WorkOK(p)'
    BY <1>4, AsideWork
  <1>7. \A q \in Proc \ {p} : WorkOK(q)'
    BY <1>1, <1>3, <1>5, StillWork
  <1> QED
    BY <1>1, <1>5, <1>6, <1>7

\* Within a cycle: what has been read is what there is, and the lists get shorter.
LEMMA MovesWork ==
  ASSUME Undisturbed, IInv, IInv', ReadOK, WholeOK, NEW p \in Proc, Moves(p), WorkOK(p)
  PROVE  Still /\ hour' = hour /\ \A q \in Proc : WorkOK(q)'
  <1>a. /\ pc \in [Proc -> Label] /\ led \in [Proc -> Book] /\ todo \in [Proc -> SUBSET Symbol]
        /\ seen \in [Proc -> [Symbol -> Balance]] /\ slots \in [Proc -> Nat] /\ mine \in [Proc -> Nat]
    BY DEF IInv, TypeOK
  <1>1. /\ Current' = Current
        /\ UNCHANGED <<hour, mine, free, locked, orders>>
        /\ pc[p] \in Locked \ {"selling", "buying"}
        /\ pc'[p] \in Locked \ {"selling", "buying"}
        /\ \A q \in Proc \ {p} : pc'[q] = pc[q]
    BY MoveCurrent
  <1>2. Still
    BY <1>1 DEF Still, AwaitsFill
  <1>b. \A s \in Symbol : Held(s)' = Held(s) /\ free'[s] = free[s]
    BY <1>1 DEF Held
  <1>c. ~AwaitsFill(p)' /\ ~AwaitsFill(p) /\ \A s : ~Awaits(p, s)
    BY <1>1 DEF AwaitsFill, Awaits
  <1>3. WorkOK(p)'
    <2>1. CASE \/ TraderNoEntries(p) \/ TraderEntriesDone(p) \/ WatcherExitsDone(p)
               \/ SaveTruncate(p) \/ SaveWrite(p)
      <3>1. \E l \in {"save", "writing", "report"} : pc' = [pc EXCEPT ![p] = l]
        BY <2>1 DEF TraderNoEntries, TraderEntriesDone, WatcherExitsDone, SaveTruncate, SaveWrite,
           Goto
      <3> QED
        BY <1>a, <3>1, AsideWork
    <2>2. CASE TraderRead(p)
      <3>a. PICK unpriced \in IF "noData" \in Faults THEN SUBSET Symbol ELSE {{}} :
               \E d \in SUBSET (MayBeDust \ unpriced) :
                  seen' = [seen EXCEPT ![p] = Visible(d, unpriced)]
        BY <2>2 DEF TraderRead
      <3>b. PICK d \in SUBSET (MayBeDust \ unpriced) :
               seen' = [seen EXCEPT ![p] = Visible(d, unpriced)]
        BY <3>a
      <3>1. PICK dust \in SUBSET MayBeDust : seen' = [seen EXCEPT ![p] = Visible(dust, unpriced)]
        BY <3>b
      <3>2. seen'[p] = Visible(dust, unpriced)
        BY <1>a, <3>1
      <3>3. \A s \in Symbol : seen'[p][s].qty = Held(s) /\ seen'[p][s].free = free[s]
        BY <3>2, VisibleExact
      <3>4. pc'[p] = "load"
        BY <1>a, <2>2 DEF TraderRead, Goto
      <3> QED
        BY <1>b, <1>c, <3>3, <3>4 DEF WorkOK, SeenOK, SlotsOK, BreakerOK
    <2>3. CASE WatcherRead(p)
      <3>1. PICK dust \in SUBSET MayBeDust : seen' = [seen EXCEPT ![p] = Visible(dust, {})]
        BY <2>3 DEF WatcherRead
      <3>2. seen'[p] = Visible(dust, {})
        BY <1>a, <3>1
      <3>3. \A s \in Symbol : seen'[p][s].qty = Held(s) /\ seen'[p][s].free = free[s]
        BY <3>2, VisibleExact
      <3>4. pc[p] = "read" /\ pc'[p] = "exits" /\ led' = led /\ todo' = todo
        BY <1>a, <2>3 DEF WatcherRead, Goto
      <3>5. todo[p] \in SUBSET Symbol /\ todo[p] \subseteq OpenSymbols(led[p])
        BY <1>a, <3>4 DEF WorkOK, SeenOK
      <3>6. SeenOK(p)'
        BY <1>b, <3>3, <3>4, <3>5 DEF SeenOK, OpenSymbols
      <3> QED
        BY <1>c, <3>4, <3>6 DEF WorkOK, SlotsOK, BreakerOK
    <2>4. CASE WatcherLoad(p)
      <3>1. /\ led' = [led EXCEPT ![p] = Load] /\ pc' = [pc EXCEPT ![p] = "read"]
            /\ \E hits \in SUBSET OpenSymbols(Load) : todo' = [todo EXCEPT ![p] = hits]
        BY <2>4 DEF WatcherLoad, Goto
      <3>2. pc'[p] = "read" /\ led'[p] = Load /\ todo'[p] \subseteq OpenSymbols(Load)
        BY <1>a, <3>1
      <3>3. OpenSymbols(led[p])' = OpenSymbols(Load)
        BY <3>2 DEF OpenSymbols
      <3> QED
        BY <1>c, <3>2, <3>3 DEF WorkOK, SeenOK, SlotsOK, BreakerOK
    <2>5. CASE p \in Trader /\ TraderEntries(p)
      <3>1. /\ pc' = [pc EXCEPT ![p] = "entries"] /\ led' = led
            /\ ~CircuitBreakerTripped(led[p], hour, BreakerLosses)
        BY <2>5 DEF TraderEntries, Goto
      <3>2. PICK cap \in 1..MaxPositions :
               slots' = [slots EXCEPT ![p] = cap - Cardinality(OpenSymbols(led[p]))]
        BY <2>5 DEF TraderEntries
      <3>3. PICK c \in SUBSET (Symbol \ OpenSymbols(led[p])) : todo' = [todo EXCEPT ![p] = c]
        BY <2>5 DEF TraderEntries
      <3>4. /\ pc'[p] = "entries" /\ led'[p] = led[p]
            /\ slots'[p] = cap - Cardinality(OpenSymbols(led[p]))
            /\ todo'[p] \cap OpenSymbols(led[p]) = {}
        BY <1>a, <3>1, <3>2, <3>3
      <3>5. Cardinality(OpenSymbols(led[p])) \in Nat
        BY SymbolAssumption, FS_Subset, FS_CardinalityType DEF OpenSymbols
      <3>6. Cardinality(OpenSymbols(led[p])) + slots'[p] <= MaxPositions
        BY <3>2, <3>4, <3>5, SizeAssumption
      <3>7. OpenSymbols(led[p])' = OpenSymbols(led[p])
        BY <3>4 DEF OpenSymbols
      <3>8. SlotsOK(p)'
        BY <3>4, <3>6, <3>7 DEF SlotsOK
      <3>9. BreakerOK(p)'
        BY <1>1, <1>c, <2>5, <3>1 DEF BreakerOK, CircuitBreakerTripped
      <3> QED
        BY <3>4, <3>8, <3>9 DEF WorkOK, SeenOK
    <2>6. ASSUME NEW s \in Symbol, EntrySkipped(p, s)
          PROVE  WorkOK(p)'
      <3>1. /\ UNCHANGED <<pc, led, slots>> /\ pc[p] = "entries" /\ todo'[p] = todo[p] \ {s}
        BY <1>a, <2>6 DEF EntrySkipped, Entering, Skip
      <3> QED
        BY <1>1, <1>c, <3>1 DEF WorkOK, SeenOK, SlotsOK, BreakerOK, OpenSymbols
    <2>7. ASSUME NEW s \in Symbol, SellRefused(p, s)
          PROVE  WorkOK(p)'
      <3>1. /\ UNCHANGED <<pc, led, seen>> /\ pc[p] = "exits" /\ todo'[p] = todo[p] \ {s}
        BY <1>a, <2>7 DEF SellRefused, Leaving, Skip
      <3>2. \A r \in todo[p] : r \in Symbol
        BY <1>a
      <3>3. SeenOK(p)'
        BY <1>b, <1>c, <3>1, <3>2 DEF WorkOK, SeenOK, OpenSymbols
      <3> QED
        BY <1>c, <3>1, <3>3 DEF WorkOK, SlotsOK, BreakerOK
    <2> QED
      BY <2>1, <2>2, <2>3, <2>4, <2>5, <2>6, <2>7 DEF Moves
  <1> QED
    BY <1>1, <1>2, <1>3, CycleWork

-----------------------------------------------------------------------------
\* A position that is looked at is a lot, and all of it is free to be sold.
LEMMA SellableLot ==
  ASSUME Undisturbed, IInv, WholeOK, ExactOK, NEW p \in Proc, NEW s \in Symbol, WorkOK(p),
         Leaving(p, s)
  PROVE  /\ SellableQty(p, s) = Lot
         /\ free[s] = Lot /\ locked[s] = 0 /\ Held(s) = Lot /\ Current.open[s].qty = Lot
  <1>1. pc[p] = "exits" /\ s \in todo[p]
    BY DEF Leaving
  <1>2. pc[p] \in Locked /\ pc[p] \in Rewriting /\ ~AwaitsFill(p)
    BY <1>1 DEF Locked, Label, Rewriting, Working, AwaitsFill
  <1>3. /\ Current = led[p]
        /\ Current.open[s].qty = Held(s) /\ locked[s] = 0
    BY <1>2, CurrentOf, RestFacts
  <1>4. led[p].open[s].qty > 0
    BY <1>1 DEF WorkOK, SeenOK, OpenSymbols
  <1>5. Held(s) \in {0, Lot} /\ free[s] \in Nat /\ locked[s] \in Nat
    BY DEF WholeOK, IInv, TypeOK
  <1>6. Held(s) = Lot /\ free[s] = Lot
    BY <1>3, <1>4, <1>5, NoFault DEF Held
  <1>7. seen[p][s].qty = Held(s) /\ seen[p][s].free = free[s]
    BY <1>1, <1>2 DEF WorkOK, SeenOK, Awaits
  <1> QED
    BY <1>3, <1>6, <1>7, NoFault DEF SellableQty

\* The trader's load finds the book as exact as the account: reconcile changes no
\* quantity.
LEMMA LoadWork ==
  ASSUME Undisturbed, IInv, IInv', WholeOK, ExactOK, NEW p \in Trader, TraderLoad(p), WorkOK(p)
  PROVE  Still /\ hour' = hour /\ \A q \in Proc : WorkOK(q)'
  <1>0. p \in Proc
    BY DEF Proc
  <1>a. /\ pc \in [Proc -> Label] /\ led \in [Proc -> Book] /\ todo \in [Proc -> SUBSET Symbol]
        /\ disk \in Book /\ seen[p] \in [Symbol -> Balance]
    BY <1>0 DEF IInv, TypeOK
  <1>1. /\ Current = disk
        /\ Current' = Reconcile(disk, seen[p], hour) /\ led'[p] = Current'
        /\ pc[p] = "load" /\ pc' = [pc EXCEPT ![p] = "exits"]
        /\ todo' = [todo EXCEPT ![p] = OpenSymbols(Current')]
        /\ UNCHANGED <<disk, lock, hour, seen, slots, mine, free, locked, orders>>
    BY <1>0, LoadCurrent, NoFault
  <1>2. pc[p] \in Locked /\ ~AwaitsFill(p)
    BY <1>1 DEF Locked, Label, AwaitsFill
  <1>3. \A s \in Symbol : /\ disk.open[s].qty = Held(s)
                          /\ seen[p][s].qty = Held(s) /\ seen[p][s].free = free[s]
    BY <1>0, <1>1, <1>2, RestFacts DEF WorkOK, SeenOK
  <1>4. Current'.closed = Current.closed
    BY <1>1, <1>a DEF Reconcile, Book
  <1>5. \A s \in Symbol : Current'.open[s] = ReconciledPosition(disk.open[s], seen[p][s], hour)
    BY <1>1, <1>a DEF Reconcile, Book
  <1>6. ASSUME NEW s \in Symbol
        PROVE  Current'.open[s].qty = Current.open[s].qty
    <2>1. /\ disk.open[s] \in Position /\ disk.open[s].qty \in Nat
          /\ seen[p][s].qty = disk.open[s].qty
      BY <1>a, <1>3 DEF Book, Position
    <2>2. [disk.open[s] EXCEPT !.qty = seen[p][s].qty].qty = seen[p][s].qty
      BY <2>1 DEF Position
    <2>3. CASE disk.open[s].qty > 0
      <3>1. Current'.open[s] = [disk.open[s] EXCEPT !.qty = seen[p][s].qty]
        BY <1>5, <2>1, <2>3 DEF ReconciledPosition
      <3> QED
        BY <1>1, <2>1, <2>2, <3>1
    <2>4. CASE disk.open[s].qty = 0
      <3>1. Current'.open[s] = NoPos
        <4>1. ~(disk.open[s].qty > 0) /\ ~(seen[p][s].qty > 0)
          BY <2>1, <2>4
        <4>2. ReconciledPosition(disk.open[s], seen[p][s], hour) = NoPos
          BY <4>1, Zenon DEF ReconciledPosition
        <4> QED
          BY <1>5, <4>2
      <3> QED
        BY <1>1, <2>4, <3>1 DEF NoPos
    <2> QED
      BY <2>1, <2>3, <2>4
  <1>7. /\ pc'[p] = "exits" /\ todo'[p] = OpenSymbols(led'[p])
        /\ \A q \in Proc \ {p} : pc'[q] = pc[q]
    BY <1>0, <1>1, <1>a
  <1>8. Still
    BY <1>1, <1>4, <1>6, <1>7 DEF Still, AwaitsFill
  <1>9. SeenOK(p)'
    <2>1. OpenSymbols(led[p])' = todo'[p] /\ todo'[p] \subseteq Symbol
      BY <1>7 DEF OpenSymbols
    <2>2. \A s \in Symbol : /\ seen'[p][s].qty = Held(s)'
                            /\ seen'[p][s].free = free'[s]
      BY <1>1, <1>3 DEF Held
    <2> QED
      BY <1>7, <2>1, <2>2 DEF SeenOK
  <1>10. WorkOK(p)'
    BY <1>7, <1>9 DEF WorkOK, SlotsOK, BreakerOK, AwaitsFill
  <1> QED
    BY <1>0, <1>1, <1>7, <1>8, <1>10, CycleWork DEF Locked, Label

\* A position that is held on to keeps its quantity.
LEMMA HoldWork ==
  ASSUME IInv, IInv', NEW p \in Proc, NEW s \in Symbol, TraderHold(p, s), WorkOK(p)
  PROVE  Still /\ hour' = hour /\ \A q \in Proc : WorkOK(q)'
  <1>a. /\ pc \in [Proc -> Label] /\ led \in [Proc -> Book] /\ todo \in [Proc -> SUBSET Symbol]
        /\ led[p] \in Book
    BY DEF IInv, TypeOK
  <1>1. /\ pc[p] = "exits" /\ Skip(p, s)
        /\ UNCHANGED <<lock, hour, pc, seen, slots, mine, free, locked, orders>>
    BY DEF TraderHold, file, exchange
  <1>2. PICK stop : led' = [led EXCEPT ![p] = UpdatePosition(led[p], s, stop)]
    BY DEF TraderHold
  <1>3. led'[p] = UpdatePosition(led[p], s, stop)
    BY <1>a, <1>2
  <1>4. /\ led'[p].closed = led[p].closed
        /\ led'[p].open = [led[p].open EXCEPT ![s] = [led[p].open[s] EXCEPT !.stop = stop]]
    BY <1>a, <1>3 DEF UpdatePosition, Book
  <1>5. \A r \in Symbol : led'[p].open[r].qty = led[p].open[r].qty
    <2>1. \A r \in Symbol : led[p].open[r] \in Position /\ led[p].open \in [Symbol -> Position]
      BY <1>a DEF Book
    <2>2. [led[p].open[s] EXCEPT !.stop = stop].qty = led[p].open[s].qty
      BY <2>1 DEF Position
    <2> QED
      BY <1>4, <2>1, <2>2
  <1>6. Current = led[p] /\ Current' = led'[p]
    BY <1>1, WorkCurrent DEF Rewriting, Working
  <1>7. Still
    BY <1>1, <1>4, <1>5, <1>6 DEF Still, AwaitsFill
  <1>8. todo'[p] = todo[p] \ {s} /\ todo[p] \subseteq Symbol
    BY <1>a, <1>1 DEF Skip
  <1>9. SeenOK(p)'
    <2>1. OpenSymbols(led[p])' = OpenSymbols(led[p])
      BY <1>5 DEF OpenSymbols
    <2>2. \A r \in todo[p] : seen[p][r].qty = Held(r) /\ seen[p][r].free = free[r]
      BY <1>1 DEF WorkOK, SeenOK, Awaits, AwaitsFill
    <2>3. \A r : Held(r)' = Held(r)
      BY <1>1 DEF Held
    <2> QED
      BY <1>1, <1>8, <2>1, <2>2, <2>3 DEF SeenOK, WorkOK
  <1>10. WorkOK(p)'
    BY <1>1, <1>9 DEF WorkOK, SlotsOK, BreakerOK, AwaitsFill
  <1> QED
    BY <1>1, <1>7, <1>10, CycleWork DEF Locked, Label

-----------------------------------------------------------------------------
(***************************************************************************)
(* The steps that move coins or book them.                                 *)
(***************************************************************************)

\* A new order is whole, lives, and is the last one.
LEMMA NewOrderFacts ==
  ASSUME Undisturbed, IInv, NEW side \in {"buy", "sell"}, NEW s \in Symbol, NEW loss \in BOOLEAN,
         Accept(side, s, Lot, loss)
  PROVE  LET o == orders'[Len(orders')]
         IN  /\ orders' = Append(orders, o)
             /\ Len(orders') = Len(orders) + 1 /\ DOMAIN orders' = 1..Len(orders')
             /\ \A i \in DOMAIN orders : orders'[i] = orders[i]
             /\ o \in Order /\ Live(o) /\ o.side = side /\ o.symbol = s /\ o.qty = Lot
             /\ o.filled = 0 /\ o.hour = hour
  <1> DEFINE n == [side |-> side, symbol |-> s, qty |-> Lot, filled |-> 0,
                   cancelled |-> FALSE, loss |-> loss, hour |-> hour]
  <1>1. orders \in Seq(Order) /\ orders' = Append(orders, n) /\ hour \in Nat
    BY DEF Accept, IInv, TypeOK
  <1>2. n \in Order /\ Live(n)
    BY <1>1, NoFault DEF Order, Live
  <1>3. /\ n.side = side /\ n.symbol = s /\ n.qty = Lot /\ n.filled = 0 /\ n.hour = hour
    OBVIOUS
  <1> HIDE DEF n
  <1>4. /\ Len(orders') = Len(orders) + 1 /\ DOMAIN orders' = 1..Len(orders')
        /\ \A i \in DOMAIN orders : orders'[i] = orders[i]
        /\ orders'[Len(orders')] = n
    BY <1>1, <1>2
  <1> QED
    BY <1>1, <1>2, <1>3, <1>4

\* A sale that is accepted sets the coins of its position aside.
LEMMA SellWork ==
  ASSUME Undisturbed, IInv, IInv', WholeOK, ExactOK, BookedOK, NEW p \in Proc, NEW s \in Symbol,
         WorkOK(p), SellAccepted(p, s)
  PROVE  /\ WholeOK' /\ ExactOK' /\ BookedOK' /\ hour' = hour
         /\ Current' = Current /\ \A q \in Proc : WorkOK(q)'
  <1>a. /\ pc \in [Proc -> Label] /\ mine \in [Proc -> Nat] /\ orders \in Seq(Order)
        /\ free \in [Symbol -> Nat] /\ locked \in [Symbol -> Nat] /\ Lot \in Nat
        /\ todo \in [Proc -> SUBSET Symbol] /\ led[p] \in Book /\ hour \in Nat
    BY NoFault DEF IInv, TypeOK
  <1>1. /\ Leaving(p, s) /\ pc[p] = "exits" /\ pc' = [pc EXCEPT ![p] = "selling"]
        /\ mine' = [mine EXCEPT ![p] = Len(orders')]
        /\ UNCHANGED <<disk, lock, hour, led, seen, todo, slots>>
    BY DEF SellAccepted, Leaving, Goto, file
  <1>2. /\ SellableQty(p, s) = Lot
        /\ free[s] = Lot /\ locked[s] = 0 /\ Held(s) = Lot /\ Current.open[s].qty = Lot
    BY <1>1, SellableLot
  <1>3. PICK loss \in BOOLEAN : Accept("sell", s, Lot, loss)
    BY <1>2 DEF SellAccepted
  <1> DEFINE o == orders'[Len(orders')]
  <1>4. /\ orders' = Append(orders, o)
        /\ Len(orders') = Len(orders) + 1 /\ DOMAIN orders' = 1..Len(orders')
        /\ \A i \in DOMAIN orders : orders'[i] = orders[i]
        /\ o \in Order /\ Live(o) /\ o.side = "sell" /\ o.symbol = s /\ o.qty = Lot
        /\ o.filled = 0 /\ o.hour = hour
    BY <1>3, NewOrderFacts
  <1> HIDE DEF o
  <1>5. pc'[p] = "selling" /\ mine'[p] = Len(orders') /\ orders'[mine'[p]] = o /\ AwaitsFill(p)'
    BY <1>a, <1>1 DEF o, AwaitsFill
  <1>6. /\ free' = [free EXCEPT ![s] = free[s] - Lot]
        /\ locked' = [locked EXCEPT ![s] = locked[s] + Lot]
    BY <1>3 DEF Accept
  <1>7. /\ free'[s] = 0 /\ locked'[s] = Lot
        /\ \A r \in Symbol : r # s => free'[r] = free[r] /\ locked'[r] = locked[r]
    BY <1>a, <1>2, <1>6
  <1>8. \A r \in Symbol : Held(r)' = Held(r)
    BY <1>a, <1>2, <1>7 DEF Held
  <1>9. /\ pc[p] \in Locked /\ ~AwaitsFill(p) /\ pc'[p] \in Locked
        /\ pc[p] \in Rewriting /\ pc'[p] \in Rewriting
    BY <1>1, <1>5 DEF Locked, Label, AwaitsFill, Rewriting, Working
  <1>10. /\ \A q \in Proc : ~AwaitsFill(q)
         /\ \A j \in DOMAIN orders : ~Live(orders[j])
         /\ \A r \in Symbol : Current.open[r].qty = Held(r) /\ locked[r] = 0
    BY <1>9, RestFacts
  <1>11. Current = led[p] /\ Current' = Current
    BY <1>1, <1>9, WorkCurrent
  <1>12. WholeOK' /\ ExactOK'
    <2>1. \A i \in DOMAIN orders' :
             /\ orders'[i].qty = Lot /\ orders'[i].filled \in {0, Lot}
             /\ Live(orders'[i]) => i = mine'[p]
      <3> SUFFICES ASSUME NEW i \in DOMAIN orders'
                   PROVE  /\ orders'[i].qty = Lot /\ orders'[i].filled \in {0, Lot}
                          /\ Live(orders'[i]) => i = mine'[p]
        OBVIOUS
      <3>1. CASE i \in DOMAIN orders
        BY <1>4, <1>10, <3>1 DEF WholeOK
      <3>2. CASE i = Len(orders')
        BY <1>4, <1>5, <3>2 DEF o
      <3> QED
        BY <1>a, <1>4, <3>1, <3>2
    <2>2. \A r \in Symbol : /\ Held(r)' \in {0, Lot}
                            /\ r # s => Current'.open[r].qty = Held(r)' /\ locked'[r] = 0
      BY <1>7, <1>8, <1>10, <1>11 DEF WholeOK
    <2>3. /\ Current'.open[s].qty = Lot /\ Held(s)' = Lot - o.filled
          /\ locked'[s] = IF Live(o) THEN Lot ELSE 0
      BY <1>a, <1>2, <1>4, <1>7, <1>8, <1>11
    <2> QED
      BY <1>4, <1>5, <2>1, <2>2, <2>3, WaitMade
  <1>13. ASSUME NEW kind \in SUBSET Sales
         PROVE  Settled(kind)' = Settled(kind)
    <2>1. o \notin kind
      BY <1>4 DEF Sales
    <2>2. CountIn(orders', kind) = CountIn(orders, kind) /\ CountIn(orders, kind) \in Nat
      <3>1. CountIn(orders, kind) \in Nat
        BY <1>a, CountType
      <3>2. CountIn(Append(orders, o), kind) = CountIn(orders, kind) + IF o \in kind THEN 1 ELSE 0
        BY <1>a, <1>4, CountAppend
      <3>3. CountIn(orders', kind) = CountIn(Append(orders, o), kind)
        BY <1>4
      <3> QED
        BY <2>1, <3>1, <3>2, <3>3
    <2>3. Unbooked(kind) = 0 /\ Unbooked(kind)' = 0
      BY <1>5, <1>10, <2>1, UnbookedOf, UnbookedNext
    <2> QED
      BY <2>2, <2>3 DEF Settled, CountIn
  <1>14. BookedOK'
    BY <1>11, <1>13, BooksSame
  <1>15. WorkOK(p)'
    <2>1. \A r \in todo[p] : seen[p][r].qty = Held(r) /\ seen[p][r].free = free[r] /\ r \in Symbol
      BY <1>a, <1>1, <1>10 DEF WorkOK, SeenOK, Awaits
    <2>2. \A r \in todo[p] : Awaits(p, r)' \/ (seen[p][r].qty = Held(r)' /\ seen[p][r].free = free'[r])
      BY <1>4, <1>5, <1>7, <1>8, <2>1 DEF Awaits
    <2>3. SeenOK(p)'
      BY <1>1, <1>5, <2>2 DEF WorkOK, SeenOK, OpenSymbols
    <2>4. BreakerOK(p)'
      BY <1>a, <1>1, <1>4, <1>5 DEF BreakerOK
    <2> QED
      BY <1>5, <2>3, <2>4 DEF WorkOK, SlotsOK
  <1> QED
    BY <1>1, <1>9, <1>11, <1>12, <1>14, <1>15, CycleWork

\* An entry that is accepted is of a coin that is neither held nor in the book.
LEMMA BuyWork ==
  ASSUME Undisturbed, IInv, IInv', WholeOK, ExactOK, BookedOK, NEW p \in Proc, NEW s \in Symbol,
         WorkOK(p), BuyAccepted(p, s)
  PROVE  /\ WholeOK' /\ ExactOK' /\ BookedOK' /\ hour' = hour
         /\ OpenSymbols(Current)' = OpenSymbols(Current) /\ \A q \in Proc : WorkOK(q)'
  <1>a. /\ pc \in [Proc -> Label] /\ mine \in [Proc -> Nat] /\ orders \in Seq(Order)
        /\ led \in [Proc -> Book] /\ Lot \in Nat
        /\ todo \in [Proc -> SUBSET Symbol] /\ led[p] \in Book /\ hour \in Nat
    BY NoFault DEF IInv, TypeOK
  <1>1. /\ Entering(p, s) /\ pc[p] = "entries" /\ pc' = [pc EXCEPT ![p] = "buying"]
        /\ s \in todo[p]
        /\ mine' = [mine EXCEPT ![p] = Len(orders')]
        /\ led' = [led EXCEPT ![p] = RecordEntryAttempt(led[p], s, hour)]
        /\ Accept("buy", s, Lot, FALSE)
        /\ UNCHANGED <<disk, lock, hour, seen, todo, slots>>
    BY DEF BuyAccepted, Entering, Goto, file
  <1> DEFINE o == orders'[Len(orders')]
  <1>4. /\ orders' = Append(orders, o)
        /\ Len(orders') = Len(orders) + 1 /\ DOMAIN orders' = 1..Len(orders')
        /\ \A i \in DOMAIN orders : orders'[i] = orders[i]
        /\ o \in Order /\ Live(o) /\ o.side = "buy" /\ o.symbol = s /\ o.qty = Lot
        /\ o.filled = 0 /\ o.hour = hour
    BY <1>1, NewOrderFacts
  <1> HIDE DEF o
  <1>5. pc'[p] = "buying" /\ mine'[p] = Len(orders') /\ orders'[mine'[p]] = o /\ AwaitsFill(p)'
    BY <1>a, <1>1 DEF o, AwaitsFill
  <1>6. free' = free /\ locked' = locked /\ \A r : Held(r)' = Held(r)
    BY <1>1 DEF Accept, Held
  <1>9. /\ pc[p] \in Locked /\ ~AwaitsFill(p) /\ pc'[p] \in Locked
        /\ pc[p] \in Rewriting /\ pc'[p] \in Rewriting
    BY <1>1, <1>5 DEF Locked, Label, AwaitsFill, Rewriting, Working
  <1>10. /\ \A q \in Proc : ~AwaitsFill(q)
         /\ \A j \in DOMAIN orders : ~Live(orders[j])
         /\ \A r \in Symbol : Current.open[r].qty = Held(r) /\ locked[r] = 0
    BY <1>9, RestFacts
  <1>11. Current = led[p] /\ Current' = led'[p]
    BY <1>1, <1>9, WorkCurrent
  <1>b. led'[p] = RecordEntryAttempt(led[p], s, hour)
    BY <1>a, <1>1
  <1>c. led'[p].open = led[p].open /\ led'[p].closed = led[p].closed
    BY <1>a, <1>b DEF RecordEntryAttempt, Book
  <1>d. OpenSymbols(Current)' = OpenSymbols(Current) /\ OpenSymbols(led[p])' = OpenSymbols(led[p])
    BY <1>c, <1>11 DEF OpenSymbols
  <1>2. Current.open[s].qty = 0
    <2>1. s \notin OpenSymbols(led[p])
      BY <1>1 DEF WorkOK, SlotsOK
    <2>2. led[p].open[s].qty \in Nat
      BY <1>a DEF Book, Position
    <2> QED
      BY <1>11, <2>1, <2>2 DEF OpenSymbols
  <1>12. WholeOK' /\ ExactOK'
    <2>1. \A i \in DOMAIN orders' :
             /\ orders'[i].qty = Lot /\ orders'[i].filled \in {0, Lot}
             /\ Live(orders'[i]) => i = mine'[p]
      <3> SUFFICES ASSUME NEW i \in DOMAIN orders'
                   PROVE  /\ orders'[i].qty = Lot /\ orders'[i].filled \in {0, Lot}
                          /\ Live(orders'[i]) => i = mine'[p]
        OBVIOUS
      <3>1. CASE i \in DOMAIN orders
        BY <1>4, <1>10, <3>1 DEF WholeOK
      <3>2. CASE i = Len(orders')
        BY <1>4, <1>5, <3>2 DEF o
      <3> QED
        BY <1>a, <1>4, <3>1, <3>2
    <2>2. \A r \in Symbol : /\ Held(r)' \in {0, Lot}
                            /\ r # s => Current'.open[r].qty = Held(r)' /\ locked'[r] = 0
      BY <1>6, <1>10, <1>11, <1>c DEF WholeOK
    <2>3. /\ Current'.open[s].qty = 0 /\ Held(s)' = o.filled /\ locked'[s] = 0
      BY <1>2, <1>4, <1>6, <1>10, <1>11, <1>c
    <2> QED
      BY <1>4, <1>5, <2>1, <2>2, <2>3, WaitMade
  <1>13. ASSUME NEW kind \in SUBSET Sales
         PROVE  Settled(kind)' = Settled(kind)
    <2>1. o \notin kind
      BY <1>4 DEF Sales
    <2>2. CountIn(orders', kind) = CountIn(orders, kind) /\ CountIn(orders, kind) \in Nat
      <3>1. CountIn(orders, kind) \in Nat
        BY <1>a, CountType
      <3>2. CountIn(Append(orders, o), kind) = CountIn(orders, kind) + IF o \in kind THEN 1 ELSE 0
        BY <1>a, <1>4, CountAppend
      <3>3. CountIn(orders', kind) = CountIn(Append(orders, o), kind)
        BY <1>4
      <3> QED
        BY <2>1, <3>1, <3>2, <3>3
    <2>3. Unbooked(kind) = 0 /\ Unbooked(kind)' = 0
      BY <1>5, <1>10, <2>1, UnbookedOf, UnbookedNext
    <2> QED
      BY <2>2, <2>3 DEF Settled, CountIn
  <1>14. BookedOK'
    BY <1>11, <1>13, <1>c, BooksSame
  <1>15. WorkOK(p)'
    <2>1. SlotsOK(p)'
      BY <1>1, <1>5, <1>d DEF WorkOK, SlotsOK
    <2>2. ~CircuitBreakerTripped(led'[p], hour, BreakerLosses) /\ p \in Trader
      BY <1>1, <1>c DEF WorkOK, BreakerOK, CircuitBreakerTripped
    <2>3. BreakerOK(p)'
      BY <1>a, <1>1, <1>4, <1>5, <2>2 DEF BreakerOK, CircuitBreakerTripped
    <2> QED
      BY <1>5, <2>1, <2>3 DEF WorkOK, SeenOK
  <1> QED
    BY <1>1, <1>9, <1>12, <1>14, <1>15, <1>d, CycleWork

\* An order that lives is waited for, has not traded, and its coins are set aside.
LEMMA LiveFacts ==
  ASSUME Undisturbed, IInv, WholeOK, ExactOK, NEW i \in DOMAIN orders, Live(orders[i])
  PROVE  LET o == orders[i]
             s == o.symbol
         IN  /\ \E p \in Proc : AwaitsFill(p) /\ mine[p] = i
             /\ o \in Order /\ s \in Symbol /\ o.qty = Lot /\ o.filled = 0
             /\ o.side = "sell" => /\ Current.open[s].qty = Lot
                                   /\ free[s] = 0 /\ locked[s] = Lot
             /\ o.side # "sell" => /\ o.side = "buy" /\ Current.open[s].qty = 0
                                   /\ free[s] = 0 /\ locked[s] = 0
  <1> DEFINE o == orders[i]
             s == o.symbol
  <1>1. PICK p \in Proc : AwaitsFill(p) /\ mine[p] = i
    BY DEF WholeOK
  <1>2. o \in Order /\ s \in Symbol /\ o.side \in {"buy", "sell"}
    <2>1. o \in Order
      BY HourTypes
    <2> QED
      BY <2>1 DEF Order
  <1>3. o.qty = Lot /\ o.filled = 0
    BY NoFault DEF WholeOK, Live
  <1>4. (o.side = "sell" <=> pc[p] = "selling")
    BY <1>1 DEF IInv, WaitOK
  <1>5. WaitExact(p) /\ free[s] \in Nat /\ locked[s] \in Nat
    BY <1>1, <1>2 DEF ExactOK, IInv, TypeOK
  <1>6. CASE o.side = "sell"
    <2>1. Current.open[s].qty = Lot /\ Held(s) = Lot - 0 /\ locked[s] = Lot
      BY <1>1, <1>3, <1>4, <1>5, <1>6 DEF WaitExact
    <2>2. free[s] = 0
      BY <1>5, <2>1, NoFault DEF Held
    <2> QED
      BY <1>1, <1>2, <1>3, <1>6, <2>1, <2>2
  <1>7. CASE o.side = "buy"
    <2>1. Current.open[s].qty = 0 /\ Held(s) = 0 /\ locked[s] = 0
      BY <1>1, <1>3, <1>4, <1>5, <1>7 DEF WaitExact
    <2>2. free[s] = 0
      BY <1>5, <2>1 DEF Held
    <2> QED
      BY <1>1, <1>2, <1>3, <1>7, <2>1, <2>2
  <1> QED
    BY <1>2, <1>6, <1>7

\* When the exchange is done with an order, its waiter still has to book it.
LEMMA OverWork ==
  ASSUME Undisturbed, IInv, IInv', WholeOK, ExactOK, BookedOK, \A q \in Proc : WorkOK(q),
         NEW i \in DOMAIN orders, Live(orders[i]), NEW n \in Order,
         orders' = [orders EXCEPT ![i] = n], ~Live(n),
         n.side = orders[i].side, n.symbol = orders[i].symbol, n.hour = orders[i].hour,
         n.qty = orders[i].qty, n.filled \in {0, Lot},
         NEW s \in Symbol, s = orders[i].symbol,
         \A r \in Symbol : r # s => free'[r] = free[r] /\ locked'[r] = locked[r],
         locked'[s] = 0, free'[s] = IF n.side = "sell" THEN Lot - n.filled ELSE n.filled,
         UNCHANGED <<disk, lock, hour, pc, led, seen, todo, slots, mine>>
  PROVE  /\ WholeOK' /\ ExactOK' /\ BookedOK' /\ Current' = Current
         /\ \A q \in Proc : WorkOK(q)'
  <1>1. /\ orders[i] \in Order /\ orders[i].qty = Lot /\ orders[i].filled = 0
        /\ orders[i].side = "sell" => Current.open[s].qty = Lot
        /\ orders[i].side # "sell" => Current.open[s].qty = 0
        /\ orders[i].side \in {"buy", "sell"}
    BY LiveFacts DEF Order
  <1>2. PICK p \in Proc : AwaitsFill(p) /\ mine[p] = i
    BY LiveFacts
  <1>3. /\ \A q \in Proc : AwaitsFill(q) => q = p
        /\ \A j \in DOMAIN orders : Live(orders[j]) => j = i
        /\ \A r \in Symbol : r # s => Current.open[r].qty = Held(r) /\ locked[r] = 0
    BY <1>2, WaitFacts
  <1>4. (n.side = "sell" <=> pc[p] = "selling")
    BY <1>2 DEF IInv, WaitOK
  <1>5. /\ DOMAIN orders' = DOMAIN orders /\ orders'[i] = n /\ orders' \in Seq(Order)
        /\ \A j \in DOMAIN orders \ {i} : orders'[j] = orders[j]
        /\ orders \in Seq(Order)
    BY DEF IInv, TypeOK
  <1>6. /\ Current' = Current /\ AwaitsFill(p)' /\ mine'[p] = i /\ orders'[mine'[p]] = n
        /\ \A q \in Proc : AwaitsFill(q)' <=> AwaitsFill(q)
    BY <1>2, <1>5 DEF Current, AwaitsFill
  <1>7. /\ Held(s)' = IF pc'[p] = "selling" THEN Lot - n.filled ELSE n.filled
        /\ \A r \in Symbol : r # s => Held(r)' = Held(r)
    <2>1. locked'[s] = 0 /\ free'[s] \in Nat
      BY DEF IInv, TypeOK
    <2>2. Held(s)' = free'[s]
      BY <2>1 DEF Held
    <2> QED
      BY <1>4, <2>2 DEF Held
  <1>8. WholeOK' /\ ExactOK'
    <2>1. \A j \in DOMAIN orders' :
            /\ orders'[j].qty = Lot /\ orders'[j].filled \in {0, Lot}
            /\ Live(orders'[j]) => j = mine'[p]
      BY <1>1, <1>3, <1>5, <1>6 DEF WholeOK
    <2>2. \A r \in Symbol : /\ Held(r)' \in {0, Lot}
                            /\ r # s => Current'.open[r].qty = Held(r)' /\ locked'[r] = 0
      <3>1. Held(s)' \in {0, Lot}
        BY <1>7, NoFault
      <3>2. \A r \in Symbol : r # s => Held(r)' \in {0, Lot}
        BY <1>7 DEF WholeOK
      <3> QED
        BY <1>3, <1>6, <1>7, <3>1, <3>2
    <2>3. IF pc'[p] = "selling"
          THEN /\ Current'.open[s].qty = Lot
               /\ Held(s)' = Lot - n.filled
               /\ locked'[s] = IF Live(n) THEN Lot ELSE 0
          ELSE /\ Current'.open[s].qty = 0
               /\ Held(s)' = n.filled
               /\ locked'[s] = 0
      BY <1>1, <1>4, <1>6, <1>7
    <2> QED
      BY <1>6, <2>1, <2>2, <2>3, WaitMade
  <1>9. ASSUME NEW kind \in SUBSET Sales
        PROVE  Settled(kind)' = Settled(kind)
    <2>1. orders[i] \notin kind /\ (n \in kind => n.side = "sell")
      BY <1>1 DEF Sales
    <2>2. /\ CountIn(orders, kind) \in Nat
          /\ CountIn(orders', kind) = CountIn(orders, kind) + IF n \in kind THEN 1 ELSE 0
      <3>1. PICK seq \in Seq(Order), new \in Seq(Order) : seq = orders /\ new = orders'
        BY <1>5
      <3>2. /\ i \in DOMAIN seq /\ DOMAIN new = DOMAIN seq /\ new[i] = n /\ seq[i] \notin kind
            /\ \A j \in DOMAIN seq \ {i} : new[j] = seq[j]
        BY <1>5, <2>1, <3>1
      <3>3. CountIn(new, kind) = CountIn(seq, kind) + IF new[i] \in kind THEN 1 ELSE 0
        BY <3>2, CountChange
      <3>4. CountIn(seq, kind) \in Nat
        BY CountType
      <3> QED
        BY <3>1, <3>2, <3>3, <3>4
    <2>3. Unbooked(kind) = 0
      BY <1>2, <2>1, UnbookedOf
    <2>4. Unbooked(kind)' = IF n \in kind THEN 1 ELSE 0
      <3>1. Unbooked(kind)' = IF pc'[p] = "selling" /\ n \in kind THEN 1 ELSE 0
        BY <1>6, UnbookedNext
      <3> QED
        BY <1>4, <2>1, <3>1
    <2>5. CountIn(orders, kind)' = CountIn(orders', kind)
      BY DEF CountIn
    <2> QED
      BY <2>2, <2>3, <2>4, <2>5 DEF Settled
  <1>10. BookedOK'
    BY <1>6, <1>9, BooksSame
  <1>11. WorkOK(p)'
    <2>1. todo[p] \subseteq Symbol
      BY DEF IInv, TypeOK
    <2>2. SeenOK(p)'
      <3>1. \A r \in Symbol : r # s => Held(r)' = Held(r) /\ free'[r] = free[r] /\ ~Awaits(p, r)
        BY <1>2, <1>7 DEF Awaits
      <3>2. Awaits(p, s)'
        BY <1>6 DEF Awaits
      <3>3. pc[p] # "load"
        BY <1>2 DEF AwaitsFill
      <3> QED
        BY <2>1, <3>1, <3>2, <3>3 DEF WorkOK, SeenOK, OpenSymbols
    <2>3. SlotsOK(p)'
      BY DEF WorkOK, SlotsOK, OpenSymbols
    <2>4. BreakerOK(p)'
      BY <1>2, <1>6 DEF WorkOK, BreakerOK
    <2> QED
      BY <2>2, <2>3, <2>4 DEF WorkOK
  <1>12. pc'[p] \in Locked
    BY <1>6 DEF AwaitsFill, Locked, Label
  <1> QED
    BY <1>6, <1>8, <1>10, <1>11, <1>12, CycleWork

\* The exchange fills or rejects an order.
LEMMA ExchangeWork ==
  ASSUME Undisturbed, IInv, IInv', WholeOK, ExactOK, BookedOK, \A q \in Proc : WorkOK(q),
         ExchangeStep
  PROVE  /\ WholeOK' /\ ExactOK' /\ BookedOK' /\ Current' = Current /\ hour' = hour
         /\ \A q \in Proc : WorkOK(q)'
  <1>1. PICK i \in DOMAIN orders : Fill(i) \/ Reject(i)
    BY NoFault DEF ExchangeStep, PartialFill, OwnerTrades
  <1>2. Live(orders[i]) /\ UNCHANGED <<disk, lock, hour, pc, led, seen, todo, slots, mine>>
    BY <1>1 DEF Fill, Reject, Withdraw, file, local
  <1> DEFINE o == orders[i]
             s == o.symbol
  <1>3. /\ o \in Order /\ s \in Symbol /\ o.qty = Lot /\ o.filled = 0
        /\ o.side = "sell" => free[s] = 0 /\ locked[s] = Lot
        /\ o.side # "sell" => free[s] = 0 /\ locked[s] = 0
    BY <1>2, LiveFacts
  <1>4. /\ free \in [Symbol -> Nat] /\ locked \in [Symbol -> Nat] /\ Lot \in Nat /\ Lot > 0
        /\ orders \in Seq(Order)
    BY NoFault DEF IInv, TypeOK
  <1>5. \E n \in Order :
           /\ orders' = [orders EXCEPT ![i] = n] /\ ~Live(n)
           /\ n.side = o.side /\ n.symbol = o.symbol /\ n.hour = o.hour /\ n.qty = o.qty
           /\ n.filled \in {0, Lot}
           /\ \A r \in Symbol : r # s => free'[r] = free[r] /\ locked'[r] = locked[r]
           /\ locked'[s] = 0
           /\ free'[s] = IF n.side = "sell" THEN Lot - n.filled ELSE n.filled
    <2>1. CASE Fill(i)
      <3> DEFINE n == [o EXCEPT !.filled = Lot]
      <3>1. Execute(i, Lot)
        BY <1>3, <1>4, <2>1 DEF Fill
      <3>2. orders' = [orders EXCEPT ![i] = n]
        <4>1. orders' = [orders EXCEPT ![i] = [o EXCEPT !.filled = o.filled + Lot]]
          BY <1>3, <1>4, <3>1 DEF Execute, Order
        <4>2. o.filled + Lot = Lot
          BY <1>3, <1>4
        <4> QED
          BY <4>1, <4>2
      <3>3. /\ n.side = o.side /\ n.symbol = o.symbol /\ n.hour = o.hour /\ n.qty = o.qty
            /\ n.filled = Lot /\ n.cancelled = o.cancelled
        BY <1>3 DEF Order
      <3>4. n \in Order
        BY <1>3, <1>4, FilledType
      <3> HIDE DEF n
      <3>5. ~Live(n)
        BY <1>3, <1>4, <3>3 DEF Live
      <3>6. CASE o.side = "sell"
        <4>1. locked' = [locked EXCEPT ![s] = locked[s] - Lot] /\ free' = free
          BY <3>1, <3>6 DEF Execute
        <4>2. locked'[s] = 0 /\ free'[s] = 0 /\ Lot - n.filled = 0
          BY <1>3, <1>4, <3>3, <3>6, <4>1
        <4>3. \A r \in Symbol : r # s => free'[r] = free[r] /\ locked'[r] = locked[r]
          BY <1>3, <1>4, <4>1
        <4>4. n.filled \in {0, Lot} /\ n.side = "sell"
          BY <3>3, <3>6
        <4> HIDE DEF s, o
        <4> QED
          BY <3>2, <3>3, <3>4, <3>5, <4>2, <4>3, <4>4
      <3>7. CASE o.side # "sell"
        <4>1. free' = [free EXCEPT ![s] = free[s] + Lot] /\ locked' = locked
          BY <3>1, <3>7 DEF Execute
        <4>2. locked'[s] = 0 /\ free'[s] = n.filled
          BY <1>3, <1>4, <3>3, <3>7, <4>1
        <4>3. \A r \in Symbol : r # s => free'[r] = free[r] /\ locked'[r] = locked[r]
          BY <1>3, <1>4, <4>1
        <4>4. n.filled \in {0, Lot} /\ n.side # "sell"
          BY <3>3, <3>7
        <4> HIDE DEF s, o
        <4> QED
          BY <3>2, <3>3, <3>4, <3>5, <4>2, <4>3, <4>4
      <3> QED
        BY <3>6, <3>7
    <2>2. CASE Reject(i)
      <3> DEFINE n == [o EXCEPT !.cancelled = TRUE]
      <3>1. Withdraw(i)
        BY <2>2 DEF Reject
      <3>2. orders' = [orders EXCEPT ![i] = n]
        BY <1>3, <1>4, <3>1 DEF Withdraw, Order
      <3>3. /\ n.side = o.side /\ n.symbol = o.symbol /\ n.hour = o.hour /\ n.qty = o.qty
            /\ n.filled = 0 /\ n.cancelled /\ n \in Order
        BY <1>3 DEF Order
      <3> HIDE DEF n
      <3>5. ~Live(n)
        BY <3>3 DEF Live
      <3>6. CASE o.side = "sell"
        <4>1. /\ locked' = [locked EXCEPT ![s] = locked[s] - (o.qty - o.filled)]
              /\ free' = [free EXCEPT ![s] = free[s] + (o.qty - o.filled)]
          BY <3>1, <3>6 DEF Withdraw
        <4>2. locked'[s] = 0 /\ free'[s] = Lot /\ Lot - n.filled = Lot
          BY <1>3, <1>4, <3>3, <3>6, <4>1
        <4>3. \A r \in Symbol : r # s => free'[r] = free[r] /\ locked'[r] = locked[r]
          BY <1>3, <1>4, <4>1
        <4>4. n.filled \in {0, Lot} /\ n.side = "sell"
          BY <3>3, <3>6
        <4> HIDE DEF s, o
        <4> QED
          BY <3>2, <3>3, <3>5, <4>2, <4>3, <4>4
      <3>7. CASE o.side # "sell"
        <4>1. free' = free /\ locked' = locked
          BY <3>1, <3>7 DEF Withdraw
        <4> QED
          BY <1>3, <1>4, <3>2, <3>3, <3>5, <3>7, <4>1
      <3> QED
        BY <3>6, <3>7
    <2> QED
      BY <1>1, <2>1, <2>2
  <1>6. PICK n \in Order :
           /\ orders' = [orders EXCEPT ![i] = n] /\ ~Live(n)
           /\ n.side = o.side /\ n.symbol = o.symbol /\ n.hour = o.hour /\ n.qty = o.qty
           /\ n.filled \in {0, Lot}
           /\ \A r \in Symbol : r # s => free'[r] = free[r] /\ locked'[r] = locked[r]
           /\ locked'[s] = 0
           /\ free'[s] = IF n.side = "sell" THEN Lot - n.filled ELSE n.filled
    BY <1>5
  <1> QED
    BY <1>2, <1>3, <1>6, OverWork

\* A process that stops waiting: the account and its book agree on the coin again.
LEMMA ResumeWork ==
  ASSUME Undisturbed, IInv, IInv', WholeOK, ExactOK, NEW p \in Proc, AwaitsFill(p), Resume(p),
         WorkOK(p), UNCHANGED <<lock, hour, seen>>,
         NEW s \in Symbol, s = orders[mine[p]].symbol,
         \A i \in DOMAIN orders' :
            orders'[i].qty = Lot /\ orders'[i].filled \in {0, Lot} /\ ~Live(orders'[i]),
         \A r \in Symbol : r # s => /\ free'[r] = free[r] /\ locked'[r] = locked[r]
                                    /\ led'[p].open[r].qty = led[p].open[r].qty,
         Held(s)' \in {0, Lot}, led'[p].open[s].qty = Held(s)', locked'[s] = 0,
         pc[p] = "buying" =>
            /\ Cardinality(OpenSymbols(led[p]))' + slots'[p] <= MaxPositions
            /\ led'[p].closed = led[p].closed
  PROVE  /\ WholeOK' /\ ExactOK' /\ Current = led[p] /\ Current' = led'[p]
         /\ (\A q \in Proc : ~AwaitsFill(q)') /\ \A q \in Proc : WorkOK(q)'
  <1>a. pc \in [Proc -> Label] /\ todo \in [Proc -> SUBSET Symbol]
    BY DEF IInv, TypeOK
  <1>1. /\ \A q \in Proc : AwaitsFill(q) => q = p
        /\ Current = led[p] /\ lock = p
        /\ \A r \in Symbol : r # s => Current.open[r].qty = Held(r) /\ locked[r] = 0
    BY WaitFacts
  <1>2. /\ pc' = [pc EXCEPT ![p] = IF pc[p] = "selling" THEN "exits" ELSE "entries"]
        /\ todo'[p] = todo[p] \ {s} /\ todo[p] \subseteq Symbol
    BY <1>a DEF Resume, Goto, Skip
  <1>3. /\ pc'[p] = IF pc[p] = "selling" THEN "exits" ELSE "entries"
        /\ \A q \in Proc \ {p} : pc'[q] = pc[q]
        /\ pc[p] \in {"selling", "buying"}
    BY <1>a, <1>2 DEF AwaitsFill
  <1>4. \A q \in Proc : ~AwaitsFill(q)'
    BY <1>1, <1>3 DEF AwaitsFill
  <1>5. Current' = led'[p]
    BY <1>3, WorkCurrent DEF Rewriting, Working
  <1>6. \A r \in Symbol : r # s => Held(r)' = Held(r)
    BY DEF Held
  <1>7. WholeOK' /\ ExactOK'
    <2>1. \A r \in Symbol : /\ Held(r)' \in {0, Lot}
                            /\ Current'.open[r].qty = Held(r)' /\ locked'[r] = 0
      BY <1>1, <1>5, <1>6 DEF WholeOK
    <2> QED
      BY <1>4, <2>1, RestMade
  <1>8. CASE pc[p] = "selling"
    <2>1. pc'[p] = "exits"
      BY <1>3, <1>8
    <2>2. ASSUME NEW r \in todo'[p]
          PROVE  /\ r \in OpenSymbols(led[p])'
                 /\ seen'[p][r].qty = Held(r)' /\ seen'[p][r].free = free'[r]
      <3>1. r \in Symbol /\ r # s /\ r \in todo[p]
        BY <1>2, <2>2
      <3>2. led[p].open[r].qty > 0 /\ ~Awaits(p, r)
        BY <1>8, <3>1 DEF WorkOK, SeenOK, OpenSymbols, Awaits
      <3>3. seen[p][r].qty = Held(r) /\ seen[p][r].free = free[r]
        BY <1>8, <3>1, <3>2 DEF WorkOK, SeenOK
      <3> QED
        BY <1>6, <3>1, <3>2, <3>3 DEF OpenSymbols
    <2>3. SeenOK(p)'
      BY <2>1, <2>2 DEF SeenOK
    <2> QED
      BY <1>1, <1>4, <1>5, <1>7, <2>1, <2>3, CycleWork
         DEF WorkOK, SlotsOK, BreakerOK, AwaitsFill, Locked, Label
  <1>9. CASE pc[p] = "buying"
    <2>1. pc'[p] = "entries"
      BY <1>3, <1>9
    <2>2. \A r \in todo'[p] : r \notin OpenSymbols(led[p])'
      <3> SUFFICES ASSUME NEW r \in todo'[p] PROVE r \notin OpenSymbols(led[p])'
        OBVIOUS
      <3>1. r \in Symbol /\ r # s /\ r \in todo[p]
        BY <1>2
      <3>2. ~(led[p].open[r].qty > 0)
        BY <1>9, <3>1 DEF WorkOK, SlotsOK, OpenSymbols
      <3> QED
        BY <3>1, <3>2 DEF OpenSymbols
    <2>3. SlotsOK(p)'
      BY <1>9, <2>2 DEF SlotsOK
    <2>4. p \in Trader /\ ~CircuitBreakerTripped(led'[p], hour, BreakerLosses)
      BY <1>9 DEF WorkOK, BreakerOK, CircuitBreakerTripped
    <2>5. BreakerOK(p)'
      BY <1>4, <2>4 DEF BreakerOK, CircuitBreakerTripped
    <2> QED
      BY <1>1, <1>4, <1>5, <1>7, <2>1, <2>3, <2>5, CycleWork
         DEF WorkOK, SeenOK, Locked, Label
  <1> QED
    BY <1>3, <1>8, <1>9

\* The trade that books a sale is what the sale was (ledger.close_position).
LEMMA SaleBooked ==
  ASSUME IInv, IInv', BookedOK, NEW p \in Proc, pc[p] = "selling", BreakerOK(p),
         NEW o \in Order, o = orders[mine[p]], o.side = "sell", o.filled > 0,
         NEW t \in Trade, t.symbol = o.symbol, t.loss = o.loss, t.hour = hour,
         Current'.closed = Append(Current.closed, t),
         orders' = orders, \A q \in Proc : ~AwaitsFill(q)'
  PROVE  BookedOK'
  <1>1. Current.closed \in Seq(Trade) /\ orders \in Seq(Order) /\ hour \in Nat /\ Day \in Nat
        /\ MaxHour \in Nat
    BY CurrentBook, DayAssumption, BoundAssumption DEF Book, IInv, TypeOK
  <1>2. o.hour \in Nat /\ o.hour <= hour /\ hour <= o.hour + 1 /\ o \in Sales
    BY DEF BreakerOK, AwaitsFill, Order, Sales
  <1>3. ASSUME NEW kind
        PROVE  /\ Settled(kind) \in Int /\ CountIn(orders, kind) \in Nat
               /\ o \in kind => Settled(kind)' = Settled(kind) + 1
               /\ o \notin kind => Settled(kind)' = Settled(kind)
    <2>1. Unbooked(kind) = (IF o \in kind THEN 1 ELSE 0)
      BY UnbookedOf DEF AwaitsFill
    <2>2. Unbooked(kind)' = 0
      BY UnbookedNext
    <2>3. CountIn(orders, kind) \in Nat /\ CountIn(orders, kind)' = CountIn(orders, kind)
      BY <1>1, CountType DEF CountIn
    <2> QED
      BY <2>1, <2>2, <2>3 DEF Settled
  <1>4. ASSUME NEW kind
        PROVE  /\ CountIn(Current.closed, kind) \in Nat
               /\ t \in kind => CountIn(Current.closed, kind)' = CountIn(Current.closed, kind) + 1
               /\ t \notin kind => CountIn(Current.closed, kind)' = CountIn(Current.closed, kind)
    <2>1. CountIn(Current.closed, kind)' = CountIn(Append(Current.closed, t), kind)
      BY DEF CountIn
    <2>2. CountIn(Append(Current.closed, t), kind) =
             CountIn(Current.closed, kind) + IF t \in kind THEN 1 ELSE 0
      BY <1>1, CountAppend
    <2>3. CountIn(Current.closed, kind) \in Nat
      BY <1>1, CountType
    <2> QED
      BY <2>1, <2>2, <2>3
  <1>5. ASSUME NEW s \in Symbol
        PROVE  CountIn(Current.closed, TradesOf(s))' = Settled(SalesOf(s))'
    <2>1. o \in SalesOf(s) <=> t \in TradesOf(s)
      BY <1>2 DEF SalesOf, TradesOf
    <2>2. CountIn(Current.closed, TradesOf(s)) = Settled(SalesOf(s))
      BY DEF BookedOK
    <2> QED
      BY <1>3, <1>4, <2>1, <2>2
  <1>b. ASSUME NEW K, NEW L, o \in K => t \in L, Settled(K) <= CountIn(Current.closed, L)
        PROVE  Settled(K)' <= CountIn(Current.closed, L)'
    <2>1. Settled(K) \in Int /\ CountIn(Current.closed, L) \in Nat
      BY <1>3, <1>4
    <2>2. CASE o \in K
      <3>1. /\ Settled(K)' = Settled(K) + 1
            /\ CountIn(Current.closed, L)' = CountIn(Current.closed, L) + 1
        BY <1>3, <1>4, <1>b, <2>2
      <3> QED
        BY <1>b, <2>1, <3>1
    <2>3. CASE o \notin K
      <3>1. Settled(K)' = Settled(K)
        BY <1>3, <2>3
      <3>2. /\ CountIn(Current.closed, L)' \in Int
            /\ CountIn(Current.closed, L) <= CountIn(Current.closed, L)'
        BY <1>4, <2>1
      <3> QED
        BY <1>b, <2>1, <3>1, <3>2
    <2> QED
      BY <2>2, <2>3
  <1>c. ASSUME NEW K, NEW L, t \in L => o \in K, CountIn(Current.closed, L) <= Settled(K)
        PROVE  CountIn(Current.closed, L)' <= Settled(K)'
    <2>1. Settled(K) \in Int /\ CountIn(Current.closed, L) \in Nat
      BY <1>3, <1>4
    <2>2. CASE t \in L
      <3>1. /\ Settled(K)' = Settled(K) + 1
            /\ CountIn(Current.closed, L)' = CountIn(Current.closed, L) + 1
        BY <1>3, <1>4, <1>c, <2>2
      <3> QED
        BY <1>c, <2>1, <3>1
    <2>3. CASE t \notin L
      <3>1. CountIn(Current.closed, L)' = CountIn(Current.closed, L)
        BY <1>4, <2>3
      <3>2. Settled(K)' \in Int /\ Settled(K) <= Settled(K)'
        BY <1>3, <2>1
      <3> QED
        BY <1>c, <2>1, <3>1, <3>2
    <2> QED
      BY <2>2, <2>3
  <1>6. ASSUME NEW h \in (0 - Day)..MaxHour
        PROVE  /\ Settled(SalesSince(TRUE, h))' <= CountIn(Current.closed, TradesSince(TRUE, h))'
               /\ CountIn(Current.closed, TradesSince(FALSE, h))' <= Settled(SalesSince(FALSE, h - 1))'
    <2>1. h \in Int /\ h - 1 \in Int
      BY <1>1
    <2>2. o \in SalesSince(TRUE, h) => t \in TradesSince(TRUE, h)
      BY <1>1, <1>2, <2>1 DEF SalesSince, TradesSince
    <2>3. t \in TradesSince(FALSE, h) => o \in SalesSince(FALSE, h - 1)
      BY <1>1, <1>2, <2>1 DEF SalesSince, TradesSince
    <2>4. /\ Settled(SalesSince(TRUE, h)) <= CountIn(Current.closed, TradesSince(TRUE, h))
          /\ CountIn(Current.closed, TradesSince(FALSE, h)) <= Settled(SalesSince(FALSE, h - 1))
      BY DEF BookedOK
    <2>5. Settled(SalesSince(TRUE, h))' <= CountIn(Current.closed, TradesSince(TRUE, h))'
      BY <1>b, <2>2, <2>4
    <2>6. CountIn(Current.closed, TradesSince(FALSE, h))' <= Settled(SalesSince(FALSE, h - 1))'
      BY <1>c, <2>3, <2>4
    <2> QED
      BY <2>5, <2>6
  <1> QED
    BY <1>5, <1>6 DEF BookedOK

\* A book has finitely many positions, and at most one more by a step.
LEMMA OpenCount ==
  ASSUME NEW l, NEW m, NEW s \in Symbol,
         \A r \in Symbol : r # s => m.open[r].qty = l.open[r].qty
  PROVE  /\ Cardinality(OpenSymbols(l)) \in Nat /\ Cardinality(OpenSymbols(m)) \in Nat
         /\ OpenSymbols(m) \subseteq OpenSymbols(l) =>
               Cardinality(OpenSymbols(m)) <= Cardinality(OpenSymbols(l))
         /\ s \notin OpenSymbols(l) =>
               Cardinality(OpenSymbols(m)) <= Cardinality(OpenSymbols(l)) + 1
  <1>1. IsFiniteSet(OpenSymbols(l)) /\ IsFiniteSet(OpenSymbols(m))
    BY SymbolAssumption, FS_Subset DEF OpenSymbols
  <1>2. Cardinality(OpenSymbols(l)) \in Nat /\ Cardinality(OpenSymbols(m)) \in Nat
    BY <1>1, FS_CardinalityType
  <1>3. OpenSymbols(m) \subseteq OpenSymbols(l) =>
           Cardinality(OpenSymbols(m)) <= Cardinality(OpenSymbols(l))
    BY <1>1, FS_Subset
  <1>4. ASSUME s \notin OpenSymbols(l)
        PROVE  Cardinality(OpenSymbols(m)) <= Cardinality(OpenSymbols(l)) + 1
    <2>1. OpenSymbols(m) \subseteq OpenSymbols(l) \cup {s}
      BY DEF OpenSymbols
    <2>2. /\ IsFiniteSet(OpenSymbols(l) \cup {s})
          /\ Cardinality(OpenSymbols(l) \cup {s}) = Cardinality(OpenSymbols(l)) + 1
      BY <1>1, <1>4, FS_AddElement
    <2>3. Cardinality(OpenSymbols(m)) <= Cardinality(OpenSymbols(l) \cup {s})
      BY <2>1, <2>2, FS_Subset
    <2> QED
      BY <2>2, <2>3
  <1> QED
    BY <1>2, <1>3, <1>4

\* What ends the wait for an order that did not trade books nothing.
LEMMA NothingBooked ==
  ASSUME IInv, IInv', BookedOK, NEW p \in Proc, AwaitsFill(p), \A q \in Proc : ~AwaitsFill(q)',
         orders[mine[p]] \notin Sales, Current'.closed = Current.closed,
         \A kind \in SUBSET Sales : CountIn(orders', kind) = CountIn(orders, kind)
  PROVE  BookedOK'
  <1>1. ASSUME NEW kind \in SUBSET Sales
        PROVE  Settled(kind)' = Settled(kind)
    <2>1. Unbooked(kind) = 0
      BY UnbookedOf
    <2>2. Unbooked(kind)' = 0
      BY UnbookedNext
    <2>3. CountIn(orders, kind)' = CountIn(orders', kind)
      BY DEF CountIn
    <2> QED
      BY <2>1, <2>2, <2>3 DEF Settled
  <1> QED
    BY <1>1, BooksSame

\* The answer for an order that is over: what traded, all of it or nothing, is
\* booked.
LEMMA AnsweredWork ==
  ASSUME Undisturbed, IInv, IInv', WholeOK, ExactOK, BookedOK, BoundOK, NEW p \in Proc, WorkOK(p),
         FillAnswered(p)
  PROVE  /\ WholeOK' /\ ExactOK' /\ BookedOK' /\ BoundOK' /\ \A q \in Proc : WorkOK(q)'
  <1>a. AwaitsFill(p) /\ mine[p] \in DOMAIN orders /\ orders[mine[p]] \in Order
    BY AwaitFacts DEF FillAnswered
  <1>0. PICK o \in Order, s \in Symbol : o = orders[mine[p]] /\ s = o.symbol
    BY <1>a DEF Order
  <1>1. /\ AwaitsFill(p) /\ ~Live(o) /\ Settle(p) /\ Resume(p)
        /\ UNCHANGED <<lock, hour, seen, free, locked, orders>>
    BY <1>0 DEF FillAnswered, Settle, file, exchange
  <1>2. /\ Current = led[p]
        /\ \A j \in DOMAIN orders : ~Live(orders[j])
    BY <1>0, <1>1, WaitFacts
  <1>3. /\ o.side \in {"buy", "sell"} /\ o.filled \in {0, Lot}
        /\ o.loss \in BOOLEAN /\ Lot \in Nat /\ Lot > 0
        /\ led \in [Proc -> Book] /\ led[p] \in Book /\ slots \in [Proc -> Nat] /\ hour \in Nat
        /\ MaxPositions \in Nat
    BY <1>a, <1>0, NoFault, SizeAssumption DEF Order, WholeOK, IInv, TypeOK
  <1>4. /\ pc[p] = "selling" => o.side = "sell"
        /\ pc[p] = "buying" => o.side = "buy" /\ slots[p] > 0
        /\ pc[p] \in {"selling", "buying"}
    BY <1>0, <1>1 DEF IInv, WaitOK, AwaitsFill
  <1>5. /\ pc[p] = "selling" => led[p].open[s].qty = Lot /\ Held(s) = Lot - o.filled
        /\ pc[p] = "buying" => led[p].open[s].qty = 0 /\ Held(s) = o.filled
        /\ locked[s] = 0
    BY <1>0, <1>1, <1>2, <1>4 DEF ExactOK, WaitExact
  <1>6. /\ \A r : Held(r)' = Held(r)
        /\ \A i \in DOMAIN orders' :
            orders'[i].qty = Lot /\ orders'[i].filled \in {0, Lot} /\ ~Live(orders'[i])
    BY <1>1, <1>2 DEF WholeOK, Held
  <1>7. CASE o.filled = 0
    <2>1. led' = led /\ slots' = slots
      BY <1>0, <1>1, <1>3, <1>7 DEF Settle
    <2>2. Held(s)' \in {0, Lot} /\ led'[p].open[s].qty = Held(s)' /\ locked'[s] = 0
      BY <1>1, <1>3, <1>4, <1>5, <1>6, <1>7, <2>1
    <2>3. pc[p] = "buying" =>
            /\ Cardinality(OpenSymbols(led[p]))' + slots'[p] <= MaxPositions
            /\ led'[p].closed = led[p].closed
      BY <2>1 DEF WorkOK, SlotsOK, OpenSymbols
    <2>4. /\ WholeOK' /\ ExactOK' /\ Current' = led'[p]
          /\ (\A q \in Proc : ~AwaitsFill(q)') /\ \A q \in Proc : WorkOK(q)'
      BY <1>1, <1>3, <1>6, <2>1, <2>2, <2>3, <1>0, ResumeWork
    <2>5. BookedOK'
      <3>1. o \notin Sales
        BY <1>7 DEF Sales
      <3>2. \A kind \in SUBSET Sales : CountIn(orders', kind) = CountIn(orders, kind)
        BY <1>1
      <3> QED
        BY <1>1, <1>2, <2>1, <2>4, <3>1, <3>2, <1>0, NothingBooked
    <2>6. BoundOK'
      BY <1>1, <1>2, <2>1, <2>4 DEF BoundOK, OpenSymbols
    <2> QED
      BY <2>4, <2>5, <2>6
  <1>8. CASE o.filled = Lot /\ o.side = "sell"
    <2>1. /\ led' = [led EXCEPT ![p] = ClosePosition(led[p], s, o.loss, hour)]
          /\ slots' = slots /\ pc[p] = "selling"
      BY <1>0, <1>1, <1>3, <1>4, <1>8 DEF Settle
    <2> DEFINE t == [symbol |-> s, qty |-> led[p].open[s].qty, loss |-> o.loss, hour |-> hour]
    <2>2. /\ led'[p].open = [led[p].open EXCEPT ![s] = NoPos]
          /\ led'[p].closed = Append(led[p].closed, t)
          /\ led[p].open \in [Symbol -> Position]
      BY <1>3, <2>1 DEF ClosePosition, Book
    <2>3. /\ \A r \in Symbol : r # s => led'[p].open[r].qty = led[p].open[r].qty
          /\ led'[p].open[s].qty = 0
      BY <1>3, <2>2 DEF NoPos
    <2>4. Held(s)' \in {0, Lot} /\ led'[p].open[s].qty = Held(s)' /\ locked'[s] = 0
      BY <1>1, <1>3, <1>5, <1>6, <1>8, <2>1, <2>3
    <2>a. pc[p] # "buying"
      BY <2>1
    <2>b. \A r \in Symbol : r # s => /\ free'[r] = free[r] /\ locked'[r] = locked[r]
                                    /\ led'[p].open[r].qty = led[p].open[r].qty
      BY <1>1, <2>3
    <2>5. /\ WholeOK' /\ ExactOK' /\ Current' = led'[p]
          /\ (\A q \in Proc : ~AwaitsFill(q)') /\ \A q \in Proc : WorkOK(q)'
      BY <1>0, <1>1, <1>6, <2>4, <2>a, <2>b, ResumeWork
    <2>6. t \in Trade /\ t.symbol = s /\ t.loss = o.loss /\ t.hour = hour
      BY <1>3, <2>2 DEF Trade, Position
    <2>7. Current'.closed = Append(Current.closed, t)
      BY <1>2, <2>2, <2>5
    <2> HIDE DEF t
    <2>8. BookedOK'
      <3>1. BreakerOK(p) /\ o.filled > 0 /\ o.side = "sell" /\ o \in Order
        BY <1>3, <1>8 DEF WorkOK
      <3> QED
        BY <1>1, <2>1, <2>5, <2>6, <2>7, <3>1, <1>0, SaleBooked
    <2>9. BoundOK'
      <3>1. OpenSymbols(led'[p]) \subseteq OpenSymbols(led[p])
        BY <1>3, <2>3 DEF OpenSymbols
      <3>2. /\ Cardinality(OpenSymbols(led'[p])) <= Cardinality(OpenSymbols(led[p]))
            /\ Cardinality(OpenSymbols(led'[p])) \in Nat /\ Cardinality(OpenSymbols(led[p])) \in Nat
        BY <1>3, <2>3, <3>1, OpenCount
      <3>3. Cardinality(OpenSymbols(led'[p])) <= MaxPositions
        BY <1>2, <1>3, <3>2 DEF BoundOK
      <3>4. OpenSymbols(Current)' = OpenSymbols(led'[p])
        BY <2>5 DEF OpenSymbols
      <3> QED
        BY <1>1, <3>3, <3>4 DEF BoundOK
    <2> QED
      BY <2>5, <2>8, <2>9
  <1>9. CASE o.filled = Lot /\ o.side = "buy"
    <2>1. /\ led' = [led EXCEPT ![p] = OpenPosition(led[p], s, o.filled, hour, mine[p])]
          /\ slots' = [slots EXCEPT ![p] = slots[p] - 1] /\ pc[p] = "buying"
      BY <1>0, <1>1, <1>3, <1>4, <1>9 DEF Settle
    <2> DEFINE t == [qty |-> o.filled, stop |-> 0, hour |-> hour, id |-> mine[p]]
    <2>2. /\ led'[p].open = [led[p].open EXCEPT ![s] = t]
          /\ led'[p].closed = led[p].closed
          /\ led[p].open \in [Symbol -> Position]
      BY <1>3, <2>1 DEF OpenPosition, Book
    <2>3. /\ \A r \in Symbol : r # s => led'[p].open[r].qty = led[p].open[r].qty
          /\ led'[p].open[s].qty = Lot
      BY <1>3, <1>9, <2>2
    <2>4. Held(s)' \in {0, Lot} /\ led'[p].open[s].qty = Held(s)' /\ locked'[s] = 0
      BY <1>1, <1>3, <1>5, <1>6, <1>9, <2>1, <2>3
    <2>5. Cardinality(OpenSymbols(led[p]))' + slots'[p] <= MaxPositions
      <3>1. s \notin OpenSymbols(led[p])
        BY <1>5, <2>1 DEF OpenSymbols
      <3>2. /\ Cardinality(OpenSymbols(led'[p])) <= Cardinality(OpenSymbols(led[p])) + 1
            /\ Cardinality(OpenSymbols(led'[p])) \in Nat /\ Cardinality(OpenSymbols(led[p])) \in Nat
        BY <1>3, <2>3, <3>1, OpenCount
      <3>3. Cardinality(OpenSymbols(led[p])) + slots[p] <= MaxPositions
        BY <2>1 DEF WorkOK, SlotsOK
      <3>4. slots'[p] = slots[p] - 1 /\ slots[p] \in Nat
        BY <1>3, <2>1
      <3>5. Cardinality(OpenSymbols(led[p]))' = Cardinality(OpenSymbols(led'[p]))
        BY DEF OpenSymbols
      <3> QED
        BY <1>3, <3>2, <3>3, <3>4, <3>5
    <2>6. /\ WholeOK' /\ ExactOK' /\ Current' = led'[p]
          /\ (\A q \in Proc : ~AwaitsFill(q)') /\ \A q \in Proc : WorkOK(q)'
      BY <1>1, <1>3, <1>6, <2>2, <2>3, <2>4, <2>5, <1>0, ResumeWork
    <2>7. BookedOK'
      <3>1. o \notin Sales
        BY <1>9 DEF Sales
      <3>2. \A kind \in SUBSET Sales : CountIn(orders', kind) = CountIn(orders, kind)
        BY <1>1
      <3> QED
        BY <1>1, <1>2, <2>2, <2>6, <3>1, <3>2, <1>0, NothingBooked
    <2>8. BoundOK'
      <3>1. slots'[p] \in Nat
        BY DEF IInv, TypeOK
      <3>2. Cardinality(OpenSymbols(led'[p])) \in Nat
        BY <1>3, <2>3, OpenCount
      <3>3. /\ Cardinality(OpenSymbols(led[p]))' = Cardinality(OpenSymbols(led'[p]))
            /\ OpenSymbols(Current)' = OpenSymbols(led'[p])
        BY <2>6 DEF OpenSymbols
      <3>4. Cardinality(OpenSymbols(led'[p])) <= MaxPositions
        BY <1>3, <2>5, <3>1, <3>2, <3>3
      <3> QED
        BY <1>1, <3>3, <3>4 DEF BoundOK
    <2> QED
      BY <2>6, <2>7, <2>8
  <1> QED
    BY <1>3, <1>7, <1>8, <1>9

\* The deadline for an order that still lives: it is cancelled, and nothing traded.
LEMMA TimedOutWork ==
  ASSUME Undisturbed, IInv, IInv', WholeOK, ExactOK, BookedOK, BoundOK, NEW p \in Proc, WorkOK(p),
         FillTimedOut(p)
  PROVE  /\ WholeOK' /\ ExactOK' /\ BookedOK' /\ BoundOK' /\ \A q \in Proc : WorkOK(q)'
  <1>a. AwaitsFill(p) /\ mine[p] \in DOMAIN orders /\ orders[mine[p]] \in Order
    BY AwaitFacts DEF FillTimedOut
  <1>0. PICK o \in Order, s \in Symbol : o = orders[mine[p]] /\ s = o.symbol
    BY <1>a DEF Order
  <1>1. /\ Live(o) /\ Withdraw(mine[p]) /\ Settle(p) /\ Resume(p)
        /\ UNCHANGED <<lock, hour, seen>>
    BY <1>0 DEF FillTimedOut, Withdraw, Settle, file
  <1>2. /\ Current = led[p]
        /\ \A j \in DOMAIN orders : Live(orders[j]) => j = mine[p]
    BY <1>a, WaitFacts
  <1>3. /\ o.qty = Lot /\ o.filled = 0 /\ o.side \in {"buy", "sell"}
        /\ o.side = "sell" => led[p].open[s].qty = Lot /\ free[s] = 0 /\ locked[s] = Lot
        /\ o.side = "buy" => led[p].open[s].qty = 0 /\ free[s] = 0 /\ locked[s] = 0
    BY <1>a, <1>0, <1>1, <1>2, LiveFacts DEF Order
  <1>4. /\ Lot \in Nat /\ Lot > 0 /\ orders \in Seq(Order)
        /\ free \in [Symbol -> Nat] /\ locked \in [Symbol -> Nat]
    BY NoFault DEF IInv, TypeOK
  <1>5. led' = led /\ slots' = slots
    BY <1>0, <1>1, <1>3 DEF Settle
  <1>6. PICK n \in Order : /\ orders' = [orders EXCEPT ![mine[p]] = n]
                           /\ n.cancelled /\ n.qty = Lot /\ n.filled = 0
    <2> DEFINE n == [o EXCEPT !.cancelled = TRUE]
    <2>1. orders' = [orders EXCEPT ![mine[p]] = n]
      BY <1>0, <1>1 DEF Withdraw
    <2>2. n \in Order /\ n.cancelled /\ n.qty = Lot /\ n.filled = 0
      BY <1>3 DEF Order
    <2> QED
      BY <2>1, <2>2
  <1>7. /\ DOMAIN orders' = DOMAIN orders /\ orders'[mine[p]] = n
        /\ \A j \in DOMAIN orders \ {mine[p]} : orders'[j] = orders[j]
        /\ orders' \in Seq(Order)
    BY <1>a, <1>4, <1>6 DEF IInv, TypeOK
  <1>8. /\ \A r \in Symbol : r # s => free'[r] = free[r] /\ locked'[r] = locked[r]
        /\ locked'[s] = 0
        /\ free'[s] = IF o.side = "sell" THEN Lot ELSE 0
    <2>1. CASE o.side = "sell"
      <3>1. /\ locked' = [locked EXCEPT ![s] = locked[s] - (o.qty - o.filled)]
            /\ free' = [free EXCEPT ![s] = free[s] + (o.qty - o.filled)]
        BY <1>0, <1>1, <2>1 DEF Withdraw
      <3>2. locked'[s] = Lot - (Lot - 0) /\ free'[s] = 0 + (Lot - 0)
        BY <1>3, <1>4, <2>1, <3>1
      <3>3. \A r \in Symbol : r # s => free'[r] = free[r] /\ locked'[r] = locked[r]
        BY <1>4, <3>1
      <3> QED
        BY <1>4, <2>1, <3>2, <3>3
    <2>2. CASE o.side = "buy"
      BY <1>0, <1>1, <1>3, <2>2 DEF Withdraw
    <2> QED
      BY <1>3, <2>1, <2>2
  <1>9. /\ Held(s)' = IF o.side = "sell" THEN Lot ELSE 0
        /\ Held(s)' \in {0, Lot} /\ led'[p].open[s].qty = Held(s)'
    BY <1>3, <1>4, <1>5, <1>8 DEF Held
  <1>10. \A i \in DOMAIN orders' :
            orders'[i].qty = Lot /\ orders'[i].filled \in {0, Lot} /\ ~Live(orders'[i])
    <2>1. ~Live(n)
      BY <1>6 DEF Live
    <2> QED
      BY <1>2, <1>6, <1>7, <2>1 DEF WholeOK
  <1>11. pc[p] = "buying" =>
            /\ Cardinality(OpenSymbols(led[p]))' + slots'[p] <= MaxPositions
            /\ led'[p].closed = led[p].closed
    BY <1>5 DEF WorkOK, SlotsOK, OpenSymbols
  <1>12. /\ WholeOK' /\ ExactOK' /\ Current' = led'[p]
         /\ (\A q \in Proc : ~AwaitsFill(q)') /\ \A q \in Proc : WorkOK(q)'
    BY <1>a, <1>0, <1>1, <1>5, <1>8, <1>9, <1>10, <1>11, ResumeWork
  <1>13. BookedOK'
    <2>1. o \notin Sales /\ n \notin Sales
      BY <1>3, <1>6 DEF Sales
    <2>2. ASSUME NEW kind \in SUBSET Sales
          PROVE  CountIn(orders', kind) = CountIn(orders, kind)
      <3>1. PICK seq \in Seq(Order), new \in Seq(Order) : seq = orders /\ new = orders'
        BY <1>4, <1>7
      <3>2. PICK i \in DOMAIN seq :
               /\ i = mine[p] /\ DOMAIN new = DOMAIN seq /\ seq[i] \notin kind /\ new[i] \notin kind
               /\ \A j \in DOMAIN seq \ {i} : new[j] = seq[j]
        BY <1>a, <1>0, <1>7, <2>1, <3>1
      <3>3. CountIn(new, kind) = CountIn(seq, kind) + IF new[i] \in kind THEN 1 ELSE 0
        BY <3>2, CountChange
      <3>4. CountIn(seq, kind) \in Nat
        BY CountType
      <3> QED
        BY <3>1, <3>2, <3>3, <3>4
    <2> QED
      BY <1>a, <1>0, <1>2, <1>5, <1>12, <2>1, <2>2, NothingBooked
  <1>14. BoundOK'
    BY <1>1, <1>2, <1>5, <1>12 DEF BoundOK, OpenSymbols
  <1> QED
    BY <1>12, <1>13, <1>14

\* The hour turns: no trader is at work, and who waits has done so since this hour.
LEMMA TickWork ==
  ASSUME IInv, Tick, BoundOK, \A q \in Proc : WorkOK(q)
  PROVE  Still /\ BoundOK' /\ \A q \in Proc : WorkOK(q)'
  <1>1. /\ hour < MaxHour /\ hour' = hour + 1
        /\ \A t \in Trader : pc[t] = "idle"
        /\ \A w \in Watcher : AwaitsFill(w) => orders[mine[w]].hour = hour
        /\ UNCHANGED <<disk, lock, pc, led, seen, todo, slots, mine, free, locked, orders>>
    BY DEF Tick, file, local, exchange
  <1>2. hour \in Nat /\ MaxHour \in Nat
    BY BoundAssumption DEF IInv, TypeOK
  <1>3. Current' = Current
    BY <1>1 DEF Current
  <1>4. Still
    BY <1>1, <1>3 DEF Still, AwaitsFill
  <1>5. BoundOK'
    BY <1>1, <1>2, <1>3 DEF BoundOK, OpenSymbols
  <1>6. ASSUME NEW q \in Proc
        PROVE  WorkOK(q)'
    <2>1. WorkOK(q)
      OBVIOUS
    <2>2. SeenOK(q)'
      BY <1>1, <2>1 DEF WorkOK, SeenOK, Held, Awaits, AwaitsFill, OpenSymbols
    <2>3. SlotsOK(q)'
      BY <1>1, <2>1 DEF WorkOK, SlotsOK, OpenSymbols
    <2>4. pc[q] \notin {"entries", "buying"}
      BY <1>1, <2>1 DEF WorkOK, BreakerOK
    <2>5. AwaitsFill(q) => orders[mine[q]].hour = hour
      BY <1>1 DEF Proc, AwaitsFill
    <2>6. BreakerOK(q)'
      BY <1>1, <1>2, <2>4, <2>5 DEF BreakerOK, AwaitsFill
    <2> QED
      BY <2>2, <2>3, <2>6 DEF WorkOK
  <1> QED
    BY <1>4, <1>5, <1>6

\* What a process does when it changes its book, nothing being wrong.
LEMMA ChangesWork ==
  ASSUME Undisturbed, IInv, IInv', BooksInv, NEW p \in Proc, Changes(p)
  PROVE  /\ WholeOK' /\ ExactOK' /\ BookedOK' /\ BoundOK' /\ \A q \in Proc : WorkOK(q)'
  <1>1. /\ WholeOK /\ ExactOK /\ BookedOK /\ BoundOK /\ WorkOK(p)
    BY DEF BooksInv
  <1>2. ASSUME Still, hour' = hour
        PROVE  WholeOK' /\ ExactOK' /\ BookedOK' /\ BoundOK'
    BY <1>1, <1>2, StillKeeps DEF BoundOK
  <1>3. CASE p \in Trader /\ TraderLoad(p)
    BY <1>1, <1>2, <1>3, LoadWork
  <1>4. ASSUME NEW s \in Symbol, TraderHold(p, s)
        PROVE  /\ WholeOK' /\ ExactOK' /\ BookedOK' /\ BoundOK' /\ \A q \in Proc : WorkOK(q)'
    BY <1>1, <1>2, <1>4, HoldWork
  <1>5. ASSUME NEW s \in Symbol, BuyAccepted(p, s)
        PROVE  /\ WholeOK' /\ ExactOK' /\ BookedOK' /\ BoundOK' /\ \A q \in Proc : WorkOK(q)'
    BY <1>1, <1>5, BuyWork DEF BoundOK
  <1>6. ASSUME NEW s \in Symbol, SellAccepted(p, s)
        PROVE  /\ WholeOK' /\ ExactOK' /\ BookedOK' /\ BoundOK' /\ \A q \in Proc : WorkOK(q)'
    <2>1. /\ WholeOK' /\ ExactOK' /\ BookedOK' /\ hour' = hour
          /\ Current' = Current /\ \A q \in Proc : WorkOK(q)'
      BY <1>1, <1>6, SellWork
    <2>2. BoundOK'
      BY <1>1, <2>1 DEF BoundOK, OpenSymbols
    <2> QED
      BY <2>1, <2>2
  <1>7. ASSUME NEW s \in Symbol
        PROVE  ~DropUnsellable(p, s) /\ ~BuyReplyLost(p, s) /\ ~SellReplyLost(p, s)
    <2>1. ASSUME DropUnsellable(p, s)
          PROVE  FALSE
      <3>1. Leaving(p, s) /\ SellableQty(p, s) <= DustQty
        BY <2>1 DEF DropUnsellable
      <3>2. SellableQty(p, s) = Lot
        BY <1>1, <3>1, SellableLot
      <3> QED
        BY <3>1, <3>2, NoFault
    <2>2. ~BuyReplyLost(p, s) /\ ~SellReplyLost(p, s)
      BY NoFault DEF BuyReplyLost, SellReplyLost
    <2> QED
      BY <2>1, <2>2
  <1>8. ~FillCancelLost(p) /\ ~FillPollFailed(p)
    BY NoFault DEF FillCancelLost, FillPollFailed
  <1>9. CASE FillAnswered(p)
    BY <1>1, <1>9, AnsweredWork
  <1>10. CASE FillTimedOut(p)
    BY <1>1, <1>10, TimedOutWork
  <1> QED
    BY <1>3, <1>4, <1>5, <1>6, <1>7, <1>8, <1>9, <1>10 DEF Changes

\* Undisturbed, every step keeps the books exact.
LEMMA BooksStep ==
  ASSUME Undisturbed, IInv, IInv', BooksInv, [Next]_vars
  PROVE  BooksInv'
  <1>1. /\ ReadOK /\ WholeOK /\ ExactOK /\ BookedOK /\ BoundOK /\ \A q \in Proc : WorkOK(q)
    BY DEF BooksInv
  <1>2. ReadOK'
    BY <1>1, NoFault, ReadStep
  <1> SUFFICES /\ WholeOK' /\ ExactOK' /\ BookedOK' /\ BoundOK' /\ \A q \in Proc : WorkOK(q)'
    BY <1>2 DEF BooksInv
  <1>3. ASSUME Still, hour' = hour
        PROVE  WholeOK' /\ ExactOK' /\ BookedOK' /\ BoundOK'
    BY <1>1, <1>3, StillKeeps DEF BoundOK
  <1>4. ASSUME NEW p \in Proc, Queues(p) \/ Ends(p)
        PROVE  /\ WholeOK' /\ ExactOK' /\ BookedOK' /\ BoundOK' /\ \A q \in Proc : WorkOK(q)'
    BY <1>1, <1>3, <1>4, OutsideWork
  <1>5. ASSUME NEW p \in Proc, Moves(p)
        PROVE  /\ WholeOK' /\ ExactOK' /\ BookedOK' /\ BoundOK' /\ \A q \in Proc : WorkOK(q)'
    BY <1>1, <1>3, <1>5, MovesWork
  <1>6. ASSUME NEW p \in Proc, Changes(p)
        PROVE  /\ WholeOK' /\ ExactOK' /\ BookedOK' /\ BoundOK' /\ \A q \in Proc : WorkOK(q)'
    BY <1>6, ChangesWork
  <1>7. CASE ExchangeStep
    <2>1. /\ WholeOK' /\ ExactOK' /\ BookedOK' /\ Current' = Current /\ hour' = hour
          /\ \A q \in Proc : WorkOK(q)'
      BY <1>1, <1>7, ExchangeWork
    <2>2. BoundOK'
      BY <1>1, <2>1 DEF BoundOK, OpenSymbols
    <2> QED
      BY <2>1, <2>2
  <1>8. CASE Tick
    BY <1>1, <1>8, TickWork, StillKeeps
  <1>9. CASE UNCHANGED vars
    <2>1. /\ UNCHANGED <<lock, pc, led, seen, todo, slots, mine, hour, free, locked, orders, disk>>
      BY <1>9 DEF vars
    <2>2. Still
      BY <2>1 DEF Still, AwaitsFill, Current
    <2>3. \A q \in Proc : WorkOK(q)'
      BY <1>1, <2>1, <2>2, StillWork
    <2> QED
      BY <1>3, <2>1, <2>2, <2>3
  <1>10. \/ \E p \in Proc : Queues(p) \/ Ends(p) \/ Moves(p) \/ Changes(p)
         \/ ExchangeStep \/ Tick \/ UNCHANGED vars
    BY NoFault, NextCases
  <1> QED
    BY <1>4, <1>5, <1>6, <1>7, <1>8, <1>9, <1>10

\* At the start nothing is held, sold or booked.
LEMMA BooksInit ==
  ASSUME Init
  PROVE  BooksInv
  <1>1. /\ disk = Empty /\ lock = NoProc /\ hour = 0 /\ orders = <<>>
        /\ free = [s \in Symbol |-> 0] /\ locked = [s \in Symbol |-> 0]
        /\ \A p \in Proc : pc[p] = "idle"
    BY DEF Init
  <1>2. Current = Empty
    BY <1>1, ProcAssumption DEF Current
  <1>3. ReadOK /\ \A p \in Proc : WorkOK(p)
    BY <1>1 DEF ReadOK, WorkOK, SeenOK, SlotsOK, BreakerOK, AwaitsFill
  <1>4. WholeOK
    BY <1>1 DEF WholeOK, Held
  <1>5. ExactOK
    BY <1>1, <1>2 DEF ExactOK, AwaitsFill, Held, Empty, NoPos
  <1>6. BoundOK
    <2>1. OpenSymbols(Current) = {}
      BY <1>2 DEF OpenSymbols, Empty, NoPos
    <2>2. Cardinality(OpenSymbols(Current)) = 0
      BY <2>1, FS_EmptySet
    <2> QED
      BY <1>1, <2>2, SizeAssumption, BoundAssumption DEF BoundOK
  <1>7. BookedOK
    <2>1. \A kind : CountIn(<<>>, kind) = 0
      <3>1. ASSUME NEW kind PROVE CountIn(<<>>, kind) = 0
        <4>1. {i \in DOMAIN <<>> : <<>>[i] \in kind} = {}
          OBVIOUS
        <4> QED
          BY <4>1, FS_EmptySet DEF CountIn
      <3> QED
        BY <3>1
    <2>2. Current.closed = <<>>
      BY <1>2 DEF Empty
    <2>3. \A kind : CountIn(Current.closed, kind) = 0 /\ CountIn(orders, kind) = 0
      BY <1>1, <2>1, <2>2
    <2>4. \A kind : Unbooked(kind) = 0
      BY <1>1 DEF Unbooked
    <2>5. \A kind : Settled(kind) = 0
      BY <2>3, <2>4 DEF Settled
    <2>6. \A K, L : CountIn(Current.closed, K) = Settled(L)
      BY <2>3, <2>5
    <2>7. \A K, L : Settled(L) <= CountIn(Current.closed, K) /\ CountIn(Current.closed, K) <= Settled(L)
      BY <2>3, <2>5
    <2>8. \A s \in Symbol : CountIn(Current.closed, TradesOf(s)) = Settled(SalesOf(s))
      BY <2>6
    <2>9. \A h \in (0 - Day)..MaxHour :
          /\ Settled(SalesSince(TRUE, h)) <= CountIn(Current.closed, TradesSince(TRUE, h))
          /\ CountIn(Current.closed, TradesSince(FALSE, h)) <= Settled(SalesSince(FALSE, h - 1))
      BY <2>7
    <2> QED
      BY <2>8, <2>9 DEF BookedOK
  <1> QED
    BY <1>3, <1>4, <1>5, <1>6, <1>7 DEF BooksInv

\* Undisturbed, the books are exact in every state.
LEMMA BooksInvariance ==
  ASSUME Undisturbed
  PROVE  Spec => [](IInv /\ BooksInv)
  <1>1. Init => BooksInv
    BY BooksInit
  <1>2. IInv /\ IInv' /\ BooksInv /\ [Next]_vars => BooksInv'
    BY BooksStep
  <1> QED
    BY <1>1, <1>2, Invariance, PTL DEF Spec

\* No sale fails for want of coins, as long as nothing goes wrong: what a process
\* decided to sell is still free when it sends the order (lock.py: without the lock
\* both programs sell the same coins).
THEOREM SalesCovered ==
  ASSUME Undisturbed
  PROVE  Spec => []SalesAreCovered
  <1>1. ASSUME IInv, BooksInv PROVE SalesAreCovered
    <2> SUFFICES ASSUME NEW p \in Proc, NEW s \in Symbol, Leaving(p, s)
                 PROVE  SellableQty(p, s) <= free[s]
      BY DEF SalesAreCovered
    <2>1. SellableQty(p, s) = Lot /\ free[s] = Lot
      BY <1>1, SellableLot DEF BooksInv
    <2> QED
      BY <2>1, NoFault
  <1>2. IInv /\ BooksInv => SalesAreCovered
    BY <1>1
  <1> QED
    BY <1>2, BooksInvariance, PTL

\* Between cycles the file is the book in force and nobody waits.
LEMMA QuietFacts ==
  ASSUME IInv, Quiet
  PROVE  Current = disk /\ \A p \in Proc : ~AwaitsFill(p)
  <1>1. \A p \in Proc : pc[p] \notin Rewriting /\ ~AwaitsFill(p)
    BY DEF Quiet, Rewriting, Working, AwaitsFill
  <1> QED
    BY <1>1, CurrentBook

\* Between cycles the ledger lists exactly the coins that are held, as long as
\* nothing goes wrong (trader._run saves what its orders did).
THEOREM HeldManaged ==
  ASSUME Undisturbed
  PROVE  Spec => []HeldIsManaged
  <1>1. ASSUME IInv, BooksInv PROVE HeldIsManaged
    <2> SUFFICES ASSUME Quiet, NEW s \in Symbol
                 PROVE  disk.open[s].qty = free[s] + locked[s]
      BY DEF HeldIsManaged
    <2> QED
      BY <1>1, QuietFacts DEF BooksInv, ExactOK, Awaits, Held
  <1>2. IInv /\ BooksInv => HeldIsManaged
    BY <1>1
  <1> QED
    BY <1>2, BooksInvariance, PTL

\* Between cycles every sale that was executed is booked once, as long as nothing
\* goes wrong (ledger.close_position).
THEOREM SoldBooked ==
  ASSUME Undisturbed
  PROVE  Spec => []SoldIsBooked
  <1>1. ASSUME IInv, BooksInv PROVE SoldIsBooked
    <2> SUFFICES ASSUME Quiet, NEW s \in Symbol
                 PROVE  Cardinality(BookedSales(s)) = Cardinality(FilledSales(s))
      BY DEF SoldIsBooked
    <2>1. Current = disk /\ \A p \in Proc : ~AwaitsFill(p)
      BY <1>1, QuietFacts
    <2>2. Unbooked(SalesOf(s)) = 0
      BY <1>1, <2>1, UnbookedOf
    <2>3. CountIn(orders, SalesOf(s)) \in Nat
      BY <1>1, HourTypes, CountType
    <2>4. Settled(SalesOf(s)) = CountIn(orders, SalesOf(s))
      BY <2>2, <2>3 DEF Settled
    <2>5. CountIn(disk.closed, TradesOf(s)) = CountIn(orders, SalesOf(s))
      BY <1>1, <2>1, <2>4 DEF BooksInv, BookedOK
    <2>6. FilledSales(s) = {i \in DOMAIN orders : orders[i] \in SalesOf(s)}
      BY <1>1, HourTypes DEF FilledSales, SalesOf, Sales
    <2>7. BookedSales(s) = {i \in DOMAIN disk.closed : disk.closed[i] \in TradesOf(s)}
      <3>1. \A i \in DOMAIN disk.closed : disk.closed[i] \in Trade
        BY <1>1 DEF IInv, TypeOK, Book
      <3> QED
        BY <3>1 DEF BookedSales, TradesOf
    <2> QED
      BY <2>5, <2>6, <2>7 DEF CountIn
  <1>2. IInv /\ BooksInv => SoldIsBooked
    BY <1>1
  <1> QED
    BY <1>2, BooksInvariance, PTL

\* What is held or being bought is in the book in force, but for what is being bought.
LEMMA ExposedFacts ==
  ASSUME Undisturbed, IInv, BooksInv, NEW s \in Symbol, free[s] + locked[s] > 0 \/ BuysOf(s) # {}
  PROVE  s \in OpenSymbols(Current) \/ \E p \in Proc : pc[p] = "buying" /\ orders[mine[p]].symbol = s
  <1>1. WholeOK /\ ExactOK
    BY DEF BooksInv
  <1>2. CASE BuysOf(s) # {}
    <2>1. PICK i \in DOMAIN orders : orders[i].side = "buy" /\ orders[i].symbol = s /\ Live(orders[i])
      BY <1>2 DEF BuysOf
    <2>2. PICK p \in Proc : AwaitsFill(p) /\ mine[p] = i
      BY <1>1, <2>1 DEF WholeOK
    <2>3. pc[p] = "buying"
      BY <2>1, <2>2 DEF IInv, WaitOK, AwaitsFill
    <2> QED
      BY <2>1, <2>2, <2>3
  <1>3. CASE Held(s) > 0
    <2>1. CASE \A p \in Proc : ~Awaits(p, s)
      <3>1. Current.open[s].qty = Held(s)
        BY <1>1, <2>1 DEF ExactOK
      <3> QED
        BY <1>3, <3>1 DEF OpenSymbols
    <2>2. CASE \E p \in Proc : Awaits(p, s)
      <3>1. PICK p \in Proc : AwaitsFill(p) /\ orders[mine[p]].symbol = s
        BY <2>2 DEF Awaits
      <3>2. pc[p] = "selling" => Current.open[s].qty = Lot
        BY <1>1, <3>1 DEF ExactOK, WaitExact
      <3>3. pc[p] = "selling" => s \in OpenSymbols(Current)
        BY <3>2, NoFault DEF OpenSymbols
      <3> QED
        BY <3>1, <3>3 DEF AwaitsFill
    <2> QED
      BY <2>1, <2>2
  <1> QED
    BY <1>2, <1>3 DEF Held

\* The account never holds, or is about to hold, more coins than the cap, as long as
\* nothing goes wrong (config.MAX_POSITIONS).
THEOREM CapHeld ==
  ASSUME Undisturbed
  PROVE  Spec => []CapRespected
  <1>1. ASSUME IInv, BooksInv PROVE CapRespected
    <2> DEFINE S == {s \in Symbol : free[s] + locked[s] > 0 \/ BuysOf(s) # {}}
    <2>1. IsFiniteSet(OpenSymbols(Current)) /\ Cardinality(OpenSymbols(Current)) \in Nat
      BY SymbolAssumption, FS_Subset, FS_CardinalityType DEF OpenSymbols
    <2>2. MaxPositions \in Nat
      BY SizeAssumption
    <2>3. CASE \A p \in Proc : pc[p] # "buying"
      <3>1. S \subseteq OpenSymbols(Current)
        BY <1>1, <2>3, ExposedFacts
      <3>2. IsFiniteSet(S) /\ Cardinality(S) <= Cardinality(OpenSymbols(Current))
        BY <2>1, <3>1, FS_Subset
      <3>3. Cardinality(S) \in Nat
        BY <3>2, FS_CardinalityType
      <3>4. Cardinality(OpenSymbols(Current)) <= MaxPositions
        BY <1>1 DEF BooksInv, BoundOK
      <3>5. Cardinality(S) <= MaxPositions
        BY <2>1, <2>2, <3>2, <3>3, <3>4
      <3> QED
        BY <3>5 DEF CapRespected
    <2>4. CASE \E p \in Proc : pc[p] = "buying"
      <3>1. PICK p \in Proc : pc[p] = "buying"
        BY <2>4
      <3>2. AwaitsFill(p)
        BY <3>1 DEF AwaitsFill
      <3>3. /\ Current = led[p]
            /\ \A q \in Proc : pc[q] = "buying" => q = p
        BY <1>1, <3>2, WaitFacts DEF BooksInv, AwaitsFill
      <3>4. slots[p] \in Nat /\ slots[p] > 0
        BY <1>1, <3>1, <3>2 DEF IInv, TypeOK, WaitOK
      <3>5. Cardinality(OpenSymbols(Current)) + slots[p] <= MaxPositions
        BY <1>1, <3>1, <3>3 DEF BooksInv, WorkOK, SlotsOK
      <3> DEFINE c == orders[mine[p]].symbol
      <3>6. S \subseteq OpenSymbols(Current) \cup {c}
        BY <1>1, <3>3, ExposedFacts
      <3>7. /\ IsFiniteSet(OpenSymbols(Current) \cup {c})
            /\ Cardinality(OpenSymbols(Current) \cup {c}) <= Cardinality(OpenSymbols(Current)) + 1
            /\ Cardinality(OpenSymbols(Current) \cup {c}) \in Nat
        <4>1. ASSUME NEW X, IsFiniteSet(X), Cardinality(X) \in Nat, NEW e
              PROVE  /\ IsFiniteSet(X \cup {e}) /\ Cardinality(X \cup {e}) \in Nat
                     /\ Cardinality(X \cup {e}) <= Cardinality(X) + 1
          <5>1. Cardinality(X \cup {e}) = IF e \in X THEN Cardinality(X) ELSE Cardinality(X) + 1
            BY <4>1, FS_AddElement
          <5>2. IsFiniteSet(X \cup {e})
            BY <4>1, FS_AddElement
          <5> QED
            BY <4>1, <5>1, <5>2
        <4> QED
          BY <2>1, <4>1
      <3>8. IsFiniteSet(S) /\ Cardinality(S) <= Cardinality(OpenSymbols(Current) \cup {c})
        BY <3>6, <3>7, FS_Subset
      <3>9. Cardinality(S) \in Nat
        BY <3>8, FS_CardinalityType
      <3>10. Cardinality(S) <= MaxPositions
        BY <2>1, <2>2, <3>4, <3>5, <3>7, <3>8, <3>9
      <3> QED
        BY <3>10 DEF CapRespected
    <2> QED
      BY <2>3, <2>4
  <1>2. IInv /\ BooksInv => CapRespected
    BY <1>1
  <1> QED
    BY <1>2, BooksInvariance, PTL

\* Only an entry that is accepted is a new order to buy.
LEMMA NewBuy ==
  ASSUME Undisturbed, IInv, BooksInv, [Next]_vars, IInv', NewOrder("buy")
  PROVE  \E p \in Proc, s \in Symbol : BuyAccepted(p, s)
  <1>1. Len(orders) \in Nat /\ ReadOK
    BY HourTypes DEF BooksInv
  <1>2. Len(orders') > Len(orders) /\ orders'[Len(orders')].side = "buy"
    BY DEF NewOrder
  <1>3. ASSUME NEW p \in Proc, Queues(p) \/ Ends(p) \/ Moves(p)
        PROVE  orders' = orders
    BY <1>1, <1>3, QueueCurrent, EndCurrent, MoveCurrent
  <1>4. ExchangeStep \/ Tick => Len(orders') = Len(orders)
    BY OutsideStep
  <1>5. UNCHANGED vars => orders' = orders
    BY DEF vars
  <1>6. PICK p \in Proc : Changes(p)
    <2>1. \/ \E p \in Proc : Queues(p) \/ Ends(p) \/ Moves(p) \/ Changes(p)
          \/ ExchangeStep \/ Tick \/ UNCHANGED vars
      BY NoFault, NextCases
    <2> QED
      BY <1>1, <1>2, <1>3, <1>4, <1>5, <2>1
  <1>7. CASE ~ \E s \in Symbol : BuyAccepted(p, s)
    <2>1. Len(orders') = Len(orders) \/ orders'[Len(orders')].side = "sell"
      BY <1>6, <1>7, NoFault, AttemptsStay
    <2> QED
      BY <1>1, <1>2, <2>1
  <1> QED
    BY <1>7

\* What the trailing day's trades lost, on balance, is at least what the sales of the
\* last 24 h lost, less the gains that may have been booked in them.
LEMMA LossesBooked ==
  ASSUME IInv, BookedOK, BoundOK, \A p \in Proc : ~AwaitsFill(p)
  PROVE  /\ Cardinality({i \in SalesWithin(Day) : orders[i].loss})
              - Cardinality({i \in SalesWithin(Day + 1) : ~orders[i].loss})
            <= NetLoss(Current.closed, Recent(Current.closed, hour))
         /\ Cardinality({i \in SalesWithin(Day) : orders[i].loss})
              - Cardinality({i \in SalesWithin(Day + 1) : ~orders[i].loss}) \in Int
         /\ NetLoss(Current.closed, Recent(Current.closed, hour)) \in Int
  <1>1. PICK h \in (0 - Day)..MaxHour : h = hour - Day
    <2>1. hour \in Nat /\ Day \in Nat /\ MaxHour \in Nat /\ hour <= MaxHour
      BY DayAssumption, BoundAssumption DEF IInv, TypeOK, BoundOK
    <2> QED
      BY <2>1
  <1>2. hour \in Int /\ Day \in Int /\ h \in Int
    BY <1>1, DayAssumption DEF IInv, TypeOK
  <1>3. /\ orders \in Seq(Order) /\ \A i \in DOMAIN orders : orders[i] \in Order
        /\ Current.closed \in Seq(Trade)
        /\ \A i \in DOMAIN Current.closed : Current.closed[i] \in Trade
    <2>1. orders \in Seq(Order) /\ Current.closed \in Seq(Trade)
      BY CurrentBook DEF IInv, TypeOK, Book
    <2> QED
      BY <2>1
  <1>4. {i \in SalesWithin(Day) : orders[i].loss} =
           {i \in DOMAIN orders : orders[i] \in SalesSince(TRUE, h)}
    <2>1. ASSUME NEW i \in DOMAIN orders
          PROVE  (i \in SalesWithin(Day) /\ orders[i].loss) <=> orders[i] \in SalesSince(TRUE, h)
      <3>1. orders[i] \in Order /\ orders[i].hour \in Nat /\ orders[i].loss \in BOOLEAN
        BY <1>3 DEF Order
      <3>2. hour - orders[i].hour <= Day <=> h <= orders[i].hour
        BY <1>1, <1>2, <3>1
      <3> QED
        BY <3>1, <3>2 DEF SalesWithin, SalesSince, Sales
    <2> QED
      BY <2>1 DEF SalesWithin
  <1>5. {i \in SalesWithin(Day + 1) : ~orders[i].loss} =
           {i \in DOMAIN orders : orders[i] \in SalesSince(FALSE, h - 1)}
    <2>1. ASSUME NEW i \in DOMAIN orders
          PROVE  (i \in SalesWithin(Day + 1) /\ ~orders[i].loss)
                    <=> orders[i] \in SalesSince(FALSE, h - 1)
      <3>1. orders[i] \in Order /\ orders[i].hour \in Nat /\ orders[i].loss \in BOOLEAN
        BY <1>3 DEF Order
      <3>2. hour - orders[i].hour <= Day + 1 <=> h - 1 <= orders[i].hour
        BY <1>1, <1>2, <3>1
      <3> QED
        BY <3>1, <3>2 DEF SalesWithin, SalesSince, Sales
    <2> QED
      BY <2>1 DEF SalesWithin
  <1>6. /\ {i \in Recent(Current.closed, hour) : Current.closed[i].loss} =
              {i \in DOMAIN Current.closed : Current.closed[i] \in TradesSince(TRUE, h)}
        /\ {i \in Recent(Current.closed, hour) : ~Current.closed[i].loss} =
              {i \in DOMAIN Current.closed : Current.closed[i] \in TradesSince(FALSE, h)}
    <2>1. ASSUME NEW i \in DOMAIN Current.closed
          PROVE  /\ (i \in Recent(Current.closed, hour) /\ Current.closed[i].loss)
                       <=> Current.closed[i] \in TradesSince(TRUE, h)
                 /\ (i \in Recent(Current.closed, hour) /\ ~Current.closed[i].loss)
                       <=> Current.closed[i] \in TradesSince(FALSE, h)
      <3>1. /\ Current.closed[i] \in Trade /\ Current.closed[i].hour \in Nat
            /\ Current.closed[i].loss \in BOOLEAN
        BY <1>3 DEF Trade
      <3>2. hour - Current.closed[i].hour <= Day <=> h <= Current.closed[i].hour
        BY <1>1, <1>2, <3>1
      <3> QED
        BY <3>1, <3>2 DEF Recent, TradesSince
    <2> QED
      BY <2>1 DEF Recent
  <1>7. ASSUME NEW kind
        PROVE  Settled(kind) = CountIn(orders, kind) /\ CountIn(orders, kind) \in Nat
    <2>1. Unbooked(kind) = 0
      BY UnbookedOf
    <2>2. CountIn(orders, kind) \in Nat
      BY <1>3, CountType
    <2> QED
      BY <2>1, <2>2 DEF Settled
  <1>8. \A kind : CountIn(Current.closed, kind) \in Nat
    BY <1>3, CountType
  <1>9. /\ CountIn(orders, SalesSince(TRUE, h)) <= CountIn(Current.closed, TradesSince(TRUE, h))
        /\ CountIn(Current.closed, TradesSince(FALSE, h)) <= CountIn(orders, SalesSince(FALSE, h - 1))
    BY <1>7 DEF BookedOK
  <1>10. PICK a \in Nat, b \in Nat, c \in Nat, d \in Nat :
            /\ a = CountIn(orders, SalesSince(TRUE, h))
            /\ b = CountIn(orders, SalesSince(FALSE, h - 1))
            /\ c = CountIn(Current.closed, TradesSince(TRUE, h))
            /\ d = CountIn(Current.closed, TradesSince(FALSE, h))
    BY <1>7, <1>8
  <1>11. a <= c /\ d <= b
    BY <1>9, <1>10
  <1>12. /\ Cardinality({i \in SalesWithin(Day) : orders[i].loss}) = a
         /\ Cardinality({i \in SalesWithin(Day + 1) : ~orders[i].loss}) = b
    BY <1>4, <1>5, <1>10 DEF CountIn
  <1>13. NetLoss(Current.closed, Recent(Current.closed, hour)) = c - d
    BY <1>6, <1>10 DEF NetLoss, CountIn
  <1> QED
    BY <1>11, <1>12, <1>13

\* A day's loss halts the entries, as long as nothing goes wrong: the sales of the
\* last 24 h are in the book that the breaker is decided on, which no program has
\* changed meanwhile (risk.circuit_breaker_tripped).
THEOREM LossHalts ==
  ASSUME Undisturbed
  PROVE  Spec => LossHaltsEntries
  <1> DEFINE A == NewOrder("buy") =>
                    Cardinality({i \in SalesWithin(Day) : orders[i].loss})
                      - Cardinality({i \in SalesWithin(Day + 1) : ~orders[i].loss})
                    < BreakerLosses
  <1>1. ASSUME IInv, IInv', BooksInv, [Next]_vars, NewOrder("buy")
        PROVE  Cardinality({i \in SalesWithin(Day) : orders[i].loss})
                 - Cardinality({i \in SalesWithin(Day + 1) : ~orders[i].loss})
               < BreakerLosses
    <2>1. PICK p \in Proc, s \in Symbol : BuyAccepted(p, s)
      BY <1>1, NewBuy
    <2>2. pc[p] = "entries"
      BY <2>1 DEF BuyAccepted, Entering
    <2>3. pc[p] \in Locked /\ pc[p] \in Rewriting /\ ~AwaitsFill(p)
      BY <2>2 DEF Locked, Label, Rewriting, Working, AwaitsFill
    <2>4. Current = led[p] /\ \A q \in Proc : ~AwaitsFill(q)
      BY <1>1, <2>3, CurrentOf, RestFacts DEF BooksInv
    <2>5. ~CircuitBreakerTripped(Current, hour, BreakerLosses)
      BY <1>1, <2>2, <2>4 DEF BooksInv, WorkOK, BreakerOK
    <2>6. ~(NetLoss(Current.closed, Recent(Current.closed, hour)) >= BreakerLosses)
      BY <2>5 DEF CircuitBreakerTripped
    <2> DEFINE losses == Cardinality({i \in SalesWithin(Day) : orders[i].loss})
               gains  == Cardinality({i \in SalesWithin(Day + 1) : ~orders[i].loss})
               net    == NetLoss(Current.closed, Recent(Current.closed, hour))
    <2>7. losses - gains <= net /\ losses - gains \in Int /\ net \in Int
      BY <1>1, <2>4, LossesBooked DEF BooksInv
    <2>8. BreakerLosses \in Int
      BY SizeAssumption
    <2> HIDE DEF losses, gains, net
    <2>9. losses - gains < BreakerLosses
      BY <2>6, <2>7, <2>8 DEF net
    <2> QED
      BY <2>9 DEF losses, gains
  <1>2. IInv /\ IInv' /\ BooksInv /\ [Next]_vars => A
    BY <1>1
  <1>3. Spec => [](IInv /\ BooksInv)
    BY BooksInvariance
  <1> QED
    BY <1>2, <1>3, PTL DEF Spec, LossHaltsEntries
=============================================================================
