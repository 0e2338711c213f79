---------------------------- MODULE SumTheorems -----------------------------
(***************************************************************************)
(* Facts about sums over a finite set, as SumFunction of module Functions  *)
(* defines them: a fold that takes one element after the other out of the  *)
(* set.  The sum does not depend on which one is taken, for a least set on *)
(* which it did could not exist.                                           *)
(***************************************************************************)
EXTENDS Integers, FiniteSets, FiniteSetsExt, FiniteSetTheorems, WellFoundedInduction, TLAPS

\* How a fold picks its next element.
Pick(s) == CHOOSE x \in s : TRUE

\* h has the sum of G over each subset of S.
IsSum(G, S, h) == h = [s \in SUBSET S |-> IF s = {} THEN 0 ELSE G[Pick(s)] + h[s \ {Pick(s)}]]

Smaller == {p \in Nat \X Nat : p[1] < p[2]}

\* A set of numbers that is not empty has a least one.
LEMMA Least ==
  ASSUME NEW U \in SUBSET Nat, U # {}
  PROVE  \E u \in U : \A y \in U : ~(y < u)
  <1>1. Smaller = OpToRel(<, Nat)
    BY DEF Smaller, OpToRel
  <1>2. IsWellFoundedOn(Smaller, Nat)
    BY <1>1, NatLessThanWellFounded
  <1>3. PICK u \in U : \A y \in U : <<y, u>> \notin Smaller
    BY <1>2, WFMin
  <1> QED
    BY <1>3 DEF Smaller

\* A set of numbers with a bound has a greatest one.
LEMMA Greatest ==
  ASSUME NEW n \in Nat, NEW T \in SUBSET (0..n), T # {}
  PROVE  Max(T) \in T /\ \A y \in T : Max(T) >= y
  <1> DEFINE U == {n - x : x \in T}
  <1>1. \A x \in T : x \in 0..n /\ n - x \in Nat
    OBVIOUS
  <1>2. U \subseteq Nat /\ U # {}
    BY <1>1
  <1>3. PICK u \in U : \A y \in U : ~(y < u)
    BY <1>2, Least
  <1>4. PICK x \in T : u = n - x
    BY <1>3
  <1>5. ASSUME NEW y \in T PROVE x >= y
    <2>1. ~(n - y < n - x)
      BY <1>3, <1>4
    <2> QED
      BY <1>1, <2>1
  <1> QED
    BY <1>5 DEF Max

\* Among sets of finite sets there is one that is least in number.
LEMMA LeastSet ==
  ASSUME NEW B, B # {}, \A s \in B : IsFiniteSet(s)
  PROVE  \E s \in B : \A r \in B : ~(Cardinality(r) < Cardinality(s))
  <1> DEFINE U == {Cardinality(s) : s \in B}
  <1>1. U \in SUBSET Nat /\ U # {}
    BY FS_CardinalityType
  <1>2. PICK u \in U : \A y \in U : ~(y < u)
    BY <1>1, Least
  <1> QED
    BY <1>2

\* The element that a fold takes next is one of the set.
LEMMA PickIn ==
  ASSUME NEW s, s # {}
  PROVE  Pick(s) \in s
  BY DEF Pick

\* What is left of a finite set when an element is taken out.
LEMMA Without ==
  ASSUME NEW s, IsFiniteSet(s), NEW x \in s
  PROVE  /\ IsFiniteSet(s \ {x}) /\ Cardinality(s) \in Nat /\ Cardinality(s \ {x}) \in Nat
         /\ Cardinality(s \ {x}) < Cardinality(s)
  <1>1. IsFiniteSet(s \ {x}) /\ Cardinality(s \ {x}) = Cardinality(s) - 1
    BY FS_RemoveElement
  <1>2. Cardinality(s) \in Nat /\ Cardinality(s \ {x}) \in Nat
    BY <1>1, FS_CardinalityType
  <1> QED
    BY <1>1, <1>2

\* Sums exist.
LEMMA SumExists ==
  ASSUME NEW S, IsFiniteSet(S), NEW G, \A x \in S : G[x] \in Int
  PROVE  \E h \in [SUBSET S -> Int] : IsSum(G, S, h)
  <1> DEFINE Low(n) == {s \in SUBSET S : Cardinality(s) <= n}
             Body(h, s) == IF s = {} THEN 0 ELSE G[Pick(s)] + h[s \ {Pick(s)}]
             Has(n) == \E h \in [Low(n) -> Int] : \A s \in Low(n) : h[s] = Body(h, s)
             U == {n \in Nat : ~Has(n)}
  <1>1. \A s \in SUBSET S : IsFiniteSet(s) /\ Cardinality(s) \in Nat
    BY FS_Subset, FS_CardinalityType
  <1>2. Has(0)
    <2>1. \A s \in Low(0) : s = {}
      BY <1>1, FS_EmptySet
    <2>2. [s \in Low(0) |-> 0] \in [Low(0) -> Int]
      OBVIOUS
    <2> QED
      BY <2>1, <2>2
  <1>3. ASSUME NEW n \in Nat, Has(n)
        PROVE  Has(n + 1)
    <2>1. PICK h \in [Low(n) -> Int] : \A s \in Low(n) : h[s] = Body(h, s)
      BY <1>3
    <2> DEFINE k == [s \in Low(n + 1) |-> Body(h, s)]
    <2>2. ASSUME NEW s \in Low(n + 1), s # {}
          PROVE  s \ {Pick(s)} \in Low(n) /\ G[Pick(s)] \in Int
      <3>1. Pick(s) \in s /\ IsFiniteSet(s)
        BY <1>1, <2>2, PickIn
      <3>2. /\ Cardinality(s) \in Nat /\ Cardinality(s \ {Pick(s)}) \in Nat
            /\ Cardinality(s \ {Pick(s)}) < Cardinality(s)
        BY <3>1, Without
      <3> QED
        BY <3>1, <3>2
    <2>3. \A s \in Low(n + 1) : Body(h, s) \in Int
      BY <2>1, <2>2
    <2>4. \A s \in Low(n) : s \in Low(n + 1) /\ k[s] = h[s]
      <3>1. \A s \in Low(n) : s \in Low(n + 1)
        BY <1>1
      <3> QED
        BY <2>1, <3>1
    <2>5. \A s \in Low(n + 1) : k[s] = Body(k, s)
      <3> SUFFICES ASSUME NEW s \in Low(n + 1), s # {}
                   PROVE  k[s] = G[Pick(s)] + k[s \ {Pick(s)}]
        OBVIOUS
      <3>1. k[s \ {Pick(s)}] = h[s \ {Pick(s)}]
        BY <2>2, <2>4
      <3> QED
        BY <3>1
    <2>6. k \in [Low(n + 1) -> Int]
      BY <2>3
    <2> QED
      BY <2>5, <2>6
  <1>4. U = {}
    <2> SUFFICES ASSUME U # {} PROVE FALSE
      OBVIOUS
    <2>1. PICK u \in U : \A y \in U : ~(y < u)
      BY Least
    <2>2. u \in Nat /\ u # 0 /\ ~Has(u)
      BY <1>2
    <2> HIDE DEF Has
    <2>3. PICK n \in Nat : u = n + 1
      <3>1. u - 1 \in Nat /\ u = (u - 1) + 1
        BY <2>2
      <3> QED
        BY <3>1
    <2>4. n \notin U
      BY <2>1, <2>3
    <2>5. Has(n)
      BY <2>4
    <2>6. Has(n + 1)
      BY <1>3, <2>5
    <2> QED
      BY <2>2, <2>3, <2>6
  <1>5. Cardinality(S) \in Nat /\ Low(Cardinality(S)) = SUBSET S
    BY <1>1, FS_Subset, FS_CardinalityType
  <1>6. Has(Cardinality(S))
    BY <1>4, <1>5
  <1>7. PICK h \in [SUBSET S -> Int] : \A s \in SUBSET S : h[s] = Body(h, s)
    BY <1>5, <1>6
  <1> QED
    BY <1>7 DEF IsSum

\* Two sums agree on the sets they share if their functions do on the elements.
LEMMA SumsAgree ==
  ASSUME NEW S, NEW R, IsFiniteSet(S), NEW G, NEW H, NEW h, NEW k, IsSum(G, S, h), IsSum(H, R, k),
         NEW T, T \subseteq S, T \subseteq R, \A x \in T : G[x] = H[x]
  PROVE  h[T] = k[T]
  <1> DEFINE B == {s \in SUBSET T : h[s] # k[s]}
  <1> SUFFICES ASSUME B # {} PROVE FALSE
    OBVIOUS
  <1>1. \A s \in SUBSET T : IsFiniteSet(s) /\ s \in SUBSET S /\ s \in SUBSET R
    BY FS_Subset
  <1>2. PICK s \in B : \A r \in B : ~(Cardinality(r) < Cardinality(s))
    BY <1>1, LeastSet
  <1>3. /\ h[s] = IF s = {} THEN 0 ELSE G[Pick(s)] + h[s \ {Pick(s)}]
        /\ k[s] = IF s = {} THEN 0 ELSE H[Pick(s)] + k[s \ {Pick(s)}]
    BY <1>1 DEF IsSum
  <1>4. s # {}
    BY <1>3
  <1>5. Pick(s) \in s /\ Pick(s) \in T
    BY <1>4, PickIn
  <1>6. Cardinality(s \ {Pick(s)}) < Cardinality(s)
    BY <1>1, <1>5, Without
  <1>7. s \ {Pick(s)} \notin B
    BY <1>2, <1>6
  <1> QED
    BY <1>3, <1>4, <1>5, <1>7

\* ... so over every subset of a set they have in common.
LEMMA SumsSame ==
  ASSUME NEW S, IsFiniteSet(S), NEW G, NEW H, NEW h, NEW k, IsSum(G, S, h), IsSum(H, S, k),
         \A x \in S : G[x] = H[x]
  PROVE  \A s \in SUBSET S : h[s] = k[s]
  <1>1. ASSUME NEW s \in SUBSET S PROVE h[s] = k[s]
    <2>1. s \subseteq S /\ \A x \in s : G[x] = H[x]
      OBVIOUS
    <2> QED
      BY <2>1, SumsAgree
  <1> QED
    BY <1>1

\* ... and over a subset.
LEMMA SumsWithin ==
  ASSUME NEW R, IsFiniteSet(R), NEW S \in SUBSET R, NEW G, NEW h, NEW k,
         IsSum(G, R, h), IsSum(G, S, k)
  PROVE  h[S] = k[S]
  <1>1. S \subseteq S /\ S \subseteq R /\ \A x \in S : G[x] = G[x]
    OBVIOUS
  <1> QED
    BY <1>1, SumsAgree

\* The sum over a part is that of any of its elements and of the rest.
LEMMA SumSplits ==
  ASSUME NEW S, IsFiniteSet(S), NEW G, \A x \in S : G[x] \in Int, NEW h, IsSum(G, S, h),
         NEW t \in SUBSET S, NEW e \in t
  PROVE  h[t] \in Int /\ h[t] = G[e] + h[t \ {e}]
  <1> DEFINE B == {s \in SUBSET S : \E x \in s : h[s] # G[x] + h[s \ {x}]}
  <1>1. \A s \in SUBSET S : IsFiniteSet(s) /\ h[s] \in Int
    <2>1. PICK k \in [SUBSET S -> Int] : IsSum(G, S, k)
      BY SumExists
    <2>2. \A s \in SUBSET S : h[s] = k[s]
      BY <2>1, SumsSame
    <2> QED
      BY <2>2, FS_Subset
  <1> SUFFICES ASSUME B # {} PROVE FALSE
    BY <1>1
  <1>2. PICK s \in B : \A r \in B : ~(Cardinality(r) < Cardinality(s))
    BY <1>1, LeastSet
  <1>3. PICK x \in s : h[s] # G[x] + h[s \ {x}]
    BY <1>2
  <1> DEFINE y == Pick(s)
  <1>4. s \in SUBSET S /\ s # {} /\ y \in s /\ x \in S /\ y \in S
    BY <1>2, <1>3, PickIn
  <1>5. h[s] = G[y] + h[s \ {y}]
    BY <1>4 DEF IsSum
  <1> HIDE DEF y
  <1>6. x # y
    BY <1>3, <1>5
  <1>7. Cardinality(s \ {y}) < Cardinality(s) /\ Cardinality(s \ {x}) < Cardinality(s)
    BY <1>1, <1>4, Without
  <1>8. s \ {y} \notin B /\ s \ {x} \notin B
    BY <1>2, <1>7
  <1>9. x \in s \ {y} /\ y \in s \ {x} /\ s \ {y} \in SUBSET S /\ s \ {x} \in SUBSET S
    BY <1>4, <1>6
  <1>10. /\ h[s \ {y}] = G[x] + h[(s \ {y}) \ {x}]
         /\ h[s \ {x}] = G[y] + h[(s \ {x}) \ {y}]
    BY <1>8, <1>9
  <1>11. (s \ {y}) \ {x} = (s \ {x}) \ {y}
    OBVIOUS
  <1>12. h[(s \ {x}) \ {y}] \in Int /\ G[x] \in Int /\ G[y] \in Int
    BY <1>1, <1>4
  <1>13. h[s] = G[y] + (G[x] + h[(s \ {x}) \ {y}])
    BY <1>5, <1>10, <1>11
  <1>14. G[x] + h[s \ {x}] = G[x] + (G[y] + h[(s \ {x}) \ {y}])
    BY <1>10
  <1> QED
    BY <1>3, <1>12, <1>13, <1>14

\* The library's sum is the value of every such function.
LEMMA SumIs ==
  ASSUME NEW S, IsFiniteSet(S), NEW G, \A x \in S : G[x] \in Int
  PROVE  /\ SumFunctionOnSet(G, S) \in Int
         /\ \A h : IsSum(G, S, h) => SumFunctionOnSet(G, S) = h[S]
  <1> DEFINE f == CHOOSE h : IsSum(G, S, h)
  <1>1. PICK h \in [SUBSET S -> Int] : IsSum(G, S, h)
    BY SumExists
  <1>2. IsSum(G, S, f)
    BY <1>1, Zenon
  <1>3. SumFunctionOnSet(G, S) = f[S]
    BY DEF SumFunctionOnSet, FoldFunctionOnSet, MapThenFoldSet, IsSum, Pick
  <1> HIDE DEF f
  <1>4. \A k : IsSum(G, S, k) => f[S] = k[S]
    BY <1>2, SumsWithin
  <1>5. f[S] \in Int
    BY <1>1, <1>4
  <1> QED
    BY <1>3, <1>4, <1>5

\* Functions that agree on a set have one total over it.
LEMMA SumSame ==
  ASSUME NEW S, IsFiniteSet(S), NEW G, NEW H, \A x \in S : G[x] \in Int /\ G[x] = H[x]
  PROVE  SumFunctionOnSet(G, S) = SumFunctionOnSet(H, S)
  <1>1. PICK h, k : IsSum(G, S, h) /\ IsSum(H, S, k)
    BY SumExists
  <1>2. h[S] = k[S]
    <2>1. \A s \in SUBSET S : h[s] = k[s]
      BY <1>1, SumsSame
    <2> QED
      BY <2>1
  <1>3. SumFunctionOnSet(G, S) = h[S] /\ SumFunctionOnSet(H, S) = k[S]
    BY <1>1, SumIs
  <1> QED
    BY <1>2, <1>3

\* An empty sum is 0.
LEMMA SumEmpty ==
  ASSUME NEW G
  PROVE  SumFunctionOnSet(G, {}) = 0
  <1>1. IsFiniteSet({})
    BY FS_EmptySet
  <1>2. PICK h : IsSum(G, {}, h) /\ SumFunctionOnSet(G, {}) = h[{}]
    BY <1>1, SumExists, SumIs
  <1> QED
    BY <1>2 DEF IsSum

\* The sum over a set without one of its elements ...
LEMMA SumRemove ==
  ASSUME NEW R, IsFiniteSet(R), NEW e \in R, NEW G, \A x \in R : G[x] \in Int
  PROVE  SumFunctionOnSet(G, R) = SumFunctionOnSet(G, R \ {e}) + G[e]
  <1>1. PICK h : IsSum(G, R, h)
    BY SumExists
  <1>2. PICK S : S = R \ {e}
    OBVIOUS
  <1>3. IsFiniteSet(S) /\ S \subseteq R /\ S \subseteq S /\ \A x \in S : G[x] \in Int
    BY <1>2, FS_Subset
  <1>4. PICK k : IsSum(G, S, k)
    BY <1>3, SumExists
  <1>5. /\ SumFunctionOnSet(G, R) = h[R] /\ SumFunctionOnSet(G, S) = k[S]
        /\ SumFunctionOnSet(G, S) \in Int /\ G[e] \in Int
    BY <1>1, <1>3, <1>4, SumIs
  <1>6. h[R] = G[e] + h[S]
    <2>1. R \in SUBSET R
      OBVIOUS
    <2> QED
      BY <1>1, <1>2, <2>1, SumSplits
  <1>7. h[S] = k[S]
    BY <1>1, <1>3, <1>4, SumsWithin
  <1>8. SumFunctionOnSet(G, R) = G[e] + SumFunctionOnSet(G, S)
    BY <1>5, <1>6, <1>7
  <1> QED
    BY <1>2, <1>5, <1>8

\* ... or with one more.
LEMMA SumAdd ==
  ASSUME NEW S, IsFiniteSet(S), NEW e, e \notin S, NEW G, \A x \in S \cup {e} : G[x] \in Int
  PROVE  SumFunctionOnSet(G, S \cup {e}) = SumFunctionOnSet(G, S) + G[e]
  <1>1. PICK R : R = S \cup {e}
    OBVIOUS
  <1>2. IsFiniteSet(R) /\ e \in R /\ R \ {e} = S /\ \A x \in R : G[x] \in Int
    BY <1>1, FS_AddElement
  <1>3. SumFunctionOnSet(G, R) = SumFunctionOnSet(G, R \ {e}) + G[e]
    BY <1>2, SumRemove
  <1> QED
    BY <1>1, <1>2, <1>3

\* The sum of a function is a number, and so is that of one that differs from it
\* by one argument more.
LEMMA SumFunctionType ==
  ASSUME NEW f, IsFiniteSet(DOMAIN f), \A x \in DOMAIN f : f[x] \in Int
  PROVE  SumFunction(f) \in Int
  BY SumIs DEF SumFunction

\* A sum with one term more.
LEMMA SumFunctionAdd ==
  ASSUME NEW f, NEW g, NEW e, IsFiniteSet(DOMAIN f), e \notin DOMAIN f,
         DOMAIN g = DOMAIN f \cup {e}, \A x \in DOMAIN f : f[x] = g[x],
         \A x \in DOMAIN g : g[x] \in Int
  PROVE  SumFunction(g) = SumFunction(f) + g[e]
  <1>1. PICK S : S = DOMAIN f
    OBVIOUS
  <1>2. SumFunctionOnSet(g, S \cup {e}) = SumFunctionOnSet(g, S) + g[e]
    BY <1>1, SumAdd
  <1>3. SumFunctionOnSet(f, S) = SumFunctionOnSet(g, S)
    BY <1>1, SumSame
  <1> QED
    BY <1>1, <1>2, <1>3 DEF SumFunction

\* The sums of the differences are the difference of the sums.
LEMMA SumFunctionBalance ==
  ASSUME NEW a, NEW b, NEW c, NEW d, NEW S, IsFiniteSet(S),
         DOMAIN a = S, DOMAIN b = S, DOMAIN c = S, DOMAIN d = S,
         \A x \in S : /\ a[x] \in Int /\ b[x] \in Int /\ c[x] \in Int /\ d[x] \in Int
                      /\ a[x] + b[x] = c[x] + d[x]
  PROVE  SumFunction(a) + SumFunction(b) = SumFunction(c) + SumFunction(d)
  <1>1. PICK hb \in [SUBSET S -> Int] : IsSum(b, S, hb)
    BY SumExists
  <1>2. PICK hc \in [SUBSET S -> Int] : IsSum(c, S, hc)
    BY SumExists
  <1>3. PICK hd \in [SUBSET S -> Int] : IsSum(d, S, hd)
    BY SumExists
  <1> DEFINE h == [s \in SUBSET S |-> hc[s] + hd[s] - hb[s]]
  <1>4. ASSUME NEW s \in SUBSET S
        PROVE  h[s] = IF s = {} THEN 0 ELSE a[Pick(s)] + h[s \ {Pick(s)}]
    <2>1. CASE s = {}
      <3>1. hb[s] = 0 /\ hc[s] = 0 /\ hd[s] = 0
        BY <1>1, <1>2, <1>3, <2>1 DEF IsSum
      <3> QED
        BY <2>1, <3>1
    <2>2. CASE s # {}
      <3>1. PICK x \in s : x = Pick(s)
        BY <2>2, PickIn
      <3>2. PICK r \in SUBSET S : r = s \ {x}
        OBVIOUS
      <3>3. hb[s] = b[x] + hb[r] /\ hc[s] = c[x] + hc[r] /\ hd[s] = d[x] + hd[r]
        BY <1>1, <1>2, <1>3, <2>2, <3>1, <3>2 DEF IsSum
      <3>4. /\ a[x] \in Int /\ b[x] \in Int /\ c[x] \in Int /\ d[x] \in Int
            /\ a[x] + b[x] = c[x] + d[x] /\ hb[r] \in Int /\ hc[r] \in Int /\ hd[r] \in Int
        OBVIOUS
      <3>5. h[s] = hc[s] + hd[s] - hb[s] /\ h[r] = hc[r] + hd[r] - hb[r]
        OBVIOUS
      <3> HIDE DEF h
      <3>6. h[s] = a[x] + h[r]
        BY <3>3, <3>4, <3>5
      <3> QED
        BY <2>2, <3>1, <3>2, <3>6
    <2> QED
      BY <2>1, <2>2
  <1>5. IsSum(a, S, h)
    BY <1>4 DEF IsSum
  <1>6. SumFunctionOnSet(a, S) = h[S]
    BY <1>5, SumIs
  <1>7. /\ SumFunctionOnSet(b, S) = hb[S] /\ SumFunctionOnSet(c, S) = hc[S]
        /\ SumFunctionOnSet(d, S) = hd[S]
    BY <1>1, <1>2, <1>3, SumIs
  <1>8. h[S] = hc[S] + hd[S] - hb[S] /\ hb[S] \in Int /\ hc[S] \in Int /\ hd[S] \in Int
    OBVIOUS
  <1> HIDE DEF h
  <1>9. SumFunctionOnSet(a, S) + SumFunctionOnSet(b, S)
            = SumFunctionOnSet(c, S) + SumFunctionOnSet(d, S)
    BY <1>6, <1>7, <1>8
  <1> QED
    BY <1>9 DEF SumFunction

\* What counts for nothing may be left out.
LEMMA SumFunctionWithin ==
  ASSUME NEW f, NEW w, NEW S, IsFiniteSet(S), NEW Q, Q \subseteq S, DOMAIN w = S, DOMAIN f = Q,
         \A x \in Q : f[x] \in Int /\ w[x] = f[x], \A x \in S \ Q : w[x] = 0
  PROVE  SumFunction(w) = SumFunction(f)
  <1>1. IsFiniteSet(Q)
    BY FS_Subset
  <1>2. PICK hf : IsSum(f, Q, hf)
    BY <1>1, SumExists
  <1> DEFINE h == [s \in SUBSET S |-> hf[s \cap Q]]
  <1>3. ASSUME NEW s \in SUBSET S
        PROVE  h[s] = IF s = {} THEN 0 ELSE w[Pick(s)] + h[s \ {Pick(s)}]
    <2>1. CASE s = {}
      <3>1. s \cap Q = {} /\ {} \in SUBSET Q
        BY <2>1
      <3> QED
        BY <1>2, <2>1, <3>1 DEF IsSum
    <2>2. CASE s # {}
      <3>1. PICK x \in s : x = Pick(s)
        BY <2>2, PickIn
      <3>2. PICK r \in SUBSET S : r = s \ {x}
        OBVIOUS
      <3>3. PICK t \in SUBSET Q : t = s \cap Q
        OBVIOUS
      <3>4. h[s] = hf[t] /\ h[r] = hf[r \cap Q]
        BY <3>3
      <3>5. hf[r \cap Q] \in Int
        <4>1. PICK hk \in [SUBSET Q -> Int] : IsSum(f, Q, hk)
          BY <1>1, SumExists
        <4>2. \A q \in SUBSET Q : hf[q] = hk[q]
          BY <1>1, <1>2, <4>1, SumsSame
        <4> QED
          BY <4>1, <4>2
      <3> HIDE DEF h
      <3>6. h[s] = w[x] + h[r]
        <4>1. CASE x \in Q
          <5>1. x \in t /\ r \cap Q = t \ {x} /\ IsFiniteSet(t)
            BY <1>1, <3>2, <3>3, <4>1, FS_Subset
          <5>2. \A q \in Q : f[q] \in Int
            OBVIOUS
          <5>3. hf[t] = f[x] + hf[t \ {x}]
            BY <1>1, <1>2, <5>1, <5>2, SumSplits
          <5> QED
            BY <3>4, <4>1, <5>1, <5>3
        <4>2. CASE x \notin Q
          <5>1. r \cap Q = t /\ w[x] = 0
            BY <3>2, <3>3, <4>2
          <5>2. h[s] = hf[t] /\ h[r] = hf[t] /\ hf[t] \in Int
            BY <3>4, <3>5, <5>1
          <5> QED
            BY <5>1, <5>2
        <4> QED
          BY <4>1, <4>2
      <3> QED
        BY <2>2, <3>1, <3>2, <3>6
    <2> QED
      BY <2>1, <2>2
  <1>4. IsSum(w, S, h)
    BY <1>3 DEF IsSum
  <1>5. \A x \in S : w[x] \in Int
    OBVIOUS
  <1>6. SumFunctionOnSet(w, S) = h[S]
    BY <1>4, <1>5, SumIs
  <1>7. h[S] = hf[Q]
    <2>1. S \cap Q = Q
      OBVIOUS
    <2> QED
      BY <2>1
  <1>8. SumFunctionOnSet(f, Q) = hf[Q]
    BY <1>1, <1>2, SumIs
  <1> QED
    BY <1>6, <1>7, <1>8 DEF SumFunction

\* The sum of a number as often as there are elements.
LEMMA SumFunctionConstant ==
  ASSUME NEW k \in Int, NEW f, NEW S, IsFiniteSet(S), DOMAIN f = S, \A x \in S : f[x] = k
  PROVE  SumFunction(f) = k * Cardinality(S)
  <1> DEFINE h == [s \in SUBSET S |-> k * Cardinality(s)]
  <1>1. ASSUME NEW s \in SUBSET S
        PROVE  h[s] = IF s = {} THEN 0 ELSE f[Pick(s)] + h[s \ {Pick(s)}]
    <2>1. CASE s = {}
      <3>1. Cardinality(s) = 0
        BY <2>1, FS_EmptySet
      <3> QED
        BY <2>1, <3>1
    <2>2. CASE s # {}
      <3>1. PICK x \in s : x = Pick(s)
        BY <2>2, PickIn
      <3>2. PICK r \in SUBSET S : r = s \ {x}
        OBVIOUS
      <3>3. IsFiniteSet(s)
        BY FS_Subset
      <3>4. Cardinality(r) = Cardinality(s) - 1 /\ Cardinality(s) \in Nat
        BY <3>2, <3>3, FS_RemoveElement, FS_CardinalityType
      <3>5. PICK n \in Int : n = Cardinality(r) /\ Cardinality(s) = n + 1
        BY <3>4
      <3>6. k * (n + 1) = k + k * n
        OBVIOUS
      <3>7. h[s] = f[x] + h[r]
        BY <3>5, <3>6
      <3> QED
        BY <2>2, <3>1, <3>2, <3>7
    <2> QED
      BY <2>1, <2>2
  <1>2. IsSum(f, S, h)
    BY <1>1 DEF IsSum
  <1>3. SumFunctionOnSet(f, S) = h[S]
    BY <1>2, SumIs
  <1> QED
    BY <1>3 DEF SumFunction

\* Two functions whose arguments correspond one to one.
LEMMA SumFunctionImage ==
  ASSUME NEW f, NEW g, NEW m, NEW S, IsFiniteSet(S), NEW T, IsFiniteSet(T),
         DOMAIN f = S, DOMAIN g = T, \A y \in T : g[y] \in Int,
         \A x \in S : m[x] \in T /\ f[x] = g[m[x]],
         \A x, y \in S : m[x] = m[y] => x = y,
         \A y \in T : \E x \in S : m[x] = y
  PROVE  SumFunction(f) = SumFunction(g)
  <1>1. PICK hg : IsSum(g, T, hg)
    BY SumExists
  <1>7. ASSUME NEW t \in SUBSET T, NEW e \in t PROVE hg[t] = g[e] + hg[t \ {e}]
    BY <1>1, SumSplits
  <1> DEFINE Image(s) == {m[x] : x \in s}
             h == [s \in SUBSET S |-> hg[Image(s)]]
  <1>2. ASSUME NEW s \in SUBSET S
        PROVE  h[s] = IF s = {} THEN 0 ELSE f[Pick(s)] + h[s \ {Pick(s)}]
    <2>1. CASE s = {}
      <3>1. Image(s) = {} /\ {} \in SUBSET T
        BY <2>1
      <3> QED
        BY <1>1, <2>1, <3>1 DEF IsSum
    <2>2. CASE s # {}
      <3>1. PICK x \in s : x = Pick(s)
        BY <2>2, PickIn
      <3>2. PICK r \in SUBSET S : r = s \ {x}
        OBVIOUS
      <3>3. PICK t \in SUBSET T : t = Image(s)
        <4>1. Image(s) \in SUBSET T
          OBVIOUS
        <4> QED
          BY <4>1
      <3>4. m[x] \in t /\ f[x] = g[m[x]]
        BY <3>3
      <3>5. Image(r) = t \ {m[x]}
        BY <3>2, <3>3
      <3>6. hg[t] = g[m[x]] + hg[t \ {m[x]}]
        <4>1. PICK e \in t : e = m[x]
          BY <3>4
        <4>2. hg[t] = g[e] + hg[t \ {e}]
          BY <1>7
        <4> QED
          BY <4>1, <4>2
      <3>7. h[s] = hg[t] /\ h[r] = hg[Image(r)]
        BY <3>3
      <3> HIDE DEF h, Image
      <3>8. h[s] = f[x] + h[r]
        BY <3>4, <3>5, <3>6, <3>7
      <3> QED
        BY <2>2, <3>1, <3>2, <3>8
    <2> QED
      BY <2>1, <2>2
  <1>3. IsSum(f, S, h)
    BY <1>2 DEF IsSum
  <1>4. SumFunctionOnSet(f, S) = h[S]
    <2>1. \A x \in S : f[x] \in Int
      OBVIOUS
    <2> HIDE DEF h
    <2> QED
      BY <1>3, <2>1, SumIs
  <1>5. h[S] = hg[T]
    <2>1. Image(S) = T
      OBVIOUS
    <2> QED
      BY <2>1
  <1>6. SumFunctionOnSet(g, T) = hg[T]
    BY <1>1, SumIs
  <1> QED
    BY <1>4, <1>5, <1>6 DEF SumFunction

\* The sum over two parts.
LEMMA SumUnion ==
  ASSUME NEW f, NEW A, NEW B, IsFiniteSet(A), IsFiniteSet(B), A \cap B = {},
         \A x \in A \cup B : f[x] \in Int
  PROVE  SumFunctionOnSet(f, A \cup B) = SumFunctionOnSet(f, A) + SumFunctionOnSet(f, B)
  <1>1. PICK S : S = A \cup B
    OBVIOUS
  <1>2. IsFiniteSet(S) /\ A \subseteq S /\ B \subseteq S
    BY <1>1, FS_Union
  <1> DEFINE a == [x \in S |-> f[x]]
             b == [x \in S |-> 0]
             c == [x \in S |-> IF x \in A THEN f[x] ELSE 0]
             d == [x \in S |-> IF x \in B THEN f[x] ELSE 0]
             fA == [x \in A |-> f[x]]
             fB == [x \in B |-> f[x]]
  <1>3. /\ DOMAIN a = S /\ DOMAIN b = S /\ DOMAIN c = S /\ DOMAIN d = S
        /\ DOMAIN fA = A /\ DOMAIN fB = B
        /\ \A x \in S : /\ a[x] \in Int /\ b[x] \in Int /\ c[x] \in Int /\ d[x] \in Int
                         /\ a[x] + b[x] = c[x] + d[x] /\ b[x] = 0 /\ a[x] = f[x]
        /\ \A x \in A : fA[x] \in Int /\ c[x] = fA[x] /\ fA[x] = f[x]
        /\ \A x \in S \ A : c[x] = 0
        /\ \A x \in B : fB[x] \in Int /\ d[x] = fB[x] /\ fB[x] = f[x]
        /\ \A x \in S \ B : d[x] = 0
    BY <1>1
  <1> HIDE DEF a, b, c, d, fA, fB
  <1>4. SumFunction(a) + SumFunction(b) = SumFunction(c) + SumFunction(d)
    BY <1>2, <1>3, SumFunctionBalance
  <1>5. SumFunction(c) = SumFunction(fA)
    BY <1>2, <1>3, SumFunctionWithin
  <1>6. SumFunction(d) = SumFunction(fB)
    BY <1>2, <1>3, SumFunctionWithin
  <1>7. SumFunction(b) = 0
    <2>1. Cardinality(S) \in Nat /\ SumFunction(b) = 0 * Cardinality(S)
      BY <1>2, <1>3, SumFunctionConstant, FS_CardinalityType
    <2> QED
      BY <2>1
  <1>8. SumFunction(a) = SumFunctionOnSet(f, S) /\ SumFunctionOnSet(f, S) \in Int
    <2>1. \A x \in S : a[x] \in Int /\ f[x] \in Int /\ a[x] = f[x]
      BY <1>3
    <2> QED
      BY <1>2, <1>3, <2>1, SumSame, SumIs DEF SumFunction
  <1>9. SumFunction(fA) = SumFunctionOnSet(f, A)
    <2>1. \A x \in A : fA[x] \in Int /\ f[x] \in Int /\ fA[x] = f[x]
      BY <1>3
    <2> QED
      BY <1>3, <2>1, SumSame DEF SumFunction
  <1>10. SumFunction(fB) = SumFunctionOnSet(f, B)
    <2>1. \A x \in B : fB[x] \in Int /\ f[x] \in Int /\ fB[x] = f[x]
      BY <1>3
    <2> QED
      BY <1>3, <2>1, SumSame DEF SumFunction
  <1> QED
    BY <1>1, <1>4, <1>5, <1>6, <1>7, <1>8, <1>9, <1>10

\* The sum over all is the sum of those over the parts with one key each.
LEMMA SumFunctionParts ==
  ASSUME NEW f, NEW g, NEW key, NEW S, IsFiniteSet(S), NEW C, IsFiniteSet(C),
         DOMAIN f = S, \A x \in S : f[x] \in Int /\ key[x] \in C,
         DOMAIN g = C,
         \A c \in C : g[c] = SumFunctionOnSet(f, {x \in S : key[x] = c})
  PROVE  SumFunction(g) = SumFunction(f)
  <1> DEFINE Of(d) == {x \in S : key[x] \in d}
             h == [d \in SUBSET C |-> SumFunctionOnSet(f, Of(d))]
  <1>1. ASSUME NEW q \in SUBSET S
        PROVE  IsFiniteSet(q) /\ SumFunctionOnSet(f, q) \in Int
    <2>1. IsFiniteSet(q) /\ \A x \in q : f[x] \in Int
      BY FS_Subset
    <2> QED
      BY <2>1, SumIs
  <1>2. ASSUME NEW d \in SUBSET C
        PROVE  h[d] = IF d = {} THEN 0 ELSE g[Pick(d)] + h[d \ {Pick(d)}]
    <2>1. CASE d = {}
      <3>1. Of(d) = {}
        BY <2>1
      <3> QED
        BY <2>1, <3>1, SumEmpty
    <2>2. CASE d # {}
      <3>1. PICK c \in d : c = Pick(d)
        BY <2>2, PickIn
      <3>2. PICK r \in SUBSET C : r = d \ {c}
        OBVIOUS
      <3>3. PICK A \in SUBSET S : A = {x \in S : key[x] = c}
        OBVIOUS
      <3>4. PICK B \in SUBSET S : B = Of(r)
        OBVIOUS
      <3>5. Of(d) = A \cup B /\ A \cap B = {}
        BY <3>1, <3>2, <3>3, <3>4
      <3>6. \A x \in A \cup B : f[x] \in Int
        OBVIOUS
      <3>7. IsFiniteSet(A) /\ IsFiniteSet(B)
        BY <1>1
      <3>8. SumFunctionOnSet(f, A \cup B) = SumFunctionOnSet(f, A) + SumFunctionOnSet(f, B)
        BY <3>5, <3>6, <3>7, SumUnion
      <3>9. h[d] = SumFunctionOnSet(f, Of(d)) /\ h[r] = SumFunctionOnSet(f, B)
        BY <3>4
      <3>10. g[c] = SumFunctionOnSet(f, A)
        BY <3>3
      <3> HIDE DEF h, Of
      <3>11. h[d] = g[c] + h[r]
        BY <3>5, <3>8, <3>9, <3>10
      <3> QED
        BY <2>2, <3>1, <3>2, <3>11
    <2> QED
      BY <2>1, <2>2
  <1>3. IsSum(g, C, h)
    BY <1>2 DEF IsSum
  <1>4. \A c \in C : g[c] \in Int
    BY <1>1
  <1>5. Of(C) = S
    OBVIOUS
  <1>6. h[C] = SumFunctionOnSet(f, S)
    BY <1>5
  <1> HIDE DEF h
  <1>7. SumFunctionOnSet(g, C) = h[C]
    BY <1>3, <1>4, SumIs
  <1> QED
    BY <1>6, <1>7 DEF SumFunction
=============================================================================
