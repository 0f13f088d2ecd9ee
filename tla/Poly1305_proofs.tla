--------------------------- MODULE Poly1305_proofs ---------------------------
(***************************************************************************)
(* Proofs about the limbs of Poly1305, for every number of limbs from three*)
(* and every width of a limb that has room for the carries.                *)
(***************************************************************************)
EXTENDS Poly1305, Foundations

(***************************************************************************)
(* Poly1305: powers of the base.                                           *)
(***************************************************************************)

\* f is the powers up to n.
Powers(f, n) ==
  /\ f \in [0 .. n -> Nat]
  /\ f[0] = 1
  /\ \A k \in 1 .. n : f[k] = Base * f[k - 1]

\* The recursion of Power has a solution.
LEMMA PowerRecursion ==
  \A n \in Nat : Power[n] = IF n = 0 THEN 1 ELSE Base * Power[n - 1]
<1>1. PICK b \in Nat : b = Base
  BY PolyAssumption
<1> DEFINE Has == {n \in Nat : \E f : Powers(f, n)}
           Same == {n \in Nat : \A m \in Nat : n <= m =>
                      \A f, g : Powers(f, n) /\ Powers(g, m) => f[n] = g[n]}
<1>2. \A n \in Nat : n \in Has
  <2>1. 0 \in Has
    <3>1. [k \in 0 .. 0 |-> 1] \in [0 .. 0 -> Nat] /\ [k \in 0 .. 0 |-> 1][0] = 1
      OBVIOUS
    <3>2. Powers([k \in 0 .. 0 |-> 1], 0)
      BY <3>1 DEF Powers
    <3> QED BY <3>2
  <2>2. ASSUME NEW n \in Nat, n \in Has PROVE n + 1 \in Has
    <3>1. PICK f : Powers(f, n)
      BY <2>2
    <3>2. f \in [0 .. n -> Nat] /\ f[0] = 1 /\ \A k \in 1 .. n : f[k] = b * f[k - 1]
      BY <1>1, <3>1, Zenon DEF Powers
    <3> DEFINE g == [k \in 0 .. n + 1 |-> IF k = n + 1 THEN b * f[n] ELSE f[k]]
    <3>3. b * f[n] \in Nat
      BY <3>2
    <3>4. g \in [0 .. n + 1 -> Nat]
      BY <3>2, <3>3
    <3>5. g[0] = 1
      BY <3>2
    <3>6. ASSUME NEW k \in 1 .. n + 1 PROVE g[k] = b * g[k - 1]
      <4>1. CASE k = n + 1
        BY <4>1
      <4>2. CASE k # n + 1
        <5>1. k \in 1 .. n /\ k - 1 \in 0 .. n + 1 /\ k - 1 # n + 1 /\ k \in 0 .. n + 1
          BY <4>2
        <5>2. g[k] = f[k] /\ g[k - 1] = f[k - 1]
          BY <4>2, <5>1
        <5> QED BY <3>2, <5>1, <5>2, Zenon
      <4> QED BY <4>1, <4>2
    <3> HIDE DEF g
    <3>7. Powers(g, n + 1)
      BY <1>1, <3>4, <3>5, <3>6 DEF Powers
    <3> QED BY <3>7
  <2> HIDE DEF Has
  <2> QED BY <2>1, <2>2, SetInduction
<1>3. \A n \in Nat : n \in Same
  <2>1. 0 \in Same
    BY DEF Powers
  <2>2. ASSUME NEW n \in Nat, n \in Same PROVE n + 1 \in Same
    <3> SUFFICES ASSUME NEW m \in Nat, n + 1 <= m, NEW f, NEW g, Powers(f, n + 1), Powers(g, m)
                 PROVE  f[n + 1] = g[n + 1]
      OBVIOUS
    <3> DEFINE e == [k \in 0 .. n |-> f[k]]
    <3>1. /\ f \in [0 .. n + 1 -> Nat] /\ f[0] = 1 /\ \A k \in 1 .. n + 1 : f[k] = b * f[k - 1]
          /\ g \in [0 .. m -> Nat] /\ \A k \in 1 .. m : g[k] = b * g[k - 1]
      BY <1>1, Zenon DEF Powers
    <3>2. Powers(e, n)
      <4>0. \A k \in 0 .. n : f[k] \in Nat
        <5>1. f \in [0 .. n + 1 -> Nat]
          BY <3>1, Zenon
        <5> QED BY <5>1
      <4>1. e \in [0 .. n -> Nat] /\ e[0] = 1
        <5>1. 0 \in 0 .. n
          OBVIOUS
        <5> QED BY <3>1, <4>0, <5>1, Zenon
      <4>2. ASSUME NEW k \in 1 .. n PROVE e[k] = b * e[k - 1]
        <5>1. k \in 1 .. n + 1 /\ k \in 0 .. n /\ k - 1 \in 0 .. n
          OBVIOUS
        <5> QED BY <3>1, <5>1, Zenon
      <4> HIDE DEF e
      <4> QED BY <1>1, <4>1, <4>2 DEF Powers
    <3>3. e[n] = g[n] /\ e[n] = f[n]
      <4>1. n <= m
        OBVIOUS
      <4> QED BY <2>2, <3>2, <4>1
    <3>4. n + 1 \in 1 .. n + 1 /\ n + 1 \in 1 .. m /\ (n + 1) - 1 = n
      OBVIOUS
    <3> HIDE DEF e
    <3> QED BY <3>1, <3>3, <3>4
  <2> HIDE DEF Same
  <2> QED BY <2>1, <2>2, SetInduction
<1> DEFINE P == [n \in Nat |-> (CHOOSE f : Powers(f, n))[n]]
<1>4. ASSUME NEW n \in Nat PROVE Powers(CHOOSE f : Powers(f, n), n)
  <2>1. \E f : Powers(f, n)
    BY <1>2
  <2> QED BY <2>1, Zenon
<1>5. ASSUME NEW n \in Nat PROVE P[n] = IF n = 0 THEN 1 ELSE b * P[n - 1]
  <2>1. PICK f : f = CHOOSE e : Powers(e, n)
    OBVIOUS
  <2>2. Powers(f, n) /\ P[n] = f[n]
    BY <1>4, <2>1, Zenon
  <2>3. f[0] = 1 /\ \A k \in 1 .. n : f[k] = b * f[k - 1]
    BY <1>1, <2>2, Zenon DEF Powers
  <2>4. CASE n = 0
    BY <2>2, <2>3, <2>4
  <2>5. CASE n # 0
    <3>1. n - 1 \in Nat /\ n - 1 <= n /\ n \in 1 .. n
      BY <2>5
    <3>2. PICK g : g = CHOOSE e : Powers(e, n - 1)
      OBVIOUS
    <3>3. Powers(g, n - 1) /\ P[n - 1] = g[n - 1]
      BY <1>4, <3>1, <3>2, Zenon
    <3>4. g[n - 1] = f[n - 1]
      BY <1>3, <2>2, <3>1, <3>3
    <3> HIDE DEF P
    <3> QED BY <2>2, <2>3, <2>5, <3>1, <3>3, <3>4, Zenon
  <2> QED BY <2>4, <2>5
<1> DEFINE Solves(f) == f = [n \in Nat |-> IF n = 0 THEN 1 ELSE b * f[n - 1]]
<1>6. Solves(P)
  <2>1. P = [n \in Nat |-> P[n]]
    OBVIOUS
  <2>2. \A n \in Nat : P[n] = IF n = 0 THEN 1 ELSE b * P[n - 1]
    BY <1>5
  <2> HIDE DEF P
  <2> QED BY <2>1, <2>2, Zenon
<1> HIDE DEF P
<1>7. Power = CHOOSE f : Solves(f)
  BY <1>1, Zenon DEF Power
<1>8. Solves(Power)
  BY <1>6, <1>7, Zenon
<1> QED BY <1>1, <1>8, Zenon

\* Each power is the base times the one before.
LEMMA PowerSteps ==
  /\ Power[0] = 1
  /\ \A n \in Nat : Power[n] \in Nat \ {0} /\ Power[n + 1] = Base * Power[n]
<1>1. PICK b \in Nat \ {0} : b = Base
  BY PolyAssumption
<1>2. \A n \in Nat : Power[n] = IF n = 0 THEN 1 ELSE b * Power[n - 1]
  BY <1>1, PowerRecursion
<1>3. Power[0] = 1
  BY <1>2
<1>4. \A n \in Nat : Power[n + 1] = b * Power[n]
  <2> TAKE n \in Nat
  <2>1. n + 1 \in Nat /\ n + 1 # 0 /\ (n + 1) - 1 = n
    OBVIOUS
  <2> QED BY <1>2, <2>1
<1> DEFINE Has == {n \in Nat : Power[n] \in Nat \ {0}}
<1>5. 0 \in Has
  BY <1>3
<1>6. ASSUME NEW n \in Nat, n \in Has PROVE n + 1 \in Has
  <2>1. PICK p \in Nat \ {0} : p = Power[n]
    BY <1>6
  <2>2. b * p \in Nat \ {0}
    OBVIOUS
  <2> QED BY <1>4, <2>1, <2>2
<1>7. \A n \in Nat : n \in Has
  <2> HIDE DEF Has
  <2> QED BY <1>5, <1>6, SetInduction
<1> QED BY <1>1, <1>3, <1>4, <1>7, Zenon

(***************************************************************************)
(* Poly1305: sums.                                                         *)
(***************************************************************************)

\* f is the partial sums of the n numbers t.
Sums(f, t, n) ==
  /\ f \in [0 .. n -> Int]
  /\ f[0] = 0
  /\ \A i \in 1 .. n : f[i] = f[i - 1] + t[i]

\* Total adds one number after another.
LEMMA TotalRuns ==
  ASSUME NEW t \in Seq(Int), NEW n \in Nat, n = Len(t)
  PROVE  \E f : Sums(f, t, n) /\ f[n] = Total(t)
<1>1. PICK S, x : S = Int /\ x = 0
  OBVIOUS
<1>2. DOMAIN t = 1 .. n /\ \A i \in 1 .. n : t[i] \in Int
  BY LenProperties, ElementOfSeq
<1>3. PICK G : G = [i \in 1 .. n |-> [y \in S |-> y + t[i]]]
  OBVIOUS
<1>4. \A i \in 1 .. n : \A y \in S : G[i][y] = y + t[i]
  BY <1>3, Zenon
<1>5. G \in [1 .. n -> [S -> S]]
  <2>1. \A i \in 1 .. n : \A y \in S : y + t[i] \in S
    BY <1>1, <1>2
  <2> QED BY <1>3, <2>1, Zenon
<1> DEFINE Runs(it) == it = [r1 \in SUBSET (DOMAIN t) |->
                               IF r1 = {} THEN x ELSE it[r1 \ {Max(r1)}] + t[Max(r1)]]
<1>x. x \in S
  BY <1>1
<1>e. PICK j : FoldTable(j, S, x, n, G)
  BY <1>x, <1>5, FoldExists, Zenon
<1>6. /\ j \in [SUBSET (1 .. n) -> S]
      /\ \A u \in SUBSET (1 .. n) : j[u] = IF u = {} THEN x ELSE G[Max(u)][j[u \ {Max(u)}]]
  BY <1>e, Zenon DEF FoldTable
<1>7. ASSUME NEW u \in SUBSET (1 .. n), u # {} PROVE Max(u) \in 1 .. n /\ u \ {Max(u)} \in SUBSET (1 .. n)
  BY <1>7, MaxOfIndices
<1>8. Runs(j)
  <2>1. ASSUME NEW u \in SUBSET (1 .. n)
        PROVE  j[u] = IF u = {} THEN x ELSE j[u \ {Max(u)}] + t[Max(u)]
    <3>1. CASE u = {}
      BY <1>6, <3>1, Zenon
    <3>2. CASE u # {}
      <4>1. j[u \ {Max(u)}] \in S
        BY <1>6, <1>7, <3>2, Zenon
      <4> QED BY <1>4, <1>6, <1>7, <3>2, <4>1, Zenon
    <3> QED BY <3>1, <3>2, Zenon
  <2>2. j = [u \in SUBSET (1 .. n) |-> j[u]]
    BY <1>6, Zenon
  <2> QED BY <1>2, <2>1, <2>2, Zenon
<1>9. PICK it : Runs(it) /\ Total(t) = it[DOMAIN t]
  <2>1. Total(t) = (CHOOSE it : Runs(it))[DOMAIN t]
    BY <1>1, Zenon DEF Total, FoldLeft, MapThenFoldSet
  <2>2. Runs(CHOOSE it : Runs(it))
    BY <1>8, Zenon
  <2> QED BY <2>1, <2>2, Zenon
<1>10. it[{}] = x
  BY <1>9, Zenon
<1>11. \A u \in SUBSET (1 .. n) : u # {} /\ it[u \ {Max(u)}] \in S => it[u] = G[Max(u)][it[u \ {Max(u)}]]
  <2> SUFFICES ASSUME NEW u \in SUBSET (1 .. n), u # {}, it[u \ {Max(u)}] \in S
               PROVE  it[u] = G[Max(u)][it[u \ {Max(u)}]]
    BY Zenon
  <2>1. it[u] = it[u \ {Max(u)}] + t[Max(u)]
    <3>1. it = [v \in SUBSET (DOMAIN t) |-> IF v = {} THEN x ELSE it[v \ {Max(v)}] + t[Max(v)]]
      BY <1>9, Zenon
    <3>2. u \in SUBSET (DOMAIN t)
      BY <1>2, Zenon
    <3> QED BY <3>1, <3>2, Zenon
  <2>2. Max(u) \in 1 .. n
    BY <1>7, Zenon
  <2> QED BY <1>4, <2>1, <2>2, Zenon
<1>12. PICK f : FoldRun(f, it, S, x, n, G)
  <2>1. FoldsBy(it, S, x, n, G)
    BY <1>x, <1>5, <1>10, <1>11, Zenon DEF FoldsBy
  <2> QED BY <2>1, FoldRuns, Zenon
<1>13. /\ f \in [0 .. n -> S]
       /\ f[0] = x
       /\ \A i \in 1 .. n : f[i] = G[i][f[i - 1]]
       /\ f[n] = it[1 .. n]
  BY <1>12, Zenon DEF FoldRun
<1>14. \A i \in 1 .. n : f[i] = f[i - 1] + t[i]
  <2> SUFFICES ASSUME NEW i \in 1 .. n PROVE f[i] = f[i - 1] + t[i]
    OBVIOUS
  <2>1. i - 1 \in 0 .. n
    OBVIOUS
  <2> QED BY <2>1, <1>4, <1>13, Zenon
<1>15. f[n] = Total(t)
  BY <1>2, <1>9, <1>13, Zenon
<1> QED BY <1>1, <1>13, <1>14, <1>15, Zenon DEF Sums

\* The sum of no numbers, and of one more.
LEMMA TotalSteps ==
  /\ \A t \in [1 .. 0 -> Int] : Total(t) = 0
  /\ \A n \in Nat : \A t \in [1 .. n + 1 -> Int] :
       /\ Total([i \in 1 .. n |-> t[i]]) \in Int
       /\ Total(t) = Total([i \in 1 .. n |-> t[i]]) + t[n + 1]
<1>1. ASSUME NEW t \in [1 .. 0 -> Int] PROVE Total(t) = 0
  <2>1. t \in Seq(Int) /\ Len(t) = 0
    OBVIOUS
  <2>2. PICK f : Sums(f, t, 0) /\ f[0] = Total(t)
    <3>1. 0 \in Nat /\ 0 = Len(t)
      BY <2>1
    <3> QED BY <2>1, <3>1, TotalRuns, Zenon
  <2> QED BY <2>2 DEF Sums
<1>2. ASSUME NEW n \in Nat, NEW t \in [1 .. n + 1 -> Int]
      PROVE  /\ Total([i \in 1 .. n |-> t[i]]) \in Int
             /\ Total(t) = Total([i \in 1 .. n |-> t[i]]) + t[n + 1]
  <2>1. PICK u : u = [i \in 1 .. n |-> t[i]]
    OBVIOUS
  <2>2. /\ t \in Seq(Int) /\ Len(t) = n + 1 /\ u \in Seq(Int) /\ Len(u) = n
        /\ \A i \in 1 .. n : u[i] = t[i]
    BY <2>1
  <2>3. PICK f : Sums(f, t, n + 1) /\ f[n + 1] = Total(t)
    <3>1. n + 1 \in Nat
      OBVIOUS
    <3> QED BY <3>1, <2>2, TotalRuns, Zenon
  <2>4. PICK g : Sums(g, u, n) /\ g[n] = Total(u)
    BY <2>2, TotalRuns, Zenon
  <2>5. /\ f \in [0 .. n + 1 -> Int] /\ f[0] = 0 /\ \A i \in 1 .. n + 1 : f[i] = f[i - 1] + t[i]
        /\ g \in [0 .. n -> Int] /\ g[0] = 0 /\ \A i \in 1 .. n : g[i] = g[i - 1] + u[i]
    BY <2>3, <2>4, Zenon DEF Sums
  <2> DEFINE Has == {k \in Nat : k <= n => f[k] = g[k]}
  <2>6. 0 \in Has
    BY <2>5
  <2>7. ASSUME NEW k \in Nat, k \in Has PROVE k + 1 \in Has
    <3> SUFFICES ASSUME k + 1 <= n PROVE f[k + 1] = g[k + 1]
      OBVIOUS
    <3>1. k + 1 \in 1 .. n /\ k + 1 \in 1 .. n + 1 /\ (k + 1) - 1 = k /\ f[k] = g[k]
      BY <2>7
    <3> QED BY <3>1, <2>2, <2>5, Zenon
  <2>8. n \in Has
    <3> HIDE DEF Has
    <3> QED BY <2>6, <2>7, SetInduction
  <2>9. f[n] = g[n] /\ g[n] \in Int
    BY <2>5, <2>8
  <2>10. f[n + 1] = f[n] + t[n + 1]
    <3>1. n + 1 \in 1 .. n + 1 /\ (n + 1) - 1 = n
      OBVIOUS
    <3> QED BY <3>1, <2>5, Zenon
  <2> QED BY <2>1, <2>3, <2>4, <2>9, <2>10, Zenon
<1> QED BY <1>1, <1>2, Zenon

\* What the first n limbs stand for.
Part(a, n) == Total([i \in 1 .. n |-> a[i - 1] * Power[i - 1]])

\* No limb stands for nothing, and the next for its power.
LEMMA PartSteps ==
  ASSUME NEW a \in [Places -> Int]
  PROVE  /\ Part(a, 0) = 0 /\ Part(a, Limbs) = Value(a)
         /\ \A n \in 0 .. Limbs : Part(a, n) \in Int
         /\ \A n \in Places : Part(a, n + 1) = Part(a, n) + a[n] * Power[n]
<1>1. PICK l \in Nat : l = Limbs
  BY PolyAssumption
<1>2. ASSUME NEW n \in 0 .. l
      PROVE [i \in 1 .. n |-> a[i - 1] * Power[i - 1]] \in [1 .. n -> Int]
  <2> SUFFICES ASSUME NEW i \in 1 .. n PROVE a[i - 1] * Power[i - 1] \in Int
    OBVIOUS
  <2>1. i - 1 \in Places /\ i - 1 \in Nat
    BY <1>1 DEF Places
  <2>2. PICK x \in Int, p \in Int : x = a[i - 1] /\ p = Power[i - 1]
    BY <2>1, PowerSteps
  <2>3. x * p \in Int
    OBVIOUS
  <2> QED BY <2>2, <2>3
<1>3. Part(a, 0) = 0
  <2>1. 0 \in 0 .. l
    OBVIOUS
  <2>2. [i \in 1 .. 0 |-> a[i - 1] * Power[i - 1]] \in [1 .. 0 -> Int]
    BY <2>1, <1>2, Zenon
  <2> QED BY <2>2, TotalSteps, Zenon DEF Part
<1>4. ASSUME NEW n \in Places
      PROVE  Part(a, n) \in Int /\ Part(a, n + 1) = Part(a, n) + a[n] * Power[n]
  <2>1. n \in Nat /\ n + 1 \in 0 .. l /\ (n + 1) - 1 = n /\ n + 1 \in 1 .. n + 1
    BY <1>1 DEF Places
  <2>2. PICK t : t = [i \in 1 .. n + 1 |-> a[i - 1] * Power[i - 1]]
    OBVIOUS
  <2>3. t \in [1 .. n + 1 -> Int]
    BY <2>1, <2>2, <1>2
  <2>4. [i \in 1 .. n |-> t[i]] = [i \in 1 .. n |-> a[i - 1] * Power[i - 1]]
    <3>1. \A i \in 1 .. n : i \in 1 .. n + 1
      BY <2>1
    <3>2. \A i \in 1 .. n : t[i] = a[i - 1] * Power[i - 1]
      BY <2>2, <3>1, Zenon
    <3> QED BY <3>2, Zenon
  <2>5. Part(a, n) \in Int /\ Total(t) = Part(a, n) + t[n + 1]
    BY <2>1, <2>3, <2>4, TotalSteps, Zenon DEF Part
  <2>6. t[n + 1] = a[n] * Power[n]
    BY <2>1, <2>2, Zenon
  <2> QED BY <2>2, <2>5, <2>6, Zenon DEF Part
<1>5. ASSUME NEW n \in 0 .. l PROVE Part(a, n) \in Int
  <2>1. CASE n = 0
    BY <1>3, <2>1
  <2>2. CASE n # 0
    <3>1. PICK m \in Places : n = m + 1
      BY <2>2, <1>1 DEF Places
    <3>2. PICK x \in Int, p \in Int : x = a[m] /\ p = Power[m]
      <4>1. m \in Nat
        BY <1>1 DEF Places
      <4>2. Power[m] \in Nat \ {0}
        BY <4>1, PowerSteps, Zenon
      <4> QED BY <4>2
    <3>3. PICK q \in Int : q = Part(a, m)
      BY <1>4
    <3>4. Part(a, m + 1) = q + x * p
      BY <1>4, <3>2, <3>3
    <3>5. q + x * p \in Int
      OBVIOUS
    <3> QED BY <3>1, <3>4, <3>5
  <2> QED BY <2>1, <2>2
<1>6. Part(a, Limbs) = Value(a)
  BY Zenon DEF Part, Value
<1> QED BY <1>1, <1>3, <1>4, <1>5, <1>6, Zenon

\* What limbs stand for is a number.
LEMMA ValueIsInt ==
  ASSUME NEW a \in [Places -> Int]
  PROVE  Value(a) \in Int
<1>1. Limbs \in 0 .. Limbs
  BY PolyAssumption
<1> QED BY <1>1, PartSteps, Zenon

\* The number of limbs, and what Places has to do with it.
LEMMA PlaceBounds ==
  /\ Limbs \in Nat /\ Limbs >= 3
  /\ \A n \in Places : n \in Nat /\ n < Limbs /\ n + 1 \in 0 .. Limbs /\ n \in 0 .. Limbs
  /\ \A n \in Nat : n < Limbs => n \in Places
BY PolyAssumption DEF Places

\* A set that has 0 and, with the number of a limb, the next one, has all up to Limbs.
LEMMA LimbInduction ==
  ASSUME NEW S, 0 \in S, \A n \in Places : n \in S => n + 1 \in S
  PROVE  \A n \in 0 .. Limbs : n \in S
<1> DEFINE T == {n \in Nat : n <= Limbs => n \in S}
<1>1. 0 \in T
  OBVIOUS
<1>2. ASSUME NEW n \in Nat, n \in T PROVE n + 1 \in T
  <2> SUFFICES ASSUME n + 1 <= Limbs PROVE n + 1 \in S
    OBVIOUS
  <2>1. n < Limbs /\ n <= Limbs
    BY PlaceBounds
  <2>2. n \in Places /\ n \in S
    BY <1>2, <2>1, PlaceBounds
  <2> QED BY <2>2
<1>3. \A n \in Nat : n \in T
  <2> HIDE DEF T
  <2> QED BY <1>1, <1>2, SetInduction
<1> QED BY <1>3, PlaceBounds

\* The sum of limbs, one of them taken k times.
LEMMA ValueLinear ==
  ASSUME NEW a \in [Places -> Int], NEW b \in [Places -> Int], NEW k \in Int, NEW c,
         c = [i \in Places |-> a[i] + k * b[i]]
  PROVE  Value(c) = Value(a) + k * Value(b)
<1>2. c \in [Places -> Int]
  <2>1. ASSUME NEW i \in Places PROVE a[i] + k * b[i] \in Int
    <3>1. a[i] \in Int /\ b[i] \in Int
      OBVIOUS
    <3>2. \A x, y \in Int : x + k * y \in Int
      OBVIOUS
    <3> QED BY <3>1, <3>2
  <2> QED BY <2>1
<1> DEFINE Has == {n \in Nat : Part(c, n) = Part(a, n) + k * Part(b, n)}
<1>3. 0 \in Has
  <2>1. Part(a, 0) = 0 /\ Part(b, 0) = 0 /\ Part(c, 0) = 0
    BY <1>2, PartSteps
  <2> QED BY <2>1
<1>4. ASSUME NEW n \in Places, n \in Has PROVE n + 1 \in Has
  <2>1. /\ Part(a, n + 1) = Part(a, n) + a[n] * Power[n]
        /\ Part(b, n + 1) = Part(b, n) + b[n] * Power[n]
        /\ Part(c, n + 1) = Part(c, n) + c[n] * Power[n]
    BY <1>2, PartSteps, Zenon
  <2>2. PICK p \in Int, x \in Int, y \in Int, u \in Int, v \in Int :
          p = Power[n] /\ x = a[n] /\ y = b[n] /\ u = Part(a, n) /\ v = Part(b, n)
    <3>1. Power[n] \in Int
      <4>1. n \in Nat
        BY PlaceBounds
      <4>2. Power[n] \in Nat \ {0}
        BY <4>1, PowerSteps, Zenon
      <4> QED BY <4>2
    <3>2. Part(a, n) \in Int /\ Part(b, n) \in Int
      BY PlaceBounds, PartSteps
    <3> QED BY <3>1, <3>2
  <2>3. c[n] = x + k * y /\ Part(c, n) = u + k * v
    BY <1>4, <2>2
  <2>4. Part(c, n + 1) = (u + k * v) + (x + k * y) * p
    BY <2>1, <2>2, <2>3
  <2>5. (u + k * v) + (x + k * y) * p = (u + x * p) + k * (v + y * p)
    OBVIOUS
  <2>6. n + 1 \in Nat
    BY PlaceBounds
  <2> QED BY <2>1, <2>2, <2>4, <2>5, <2>6
<1>5. Limbs \in Has
  <2>1. \A n \in 0 .. Limbs : n \in Has
    <3> HIDE DEF Has
    <3> QED BY <1>3, <1>4, LimbInduction
  <2> HIDE DEF Has
  <2> QED BY <2>1, PlaceBounds
<1>6. Value(a) = Part(a, Limbs) /\ Value(b) = Part(b, Limbs) /\ Value(c) = Part(c, Limbs)
  BY <1>2, PartSteps
<1> QED BY <1>5, <1>6

\* What a change of one limb changes.
LEMMA ValueChanges ==
  ASSUME NEW a \in [Places -> Int], NEW i \in Places, NEW x \in Int
  PROVE  /\ [a EXCEPT ![i] = x] \in [Places -> Int]
         /\ Value([a EXCEPT ![i] = x]) = Value(a) + (x - a[i]) * Power[i]
<1>1. PICK c : c = [a EXCEPT ![i] = x]
  OBVIOUS
<1>2. c \in [Places -> Int] /\ c[i] = x /\ \A n \in Places : n # i => c[n] = a[n]
  BY <1>1
<1>0. PICK d \in Int : d = (x - a[i]) * Power[i]
  <2>1. i \in Nat
    BY PlaceBounds
  <2>2. Power[i] \in Nat \ {0}
    BY <2>1, PowerSteps, Zenon
  <2>3. PICK y \in Int, p \in Int : y = a[i] /\ p = Power[i]
    BY <2>2
  <2>4. (x - y) * p \in Int
    OBVIOUS
  <2> QED BY <2>3, <2>4
<1> DEFINE Has == {n \in Nat : Part(c, n) = Part(a, n) + IF i < n THEN d ELSE 0}
<1>3. 0 \in Has
  <2>1. Part(a, 0) = 0 /\ Part(c, 0) = 0 /\ ~(i < 0)
    BY <1>2, PartSteps, PlaceBounds
  <2> QED BY <2>1
<1>4. ASSUME NEW n \in Places, n \in Has PROVE n + 1 \in Has
  <2>1. /\ Part(a, n + 1) = Part(a, n) + a[n] * Power[n]
        /\ Part(c, n + 1) = Part(c, n) + c[n] * Power[n]
    BY <1>2, PartSteps, Zenon
  <2>2. PICK p \in Int, y \in Int, u \in Int :
          p = Power[n] /\ y = a[n] /\ u = Part(a, n)
    <3>1. Power[n] \in Int
      <4>1. n \in Nat
        BY PlaceBounds
      <4>2. Power[n] \in Nat \ {0}
        BY <4>1, PowerSteps, Zenon
      <4> QED BY <4>2
    <3>2. Part(a, n) \in Int
      BY PlaceBounds, PartSteps
    <3> QED BY <3>1, <3>2
  <2>3. n + 1 \in Nat /\ n \in Nat /\ i \in Nat
    BY PlaceBounds
  <2>4. CASE n = i
    <3>1. Part(c, n) = u /\ i < n + 1
      BY <1>4, <2>2, <2>3, <2>4
    <3>2. Part(c, n + 1) = u + x * p /\ d = (x - y) * p /\ Part(a, n + 1) = u + y * p
      BY <1>0, <1>2, <2>1, <2>2, <2>4, <3>1
    <3>3. u + x * p = (u + y * p) + (x - y) * p
      OBVIOUS
    <3> QED BY <2>3, <3>1, <3>2, <3>3
  <2>5. CASE n # i
    <3>1. c[n] = a[n] /\ (i < n + 1 <=> i < n)
      BY <1>2, <2>3, <2>5
    <3>2. PICK z \in Int : z = a[n] * Power[n]
      BY <2>2
    <3>3. Part(c, n + 1) = (u + (IF i < n THEN d ELSE 0)) + z /\ Part(a, n + 1) = u + z
      BY <1>4, <2>1, <2>2, <3>1, <3>2
    <3> QED BY <2>3, <3>1, <3>3
  <2> QED BY <2>4, <2>5
<1>5. Limbs \in Has
  <2>1. \A n \in 0 .. Limbs : n \in Has
    <3> HIDE DEF Has
    <3> QED BY <1>3, <1>4, LimbInduction
  <2> HIDE DEF Has
  <2> QED BY <2>1, PlaceBounds
<1>6. Value(a) = Part(a, Limbs) /\ Value(c) = Part(c, Limbs) /\ i < Limbs
  BY <1>2, PartSteps, PlaceBounds
<1> QED BY <1>0, <1>1, <1>2, <1>5, <1>6

\* Limbs within their width stand for less than the power of the next.
LEMMA PartBounds ==
  ASSUME NEW a \in [Places -> Int], NEW k \in 0 .. Limbs,
         \A i \in Places : i < k => a[i] \in 0 .. Base - 1
  PROVE  Part(a, k) \in 0 .. Power[k] - 1
<1>1. PICK b \in Nat : b = Base
  BY PolyAssumption
<1> DEFINE Has == {n \in Nat : n <= k => Part(a, n) \in 0 .. Power[n] - 1}
<1>2. 0 \in Has
  <2>1. Part(a, 0) = 0 /\ Power[0] = 1
    BY PartSteps, PowerSteps
  <2> QED BY <2>1
<1>3. ASSUME NEW n \in Places, n \in Has PROVE n + 1 \in Has
  <2>1. n \in Nat /\ n + 1 \in Nat
    BY PlaceBounds
  <2> SUFFICES ASSUME n + 1 <= k PROVE Part(a, n + 1) \in 0 .. Power[n + 1] - 1
    BY <2>1
  <2>2. PICK p \in Nat \ {0} : p = Power[n] /\ Power[n + 1] = b * p
    BY <2>1, <1>1, PowerSteps, Zenon
  <2>3. k \in Int
    BY PlaceBounds
  <2>4. n < k /\ n <= k
    BY <2>1, <2>3
  <2>5. PICK u \in 0 .. p - 1, x \in 0 .. b - 1 : u = Part(a, n) /\ x = a[n]
    BY <1>1, <1>3, <2>2, <2>4
  <2>6. Part(a, n + 1) = u + x * p
    BY <2>2, <2>5, PartSteps, Zenon
  <2>7. u + x * p \in 0 .. b * p - 1
    <3>1. x * p >= 0 /\ x * p \in Int
      OBVIOUS
    <3>2. (b - 1 - x) * p >= 0
      OBVIOUS
    <3>3. (b - 1 - x) * p = b * p - p - x * p
      OBVIOUS
    <3>4. PICK y \in Int, z \in Int : y = x * p /\ z = b * p
      OBVIOUS
    <3> QED BY <3>1, <3>2, <3>3, <3>4
  <2> QED BY <2>2, <2>6, <2>7
<1>4. k \in Has
  <2>1. \A n \in 0 .. Limbs : n \in Has
    <3> HIDE DEF Has
    <3> QED BY <1>2, <1>3, LimbInduction
  <2> HIDE DEF Has
  <2> QED BY <2>1
<1>5. k \in Int
  BY PlaceBounds
<1> QED BY <1>4, <1>5

\* Split takes a number apart and Value puts it together.
LEMMA SplitValue ==
  ASSUME NEW n \in Nat
  PROVE  /\ Split(n) \in [Places -> 0 .. Base - 1]
         /\ n < Power[Limbs] => Value(Split(n)) = n
<1>1. PICK b \in Nat \ {0} : b = Base
  BY PolyAssumption
<1>0. PICK s : s = Split(n)
  OBVIOUS
<1>p. \A k \in Nat : Power[k] \in Nat \ {0} /\ Power[k + 1] = b * Power[k]
  BY <1>1, PowerSteps, Zenon
<1>2. s \in [Places -> 0 .. b - 1]
  <2>1. ASSUME NEW i \in Places PROVE (n \div Power[i]) % b \in 0 .. b - 1
    <3>1. i \in Nat
      BY PlaceBounds
    <3>2. PICK p \in Nat \ {0} : p = Power[i]
      BY <1>p, <3>1, Zenon
    <3>3. n \div p \in Int
      BY Division
    <3>4. (n \div p) % b \in 0 .. b - 1
      BY <3>3, Division, Zenon
    <3> QED BY <3>2, <3>4
  <2> QED BY <1>0, <1>1, <2>1 DEF Split
<1>3. s \in [Places -> Int]
  BY <1>2
<1> DEFINE Has == {k \in Nat : Part(s, k) + Power[k] * (n \div Power[k]) = n}
<1>4. 0 \in Has
  <2>1. Part(s, 0) = 0 /\ Power[0] = 1
    BY <1>3, PartSteps, PowerSteps
  <2>2. Splits(n, 1, n, 0)
    BY DEF Splits
  <2>3. n \div 1 = n
    BY <2>2, SplitsOnce
  <2> QED BY <2>1, <2>3
<1>5. ASSUME NEW k \in Places, k \in Has PROVE k + 1 \in Has
  <2>1. k \in Nat /\ k + 1 \in Nat
    BY PlaceBounds
  <2>2. PICK p \in Nat \ {0} : p = Power[k] /\ Power[k + 1] = b * p
    BY <2>1, <1>p, Zenon
  <2>3. PICK q \in Nat, t \in 0 .. p - 1 : Splits(n, p, q, t) /\ n = p * q + t
    BY SplitsSomehow
  <2>4. n \div p = q
    BY <2>3, SplitsOnce
  <2>5. PICK o \in Nat, d \in 0 .. b - 1 : Splits(q, b, o, d) /\ q = b * o + d
    BY SplitsSomehow
  <2>6. s[k] = d
    <3>1. q % b = d
      BY <2>5, SplitsOnce
    <3> QED BY <1>0, <1>1, <2>2, <2>4, <3>1 DEF Split
  <2>7. n = (b * p) * o + (p * d + t)
    <3>1. p * (b * o + d) = (b * p) * o + p * d
      OBVIOUS
    <3>2. PICK x \in Int, y \in Int : x = (b * p) * o /\ y = p * d
      OBVIOUS
    <3> QED BY <2>3, <2>5, <3>1, <3>2
  <2>8. p * d + t \in 0 .. b * p - 1
    <3>1. p * d >= 0 /\ p * d \in Int
      OBVIOUS
    <3>2. p * (b - 1 - d) >= 0
      OBVIOUS
    <3>3. p * (b - 1 - d) = b * p - p - p * d
      OBVIOUS
    <3>4. PICK y \in Int, z \in Int : y = p * d /\ z = b * p
      OBVIOUS
    <3> QED BY <3>1, <3>2, <3>3, <3>4
  <2>9. n \div (b * p) = o
    <3>1. PICK m \in Nat \ {0} : m = b * p
      OBVIOUS
    <3>2. Splits(n, m, o, p * d + t)
      BY <2>7, <2>8, <3>1 DEF Splits
    <3> QED BY <3>1, <3>2, SplitsOnce
  <2>10. Part(s, k + 1) = Part(s, k) + d * p
    BY <1>3, <2>2, <2>6, PartSteps, Zenon
  <2>11. Part(s, k) = t
    <3>1. Part(s, k) \in Int
      BY <1>3, PartSteps, PlaceBounds
    <3>2. Part(s, k) + p * q = n
      BY <1>5, <2>2, <2>4
    <3>3. PICK x \in Int, y \in Int : x = Part(s, k) /\ y = p * q
      BY <3>1
    <3>4. x + y = n /\ n = y + t
      BY <2>3, <3>2, <3>3
    <3>5. x = t
      BY ONLY <3>4, x \in Int, y \in Int, t \in 0 .. p - 1, p \in Nat \ {0}
    <3> QED BY <3>3, <3>5
  <2>12. (t + d * p) + (b * p) * o = n
    <3>1. PICK x \in Int, y \in Int : x = (b * p) * o /\ y = p * d /\ y = d * p
      OBVIOUS
    <3> QED BY <2>7, <3>1
  <2> QED BY <2>1, <2>2, <2>9, <2>10, <2>11, <2>12
<1>6. ASSUME n < Power[Limbs] PROVE Value(s) = n
  <2>1. PICK p \in Nat \ {0} : p = Power[Limbs]
    BY <1>p, PlaceBounds
  <2>2. Limbs \in Has
    <3>1. \A k \in 0 .. Limbs : k \in Has
      <4> HIDE DEF Has
      <4> QED BY <1>4, <1>5, LimbInduction
    <3> HIDE DEF Has
    <3> QED BY <3>1, PlaceBounds
  <2>3. n \div p = 0
    <3>1. n \in 0 .. p - 1
      BY <1>6, <2>1
    <3> QED BY <3>1, SmallRemainder
  <2>4. Value(s) = Part(s, Limbs) /\ Part(s, Limbs) \in Int
    BY <1>3, PartSteps, PlaceBounds
  <2> QED BY <2>1, <2>2, <2>3, <2>4
<1> QED BY <1>0, <1>1, <1>2, <1>6, Zenon

(***************************************************************************)
(* Poly1305: the product.                                                  *)
(***************************************************************************)

\* b, j limbs further up; what passes the top comes back five times.
Turned(b, j) == [i \in Places |-> IF j <= i THEN b[i - j] ELSE 5 * b[Limbs + i - j]]

\* Its limbs, and those one further up.
LEMMA TurnedLimbs ==
  ASSUME NEW b \in [Places -> Int], NEW j \in Places
  PROVE  /\ Turned(b, j) \in [Places -> Int]
         /\ Turned(b, j)[Limbs - 1] = b[Limbs - 1 - j]
         /\ j + 1 \in Places =>
              /\ Turned(b, j + 1)[0] = 5 * b[Limbs - 1 - j]
              /\ \A i \in Places : i + 1 \in Places => Turned(b, j + 1)[i + 1] = Turned(b, j)[i]
<1>1. PICK l \in Nat : l = Limbs /\ l >= 3 /\ Places = 0 .. l - 1
  BY PolyAssumption DEF Places
<1>2. Turned(b, j) \in [Places -> Int]
  <2>1. ASSUME NEW i \in Places PROVE (IF j <= i THEN b[i - j] ELSE 5 * b[l + i - j]) \in Int
    <3>1. CASE j <= i
      <4>1. i - j \in Places
        BY <1>1, <3>1
      <4> QED BY <3>1, <4>1
    <3>2. CASE ~(j <= i)
      <4>1. l + i - j \in Places
        BY <1>1, <3>2
      <4>2. b[l + i - j] \in Int
        BY <4>1
      <4> QED BY <3>2, <4>2
    <3> QED BY <3>1, <3>2
  <2> QED BY <1>1, <2>1 DEF Turned
<1>3. Turned(b, j)[l - 1] = b[l - 1 - j]
  <2>1. l - 1 \in Places /\ j <= l - 1
    BY <1>1
  <2> QED BY <1>1, <2>1 DEF Turned
<1>4. ASSUME j + 1 \in Places PROVE Turned(b, j + 1)[0] = 5 * b[l - 1 - j]
  <2>1. 0 \in Places /\ ~(j + 1 <= 0) /\ l + 0 - (j + 1) = l - 1 - j
    BY <1>1
  <2> QED BY <1>1, <2>1 DEF Turned
<1>5. ASSUME j + 1 \in Places, NEW i \in Places, i + 1 \in Places
      PROVE  Turned(b, j + 1)[i + 1] = Turned(b, j)[i]
  <2>1. (j + 1 <= i + 1 <=> j <= i) /\ (i + 1) - (j + 1) = i - j /\ l + (i + 1) - (j + 1) = l + i - j
    BY <1>1
  <2> QED BY <1>1, <1>5, <2>1 DEF Turned
<1> QED BY <1>1, <1>2, <1>3, <1>4, <1>5, Zenon

\* One limb up is once more the base, but for multiples of the prime.
LEMMA TurnedOnce ==
  ASSUME NEW b \in [Places -> Int], NEW j \in Places, j + 1 \in Places
  PROVE  Value(Turned(b, j + 1)) = Base * Value(Turned(b, j)) - Prime * b[Limbs - 1 - j]
<1>1. PICK l \in Nat : l = Limbs /\ l >= 3 /\ Places = 0 .. l - 1
  BY PolyAssumption DEF Places
<1>b. PICK base \in Nat : base = Base
  BY PolyAssumption
<1>2. PICK w, v : w = Turned(b, j) /\ v = Turned(b, j + 1)
  OBVIOUS
<1>3. w \in [Places -> Int] /\ v \in [Places -> Int]
  BY <1>2, TurnedLimbs
<1>4. PICK z \in Int : z = b[l - 1 - j]
  <2>1. l - 1 - j \in Places
    BY <1>1
  <2> QED BY <2>1
<1>5. /\ w[l - 1] = z /\ v[0] = 5 * z
      /\ \A i \in Places : i + 1 \in Places => v[i + 1] = w[i]
  <2>1. Turned(b, j)[Limbs - 1] = b[Limbs - 1 - j] /\ Turned(b, j + 1)[0] = 5 * b[Limbs - 1 - j]
    BY TurnedLimbs
  <2>2. \A i \in Places : i + 1 \in Places => Turned(b, j + 1)[i + 1] = Turned(b, j)[i]
    BY TurnedLimbs
  <2> QED BY <1>1, <1>2, <1>4, <2>1, <2>2
<1> DEFINE Has == {n \in Nat : n + 1 <= l => Part(v, n + 1) = base * Part(w, n) + 5 * z}
<1>6. 0 \in Has
  <2>1. Part(v, 0) = 0 /\ Part(w, 0) = 0 /\ Power[0] = 1
    BY <1>3, PartSteps, PowerSteps
  <2>2. Part(v, 0 + 1) = Part(v, 0) + v[0] * Power[0]
    <3>1. 0 \in Places
      BY <1>1
    <3> QED BY <1>3, <3>1, PartSteps, Zenon
  <2> QED BY <1>5, <2>1, <2>2
<1>7. ASSUME NEW n \in Places, n \in Has PROVE n + 1 \in Has
  <2>0. n + 1 \in Nat /\ n \in Nat
    BY <1>1
  <2> SUFFICES ASSUME (n + 1) + 1 <= l PROVE Part(v, (n + 1) + 1) = base * Part(w, n + 1) + 5 * z
    BY <2>0
  <2>1. n + 1 \in Places /\ n + 1 <= l
    BY <1>1
  <2>2. PICK p \in Nat \ {0} : p = Power[n] /\ Power[n + 1] = base * p
    BY <2>0, <1>b, PowerSteps, Zenon
  <2>3. /\ Part(v, (n + 1) + 1) = Part(v, n + 1) + v[n + 1] * Power[n + 1]
        /\ Part(w, n + 1) = Part(w, n) + w[n] * Power[n]
    BY <1>3, <2>1, PartSteps, Zenon
  <2>4. PICK x \in Int, u \in Int : x = w[n] /\ u = Part(w, n) /\ v[n + 1] = x
    <3>1. w[n] \in Int /\ Part(w, n) \in Int
      BY <1>3, PartSteps, PlaceBounds
    <3> QED BY <1>5, <2>1, <3>1
  <2>5. Part(v, n + 1) = base * u + 5 * z
    BY <1>7, <2>1, <2>4
  <2>6. (base * u + 5 * z) + x * (base * p) = base * (u + x * p) + 5 * z
    OBVIOUS
  <2> QED BY <2>2, <2>3, <2>4, <2>5, <2>6
<1>8. Part(v, l) = base * Part(w, l - 1) + 5 * z
  <2>1. \A n \in 0 .. Limbs : n \in Has
    <3> HIDE DEF Has
    <3> QED BY <1>6, <1>7, LimbInduction
  <2>2. l - 1 \in 0 .. Limbs /\ (l - 1) + 1 = l
    BY <1>1
  <2>3. l - 1 \in Has
    <3> HIDE DEF Has
    <3> QED BY <2>1, <2>2
  <2> QED BY <2>2, <2>3
<1>9. PICK p \in Nat \ {0} : p = Power[l - 1] /\ Power[l] = base * p
  <2>1. l - 1 \in Nat /\ (l - 1) + 1 = l
    BY <1>1
  <2>2. Power[l - 1] \in Nat \ {0} /\ Power[(l - 1) + 1] = base * Power[l - 1]
    BY <2>1, <1>b, PowerSteps, Zenon
  <2> QED BY <2>1, <2>2
<1>10. Part(w, l) = Part(w, l - 1) + z * p /\ Part(w, l - 1) \in Int
  <2>1. l - 1 \in Places /\ (l - 1) + 1 = l
    BY <1>1
  <2>2. Part(w, (l - 1) + 1) = Part(w, l - 1) + w[l - 1] * Power[l - 1]
    BY <1>3, <2>1, PartSteps, Zenon
  <2>3. Part(w, l - 1) \in Int
    BY <1>3, <2>1, PartSteps, PlaceBounds
  <2> QED BY <1>5, <1>9, <2>1, <2>2, <2>3
<1>11. PICK u \in Int : u = Part(w, l - 1)
  BY <1>10
<1>12. base * u + 5 * z = base * (u + z * p) - (base * p - 5) * z
  OBVIOUS
<1>13. Value(v) = Part(v, l) /\ Value(w) = Part(w, l) /\ Prime = base * p - 5
  BY <1>1, <1>3, <1>9, PartSteps DEF Prime
<1>14. Value(v) = base * u + 5 * z /\ Value(w) = u + z * p
  BY <1>8, <1>10, <1>11, <1>13
<1>15. Value(v) = base * Value(w) - Prime * z
  BY <1>12, <1>13, <1>14
<1> QED BY <1>1, <1>2, <1>4, <1>15, <1>b, Zenon

\* So j limbs further up it is its power as often, but for multiples of the prime.
LEMMA TurnedValue ==
  ASSUME NEW b \in [Places -> Int], NEW j \in Places
  PROVE  \E k \in Int : Value(Turned(b, j)) = Power[j] * Value(b) - Prime * k
<1>1. PICK base \in Nat, q \in Int, v \in Int : base = Base /\ q = Prime /\ v = Value(b)
  <2>1. Power[Limbs] \in Nat \ {0}
    BY PowerSteps, PlaceBounds, Zenon
  <2>2. Prime \in Int
    BY <2>1 DEF Prime
  <2>3. Value(b) \in Int
    BY PartSteps, PlaceBounds
  <2> QED BY <2>2, <2>3, PolyAssumption
<1> DEFINE Has == {n \in Nat : n \in Places => \E k \in Int : Value(Turned(b, n)) = Power[n] * v - q * k}
<1>2. 0 \in Has
  <2>1. Turned(b, 0) = b
    <3>1. \A i \in Places : 0 <= i /\ i - 0 = i
      BY PlaceBounds
    <3>2. Turned(b, 0) = [i \in Places |-> b[i]]
      BY <3>1 DEF Turned
    <3> QED BY <3>2
  <2>2. v = 1 * v - q * 0
    OBVIOUS
  <2>3. Value(Turned(b, 0)) = Power[0] * v - q * 0
    BY <1>1, <2>1, <2>2, PowerSteps, Zenon
  <2>4. \E k \in Int : Value(Turned(b, 0)) = Power[0] * v - q * k
    BY <2>3
  <2> QED BY <2>4
<1>3. ASSUME NEW n \in Places, n \in Has PROVE n + 1 \in Has
  <2>0. n \in Nat /\ n + 1 \in Nat
    BY PlaceBounds
  <2> SUFFICES ASSUME n + 1 \in Places
               PROVE  \E k \in Int : Value(Turned(b, n + 1)) = Power[n + 1] * v - q * k
    BY <2>0
  <2>1. PICK k \in Int : Value(Turned(b, n)) = Power[n] * v - q * k
    BY <1>3
  <2>2. PICK p \in Nat \ {0} : p = Power[n] /\ Power[n + 1] = base * p
    BY <2>0, <1>1, PowerSteps, Zenon
  <2>3. PICK z \in Int : z = b[Limbs - 1 - n]
    <3>1. Limbs - 1 - n \in Places
      BY PolyAssumption DEF Places
    <3> QED BY <3>1
  <2>4. Value(Turned(b, n + 1)) = base * (p * v - q * k) - q * z
    BY <1>1, <2>1, <2>2, <2>3, TurnedOnce, Zenon
  <2>5. base * (p * v - q * k) - q * z = (base * p) * v - q * (base * k + z)
    OBVIOUS
  <2>6. base * k + z \in Int
    OBVIOUS
  <2>7. Value(Turned(b, n + 1)) = Power[n + 1] * v - q * (base * k + z)
    BY <2>2, <2>4, <2>5, Zenon
  <2> QED BY <2>6, <2>7, Zenon
<1>4. \A n \in 0 .. Limbs : n \in Has
  <2> HIDE DEF Has
  <2> QED BY <1>2, <1>3, LimbInduction
<1>5. j \in Has
  <2> HIDE DEF Has
  <2> QED BY <1>4, PlaceBounds
<1> QED BY <1>1, <1>5

\* The columns of the first n limbs of a.
ColumnsTo(a, b, n) == [i \in Places |-> Total([j \in 1 .. n |-> a[j - 1] * Turned(b, j - 1)[i]])]

\* No limb fills no column, and the next as many rows as it counts.
LEMMA ColumnSteps ==
  ASSUME NEW a \in [Places -> Int], NEW b \in [Places -> Int]
  PROVE  /\ ColumnsTo(a, b, 0) = [i \in Places |-> 0]
         /\ ColumnsTo(a, b, Limbs) = Columns(a, b)
         /\ \A n \in Places :
              /\ ColumnsTo(a, b, n) \in [Places -> Int]
              /\ ColumnsTo(a, b, n + 1) = [i \in Places |-> ColumnsTo(a, b, n)[i] + a[n] * Turned(b, n)[i]]
<1>1. PICK l \in Nat : l = Limbs
  BY PolyAssumption
<1> DEFINE Row(i, n) == [j \in 1 .. n |-> a[j - 1] * Turned(b, j - 1)[i]]
<1>2. ASSUME NEW n \in 0 .. l, NEW i \in Places PROVE Row(i, n) \in [1 .. n -> Int]
  <2> SUFFICES ASSUME NEW j \in 1 .. n PROVE a[j - 1] * Turned(b, j - 1)[i] \in Int
    OBVIOUS
  <2>1. j - 1 \in Places
    BY <1>1 DEF Places
  <2>2. a[j - 1] \in Int /\ Turned(b, j - 1)[i] \in Int
    BY <2>1, TurnedLimbs
  <2>3. \A x, y \in Int : x * y \in Int
    OBVIOUS
  <2> QED BY <2>2, <2>3
<1>3. ASSUME NEW i \in Places PROVE Total(Row(i, 0)) = 0
  <2>1. 0 \in 0 .. l
    OBVIOUS
  <2>2. Row(i, 0) \in [1 .. 0 -> Int]
    BY <2>1, <1>2, Zenon
  <2> HIDE DEF Row
  <2> QED BY <2>2, TotalSteps, Zenon
<1>4. ASSUME NEW n \in Places, NEW i \in Places
      PROVE  /\ Total(Row(i, n)) \in Int
             /\ Total(Row(i, n + 1)) = Total(Row(i, n)) + a[n] * Turned(b, n)[i]
  <2>1. n \in Nat /\ n + 1 \in 0 .. l /\ (n + 1) - 1 = n /\ n + 1 \in 1 .. n + 1
    BY <1>1 DEF Places
  <2>2. PICK t : t = Row(i, n + 1)
    OBVIOUS
  <2>3. t \in [1 .. n + 1 -> Int]
    BY <2>1, <2>2, <1>2, Zenon
  <2>4. [j \in 1 .. n |-> t[j]] = Row(i, n)
    <3>1. \A j \in 1 .. n : j \in 1 .. n + 1
      BY <2>1
    <3>2. \A j \in 1 .. n : t[j] = a[j - 1] * Turned(b, j - 1)[i]
      BY <2>2, <3>1, Zenon
    <3> QED BY <3>2, Zenon
  <2>5. t[n + 1] = a[n] * Turned(b, n)[i]
    BY <2>1, <2>2, Zenon
  <2> HIDE DEF Row
  <2>6. Total(Row(i, n)) \in Int /\ Total(t) = Total(Row(i, n)) + t[n + 1]
    BY <2>1, <2>3, <2>4, TotalSteps, Zenon
  <2> QED BY <2>2, <2>5, <2>6, Zenon
<1>5. \A n : ColumnsTo(a, b, n) = [i \in Places |-> Total(Row(i, n))]
  BY Zenon DEF ColumnsTo
<1>6. ColumnsTo(a, b, 0) = [i \in Places |-> 0]
  <2> HIDE DEF Row
  <2> QED BY <1>3, <1>5, Zenon
<1>7. ASSUME NEW n \in Places
      PROVE  /\ ColumnsTo(a, b, n) \in [Places -> Int]
             /\ ColumnsTo(a, b, n + 1) = [i \in Places |-> ColumnsTo(a, b, n)[i] + a[n] * Turned(b, n)[i]]
  <2> HIDE DEF Row
  <2>1. ColumnsTo(a, b, n) \in [Places -> Int] /\ \A i \in Places : ColumnsTo(a, b, n)[i] = Total(Row(i, n))
    BY <1>4, <1>5, Zenon
  <2>2. ColumnsTo(a, b, n + 1) = [i \in Places |-> Total(Row(i, n)) + a[n] * Turned(b, n)[i]]
    BY <1>4, <1>5, Zenon
  <2> QED BY <2>1, <2>2, Zenon
<1>8. ColumnsTo(a, b, Limbs) = Columns(a, b)
  <2>1. ASSUME NEW i \in Places
        PROVE  Row(i, Limbs) = [j \in 1 .. Limbs |->
                 a[j - 1] * (IF j - 1 <= i THEN b[i - (j - 1)] ELSE 5 * b[Limbs + i - (j - 1)])]
    BY Zenon DEF Turned
  <2>2. \A i \in Places : Total(Row(i, Limbs)) = Total([j \in 1 .. Limbs |->
                 a[j - 1] * (IF j - 1 <= i THEN b[i - (j - 1)] ELSE 5 * b[Limbs + i - (j - 1)])])
    <3> HIDE DEF Row
    <3> QED BY <2>1, Zenon
  <2>3. ColumnsTo(a, b, Limbs) = [i \in Places |-> Total(Row(i, Limbs))]
    BY Zenon DEF ColumnsTo
  <2> QED BY <2>2, <2>3, Zenon DEF Columns
<1> QED BY <1>6, <1>7, <1>8, Zenon

\* The columns stand for the product.
LEMMA ColumnsValue ==
  ASSUME NEW a \in [Places -> Int], NEW b \in [Places -> Int]
  PROVE  \E k \in Int : Value(Columns(a, b)) = Value(a) * Value(b) - Prime * k
<1>1. PICK q \in Int, v \in Int : q = Prime /\ v = Value(b)
  <2>1. Power[Limbs] \in Nat \ {0}
    BY PowerSteps, PlaceBounds, Zenon
  <2>2. Prime \in Int
    BY <2>1 DEF Prime
  <2>3. Value(b) \in Int
    BY PartSteps, PlaceBounds
  <2> QED BY <2>2, <2>3
<1> DEFINE Has == {n \in Nat : \E k \in Int : Value(ColumnsTo(a, b, n)) = Part(a, n) * v - q * k}
<1>2. 0 \in Has
  <2>1. PICK c : c = [i \in Places |-> 0]
    OBVIOUS
  <2>2. PICK d : d = [i \in Places |-> c[i] + 1 * c[i]]
    OBVIOUS
  <2>0. c \in [Places -> Int]
    BY <2>1
  <2>3. d = c
    BY <2>1, <2>2
  <2>4. Value(d) = Value(c) + 1 * Value(c)
    BY <2>0, <2>2, ValueLinear
  <2>5. Value(c) = 0
    <3>1. PICK x \in Int : x = Value(c)
      BY <2>0, ValueIsInt, Zenon
    <3>2. x = x + 1 * x
      BY <2>3, <2>4, <3>1, Zenon
    <3>3. x = 0
      BY <3>2
    <3> QED BY <3>1, <3>3, Zenon
  <2>6. 0 = 0 * v - q * 0
    OBVIOUS
  <2>7. Value(ColumnsTo(a, b, 0)) = 0 /\ Part(a, 0) = 0
    BY <2>1, <2>5, ColumnSteps, PartSteps, Zenon
  <2>8. Value(ColumnsTo(a, b, 0)) = Part(a, 0) * v - q * 0
    BY <2>6, <2>7, Zenon
  <2>9. \E k \in Int : Value(ColumnsTo(a, b, 0)) = Part(a, 0) * v - q * k
    BY <2>8
  <2> QED BY <2>9
<1>3. ASSUME NEW n \in Places, n \in Has PROVE n + 1 \in Has
  <2>0. n + 1 \in Nat
    BY PlaceBounds
  <2>1. PICK k \in Int : Value(ColumnsTo(a, b, n)) = Part(a, n) * v - q * k
    BY <1>3
  <2>3. ColumnsTo(a, b, n) \in [Places -> Int] /\ Turned(b, n) \in [Places -> Int] /\ a[n] \in Int
    BY ColumnSteps, TurnedLimbs
  <2>4. ColumnsTo(a, b, n + 1) = [i \in Places |-> ColumnsTo(a, b, n)[i] + a[n] * Turned(b, n)[i]]
    BY ColumnSteps, Zenon
  <2>5. Value(ColumnsTo(a, b, n + 1)) = Value(ColumnsTo(a, b, n)) + a[n] * Value(Turned(b, n))
    BY <2>3, <2>4, ValueLinear, Zenon
  <2>6. PICK m \in Int : Value(Turned(b, n)) = Power[n] * v - q * m
    BY <1>1, TurnedValue, Zenon
  <2>7. PICK p \in Int, x \in Int, u \in Int : p = Power[n] /\ x = a[n] /\ u = Part(a, n)
    <3>1. Power[n] \in Nat \ {0}
      BY PowerSteps, PlaceBounds, Zenon
    <3>2. Part(a, n) \in Int
      BY PartSteps, PlaceBounds
    <3> QED BY <2>3, <3>1, <3>2
  <2>8. Part(a, n + 1) = u + x * p
    BY <2>7, PartSteps
  <2>9. (u * v - q * k) + x * (p * v - q * m) = (u + x * p) * v - q * (k + x * m)
    OBVIOUS
  <2>10. k + x * m \in Int
    OBVIOUS
  <2>11. Value(ColumnsTo(a, b, n + 1)) = Part(a, n + 1) * v - q * (k + x * m)
    BY <2>1, <2>5, <2>6, <2>7, <2>8, <2>9, Zenon
  <2> QED BY <2>0, <2>10, <2>11, Zenon
<1>4. \A n \in 0 .. Limbs : n \in Has
  <2> HIDE DEF Has
  <2> QED BY <1>2, <1>3, LimbInduction
<1>5. Limbs \in Has
  <2> HIDE DEF Has
  <2> QED BY <1>4, PlaceBounds
<1>6. Value(a) = Part(a, Limbs)
  BY PartSteps
<1> QED BY <1>1, <1>5, <1>6, ColumnSteps

(***************************************************************************)
(* Poly1305: carries.                                                      *)
(***************************************************************************)

\* Where a limb's carry goes.
LEMMA NextPlace ==
  ASSUME NEW i \in Places
  PROVE  /\ (i + 1) % Limbs \in Places /\ (i + 1) % Limbs # i
         /\ (i + 1) % Limbs = IF i = Limbs - 1 THEN 0 ELSE i + 1
<1>1. PICK l \in Nat \ {0} : l = Limbs /\ l >= 3 /\ i \in 0 .. l - 1 /\ Places = 0 .. l - 1
  BY PolyAssumption DEF Places
<1>2. CASE i = l - 1
  <2>1. Splits(i + 1, l, 1, 0)
    BY <1>1, <1>2 DEF Splits
  <2>2. (i + 1) % l = 0
    BY <2>1, SplitsOnce
  <2> QED BY <1>1, <1>2, <2>2
<1>3. CASE i # l - 1
  <2>1. i + 1 \in 0 .. l - 1
    BY <1>1, <1>3
  <2>2. (i + 1) % l = i + 1
    BY <2>1, SmallRemainder
  <2> QED BY <1>1, <1>3, <2>1, <2>2
<1> QED BY <1>2, <1>3

\* What comes back to the first limb does so five times.
Brought(i, c) == IF i = Limbs - 1 THEN 5 * c ELSE c

\* Limb i of a holds d and c times the base.
Holds(a, i, c, d) ==
  a \in [Places -> Int] /\ i \in Places /\ c \in Int /\ d \in 0 .. Base - 1 /\ a[i] = Base * c + d

\* The limbs after a carry.
LEMMA CarryLimbs ==
  ASSUME NEW a, NEW i, NEW c, NEW d, Holds(a, i, c, d), NEW k, k = (i + 1) % Limbs
  PROVE  /\ Carry(a, i) \in [Places -> Int]
         /\ Carry(a, i)[i] = d
         /\ Carry(a, i)[k] = a[k] + Brought(i, c)
         /\ \A n \in Places : n # i /\ n # k => Carry(a, i)[n] = a[n]
         /\ Carry(a, i) = [[a EXCEPT ![i] = d] EXCEPT ![k] = a[k] + Brought(i, c)]
<1>0. a \in [Places -> Int] /\ i \in Places /\ c \in Int /\ d \in 0 .. Base - 1 /\ a[i] = Base * c + d
  BY Zenon DEF Holds
<1>1. PICK b \in Nat \ {0} : b = Base
  BY PolyAssumption
<1>2. a[i] \div b = c /\ a[i] % b = d
  <2>1. Splits(a[i], b, c, d)
    BY <1>0, <1>1 DEF Splits
  <2> QED BY <2>1, SplitsOnce
<1>3. k \in Places /\ k # i /\ k = IF i = Limbs - 1 THEN 0 ELSE i + 1
  BY <1>0, NextPlace
<1>4. k = 0 <=> i = Limbs - 1
  <2>1. i + 1 # 0
    BY <1>0, PlaceBounds
  <2> QED BY <1>3, <2>1
<1>5. Carry(a, i) = [[a EXCEPT ![i] = d] EXCEPT ![k] = @ + Brought(i, c)]
  BY <1>1, <1>2, <1>4, Zenon DEF Carry, Brought
<1>6. [a EXCEPT ![i] = d][k] = a[k]
  BY <1>0, <1>3
<1>7. Carry(a, i) = [[a EXCEPT ![i] = d] EXCEPT ![k] = a[k] + Brought(i, c)]
  BY <1>5, <1>6, Zenon
<1>8. a[k] + Brought(i, c) \in Int /\ d \in Int
  BY <1>0, <1>1, <1>3 DEF Brought
<1> QED BY <1>0, <1>3, <1>7, <1>8

\* A carry changes the number only where it leaves the top, by as many primes.
LEMMA CarryValue ==
  ASSUME NEW a, NEW i, NEW c, NEW d, Holds(a, i, c, d)
  PROVE  Value(Carry(a, i)) = Value(a) - Prime * (IF i = Limbs - 1 THEN c ELSE 0)
<1>0. a \in [Places -> Int] /\ i \in Places /\ c \in Int /\ d \in 0 .. Base - 1 /\ a[i] = Base * c + d
  BY Zenon DEF Holds
<1>1. PICK b \in Nat \ {0}, l \in Nat : b = Base /\ l = Limbs /\ l >= 3
  BY PolyAssumption
<1>2. PICK k : k = (i + 1) % l
  OBVIOUS
<1>3. k \in Places /\ k # i /\ k = IF i = l - 1 THEN 0 ELSE i + 1
  BY <1>0, <1>1, <1>2, NextPlace
<1>4. PICK e : e = [a EXCEPT ![i] = d]
  OBVIOUS
<1>5. d \in Int /\ a[i] \in Int /\ a[k] \in Int /\ Brought(i, c) \in Int
  BY <1>0, <1>1, <1>3 DEF Brought
<1>6. e \in [Places -> Int] /\ Value(e) = Value(a) + (d - a[i]) * Power[i]
  BY <1>0, <1>4, <1>5, ValueChanges, Zenon
<1>7. e[k] = a[k]
  BY <1>0, <1>3, <1>4
<1>8. Carry(a, i) = [e EXCEPT ![k] = a[k] + Brought(i, c)]
  <2>1. k = (i + 1) % Limbs
    BY <1>1, <1>2, Zenon
  <2>2. Carry(a, i) = [[a EXCEPT ![i] = d] EXCEPT ![k] = a[k] + Brought(i, c)]
    BY <2>1, CarryLimbs
  <2> QED BY <1>4, <2>2, Zenon
<1>9. Value(Carry(a, i)) = Value(e) + ((a[k] + Brought(i, c)) - e[k]) * Power[k]
  <2>1. PICK x \in Int : x = a[k] + Brought(i, c)
    BY <1>5
  <2>2. e \in [Places -> Int] /\ k \in Places
    BY <1>3, <1>6, Zenon
  <2>3. Value([e EXCEPT ![k] = x]) = Value(e) + (x - e[k]) * Power[k]
    BY <2>2, ValueChanges, Zenon
  <2> QED BY <1>8, <2>1, <2>3, Zenon
<1>10. PICK p \in Nat \ {0}, v \in Int : p = Power[i] /\ v = Value(a) /\ Power[i + 1] = b * p
  <2>1. i \in Nat
    BY <1>0, PlaceBounds
  <2>2. Power[i] \in Nat \ {0} /\ Power[i + 1] = b * Power[i]
    BY <1>1, <2>1, PowerSteps, Zenon
  <2>3. Value(a) \in Int
    BY <1>0, ValueIsInt, Zenon
  <2> QED BY <2>2, <2>3
<1>11. Value(e) = v - (b * c) * p
  <2>1. d - a[i] = -(b * c)
    BY <1>0, <1>1
  <2>2. (-(b * c)) * p = -((b * c) * p)
    BY <1>0
  <2>3. Value(e) = v + (-(b * c)) * p
    BY <1>6, <1>10, <2>1
  <2> QED BY <2>2, <2>3
<1>12. Value(Carry(a, i)) = Value(e) + Brought(i, c) * Power[k]
  <2>1. (a[k] + Brought(i, c)) - e[k] = Brought(i, c)
    BY <1>5, <1>7
  <2> QED BY <1>9, <2>1
<1>13. CASE i = l - 1
  <2>1. Brought(i, c) = 5 * c /\ Power[k] = 1 /\ Prime = b * p - 5
    <3>1. Power[l] = b * p
      BY <1>10, <1>13
    <3> QED BY <1>1, <1>3, <1>13, <3>1, PowerSteps DEF Brought, Prime
  <2>2. Value(Carry(a, i)) = (v - (b * c) * p) + (5 * c) * 1
    BY <1>11, <1>12, <2>1
  <2>3. (v - (b * c) * p) + (5 * c) * 1 = v - (b * p - 5) * c
    BY <1>0
  <2> QED BY <1>1, <1>10, <1>13, <2>1, <2>2, <2>3
<1>14. CASE i # l - 1
  <2>1. Brought(i, c) = c /\ Power[k] = b * p
    BY <1>1, <1>3, <1>10, <1>14 DEF Brought
  <2>2. Value(Carry(a, i)) = (v - (b * c) * p) + c * (b * p)
    BY <1>11, <1>12, <2>1
  <2>3. (v - (b * c) * p) + c * (b * p) = v
    BY <1>0
  <2>4. Prime * 0 = 0
    <3>1. Prime \in Int
      <4>1. Power[Limbs] \in Nat \ {0}
        BY PowerSteps, PlaceBounds, Zenon
      <4> QED BY <4>1 DEF Prime
    <3> QED BY <3>1
  <2> QED BY <1>1, <1>10, <1>14, <2>2, <2>3, <2>4
<1> QED BY <1>13, <1>14

\* Carries keep limbs whole numbers, and natural ones natural.
LEMMA CarryTyped ==
  /\ \A a \in [Places -> Int], i \in Places : Carry(a, i) \in [Places -> Int] /\ CarryUp(a, i) \in [Places -> Int]
  /\ \A a \in [Places -> Nat], i \in Places : Carry(a, i) \in [Places -> Nat]
<1>1. PICK b \in Nat \ {0} : b = Base
  BY PolyAssumption
<1>2. ASSUME NEW a \in [Places -> Int], NEW i \in Places
      PROVE  \E c \in Int, d \in 0 .. b - 1 : a[i] = b * c + d /\ (a[i] >= 0 => c >= 0)
  <2>1. CASE a[i] >= 0
    <3>1. a[i] \in Nat
      BY <2>1
    <3>2. PICK c \in Nat, d \in 0 .. b - 1 : Splits(a[i], b, c, d) /\ a[i] = b * c + d
      BY <3>1, SplitsSomehow, Zenon
    <3> QED BY <3>2
  <2>2. CASE ~(a[i] >= 0)
    <3>1. a[i] = b * (a[i] \div b) + (a[i] % b) /\ a[i] \div b \in Int /\ a[i] % b \in 0 .. b - 1
      BY Division
    <3> QED BY <2>2, <3>1
  <2> QED BY <2>1, <2>2
<1>3. ASSUME NEW a \in [Places -> Int], NEW i \in Places
      PROVE  Carry(a, i) \in [Places -> Int] /\ CarryUp(a, i) \in [Places -> Int]
  <2>1. Carry(a, i) \in [Places -> Int]
    <3>1. PICK c \in Int, d \in 0 .. b - 1 : a[i] = b * c + d
      BY <1>2
    <3>2. Holds(a, i, c, d)
      BY <1>1, <3>1 DEF Holds
    <3> QED BY <3>2, CarryLimbs
  <2>2. a[i] - b \in Int
    OBVIOUS
  <2>3. [a EXCEPT ![i] = a[i] - b] \in [Places -> Int]
    BY <2>2
  <2> QED BY <1>1, <2>1, <2>3 DEF CarryUp
<1>4. ASSUME NEW a \in [Places -> Nat], NEW i \in Places PROVE Carry(a, i) \in [Places -> Nat]
  <2>1. a \in [Places -> Int] /\ a[i] \in Nat
    OBVIOUS
  <2>2. PICK c \in Int, d \in 0 .. b - 1 : a[i] = b * c + d /\ (a[i] >= 0 => c >= 0)
    BY <1>2, <2>1
  <2>3. PICK k : k = (i + 1) % Limbs
    OBVIOUS
  <2>4. k \in Places
    BY <2>3, NextPlace
  <2>5. Carry(a, i) = [[a EXCEPT ![i] = d] EXCEPT ![k] = a[k] + Brought(i, c)]
    <3>1. Holds(a, i, c, d)
      BY <1>1, <2>1, <2>2 DEF Holds
    <3> QED BY <2>3, <3>1, CarryLimbs
  <2>6. a[k] + Brought(i, c) \in Nat /\ d \in Nat
    BY <2>1, <2>2, <2>4 DEF Brought
  <2> QED BY <2>4, <2>5, <2>6
<1> QED BY <1>3, <1>4, Zenon

\* f is the limbs that Carry passes from a, at the n places t.
CarryRun(f, a, t, n) ==
  /\ f \in [0 .. n -> [Places -> Nat]]
  /\ f[0] = a
  /\ \A i \in 1 .. n : f[i] = Carry(f[i - 1], t[i])

\* It does pass some.
LEMMA CarryRuns ==
  ASSUME NEW a \in [Places -> Nat], NEW t \in Seq(Places), NEW n \in Nat, n = Len(t)
  PROVE  \E f : CarryRun(f, a, t, n) /\ f[n] = FoldLeft(Carry, a, t)
<1>1. PICK S, x : S = [Places -> Nat] /\ x = a
  OBVIOUS
<1>2. DOMAIN t = 1 .. n /\ \A i \in 1 .. n : t[i] \in Places
  BY LenProperties, ElementOfSeq
<1>3. PICK G : G = [i \in 1 .. n |-> [y \in S |-> Carry(y, t[i])]]
  OBVIOUS
<1>4. \A i \in 1 .. n : \A y \in S : G[i][y] = Carry(y, t[i])
  BY <1>3, Zenon
<1>5. G \in [1 .. n -> [S -> S]]
  <2>1. \A i \in 1 .. n : \A y \in S : Carry(y, t[i]) \in S
    BY <1>1, <1>2, CarryTyped, Zenon
  <2> QED BY <1>3, <2>1, Zenon
<1> DEFINE Runs(it) == it = [u \in SUBSET (DOMAIN t) |->
                               IF u = {} THEN x ELSE Carry(it[u \ {Max(u)}], t[Max(u)])]
<1>x. x \in S
  BY <1>1, Zenon
<1>e. PICK j : FoldTable(j, S, x, n, G)
  BY <1>x, <1>5, FoldExists, Zenon
<1>6. /\ j \in [SUBSET (1 .. n) -> S]
      /\ \A u \in SUBSET (1 .. n) : j[u] = IF u = {} THEN x ELSE G[Max(u)][j[u \ {Max(u)}]]
  BY <1>e, Zenon DEF FoldTable
<1>7. ASSUME NEW u \in SUBSET (1 .. n), u # {} PROVE Max(u) \in 1 .. n /\ u \ {Max(u)} \in SUBSET (1 .. n)
  BY <1>7, MaxOfIndices
<1>8. Runs(j)
  <2>1. ASSUME NEW u \in SUBSET (1 .. n)
        PROVE  j[u] = IF u = {} THEN x ELSE Carry(j[u \ {Max(u)}], t[Max(u)])
    <3>1. CASE u = {}
      BY <1>6, <3>1, Zenon
    <3>2. CASE u # {}
      <4>1. j[u \ {Max(u)}] \in S
        BY <1>6, <1>7, <3>2, Zenon
      <4> QED BY <1>4, <1>6, <1>7, <3>2, <4>1, Zenon
    <3> QED BY <3>1, <3>2, Zenon
  <2>2. j = [u \in SUBSET (1 .. n) |-> j[u]]
    BY <1>6, Zenon
  <2> QED BY <1>2, <2>1, <2>2, Zenon
<1>9. PICK it : Runs(it) /\ FoldLeft(Carry, a, t) = it[DOMAIN t]
  <2>1. FoldLeft(Carry, a, t) = (CHOOSE it : Runs(it))[DOMAIN t]
    BY <1>1, Zenon DEF FoldLeft, MapThenFoldSet
  <2>2. Runs(CHOOSE it : Runs(it))
    BY <1>8, Zenon
  <2> QED BY <2>1, <2>2, Zenon
<1>10. it[{}] = x
  BY <1>9, Zenon
<1>11. \A u \in SUBSET (1 .. n) : u # {} /\ it[u \ {Max(u)}] \in S => it[u] = G[Max(u)][it[u \ {Max(u)}]]
  <2> SUFFICES ASSUME NEW u \in SUBSET (1 .. n), u # {}, it[u \ {Max(u)}] \in S
               PROVE  it[u] = G[Max(u)][it[u \ {Max(u)}]]
    BY Zenon
  <2>1. it[u] = Carry(it[u \ {Max(u)}], t[Max(u)])
    <3>1. it = [v \in SUBSET (DOMAIN t) |-> IF v = {} THEN x ELSE Carry(it[v \ {Max(v)}], t[Max(v)])]
      BY <1>9, Zenon
    <3>2. u \in SUBSET (DOMAIN t)
      BY <1>2, Zenon
    <3> QED BY <3>1, <3>2, Zenon
  <2>2. Max(u) \in 1 .. n
    BY <1>7, Zenon
  <2> QED BY <1>4, <2>1, <2>2, Zenon
<1>12. PICK f : FoldRun(f, it, S, x, n, G)
  <2>1. FoldsBy(it, S, x, n, G)
    BY <1>x, <1>5, <1>10, <1>11, Zenon DEF FoldsBy
  <2> QED BY <2>1, FoldRuns, Zenon
<1>13. /\ f \in [0 .. n -> S]
       /\ f[0] = x
       /\ \A i \in 1 .. n : f[i] = G[i][f[i - 1]]
       /\ f[n] = it[1 .. n]
  BY <1>12, Zenon DEF FoldRun
<1>14. \A i \in 1 .. n : f[i] = Carry(f[i - 1], t[i])
  <2> SUFFICES ASSUME NEW i \in 1 .. n PROVE f[i] = Carry(f[i - 1], t[i])
    OBVIOUS
  <2>1. i - 1 \in 0 .. n
    OBVIOUS
  <2> QED BY <2>1, <1>4, <1>13, Zenon
<1>15. f[n] = FoldLeft(Carry, a, t)
  BY <1>2, <1>9, <1>13, Zenon
<1> QED BY <1>1, <1>13, <1>14, <1>15, Zenon DEF CarryRun

\* f is the limbs that CarryUp passes from a, at the n places t.
UpRun(f, a, t, n) ==
  /\ f \in [0 .. n -> [Places -> Int]]
  /\ f[0] = a
  /\ \A i \in 1 .. n : f[i] = CarryUp(f[i - 1], t[i])

\* It does pass some.
LEMMA UpRuns ==
  ASSUME NEW a \in [Places -> Int], NEW t \in Seq(Places), NEW n \in Nat, n = Len(t)
  PROVE  \E f : UpRun(f, a, t, n) /\ f[n] = FoldLeft(CarryUp, a, t)
<1>1. PICK S, x : S = [Places -> Int] /\ x = a
  OBVIOUS
<1>2. DOMAIN t = 1 .. n /\ \A i \in 1 .. n : t[i] \in Places
  BY LenProperties, ElementOfSeq
<1>3. PICK G : G = [i \in 1 .. n |-> [y \in S |-> CarryUp(y, t[i])]]
  OBVIOUS
<1>4. \A i \in 1 .. n : \A y \in S : G[i][y] = CarryUp(y, t[i])
  BY <1>3, Zenon
<1>5. G \in [1 .. n -> [S -> S]]
  <2>1. \A i \in 1 .. n : \A y \in S : CarryUp(y, t[i]) \in S
    BY <1>1, <1>2, CarryTyped, Zenon
  <2> QED BY <1>3, <2>1, Zenon
<1> DEFINE Runs(it) == it = [u \in SUBSET (DOMAIN t) |->
                               IF u = {} THEN x ELSE CarryUp(it[u \ {Max(u)}], t[Max(u)])]
<1>x. x \in S
  BY <1>1, Zenon
<1>e. PICK j : FoldTable(j, S, x, n, G)
  BY <1>x, <1>5, FoldExists, Zenon
<1>6. /\ j \in [SUBSET (1 .. n) -> S]
      /\ \A u \in SUBSET (1 .. n) : j[u] = IF u = {} THEN x ELSE G[Max(u)][j[u \ {Max(u)}]]
  BY <1>e, Zenon DEF FoldTable
<1>7. ASSUME NEW u \in SUBSET (1 .. n), u # {} PROVE Max(u) \in 1 .. n /\ u \ {Max(u)} \in SUBSET (1 .. n)
  BY <1>7, MaxOfIndices
<1>8. Runs(j)
  <2>1. ASSUME NEW u \in SUBSET (1 .. n)
        PROVE  j[u] = IF u = {} THEN x ELSE CarryUp(j[u \ {Max(u)}], t[Max(u)])
    <3>1. CASE u = {}
      BY <1>6, <3>1, Zenon
    <3>2. CASE u # {}
      <4>1. j[u \ {Max(u)}] \in S
        BY <1>6, <1>7, <3>2, Zenon
      <4> QED BY <1>4, <1>6, <1>7, <3>2, <4>1, Zenon
    <3> QED BY <3>1, <3>2, Zenon
  <2>2. j = [u \in SUBSET (1 .. n) |-> j[u]]
    BY <1>6, Zenon
  <2> QED BY <1>2, <2>1, <2>2, Zenon
<1>9. PICK it : Runs(it) /\ FoldLeft(CarryUp, a, t) = it[DOMAIN t]
  <2>1. FoldLeft(CarryUp, a, t) = (CHOOSE it : Runs(it))[DOMAIN t]
    BY <1>1, Zenon DEF FoldLeft, MapThenFoldSet
  <2>2. Runs(CHOOSE it : Runs(it))
    BY <1>8, Zenon
  <2> QED BY <2>1, <2>2, Zenon
<1>10. it[{}] = x
  BY <1>9, Zenon
<1>11. \A u \in SUBSET (1 .. n) : u # {} /\ it[u \ {Max(u)}] \in S => it[u] = G[Max(u)][it[u \ {Max(u)}]]
  <2> SUFFICES ASSUME NEW u \in SUBSET (1 .. n), u # {}, it[u \ {Max(u)}] \in S
               PROVE  it[u] = G[Max(u)][it[u \ {Max(u)}]]
    BY Zenon
  <2>1. it[u] = CarryUp(it[u \ {Max(u)}], t[Max(u)])
    <3>1. it = [v \in SUBSET (DOMAIN t) |-> IF v = {} THEN x ELSE CarryUp(it[v \ {Max(v)}], t[Max(v)])]
      BY <1>9, Zenon
    <3>2. u \in SUBSET (DOMAIN t)
      BY <1>2, Zenon
    <3> QED BY <3>1, <3>2, Zenon
  <2>2. Max(u) \in 1 .. n
    BY <1>7, Zenon
  <2> QED BY <1>4, <2>1, <2>2, Zenon
<1>12. PICK f : FoldRun(f, it, S, x, n, G)
  <2>1. FoldsBy(it, S, x, n, G)
    BY <1>x, <1>5, <1>10, <1>11, Zenon DEF FoldsBy
  <2> QED BY <2>1, FoldRuns, Zenon
<1>13. /\ f \in [0 .. n -> S]
       /\ f[0] = x
       /\ \A i \in 1 .. n : f[i] = G[i][f[i - 1]]
       /\ f[n] = it[1 .. n]
  BY <1>12, Zenon DEF FoldRun
<1>14. \A i \in 1 .. n : f[i] = CarryUp(f[i - 1], t[i])
  <2> SUFFICES ASSUME NEW i \in 1 .. n PROVE f[i] = CarryUp(f[i - 1], t[i])
    OBVIOUS
  <2>1. i - 1 \in 0 .. n
    OBVIOUS
  <2> QED BY <2>1, <1>4, <1>13, Zenon
<1>15. f[n] = FoldLeft(CarryUp, a, t)
  BY <1>2, <1>9, <1>13, Zenon
<1> QED BY <1>1, <1>13, <1>14, <1>15, Zenon DEF UpRun

\* The prime is a number, and more than what comes back.
LEMMA PrimeFacts ==
  /\ Prime \in Nat \ {0} /\ Prime > 5
  /\ Power[Limbs] \in Nat \ {0} /\ Power[Limbs] = Prime + 5
  /\ Power[Limbs] = Base * Power[Limbs - 1] /\ Power[Limbs - 1] \in Nat \ {0}
<1>1. PICK b \in Nat, l \in Nat : b = Base /\ b >= 32 /\ l = Limbs /\ l >= 3
  BY PolyAssumption
<1>2. l - 1 \in Nat /\ (l - 1) + 1 = l
  BY <1>1
<1>3. Power[l - 1] \in Nat \ {0} /\ Power[(l - 1) + 1] = b * Power[l - 1]
  BY <1>1, <1>2, PowerSteps, Zenon
<1>4. PICK p \in Nat \ {0} : p = Power[l - 1]
  BY <1>3
<1>5. Power[l] = b * p
  BY <1>2, <1>3, <1>4
<1>6. b * p >= 32
  <2>1. b * p >= b
    OBVIOUS
  <2>2. PICK x \in Int : x = b * p
    OBVIOUS
  <2> QED BY <2>1, <2>2, <1>1
<1>7. PICK x \in Nat : x = b * p /\ x >= 32
  BY <1>6
<1>8. Prime = x - 5
  BY <1>1, <1>5, <1>7 DEF Prime
<1>9. x - 5 \in Nat \ {0} /\ x - 5 > 5 /\ x = (x - 5) + 5 /\ x \in Nat \ {0}
  BY <1>7
<1>10. Power[l] = x
  BY <1>5, <1>7
<1>11. Power[Limbs] = Base * Power[Limbs - 1] /\ Power[Limbs - 1] \in Nat \ {0}
  BY <1>1, <1>4, <1>5, Zenon
<1>12. Power[Limbs] = x
  BY <1>1, <1>10, Zenon
<1> QED BY <1>8, <1>9, <1>11, <1>12, Zenon

\* Any limb holds something.
LEMMA LimbHolds ==
  ASSUME NEW a \in [Places -> Nat], NEW i \in Places
  PROVE  \E c \in Nat, d \in 0 .. Base - 1 : Holds(a, i, c, d) /\ a[i] = Base * c + d
<1>1. PICK b \in Nat \ {0} : b = Base
  BY PolyAssumption
<1>2. a[i] \in Nat /\ a \in [Places -> Int]
  OBVIOUS
<1>3. PICK c \in Nat, d \in 0 .. b - 1 : Splits(a[i], b, c, d) /\ a[i] = b * c + d
  BY <1>2, SplitsSomehow, Zenon
<1>4. Holds(a, i, c, d)
  BY <1>1, <1>2, <1>3 DEF Holds
<1> QED BY <1>1, <1>3, <1>4

\* Carries change a number by multiples of the prime.
LEMMA RunValue ==
  ASSUME NEW a \in [Places -> Nat], NEW n \in Nat, NEW t \in [1 .. n -> Places], NEW f, CarryRun(f, a, t, n)
  PROVE  \E k \in Int : Value(f[n]) = Value(a) - Prime * k
<1>1. PICK q \in Int, v \in Int : q = Prime /\ v = Value(a)
  <2>1. a \in [Places -> Int]
    OBVIOUS
  <2> QED BY <2>1, PrimeFacts, ValueIsInt
<1>2. f \in [0 .. n -> [Places -> Nat]] /\ f[0] = a /\ \A i \in 1 .. n : f[i] = Carry(f[i - 1], t[i])
  BY Zenon DEF CarryRun
<1> DEFINE Has == {m \in Nat : m <= n => \E k \in Int : Value(f[m]) = v - q * k}
<1>3. 0 \in Has
  <2>1. v = v - q * 0
    OBVIOUS
  <2>2. Value(f[0]) = v - q * 0
    BY <1>1, <1>2, <2>1, Zenon
  <2>3. \E k \in Int : Value(f[0]) = v - q * k
    BY <2>2
  <2> QED BY <2>3
<1>4. ASSUME NEW m \in Nat, m \in Has PROVE m + 1 \in Has
  <2> SUFFICES ASSUME m + 1 <= n PROVE \E k \in Int : Value(f[m + 1]) = v - q * k
    OBVIOUS
  <2>1. m \in 0 .. n /\ m + 1 \in 1 .. n /\ (m + 1) - 1 = m /\ m <= n
    OBVIOUS
  <2>2. PICK k \in Int : Value(f[m]) = v - q * k
    BY <1>4, <2>1
  <2>3. PICK g, i : g = f[m] /\ i = t[m + 1]
    OBVIOUS
  <2>4. g \in [Places -> Nat] /\ i \in Places /\ f[m + 1] = Carry(g, i)
    BY <1>2, <2>1, <2>3, Zenon
  <2>5. PICK c \in Nat, d \in 0 .. Base - 1 : Holds(g, i, c, d)
    BY <2>4, LimbHolds, Zenon
  <2>6. PICK e \in Int : e = IF i = Limbs - 1 THEN c ELSE 0
    OBVIOUS
  <2>7. Value(f[m + 1]) = Value(g) - q * e
    BY <1>1, <2>4, <2>5, <2>6, CarryValue, Zenon
  <2>8. (v - q * k) - q * e = v - q * (k + e)
    OBVIOUS
  <2>9. k + e \in Int
    OBVIOUS
  <2>10. Value(f[m + 1]) = v - q * (k + e)
    BY <2>2, <2>3, <2>7, <2>8, Zenon
  <2> QED BY <2>9, <2>10, Zenon
<1>5. n \in Has
  <2> HIDE DEF Has
  <2> QED BY <1>3, <1>4, SetInduction
<1> QED BY <1>1, <1>5

\* The places where limbs carry in turn.
Turn(first) == [k \in 1 .. Limbs |-> (first + k - 1) % Limbs]

\* Carried is such a run.
LEMMA CarriedRuns ==
  ASSUME NEW a \in [Places -> Nat], NEW first \in {0, 1}
  PROVE  \E f :
           /\ CarryRun(f, a, Turn(first), Limbs) /\ f[Limbs] = Carried(a, first)
           /\ \E k \in Int : Value(f[Limbs]) = Value(a) - Prime * k
<1>1. PICK l \in Nat \ {0} : l = Limbs
  BY PolyAssumption
<1>2. PICK t : t = Turn(first)
  OBVIOUS
<1>3. t \in [1 .. l -> Places]
  <2>1. ASSUME NEW k \in 1 .. l PROVE (first + k - 1) % l \in Places
    <3>1. first + k - 1 \in Int
      OBVIOUS
    <3>2. (first + k - 1) % l \in 0 .. l - 1
      BY <3>1, Division, Zenon
    <3> QED BY <1>1, <3>2 DEF Places
  <2> QED BY <1>1, <1>2, <2>1 DEF Turn
<1>4. t \in Seq(Places) /\ l = Len(t)
  BY <1>3
<1>5. PICK f : CarryRun(f, a, t, l) /\ f[l] = FoldLeft(Carry, a, t)
  BY <1>4, CarryRuns, Zenon
<1>6. FoldLeft(Carry, a, t) = Carried(a, first)
  BY <1>2, Zenon DEF Turn, Carried
<1>7. \E k \in Int : Value(f[l]) = Value(a) - Prime * k
  <2>1. l \in Nat
    OBVIOUS
  <2> QED BY <2>1, <1>3, <1>5, RunValue
<1> QED BY <1>1, <1>2, <1>5, <1>6, <1>7, Zenon

\* The place of a turn.
LEMMA TurnPlaces ==
  /\ \A k \in 1 .. Limbs : Turn(0)[k] = k - 1
  /\ \A k \in 1 .. Limbs : Turn(1)[k] = IF k = Limbs THEN 0 ELSE k
<1>1. PICK l \in Nat \ {0} : l = Limbs
  BY PolyAssumption
<1>2. ASSUME NEW k \in 1 .. l PROVE (0 + k - 1) % l = k - 1
  <2>1. k - 1 \in 0 .. l - 1 /\ 0 + k - 1 = k - 1
    OBVIOUS
  <2> QED BY <2>1, SmallRemainder
<1>3. ASSUME NEW k \in 1 .. l PROVE (1 + k - 1) % l = IF k = l THEN 0 ELSE k
  <2>1. CASE k = l
    <3>1. Splits(l, l, 1, 0)
      BY DEF Splits
    <3>2. l % l = 0 /\ 1 + k - 1 = l
      BY <2>1, <3>1, SplitsOnce
    <3> QED BY <2>1, <3>2
  <2>2. CASE k # l
    <3>1. k \in 0 .. l - 1 /\ 1 + k - 1 = k
      BY <2>2
    <3> QED BY <2>2, <3>1, SmallRemainder
  <2> QED BY <2>1, <2>2
<1> QED BY <1>1, <1>2, <1>3 DEF Turn

\* i holds d and c times b, and carries c into k, or five times c into the first.
Carries(a, i, k, b, c, d) ==
  /\ Holds(a, i, c, d) /\ a[i] = b * c + d
  /\ c \in Nat /\ d \in 0 .. b - 1
  /\ Carry(a, i) = [[a EXCEPT ![i] = d] EXCEPT ![k] = a[k] + (IF k = 0 THEN 5 * c ELSE c)]

\* It carries something.
LEMMA CarrySomething ==
  ASSUME NEW b, b = Base, NEW a \in [Places -> Nat], NEW i \in Places,
         NEW k, k = IF i = Limbs - 1 THEN 0 ELSE i + 1
  PROVE  \E c \in Nat, d \in 0 .. b - 1 : Carries(a, i, k, b, c, d)
<1>1. PICK c \in Nat, d \in 0 .. Base - 1 : Holds(a, i, c, d) /\ a[i] = Base * c + d
  BY LimbHolds, Zenon
<1>2. k = (i + 1) % Limbs
  BY NextPlace
<1>3. Carry(a, i) = [[a EXCEPT ![i] = d] EXCEPT ![k] = a[k] + Brought(i, c)]
  BY <1>1, <1>2, CarryLimbs
<1>4. k = 0 <=> i = Limbs - 1
  <2>1. i + 1 # 0
    BY PlaceBounds
  <2> QED BY <2>1
<1>5. Brought(i, c) = IF k = 0 THEN 5 * c ELSE c
  BY <1>4, Zenon DEF Brought
<1>6. Carries(a, i, k, b, c, d)
  BY <1>1, <1>3, <1>5, Zenon DEF Carries
<1> QED BY <1>1, <1>6, Zenon

\* A limb of at most t times the base squared, and what was carried into it, carries not
\* much more than t times the base.
LEMMA SmallCarry ==
  ASSUME NEW b \in Nat, b >= 32, NEW t \in Nat, NEW m \in Nat, NEW c \in Nat, NEW d \in 0 .. b - 1,
         b * c + d <= t * b * b + (m * b + 2 * m)
  PROVE  c <= t * b + 2 * m
<1> SUFFICES ASSUME c >= t * b + 2 * m + 1 PROVE FALSE
  OBVIOUS
<1>1. PICK x \in Nat, y \in Nat : x = t * b /\ y = m * b
  OBVIOUS
<1>2. t * b * b = x * b
  BY <1>1
<1>3. b * (c - (x + 2 * m + 1)) >= 0
  BY <1>1
<1>4. b * (c - (x + 2 * m + 1)) = b * c - x * b - 2 * (m * b) - b
  OBVIOUS
<1>5. y >= 2 * m
  <2>1. m * (b - 2) >= 0
    OBVIOUS
  <2>2. m * (b - 2) = m * b - 2 * m
    OBVIOUS
  <2> QED BY <1>1, <2>1, <2>2
<1>6. PICK z \in Int, v \in Int : z = x * b /\ v = b * c
  OBVIOUS
<1>7. v + d <= z + (y + 2 * m) /\ v - z - 2 * y - b >= 0
  BY <1>1, <1>2, <1>3, <1>4, <1>6
<1> QED BY <1>5, <1>7

\* e is the limbs g when limb n of l has carried at most y, or top if it is the last.
CarriesOn(g, e, n, l, b, y, top) ==
  \E c \in Nat, d \in 0 .. b - 1 :
    /\ c <= y
    /\ n = l - 1 => c <= top
    /\ e = LET k == IF n = l - 1 THEN 0 ELSE n + 1
           IN  [[g EXCEPT ![n] = d] EXCEPT ![k] = g[k] + (IF k = 0 THEN 5 * c ELSE c)]

\* After the carries of the product every limb but the second is within its width,
\* and the second not much above it.
LEMMA ReducedBounds ==
  ASSUME NEW a \in [Places -> Nat], NEW m \in Nat, NEW t \in Nat,
         10 * m <= 7 * Base, 5 * t + 8 <= Base,
         \A i \in Places : a[i] <= m * Base * Base,
         a[Limbs - 1] <= t * Base * Base
  PROVE  /\ Reduced(a) \in [Places -> Nat]
         /\ \A i \in Places : Reduced(a)[i] < (IF i = 1 THEN 2 * Base - 1 ELSE Base)
         /\ \E k \in Int : Value(Reduced(a)) = Value(a) - Prime * k
<1>1. PICK b \in Nat \ {0}, l \in Nat \ {0} : b = Base /\ b >= 32 /\ l = Limbs /\ l >= 3 /\ Places = 0 .. l - 1
  BY PolyAssumption DEF Places
<1>b. b = Base
  BY <1>1
<1>2. PICK f : /\ CarryRun(f, a, Turn(0), l) /\ f[l] = Carried(a, 0)
               /\ \E k \in Int : Value(f[l]) = Value(a) - Prime * k
  BY <1>1, CarriedRuns
<1>3. f \in [0 .. l -> [Places -> Nat]] /\ f[0] = a
  BY <1>2, Zenon DEF CarryRun
<1>4. ASSUME NEW n \in 0 .. l - 1 PROVE f[n + 1] = Carry(f[n], n)
  <2>1. n + 1 \in 1 .. l /\ (n + 1) - 1 = n
    OBVIOUS
  <2>2. f[n + 1] = Carry(f[(n + 1) - 1], Turn(0)[n + 1])
    BY <1>2, <2>1, Zenon DEF CarryRun
  <2>3. Turn(0)[n + 1] = n
    BY <1>1, <2>1, TurnPlaces
  <2> QED BY <2>1, <2>2, <2>3
<1>5. PICK x \in Nat, y \in Nat, z \in Nat : x = m * b * b /\ y = m * b + 2 * m /\ z = t * b * b
  OBVIOUS
<1> DEFINE Bounded(g, n) ==
             /\ \A i \in Places : g[i] <= (IF i < n THEN b - 1 ELSE IF i = n THEN x + y ELSE x)
             /\ g[l - 1] <= (IF n = l - 1 THEN z + y ELSE z)
           Has == {n \in Nat : n <= l - 1 => Bounded(f[n], n)}
<1>6. 0 \in Has
  <2>1. ASSUME NEW i \in Places PROVE a[i] <= (IF i < 0 THEN b - 1 ELSE IF i = 0 THEN x + y ELSE x)
    <3>1. a[i] <= x /\ a[i] \in Nat /\ i \in Nat
      BY <1>1, <1>5
    <3> QED BY <3>1
  <2>2. a[l - 1] <= z /\ 0 # l - 1
    BY <1>1, <1>5
  <2> QED BY <1>3, <2>1, <2>2
<1>7. ASSUME NEW n \in 0 .. l - 1, NEW g \in [Places -> Nat], g = f[n], Bounded(g, n)
      PROVE  CarriesOn(g, f[n + 1], n, l, b, y, t * b + 2 * m)
  <2>1. n \in Places
    BY <1>1
  <2>5. PICK k : k = IF n = Limbs - 1 THEN 0 ELSE n + 1
    OBVIOUS
  <2>6. PICK c \in Nat, d \in 0 .. b - 1 : Carries(g, n, k, b, c, d)
    BY <1>b, <2>1, <2>5, CarrySomething, Zenon
  <2>2. /\ c \in Nat /\ d \in 0 .. b - 1 /\ g[n] = b * c + d
        /\ Carry(g, n) = [[g EXCEPT ![n] = d] EXCEPT ![k] = g[k] + (IF k = 0 THEN 5 * c ELSE c)]
    BY <2>6, Zenon DEF Carries
  <2>3. c <= y
    <3>1. g[n] <= x + y
      BY <1>7, <2>1
    <3>2. b * c + d <= m * b * b + (m * b + 2 * m)
      BY <1>5, <2>2, <3>1, Zenon
    <3>3. c <= m * b + 2 * m
      BY <1>1, <2>2, <3>2, SmallCarry
    <3> QED BY <1>5, <3>3, Zenon
  <2>9. ASSUME n = l - 1 PROVE c <= t * b + 2 * m
    <3>1. g[n] <= z + y
      BY <1>7, <2>9
    <3>2. b * c + d <= t * b * b + (m * b + 2 * m)
      BY <1>5, <2>2, <3>1, Zenon
    <3> QED BY <1>1, <2>2, <3>2, SmallCarry
  <2>4. f[n + 1] = [[g EXCEPT ![n] = d] EXCEPT ![k] = g[k] + (IF k = 0 THEN 5 * c ELSE c)]
    BY <1>4, <1>7, <2>2, Zenon
  <2>7. k = IF n = l - 1 THEN 0 ELSE n + 1
    BY <1>1, <2>5
  <2>8. f[n + 1] = LET m0 == IF n = l - 1 THEN 0 ELSE n + 1
                   IN  [[g EXCEPT ![n] = d] EXCEPT ![m0] = g[m0] + (IF m0 = 0 THEN 5 * c ELSE c)]
    BY <2>4, <2>7, Zenon
  <2> QED BY <2>2, <2>3, <2>8, <2>9, Zenon DEF CarriesOn
<1>8. ASSUME NEW n \in Nat, n \in Has PROVE n + 1 \in Has
  <2> SUFFICES ASSUME n + 1 <= l - 1 PROVE Bounded(f[n + 1], n + 1)
    OBVIOUS
  <2>1. n \in 0 .. l - 1 /\ n \in 0 .. l /\ n \in Places /\ n + 1 \in Places
    BY <1>1
  <2>2. PICK g \in [Places -> Nat] : g = f[n] /\ Bounded(g, n)
    BY <1>3, <1>8, <2>1
  <2>3. PICK c \in Nat, d \in 0 .. b - 1 :
          /\ c <= y
          /\ f[n + 1] = LET k == IF n = l - 1 THEN 0 ELSE n + 1
                        IN  [[g EXCEPT ![n] = d] EXCEPT ![k] = g[k] + (IF k = 0 THEN 5 * c ELSE c)]
    <3>1. CarriesOn(g, f[n + 1], n, l, b, y, t * b + 2 * m)
      <4> HIDE DEF Bounded
      <4> QED BY <1>7, <2>1, <2>2, Zenon
    <3> QED BY <3>1, Zenon DEF CarriesOn
  <2>4. n # l - 1 /\ n + 1 # 0
    BY <2>1
  <2>5. f[n + 1] = [[g EXCEPT ![n] = d] EXCEPT ![n + 1] = g[n + 1] + c]
    BY <2>3, <2>4
  <2>10. f[n + 1][l - 1] <= (IF n + 1 = l - 1 THEN z + y ELSE z)
    <3>1. g[l - 1] <= z /\ g[l - 1] \in Nat /\ l - 1 \in Places
      BY <1>1, <2>2, <2>4
    <3>2. CASE n + 1 = l - 1
      <4>1. f[n + 1][l - 1] = g[l - 1] + c
        BY <2>1, <2>5, <3>2
      <4> QED BY <2>3, <3>1, <3>2, <4>1
    <3>3. CASE n + 1 # l - 1
      <4>1. f[n + 1][l - 1] = g[l - 1]
        BY <2>1, <2>4, <2>5, <3>1, <3>3
      <4> QED BY <3>1, <3>3, <4>1
    <3> QED BY <3>2, <3>3
  <2> SUFFICES ASSUME NEW i \in Places
               PROVE  f[n + 1][i] <= (IF i < n + 1 THEN b - 1 ELSE IF i = n + 1 THEN x + y ELSE x)
    BY <2>10
  <2>6. i \in Nat /\ g[i] \in Nat
    BY <1>1
  <2>7. CASE i = n
    <3>1. f[n + 1][i] = d
      BY <2>1, <2>5, <2>7
    <3> QED BY <2>6, <2>7, <3>1
  <2>8. CASE i = n + 1
    <3>1. f[n + 1][i] = g[i] + c
      BY <2>1, <2>5, <2>8
    <3>2. g[i] <= x
      BY <2>2, <2>8
    <3> QED BY <2>3, <2>6, <2>8, <3>1, <3>2
  <2>9. CASE i # n /\ i # n + 1
    <3>1. f[n + 1][i] = g[i]
      BY <2>1, <2>5, <2>9
    <3> QED BY <2>2, <2>6, <2>9, <3>1
  <2> QED BY <2>7, <2>8, <2>9
<1>9. Bounded(f[l - 1], l - 1)
  <2>1. l - 1 \in Nat
    OBVIOUS
  <2>2. l - 1 \in Has
    <3> HIDE DEF Has
    <3> QED BY <2>1, <1>6, <1>8, SetInduction
  <2> HIDE DEF Bounded
  <2> QED BY <2>1, <2>2
<1>10. PICK e \in [Places -> Nat] : e = f[l]
  BY <1>3
<1>11. e[0] <= b - 1 + 5 * (t * b + 2 * m) /\ \A i \in Places : i # 0 => e[i] <= b - 1
  <2>1. l - 1 \in 0 .. l - 1 /\ l - 1 \in 0 .. l /\ l - 1 \in Places /\ 0 \in Places /\ 0 # l - 1
    BY <1>1
  <2>2. PICK g \in [Places -> Nat] : g = f[l - 1]
    BY <1>3, <2>1
  <2>3. PICK c \in Nat, d \in 0 .. b - 1 :
          /\ c <= t * b + 2 * m
          /\ f[(l - 1) + 1] = LET k == IF l - 1 = l - 1 THEN 0 ELSE (l - 1) + 1
                              IN  [[g EXCEPT ![l - 1] = d] EXCEPT ![k] = g[k] + (IF k = 0 THEN 5 * c ELSE c)]
    <3>1. CarriesOn(g, f[(l - 1) + 1], l - 1, l, b, y, t * b + 2 * m)
      <4> HIDE DEF Bounded
      <4> QED BY <1>7, <1>9, <2>1, <2>2, Zenon
    <3> QED BY <3>1, Zenon DEF CarriesOn
  <2>4. (l - 1) + 1 = l
    OBVIOUS
  <2>5. e = [[g EXCEPT ![l - 1] = d] EXCEPT ![0] = g[0] + 5 * c]
    BY <1>10, <2>3, <2>4
  <2>6. \A i \in Places : i < l - 1 => g[i] <= b - 1
    BY <1>1, <1>9, <2>2
  <2>7. e[0] <= b - 1 + 5 * (t * b + 2 * m)
    <3>1. e[0] = g[0] + 5 * c /\ g[0] <= b - 1 /\ g[0] \in Nat
      BY <1>1, <2>1, <2>5, <2>6
    <3>2. PICK v \in Nat : v = t * b + 2 * m
      OBVIOUS
    <3> QED BY <2>3, <3>1, <3>2
  <2>8. ASSUME NEW i \in Places, i # 0 PROVE e[i] <= b - 1
    <3>1. CASE i = l - 1
      BY <2>1, <2>5, <3>1
    <3>2. CASE i # l - 1
      <4>1. e[i] = g[i] /\ i < l - 1
        BY <1>1, <2>5, <2>8, <3>2
      <4> QED BY <2>6, <4>1
    <3> QED BY <3>1, <3>2
  <2> QED BY <2>7, <2>8
<1>12. 0 \in Places /\ 1 \in Places /\ 1 = IF 0 = Limbs - 1 THEN 0 ELSE 0 + 1
  BY <1>1
<1>20. PICK c \in Nat, d \in 0 .. b - 1 : Carries(e, 0, 1, b, c, d)
  BY <1>b, <1>12, CarrySomething, Zenon
<1>13. /\ c \in Nat /\ d \in 0 .. b - 1 /\ Holds(e, 0, c, d) /\ e[0] = b * c + d
       /\ Carry(e, 0) = [[e EXCEPT ![0] = d] EXCEPT ![1] = e[1] + (IF 1 = 0 THEN 5 * c ELSE c)]
  BY <1>20, Zenon DEF Carries
<1>14. c <= b - 1
  <2>1. PICK v \in Nat, u \in Nat, q \in Nat : v = t * b /\ u = b * c /\ q = b * b
    OBVIOUS
  <2>2. u + d <= b - 1 + 5 * (v + 2 * m)
    BY <1>11, <1>13, <2>1
  <2>3. 5 * v + 8 * b <= q
    <3>1. b * (b - (5 * t + 8)) >= 0
      BY <1>1
    <3>2. b * (b - (5 * t + 8)) = b * b - 5 * (t * b) - 8 * b
      OBVIOUS
    <3> QED BY <2>1, <3>1, <3>2
  <2>4. 10 * m <= 7 * b
    BY <1>1
  <2>5. u < q
    BY <2>2, <2>3, <2>4
  <2> SUFFICES ASSUME c >= b PROVE FALSE
    OBVIOUS
  <2>6. b * (c - b) >= 0
    OBVIOUS
  <2>7. b * (c - b) = b * c - b * b
    OBVIOUS
  <2> QED BY <2>1, <2>5, <2>6, <2>7
<1>15. Carry(e, 0) = [[e EXCEPT ![0] = d] EXCEPT ![1] = e[1] + c]
  <2>1. 1 # 0
    OBVIOUS
  <2> QED BY <1>13, <2>1, Zenon
<1>16. Reduced(a) = Carry(e, 0)
  BY <1>2, <1>10, Zenon DEF Reduced
<1>17. Reduced(a) \in [Places -> Nat]
  <2>1. Carry(e, 0) \in [Places -> Nat]
    BY <1>12, CarryTyped, Zenon
  <2> QED BY <1>16, <2>1, Zenon
<1>18. \A i \in Places : Reduced(a)[i] < (IF i = 1 THEN 2 * b - 1 ELSE b)
  <2> SUFFICES ASSUME NEW i \in Places PROVE Carry(e, 0)[i] < (IF i = 1 THEN 2 * b - 1 ELSE b)
    BY <1>16
  <2>1. e[i] \in Nat
    OBVIOUS
  <2>2. CASE i = 0
    BY <1>15, <2>2
  <2>3. CASE i = 1
    <3>1. Carry(e, 0)[i] = e[i] + c /\ e[i] <= b - 1
      BY <1>11, <1>15, <2>3
    <3> QED BY <1>14, <2>1, <2>3, <3>1
  <2>4. CASE i # 0 /\ i # 1
    <3>1. Carry(e, 0)[i] = e[i] /\ e[i] <= b - 1
      BY <1>11, <1>15, <2>4
    <3> QED BY <2>1, <2>4, <3>1
  <2> QED BY <2>2, <2>3, <2>4
<1>19. \E k \in Int : Value(Reduced(a)) = Value(a) - Prime * k
  <2>1. PICK q \in Int : q = Prime
    BY PrimeFacts
  <2>2. Value(Carry(e, 0)) = Value(e) - q * 0
    <3>1. Value(Carry(e, 0)) = Value(e) - Prime * (IF 0 = Limbs - 1 THEN c ELSE 0)
      BY <1>13, CarryValue, Zenon
    <3> QED BY <1>1, <1>12, <2>1, <3>1
  <2>3. Value(e) \in Int
    <3>1. e \in [Places -> Int]
      OBVIOUS
    <3> QED BY <3>1, ValueIsInt, Zenon
  <2>4. Value(Carry(e, 0)) = Value(e)
    BY <2>2, <2>3
  <2> QED BY <1>2, <1>10, <1>16, <2>4, Zenon
<1> QED BY <1>1, <1>17, <1>18, <1>19, Zenon

(***************************************************************************)
(* Poly1305: a block.                                                      *)
(***************************************************************************)

\* A product of two small numbers.
LEMMA ProductBound ==
  ASSUME NEW x \in Nat, NEW y \in Nat, NEW u \in Nat, NEW v \in Nat, x <= u, y <= v
  PROVE  x * y \in Nat /\ x * y <= u * v
<1>1. x * y \in Nat /\ u * v \in Nat /\ x * v \in Nat
  OBVIOUS
<1>2. x * (v - y) >= 0 /\ (u - x) * v >= 0
  OBVIOUS
<1>3. x * (v - y) = x * v - x * y /\ (u - x) * v = u * v - x * v
  OBVIOUS
<1> QED BY <1>1, <1>2, <1>3

\* The sides of a product: limbs after the addition of a block, and those of a key.
Summed(a, b) ==
  /\ a \in [Places -> Nat] /\ b \in [Places -> Nat]
  /\ \A i \in Places : a[i] <= (IF i = 1 THEN 3 * Base ELSE 2 * Base) /\ b[i] <= Base

\* The columns of their product: no limb but the second of the left side is above twice
\* the base, and only what follows the first comes back five times.
LEMMA ColumnsBound ==
  ASSUME NEW a, NEW b, Summed(a, b)
  PROVE  /\ Columns(a, b) \in [Places -> Nat]
         /\ \A i \in Places : Columns(a, b)[i] <= (10 * Limbs - 3) * Base * Base
         /\ Columns(a, b)[Limbs - 1] <= (2 * Limbs + 1) * Base * Base
<1>1. PICK w \in Nat, l \in Nat : w = Base /\ l = Limbs /\ l >= 3
  BY PolyAssumption
<1>0. /\ a \in [Places -> Nat] /\ b \in [Places -> Nat]
      /\ \A i \in Places : a[i] <= (IF i = 1 THEN 3 * w ELSE 2 * w) /\ b[i] <= w
  BY <1>1 DEF Summed
<1>2. ASSUME NEW j \in Places, NEW i \in Places
      PROVE  /\ Turned(b, j)[i] \in Nat
             /\ Turned(b, j)[i] <= 5 * w
             /\ j = 0 \/ i = l - 1 => Turned(b, j)[i] <= w
  <2>1. Turned(b, j)[i] = IF j <= i THEN b[i - j] ELSE 5 * b[l + i - j]
    BY <1>1 DEF Turned
  <2>2. i \in 0 .. l - 1 /\ j \in 0 .. l - 1
    BY <1>1 DEF Places
  <2>3. CASE j <= i
    <3>1. i - j \in Places
      BY <1>1, <2>2, <2>3 DEF Places
    <3>2. b[i - j] \in Nat /\ b[i - j] <= w
      BY <1>0, <3>1
    <3> QED BY <1>1, <2>1, <2>3, <3>2
  <2>4. CASE ~(j <= i)
    <3>1. l + i - j \in Places /\ j # 0 /\ i # l - 1
      BY <1>1, <2>2, <2>4 DEF Places
    <3>2. PICK z \in Nat : z = b[l + i - j] /\ z <= w
      BY <1>0, <3>1
    <3>3. 5 * z \in Nat /\ 5 * z <= 5 * w
      BY <3>2
    <3> QED BY <2>1, <2>4, <3>1, <3>2, <3>3
  <2> QED BY <2>3, <2>4
<1>3. a \in [Places -> Int] /\ b \in [Places -> Int]
  BY <1>0
<1>p. PICK s \in Nat : s = w * w
  OBVIOUS
<1> DEFINE Most(n, i) ==
             IF n = 0 THEN 0 ELSE IF n = 1 THEN 2 ELSE IF i = l - 1 THEN 2 * n + 1 ELSE 10 * n - 3
           Has == {n \in Nat : \A i \in Places :
                     ColumnsTo(a, b, n)[i] \in Nat /\ ColumnsTo(a, b, n)[i] <= Most(n, i) * s}
<1>4. 0 \in Has
  <2>1. \A i \in Places : ColumnsTo(a, b, 0)[i] = 0
    BY <1>3, ColumnSteps
  <2>2. \A i \in Places : Most(0, i) * s = 0
    OBVIOUS
  <2> QED BY <2>1, <2>2
<1>5. ASSUME NEW n \in Places, n \in Has PROVE n + 1 \in Has
  <2>1. n + 1 \in Nat /\ n \in Nat
    BY PlaceBounds
  <2> SUFFICES ASSUME NEW i \in Places
               PROVE  /\ ColumnsTo(a, b, n + 1)[i] \in Nat
                      /\ ColumnsTo(a, b, n + 1)[i] <= Most(n + 1, i) * s
    BY <2>1
  <2>2. ColumnsTo(a, b, n + 1)[i] = ColumnsTo(a, b, n)[i] + a[n] * Turned(b, n)[i]
    <3>1. ColumnsTo(a, b, n + 1) = [i0 \in Places |-> ColumnsTo(a, b, n)[i0] + a[n] * Turned(b, n)[i0]]
      BY <1>3, ColumnSteps
    <3> QED BY <3>1, Zenon
  <2>3. PICK c \in Nat, m \in Nat : c = ColumnsTo(a, b, n)[i] /\ m = Most(n, i) /\ c <= m * s
    <3>1. Most(n, i) \in Nat
      BY <2>1
    <3> HIDE DEF Most
    <3> QED BY <1>5, <3>1
  <2>4. PICK x \in Nat, t \in Nat : x = a[n] /\ t = Turned(b, n)[i]
    BY <1>0, <1>2
  <2>5. PICK f \in Nat, g \in Nat : x <= f * w /\ t <= g * w /\ Most(n + 1, i) = m + f * g
    <3>0. PICK g \in {1, 5} : g = (IF i = l - 1 THEN 1 ELSE 5) /\ t <= g * w
      BY <1>2, <2>4
    <3>1. CASE n = 0
      <4>1. x <= 2 * w /\ t <= 1 * w
        BY <1>0, <1>1, <1>2, <2>4, <3>1
      <4>2. Most(n + 1, i) = m + 2 * 1
        BY <2>3, <3>1
      <4> QED BY <4>1, <4>2
    <3>2. CASE n = 1
      <4>1. x <= 3 * w
        BY <1>0, <2>4, <3>2
      <4>2. Most(n + 1, i) = m + 3 * g
        BY <2>3, <3>0, <3>2
      <4> QED BY <3>0, <4>1, <4>2
    <3>3. CASE n # 0 /\ n # 1
      <4>1. x <= 2 * w
        BY <1>0, <2>4, <3>3
      <4>2. Most(n + 1, i) = m + 2 * g
        BY <2>1, <2>3, <3>0, <3>3
      <4> QED BY <3>0, <4>1, <4>2
    <3> QED BY <3>1, <3>2, <3>3
  <2>6. PICK y \in Nat : y = x * t /\ y <= (f * w) * (g * w)
    <3>1. f * w \in Nat /\ g * w \in Nat
      OBVIOUS
    <3> QED BY <2>5, <3>1, ProductBound
  <2>7. (f * w) * (g * w) = (f * g) * s
    <3>1. (f * w) * (g * w) = (f * g) * (w * w)
      OBVIOUS
    <3> QED BY <1>p, <3>1
  <2>8. m * s + (f * g) * s = (m + f * g) * s
    OBVIOUS
  <2>9. c + y \in Nat /\ c + y <= (m + f * g) * s
    <3>1. PICK u \in Int, v \in Int : u = m * s /\ v = (f * g) * s
      OBVIOUS
    <3> QED BY <2>3, <2>6, <2>7, <2>8, <3>1
  <2> HIDE DEF Most
  <2> QED BY <2>2, <2>3, <2>4, <2>5, <2>6, <2>9, Zenon
<1>6. Limbs \in Has
  <2>1. \A n \in 0 .. Limbs : n \in Has
    <3> HIDE DEF Has
    <3> QED BY <1>4, <1>5, LimbInduction
  <2> HIDE DEF Has
  <2> QED BY <2>1, PlaceBounds
<1>7. ASSUME NEW i \in Places
      PROVE  Most(Limbs, i) * s = (IF i = l - 1 THEN 2 * Limbs + 1 ELSE 10 * Limbs - 3) * w * w
  <2>1. PICK m \in Nat : m = (IF i = l - 1 THEN 2 * l + 1 ELSE 10 * l - 3) /\ m = Most(Limbs, i)
    BY <1>1
  <2>2. m * (w * w) = m * w * w
    OBVIOUS
  <2> HIDE DEF Most
  <2> QED BY <1>1, <1>p, <2>1, <2>2
<1>8. ColumnsTo(a, b, Limbs) = Columns(a, b)
  BY <1>3, ColumnSteps
<1>9. ASSUME NEW i \in Places
      PROVE  /\ Columns(a, b)[i] \in Nat
             /\ Columns(a, b)[i] <= (IF i = l - 1 THEN 2 * Limbs + 1 ELSE 10 * Limbs - 3) * Base * Base
  <2>1. ColumnsTo(a, b, Limbs)[i] \in Nat /\ ColumnsTo(a, b, Limbs)[i] <= Most(Limbs, i) * s
    <3> HIDE DEF Most
    <3> QED BY <1>6
  <2> HIDE DEF Most
  <2> QED BY <1>1, <1>7, <1>8, <2>1, Zenon
<1>10. Columns(a, b) = [i \in Places |-> Columns(a, b)[i]]
  BY Zenon DEF Columns
<1>11. ASSUME NEW i \in Places
       PROVE  Columns(a, b)[i] <= (10 * Limbs - 3) * Base * Base
  <2>1. PICK v \in Nat, c \in Nat : v = w * w /\ c = Columns(a, b)[i]
    BY <1>9
  <2>2. /\ (10 * l - 3) * w * w = (10 * l - 3) * (w * w)
        /\ (2 * l + 1) * w * w = (2 * l + 1) * (w * w)
    OBVIOUS
  <2>3. c <= (10 * l - 3) * v \/ c <= (2 * l + 1) * v
    BY <1>1, <1>9, <2>1, <2>2
  <2>4. (2 * l + 1) * v <= (10 * l - 3) * v
    <3>1. (8 * l - 4) * v >= 0
      BY <1>1
    <3>2. (8 * l - 4) * v = (10 * l - 3) * v - (2 * l + 1) * v
      OBVIOUS
    <3>3. PICK y \in Int, z \in Int : y = (10 * l - 3) * v /\ z = (2 * l + 1) * v
      OBVIOUS
    <3> QED BY <3>1, <3>2, <3>3
  <2>5. PICK y \in Int, z \in Int : y = (10 * l - 3) * v /\ z = (2 * l + 1) * v
    OBVIOUS
  <2>6. c <= (10 * l - 3) * v
    BY <2>3, <2>4, <2>5
  <2> QED BY <1>1, <2>1, <2>2, <2>6
<1>12. Columns(a, b)[Limbs - 1] <= (2 * Limbs + 1) * Base * Base
  <2>1. l - 1 \in Places
    BY <1>1 DEF Places
  <2>2. Columns(a, b)[l - 1] <= (IF l - 1 = l - 1 THEN 2 * Limbs + 1 ELSE 10 * Limbs - 3) * Base * Base
    BY <1>9, <2>1
  <2> QED BY <1>1, <2>2
<1> QED BY <1>9, <1>10, <1>11, <1>12, Zenon

\* The limbs between blocks.
LimbsOK(a) ==
  a \in [Places -> Nat] /\ \A i \in Places : a[i] < (IF i = 1 THEN 2 * Base - 1 ELSE Base)

\* A block is below the top.
LEMMA BlockFits ==
  ASSUME NEW m \in 0 .. MacMod - 1, NEW hibit \in {0, 1}
  PROVE  /\ m + hibit * MacMod \in Nat /\ m + hibit * MacMod < Power[Limbs]
         /\ MacMod \in Nat
<1>1. PICK p \in Nat \ {0} : p = Power[Limbs]
  BY PrimeFacts
<1>2. PICK q \in Nat, t \in 0 .. 3 : Splits(p, 4, q, t) /\ p = 4 * q + t
  <2>1. p \in Nat /\ 4 \in Nat \ {0} /\ 0 .. 4 - 1 = 0 .. 3
    OBVIOUS
  <2>2. PICK f \in Nat \ {0} : f = 4
    BY <2>1
  <2>3. \E q \in Nat, t \in 0 .. f - 1 : Splits(p, f, q, t) /\ p = f * q + t
    BY <2>1, SplitsSomehow
  <2> QED BY <2>2, <2>3
<1>3. MacMod = q
  <2>1. p \div 4 = q
    BY <1>2, SplitsOnce
  <2> QED BY <1>1, <2>1 DEF MacMod
<1>4. hibit * q \in {0, q}
  BY <1>2
<1> QED BY <1>1, <1>2, <1>3, <1>4

\* A block added to the limbs.
LEMMA BlockSummed ==
  ASSUME NEW a, LimbsOK(a), r \in [Places -> 0 .. Base - 1],
         NEW m \in 0 .. MacMod - 1, NEW hibit \in {0, 1},
         NEW x, x = Split(m + hibit * MacMod), NEW s, s = [i \in Places |-> a[i] + x[i]]
  PROVE  /\ Summed(s, r)
         /\ a \in [Places -> Nat] /\ x \in [Places -> Nat]
         /\ Value(x) = m + hibit * MacMod
<1>1. PICK w \in Nat : w = Base
  BY PolyAssumption
<1>2. PICK n \in Nat : n = m + hibit * MacMod /\ n < Power[Limbs]
  BY BlockFits
<1>4. x \in [Places -> 0 .. w - 1] /\ Value(x) = n
  BY <1>1, <1>2, SplitValue
<1>5. a \in [Places -> Nat] /\ \A i \in Places : a[i] < (IF i = 1 THEN 2 * w - 1 ELSE w)
  BY <1>1 DEF LimbsOK
<1>6. s \in [Places -> Nat] /\ \A i \in Places : s[i] <= (IF i = 1 THEN 3 * w ELSE 2 * w)
  <2>1. ASSUME NEW i \in Places PROVE a[i] + x[i] \in Nat /\ a[i] + x[i] <= (IF i = 1 THEN 3 * w ELSE 2 * w)
    <3>1. x[i] \in 0 .. w - 1 /\ a[i] \in Nat /\ a[i] < (IF i = 1 THEN 2 * w - 1 ELSE w)
      BY <1>4, <1>5
    <3> QED BY <1>1, <3>1
  <2> QED BY <2>1
<1>7. r \in [Places -> Nat] /\ \A i \in Places : r[i] <= w
  BY <1>1
<1> QED BY <1>1, <1>2, <1>4, <1>5, <1>6, <1>7 DEF Summed

\* The sums of the product with a block.
LEMMA ProductFits ==
  ASSUME NEW a, LimbsOK(a), r \in [Places -> 0 .. Base - 1],
         NEW m \in 0 .. MacMod - 1, NEW hibit \in {0, 1}
  PROVE  /\ Product(a, m, hibit) \in [Places -> Nat]
         /\ \A i \in Places : Product(a, m, hibit)[i] <= (10 * Limbs - 3) * Base * Base
         /\ Product(a, m, hibit)[Limbs - 1] <= (2 * Limbs + 1) * Base * Base
<1>1. PICK x : x = Split(m + hibit * MacMod)
  OBVIOUS
<1>2. PICK s : s = [i \in Places |-> a[i] + x[i]]
  OBVIOUS
<1>3. Summed(s, r)
  BY <1>1, <1>2, BlockSummed
<1>4. Product(a, m, hibit) = Columns(s, r)
  BY <1>1, <1>2, Zenon DEF Product
<1> QED BY <1>3, <1>4, ColumnsBound, Zenon

\* A block keeps the limbs small, and multiplies what they stand for.
LEMMA BlockAdded ==
  ASSUME NEW a, LimbsOK(a), r \in [Places -> 0 .. Base - 1],
         NEW m \in 0 .. MacMod - 1, NEW hibit \in {0, 1}
  PROVE  /\ LimbsOK(AddBlock(a, m, hibit))
         /\ Value(AddBlock(a, m, hibit)) % Prime =
              (((Value(a) % Prime) + m + hibit * MacMod) * Value(r)) % Prime
<1>1. PICK w \in Nat, l \in Nat : w = Base /\ l = Limbs /\ w >= 32 /\ l >= 3
  BY PolyAssumption
<1>2. PICK n \in Nat : n = m + hibit * MacMod
  BY BlockFits
<1>3. PICK x : x = Split(m + hibit * MacMod)
  OBVIOUS
<1>5. PICK s : s = [i \in Places |-> a[i] + x[i]]
  OBVIOUS
<1>4. Summed(s, r) /\ a \in [Places -> Nat] /\ x \in [Places -> Nat] /\ Value(x) = n
  BY <1>2, <1>3, <1>5, BlockSummed
<1>6. s \in [Places -> Nat] /\ r \in [Places -> Nat]
  BY <1>4, Zenon DEF Summed
<1>8. PICK d : d = Columns(s, r) /\ d = Product(a, m, hibit)
  BY <1>3, <1>5, Zenon DEF Product
<1>9. /\ d \in [Places -> Nat]
      /\ \A i \in Places : d[i] <= (10 * l - 3) * Base * Base
      /\ d[Limbs - 1] <= (2 * l + 1) * Base * Base
  BY <1>1, <1>8, ProductFits
<1>10. AddBlock(a, m, hibit) = Reduced(d)
  BY <1>8, Zenon DEF AddBlock
<1>11. /\ 10 * l - 3 \in Nat /\ 10 * (10 * l - 3) <= 7 * Base
       /\ 2 * l + 1 \in Nat /\ 5 * (2 * l + 1) + 8 <= Base
  BY <1>1, PolyAssumption
<1>12. PICK g : g = Reduced(d)
  OBVIOUS
<1>13. /\ g \in [Places -> Nat]
       /\ \A i \in Places : g[i] < (IF i = 1 THEN 2 * Base - 1 ELSE Base)
       /\ \E k \in Int : Value(g) = Value(d) - Prime * k
  BY <1>9, <1>11, <1>12, ReducedBounds, Zenon
<1>14. LimbsOK(g)
  BY <1>13, Zenon DEF LimbsOK
<1>15. a \in [Places -> Int] /\ x \in [Places -> Int] /\ s \in [Places -> Int] /\ r \in [Places -> Int]
  BY <1>4, <1>6
<1>16. PICK va \in Int, vr \in Int, q \in Nat \ {0} : va = Value(a) /\ vr = Value(r) /\ q = Prime
  BY <1>15, ValueIsInt, PrimeFacts
<1>17. Value(s) = va + n
  <2>1. \A i \in Places : a[i] + x[i] = a[i] + 1 * x[i]
    BY <1>15
  <2>2. s = [i \in Places |-> a[i] + 1 * x[i]]
    BY <1>5, <2>1, Zenon
  <2>3. Value(s) = Value(a) + 1 * Value(x)
    <3>1. 1 \in Int
      OBVIOUS
    <3> QED BY <1>15, <2>2, <3>1, ValueLinear
  <2> QED BY <1>4, <1>16, <2>3
<1>18. PICK k1 \in Int : Value(d) = (va + n) * vr - q * k1
  <2>1. \E k \in Int : Value(Columns(s, r)) = Value(s) * Value(r) - Prime * k
    BY <1>15, ColumnsValue, Zenon
  <2> QED BY <1>8, <1>16, <1>17, <2>1
<1>19. PICK k2 \in Int : Value(g) = Value(d) - q * k2
  BY <1>13, <1>16
<1>20. PICK u \in Int, o \in 0 .. q - 1 : va = q * u + o /\ o = va % q
  BY <1>16, Division
<1>21. Value(g) % q = ((o + n) * vr) % q
  <2>1. PICK y \in Int, z \in Int : y = (o + n) * vr /\ z = Value(g)
    <3>1. g \in [Places -> Int]
      BY <1>13
    <3> QED BY <3>1, ValueIsInt
  <2>2. PICK k \in Int : k = u * vr - k1 - k2
    OBVIOUS
  <2>3. z = y + q * k
    <3>1. ((q * u + o) + n) * vr - q * k1 - q * k2 = (o + n) * vr + q * (u * vr - k1 - k2)
      OBVIOUS
    <3>2. z = ((q * u + o) + n) * vr - q * k1 - q * k2
      BY <1>18, <1>19, <1>20, <2>1
    <3> QED BY <2>1, <2>2, <3>1, <3>2
  <2>4. Apart(y, z, q, k)
    BY <2>1, <2>3 DEF Apart
  <2>5. y % q = z % q
    BY <2>4, Congruent
  <2> QED BY <2>1, <2>5
<1>22. o + n = ((Value(a) % Prime) + m) + hibit * MacMod
  <2>1. m \in Int /\ hibit * MacMod \in Int /\ n = m + hibit * MacMod
    <3>1. MacMod \in Nat
      BY BlockFits
    <3> QED BY <1>2, <3>1
  <2>2. o = Value(a) % Prime
    BY <1>16, <1>20, Zenon
  <2>3. PICK e \in Int : e = hibit * MacMod
    BY <2>1
  <2>4. o + n = (o + m) + e
    BY <2>1, <2>3
  <2> QED BY <2>2, <2>3, <2>4, Zenon
<1> QED BY <1>10, <1>12, <1>14, <1>16, <1>21, <1>22, Zenon

(***************************************************************************)
(* Poly1305: the end.                                                      *)
(***************************************************************************)

\* g is limb k of a and the one after it when limb k, below twice the base, has carried.
CarriesOne(a, k, k2, b, g) ==
  \E c \in {0, 1}, d \in 0 .. b - 1 :
    /\ a[k] = (IF c = 1 THEN b + d ELSE d)
    /\ g = [[a EXCEPT ![k] = d] EXCEPT ![k2] = a[k2] + (IF c = 0 THEN 0 ELSE IF k2 = 0 THEN 5 ELSE 1)]

\* A limb below twice the base carries nothing or one.
LEMMA CarryOne ==
  ASSUME NEW b \in Nat, b = Base, NEW a \in [Places -> Nat], NEW k \in Places, a[k] <= 2 * b - 1,
         NEW k2, k2 = IF k = Limbs - 1 THEN 0 ELSE k + 1
  PROVE  CarriesOne(a, k, k2, b, Carry(a, k))
<1>1. PICK c \in Nat, d \in 0 .. b - 1 : Carries(a, k, k2, b, c, d)
  BY CarrySomething
<1>2. /\ a[k] = b * c + d
      /\ Carry(a, k) = [[a EXCEPT ![k] = d] EXCEPT ![k2] = a[k2] + (IF k2 = 0 THEN 5 * c ELSE c)]
  BY <1>1, Zenon DEF Carries
<1>3. c \in {0, 1}
  <2> SUFFICES ASSUME c >= 2 PROVE FALSE
    OBVIOUS
  <2>1. b * (c - 2) >= 0
    OBVIOUS
  <2>2. b * (c - 2) = b * c - 2 * b
    OBVIOUS
  <2>3. PICK u \in Int : u = b * c
    OBVIOUS
  <2>4. u + d <= 2 * b - 1 /\ u - 2 * b >= 0
    BY <1>2, <2>1, <2>2, <2>3
  <2> QED BY <2>4
<1>4. a[k] = IF c = 1 THEN b + d ELSE d
  BY <1>2, <1>3
<1>5. (IF k2 = 0 THEN 5 * c ELSE c) = (IF c = 0 THEN 0 ELSE IF k2 = 0 THEN 5 ELSE 1)
  BY <1>3
<1>6. Carry(a, k) = [[a EXCEPT ![k] = d] EXCEPT ![k2] = a[k2] + (IF c = 0 THEN 0 ELSE IF k2 = 0 THEN 5 ELSE 1)]
  BY <1>2, <1>5, Zenon
<1> QED BY <1>3, <1>4, <1>6, Zenon DEF CarriesOne

\* The limbs while they carry in turn, with limb k the next: what that one may have
\* above its limit is what the second limb is below its own.
Turning(g, k, b) ==
  /\ \A i \in Places : i # k => g[i] <= b - 1
  /\ g[k] <= b + 4
  /\ g[k] >= b => g[1] <= b - 2

\* A limb other than the second carries.
LEMMA TurningOn ==
  ASSUME NEW b \in Nat, b = Base, NEW a \in [Places -> Nat], NEW g \in [Places -> Nat],
         NEW k \in Places, k # 1, NEW k2, k2 = IF k = Limbs - 1 THEN 0 ELSE k + 1,
         Turning(a, k, b), CarriesOne(a, k, k2, b, g)
  PROVE  /\ k2 # 1 => Turning(g, k2, b)
         /\ k2 = 1 => \A i \in Places : g[i] <= b - 1
<1>1. PICK l \in Nat : l = Limbs /\ l >= 3 /\ Places = 0 .. l - 1 /\ b >= 32
  BY PolyAssumption DEF Places
<1>2. k2 \in Places /\ k2 # k /\ 1 \in Places /\ k \in Int /\ k2 \in Int
  BY <1>1
<1>3. PICK c \in {0, 1}, d \in 0 .. b - 1 :
        /\ a[k] = (IF c = 1 THEN b + d ELSE d)
        /\ g = [[a EXCEPT ![k] = d] EXCEPT ![k2] = a[k2] + (IF c = 0 THEN 0 ELSE IF k2 = 0 THEN 5 ELSE 1)]
  BY DEF CarriesOne
<1>4. /\ \A i \in Places : i # k => a[i] <= b - 1
      /\ a[k] <= b + 4
      /\ a[k] >= b => a[1] <= b - 2
  BY DEF Turning
<1>5. /\ g[k] = d
      /\ g[k2] = a[k2] + (IF c = 0 THEN 0 ELSE IF k2 = 0 THEN 5 ELSE 1)
      /\ \A i \in Places : i # k /\ i # k2 => g[i] = a[i]
  BY <1>2, <1>3
<1>6. \A i \in Places : a[i] \in Nat /\ g[i] \in Nat
  OBVIOUS
<1>7. c = 1 => a[1] <= b - 2
  <2>1. c = 1 => a[k] >= b
    BY <1>3
  <2> QED BY <1>4, <2>1
<1>8. \A i \in Places : i # k2 => g[i] <= b - 1
  BY <1>3, <1>4, <1>5, <1>6
<1>9. ASSUME k2 # 1 PROVE Turning(g, k2, b)
  <2>1. g[k2] <= b + 4
    <3>1. a[k2] <= b - 1 /\ a[k2] \in Nat
      BY <1>2, <1>4
    <3>2. (IF c = 0 THEN 0 ELSE IF k2 = 0 THEN 5 ELSE 1) \in 0 .. 5
      OBVIOUS
    <3> QED BY <1>5, <3>1, <3>2
  <2>2. ASSUME g[k2] >= b PROVE g[1] <= b - 2
    <3>1. a[k2] <= b - 1 /\ a[k2] \in Nat
      BY <1>2, <1>4
    <3>2. c = 1
      BY <1>3, <1>5, <2>2, <3>1
    <3>3. g[1] = a[1]
      BY <1>2, <1>5, <1>9
    <3> QED BY <1>7, <3>2, <3>3
  <2> QED BY <1>8, <2>1, <2>2 DEF Turning
<1>10. ASSUME k2 = 1 PROVE \A i \in Places : g[i] <= b - 1
  <2>1. g[1] = a[1] + (IF c = 0 THEN 0 ELSE 1)
    BY <1>5, <1>10
  <2>2. a[1] <= b - 1 /\ a[1] \in Nat
    BY <1>2, <1>4, <1>10
  <2>3. g[1] <= b - 1
    BY <1>3, <1>7, <2>1, <2>2
  <2> QED BY <1>8, <1>10, <2>3
<1> QED BY <1>9, <1>10

\* When the limbs have carried from the second round to the second, each is within its
\* width, and they stand for the same.
LEMMA FullCarryBounds ==
  ASSUME NEW a, LimbsOK(a)
  PROVE  /\ FullCarry(a) \in [Places -> 0 .. Base - 1]
         /\ \E k \in Int : Value(FullCarry(a)) = Value(a) - Prime * k
<1>1. PICK b \in Nat, l \in Nat : b = Base /\ b >= 32 /\ l = Limbs /\ l >= 3 /\ Places = 0 .. l - 1
  BY PolyAssumption DEF Places
<1>b. b = Base
  BY <1>1
<1>a. a \in [Places -> Nat] /\ \A i \in Places : a[i] < (IF i = 1 THEN 2 * b - 1 ELSE b)
  BY <1>1 DEF LimbsOK
<1>2. PICK f : /\ CarryRun(f, a, Turn(1), l) /\ f[l] = Carried(a, 1)
               /\ \E k \in Int : Value(f[l]) = Value(a) - Prime * k
  BY <1>1, <1>a, CarriedRuns
<1>3. f \in [0 .. l -> [Places -> Nat]] /\ f[0] = a
  BY <1>2, Zenon DEF CarryRun
<1> DEFINE At(n) == IF n = l - 1 THEN 0 ELSE n + 1
<1>4. ASSUME NEW n \in 0 .. l - 1 PROVE f[n + 1] = Carry(f[n], At(n))
  <2>1. n + 1 \in 1 .. l /\ (n + 1) - 1 = n
    OBVIOUS
  <2>2. f[n + 1] = Carry(f[(n + 1) - 1], Turn(1)[n + 1])
    BY <1>2, <2>1, Zenon DEF CarryRun
  <2>3. Turn(1)[n + 1] = At(n)
    BY <1>1, <2>1, TurnPlaces
  <2> QED BY <2>1, <2>2, <2>3, Zenon
<1> DEFINE Has == {n \in Nat : n + 1 <= l - 1 => Turning(f[n + 1], At(n + 1), b)}
<1>5. 0 \in Has
  <2>1. 0 + 1 = 1 /\ At(0) = 1 /\ At(1) = 2 /\ 0 \in 0 .. l - 1 /\ 1 \in Places /\ 2 \in Places /\ 2 # 1
    BY <1>1
  <2>2. f[1] = Carry(a, 1)
    BY <1>3, <1>4, <2>1
  <2>3. CarriesOne(a, 1, 2, b, f[1])
    <3>1. 2 = IF 1 = Limbs - 1 THEN 0 ELSE 1 + 1
      BY <1>1
    <3>2. a[1] <= 2 * b - 1
      BY <1>1, <1>a, <2>1
    <3> QED BY <1>b, <1>a, <2>1, <2>2, <3>1, <3>2, CarryOne
  <2>4. PICK c \in {0, 1}, d \in 0 .. b - 1 :
          /\ a[1] = (IF c = 1 THEN b + d ELSE d)
          /\ f[1] = [[a EXCEPT ![1] = d] EXCEPT ![2] = a[2] + (IF c = 0 THEN 0 ELSE IF 2 = 0 THEN 5 ELSE 1)]
    BY <2>3 DEF CarriesOne
  <2>5. PICK g \in [Places -> Nat] : g = f[1]
    BY <1>3, <2>1
  <2>6. /\ g[1] = d /\ g[2] = a[2] + (IF c = 0 THEN 0 ELSE 1)
        /\ \A i \in Places : i # 1 /\ i # 2 => g[i] = a[i]
    BY <1>a, <2>1, <2>4, <2>5
  <2>7. a[1] <= 2 * b - 2 /\ a[2] <= b - 1 /\ a[1] \in Nat /\ a[2] \in Nat
        /\ \A i \in Places : i # 1 => a[i] <= b - 1 /\ a[i] \in Nat
    BY <1>1, <1>a, <2>1
  <2>8. \A i \in Places : i # 2 => g[i] <= b - 1
    BY <2>4, <2>6, <2>7
  <2>9. g[2] <= b + 4 /\ (g[2] >= b => g[1] <= b - 2)
    BY <2>4, <2>6, <2>7
  <2>10. Turning(f[1], 2, b)
    BY <2>5, <2>8, <2>9 DEF Turning
  <2> QED BY <2>1, <2>10
<1>6. ASSUME NEW n \in 0 .. l - 1, n >= 1, Turning(f[n], At(n), b)
      PROVE  /\ n < l - 1 => Turning(f[n + 1], At(n + 1), b)
             /\ n = l - 1 => \A i \in Places : f[n + 1][i] <= b - 1
  <2>1. PICK k : k = At(n)
    OBVIOUS
  <2>2. k \in Places /\ k # 1
    BY <1>1, <1>6, <2>1
  <2>3. PICK k2 : k2 = IF k = Limbs - 1 THEN 0 ELSE k + 1
    OBVIOUS
  <2>4. PICK g \in [Places -> Nat], e \in [Places -> Nat] : g = f[n] /\ e = f[n + 1]
    <3>1. n \in 0 .. l /\ n + 1 \in 0 .. l
      OBVIOUS
    <3> QED BY <1>3, <3>1
  <2>5. e = Carry(g, k)
    BY <1>4, <2>1, <2>4
  <2>6. Turning(g, k, b)
    BY <1>6, <2>1, <2>4
  <2>7. g[k] <= 2 * b - 1
    <3>1. g[k] <= b + 4
      BY <2>6 DEF Turning
    <3>2. g[k] \in Nat
      BY <2>2
    <3> QED BY <1>1, <3>1, <3>2
  <2>8. CarriesOne(g, k, k2, b, e)
    BY <1>b, <2>2, <2>3, <2>5, <2>7, CarryOne
  <2>9. /\ k2 # 1 => Turning(e, k2, b)
        /\ k2 = 1 => \A i \in Places : e[i] <= b - 1
    BY <1>b, <2>2, <2>3, <2>6, <2>8, TurningOn
  <2>10. /\ n < l - 1 => k2 = At(n + 1) /\ k2 # 1
         /\ n = l - 1 => k2 = 1
    BY <1>1, <1>6, <2>1, <2>3
  <2> QED BY <2>4, <2>9, <2>10
<1>7. ASSUME NEW n \in Nat, n \in Has PROVE n + 1 \in Has
  <2> SUFFICES ASSUME (n + 1) + 1 <= l - 1 PROVE Turning(f[(n + 1) + 1], At((n + 1) + 1), b)
    OBVIOUS
  <2>1. n + 1 \in 0 .. l - 1 /\ n + 1 >= 1 /\ n + 1 < l - 1 /\ n + 1 <= l - 1
    OBVIOUS
  <2>2. Turning(f[n + 1], At(n + 1), b)
    BY <1>7, <2>1
  <2> HIDE DEF At
  <2> QED BY <1>6, <2>1, <2>2
<1>8. Turning(f[l - 1], At(l - 1), b)
  <2>1. l - 2 \in Nat /\ (l - 2) + 1 = l - 1
    BY <1>1
  <2>2. l - 2 \in Has
    <3> HIDE DEF Has
    <3> QED BY <2>1, <1>5, <1>7, SetInduction
  <2> HIDE DEF At
  <2> QED BY <2>1, <2>2
<1>9. PICK e \in [Places -> Nat] : e = f[l]
  BY <1>3
<1>10. \A i \in Places : e[i] <= b - 1
  <2>1. l - 1 \in 0 .. l - 1 /\ l - 1 >= 1 /\ (l - 1) + 1 = l
    BY <1>1
  <2> HIDE DEF At
  <2> QED BY <1>6, <1>8, <1>9, <2>1
<1>11. FullCarry(a) = e
  BY <1>2, <1>9, Zenon DEF FullCarry
<1>12. e \in [Places -> 0 .. b - 1]
  <2>1. \A i \in Places : e[i] \in 0 .. b - 1
    BY <1>10
  <2> QED BY <2>1
<1>13. \E k \in Int : Value(e) = Value(a) - Prime * k
  BY <1>2, <1>9, Zenon
<1> QED BY <1>b, <1>11, <1>12, <1>13, Zenon

\* The limbs of h + 5 when those below n have carried.
Rising(g, n, b) ==
  /\ g \in [Places -> Nat]
  /\ \A i \in Places : i # n => g[i] <= b - 1
  /\ g[n] <= b + 4

\* One more carries, and the limbs stand for the same.
LEMMA RisingOn ==
  ASSUME NEW b \in Nat, b = Base, NEW g, NEW n \in Places, n + 1 \in Places, Rising(g, n, b)
  PROVE  Rising(Carry(g, n), n + 1, b) /\ Value(Carry(g, n)) = Value(g)
<1>1. b >= 32 /\ n # Limbs - 1 /\ n \in Nat /\ n + 1 # 0 /\ n + 1 # n
  BY PolyAssumption DEF Places
<1>2. /\ g \in [Places -> Nat]
      /\ \A i \in Places : i # n => g[i] <= b - 1
      /\ g[n] <= b + 4
  BY DEF Rising
<1>3. g[n] <= 2 * b - 1
  BY <1>1, <1>2
<1>4. PICK e \in [Places -> Nat] : e = Carry(g, n)
  BY <1>2, CarryTyped
<1>5. CarriesOne(g, n, n + 1, b, e)
  <2>1. PICK k2 : k2 = IF n = Limbs - 1 THEN 0 ELSE n + 1
    OBVIOUS
  <2>2. k2 = n + 1
    BY <1>1, <2>1
  <2>3. CarriesOne(g, n, k2, b, Carry(g, n))
    BY <1>2, <1>3, <2>1, CarryOne
  <2> QED BY <1>4, <2>2, <2>3
<1>6. PICK c \in {0, 1}, d \in 0 .. b - 1 :
        e = [[g EXCEPT ![n] = d] EXCEPT ![n + 1] = g[n + 1] + (IF c = 0 THEN 0 ELSE IF n + 1 = 0 THEN 5 ELSE 1)]
  BY <1>5 DEF CarriesOne
<1>7. /\ e[n] = d
      /\ e[n + 1] = g[n + 1] + (IF c = 0 THEN 0 ELSE 1)
      /\ \A i \in Places : i # n /\ i # n + 1 => e[i] = g[i]
  BY <1>1, <1>2, <1>6
<1>8. \A i \in Places : i # n + 1 => e[i] <= b - 1
  BY <1>2, <1>7
<1>9. e[n + 1] <= b + 4
  <2>1. g[n + 1] \in Nat /\ g[n + 1] <= b - 1
    BY <1>1, <1>2
  <2> QED BY <1>7, <2>1
<1>10. Value(e) = Value(g)
  <2>1. PICK c2 \in Nat, d2 \in 0 .. Base - 1 : Holds(g, n, c2, d2)
    BY <1>2, LimbHolds
  <2>2. PICK q \in Int : q = Prime
    BY PrimeFacts
  <2>3. Value(e) = Value(g) - q * 0
    <3>1. Value(Carry(g, n)) = Value(g) - Prime * (IF n = Limbs - 1 THEN c2 ELSE 0)
      BY <2>1, CarryValue, Zenon
    <3> QED BY <1>1, <1>4, <2>2, <3>1
  <2>4. Value(g) \in Int
    <3>1. g \in [Places -> Int]
      BY <1>2
    <3> QED BY <3>1, ValueIsInt
  <2> QED BY <2>3, <2>4
<1>11. Rising(e, n + 1, b)
  BY <1>8, <1>9 DEF Rising
<1> QED BY <1>4, <1>10, <1>11

\* h + -p: every limb but the top one is within its width, and the top one is no more
\* than that.
LEMMA MinusPFacts ==
  ASSUME NEW a \in [Places -> 0 .. Base - 1]
  PROVE  /\ MinusP(a) \in [Places -> Int]
         /\ Value(MinusP(a)) = Value(a) - Prime
         /\ \A i \in Places : i # Limbs - 1 => MinusP(a)[i] \in 0 .. Base - 1
         /\ MinusP(a)[Limbs - 1] <= Base - 1
<1>1. PICK b \in Nat, l \in Nat : b = Base /\ b >= 32 /\ l = Limbs /\ l >= 3 /\ Places = 0 .. l - 1
  BY PolyAssumption DEF Places
<1>b. b = Base
  BY <1>1
<1>2. a \in [Places -> Int] /\ 0 \in Places /\ \A i \in Places : a[i] \in 0 .. b - 1
  BY <1>1
<1>3. PICK a0 : a0 = [a EXCEPT ![0] = a[0] + 5]
  OBVIOUS
<1>4. a0 \in [Places -> Int] /\ Value(a0) = Value(a) + 5 /\ Rising(a0, 0, b)
  <2>1. a[0] + 5 \in Int
    BY <1>2
  <2>2. a0 \in [Places -> Int] /\ Value(a0) = Value(a) + ((a[0] + 5) - a[0]) * Power[0]
    BY <1>2, <1>3, <2>1, ValueChanges
  <2>3. Power[0] = 1
    BY PowerSteps
  <2>4. Value(a) \in Int
    BY <1>2, ValueIsInt
  <2>5. Value(a0) = Value(a) + 5
    BY <1>2, <2>2, <2>3, <2>4
  <2>6. /\ a0 \in [Places -> Nat]
        /\ \A i \in Places : i # 0 => a0[i] <= b - 1
        /\ a0[0] <= b + 4
    BY <1>2, <1>3
  <2> QED BY <2>2, <2>5, <2>6 DEF Rising
<1>5. PICK t : t = [k \in 1 .. Limbs |-> k - 1]
  OBVIOUS
<1>6. t \in [1 .. l -> Places] /\ t \in Seq(Places) /\ Len(t) = l /\ \A k \in 1 .. l : t[k] = k - 1
  BY <1>1, <1>5
<1>7. PICK f : UpRun(f, a0, t, l) /\ f[l] = FoldLeft(CarryUp, a0, t)
  BY <1>4, <1>6, UpRuns
<1>8. MinusP(a) = f[l]
  BY <1>3, <1>5, <1>7, Zenon DEF MinusP
<1>9. f \in [0 .. l -> [Places -> Int]] /\ f[0] = a0
  BY <1>7, Zenon DEF UpRun
<1>10. ASSUME NEW n \in 0 .. l - 1 PROVE f[n + 1] = CarryUp(f[n], n)
  <2>1. n + 1 \in 1 .. l /\ (n + 1) - 1 = n
    OBVIOUS
  <2>2. f[n + 1] = CarryUp(f[(n + 1) - 1], t[n + 1])
    BY <1>7, <2>1, Zenon DEF UpRun
  <2>3. t[n + 1] = n
    BY <1>6, <2>1
  <2> QED BY <2>1, <2>2, <2>3
<1> DEFINE Has == {n \in Nat : n <= l - 1 => Rising(f[n], n, b) /\ Value(f[n]) = Value(a) + 5}
<1>11. 0 \in Has
  BY <1>4, <1>9
<1>12. ASSUME NEW n \in Nat, n \in Has PROVE n + 1 \in Has
  <2> SUFFICES ASSUME n + 1 <= l - 1 PROVE Rising(f[n + 1], n + 1, b) /\ Value(f[n + 1]) = Value(a) + 5
    OBVIOUS
  <2>1. n \in Places /\ n + 1 \in Places /\ n \in 0 .. l - 1 /\ n <= l - 1 /\ n # Limbs - 1
    BY <1>1
  <2>2. Rising(f[n], n, b) /\ Value(f[n]) = Value(a) + 5
    BY <1>12, <2>1
  <2>3. f[n + 1] = Carry(f[n], n)
    BY <1>10, <2>1 DEF CarryUp
  <2>4. Rising(Carry(f[n], n), n + 1, b) /\ Value(Carry(f[n], n)) = Value(f[n])
    BY <1>b, <2>1, <2>2, RisingOn
  <2> QED BY <2>2, <2>3, <2>4
<1>13. PICK g : g = f[l - 1] /\ Rising(g, l - 1, b) /\ Value(g) = Value(a) + 5
  <2>1. l - 1 \in Nat /\ l - 1 <= l - 1
    BY <1>1
  <2>2. l - 1 \in Has
    <3> HIDE DEF Has
    <3> QED BY <2>1, <1>11, <1>12, SetInduction
  <2> QED BY <2>1, <2>2
<1>14. /\ g \in [Places -> Nat]
       /\ \A i \in Places : i # l - 1 => g[i] <= b - 1
       /\ g[l - 1] <= b + 4
  BY <1>13 DEF Rising
<1>15. f[l] = [g EXCEPT ![l - 1] = g[l - 1] - b]
  <2>1. l - 1 \in 0 .. l - 1 /\ (l - 1) + 1 = l
    BY <1>1
  <2>2. f[l] = CarryUp(g, l - 1)
    BY <1>10, <1>13, <2>1
  <2> QED BY <1>1, <2>2 DEF CarryUp
<1>16. l - 1 \in Places /\ g[l - 1] \in Nat /\ g \in [Places -> Int] /\ g[l - 1] - b \in Int
  <2>1. l - 1 \in Places
    BY <1>1
  <2> QED BY <1>14, <2>1
<1>17. f[l] \in [Places -> Int] /\ Value(f[l]) = Value(g) + ((g[l - 1] - b) - g[l - 1]) * Power[l - 1]
  BY <1>15, <1>16, ValueChanges
<1>18. Value(f[l]) = Value(a) - Prime
  <2>1. PICK p \in Nat, q \in Nat, z \in Nat : p = Power[Limbs] /\ q = Prime /\ z = Power[l - 1] /\ p = q + 5 /\ p = b * z
    BY <1>1, PrimeFacts
  <2>2. PICK v \in Int : v = Value(a)
    BY <1>2, ValueIsInt
  <2>3. ((g[l - 1] - b) - g[l - 1]) * z = - (b * z)
    BY <1>16
  <2>4. Value(f[l]) = (v + 5) + (- (b * z))
    BY <1>13, <1>17, <2>1, <2>2, <2>3
  <2>5. Value(f[l]) = v - q
    <3>1. (v + 5) + (- p) = v - q
      BY <2>1
    <3> QED BY <2>1, <2>4, <3>1
  <2> QED BY <2>1, <2>2, <2>5
<1>19. \A i \in Places : i # Limbs - 1 => f[l][i] \in 0 .. b - 1
  <2> SUFFICES ASSUME NEW i \in Places, i # l - 1 PROVE f[l][i] \in 0 .. b - 1
    BY <1>1
  <2>1. f[l][i] = g[i] /\ g[i] \in Nat /\ g[i] <= b - 1
    BY <1>14, <1>15, <1>16
  <2> QED BY <2>1
<1>20. f[l][Limbs - 1] <= b - 1
  <2>1. f[l][l - 1] = g[l - 1] - b
    BY <1>15, <1>16
  <2> QED BY <1>1, <1>14, <1>16, <2>1
<1> QED BY <1>b, <1>8, <1>17, <1>18, <1>19, <1>20, Zenon

\* The tag is what the limbs stand for, modulo the prime and then modulo the width of
\* the tag, and no limb of it overlaps another.
LEMMA TagValue ==
  ASSUME NEW a \in [Places -> 0 .. Base - 1]
  PROVE  /\ \A i \in Places : Selected(a)[i] \in 0 .. Base - 1
         /\ Value(Selected(a)) = Value(a) % Prime
<1>1. PICK b \in Nat, l \in Nat : b = Base /\ b >= 32 /\ l = Limbs /\ l >= 3 /\ Places = 0 .. l - 1
  BY PolyAssumption DEF Places
<1>b. b = Base
  BY <1>1
<1>2. PICK q \in Nat \ {0}, p \in Nat, z \in Nat \ {0} :
        q = Prime /\ q > 5 /\ p = Power[l] /\ z = Power[l - 1] /\ p = q + 5 /\ p = b * z
  BY <1>1, PrimeFacts
<1>3. PICK g : g = MinusP(a)
  OBVIOUS
<1>4. /\ g \in [Places -> Int]
      /\ Value(g) = Value(a) - q
      /\ \A i \in Places : i # l - 1 => g[i] \in 0 .. b - 1
      /\ g[l - 1] <= b - 1
  BY <1>1, <1>2, <1>3, MinusPFacts
<1>5. a \in [Places -> Int] /\ \A i \in Places : a[i] \in 0 .. b - 1
  BY <1>1
<1>6. PICK v \in Nat : v = Value(a) /\ v < p
  <2>1. Limbs \in 0 .. Limbs
    BY PlaceBounds
  <2>2. Part(a, Limbs) \in 0 .. Power[Limbs] - 1
    BY <1>5, <2>1, PartBounds
  <2>3. Part(a, Limbs) = Value(a)
    BY <1>5, PartSteps
  <2> QED BY <1>1, <1>2, <2>2, <2>3
<1>7. l - 1 \in Places /\ l - 1 \in 0 .. Limbs /\ (l - 1) + 1 = l /\ g[l - 1] \in Int
  <2>1. l - 1 \in Places
    BY <1>1
  <2> QED BY <1>1, <1>4, <2>1
<1>8. PICK w \in Nat : w = Part(g, l - 1) /\ w < z
  <2>1. \A i \in Places : i < l - 1 => g[i] \in 0 .. Base - 1
    <3>1. \A i \in Places : i \in Int
      BY <1>1
    <3> QED BY <1>1, <1>4, <3>1
  <2>2. Part(g, l - 1) \in 0 .. Power[l - 1] - 1
    BY <1>4, <1>7, <2>1, PartBounds
  <2> QED BY <1>2, <2>2
<1>9. Value(g) = w + g[l - 1] * z
  <2>1. Part(g, Limbs) = Value(g) /\ Part(g, (l - 1) + 1) = Part(g, l - 1) + g[l - 1] * Power[l - 1]
    BY <1>4, <1>7, PartSteps
  <2> QED BY <1>1, <1>2, <1>7, <1>8, <2>1
<1>10. v - q = w + g[l - 1] * z
  BY <1>4, <1>6, <1>9
<1>11. CASE g[l - 1] < 0
  <2>1. Selected(a) = a
    BY <1>1, <1>3, <1>11 DEF Selected
  <2>2. v < q
    <3>1. PICK t \in Int : t = g[l - 1] /\ t <= -1
      BY <1>7, <1>11
    <3>2. t * z <= - z
      <4>1. (-1 - t) * z >= 0
        BY <3>1
      <4>2. (-1 - t) * z = - z - t * z
        BY <3>1
      <4>3. PICK y \in Int : y = t * z
        OBVIOUS
      <4> QED BY <4>1, <4>2, <4>3
    <3>3. PICK y \in Int : y = t * z
      OBVIOUS
    <3> QED BY <1>8, <1>10, <3>1, <3>2, <3>3
  <2>3. v % q = v
    <3>1. Splits(v, q, 0, v)
      <4>1. v = q * 0 + v
        OBVIOUS
      <4> QED BY <2>2, <4>1 DEF Splits
    <3> QED BY <3>1, SplitsOnce
  <2> QED BY <1>1, <1>2, <1>5, <1>6, <2>1, <2>3
<1>12. CASE ~(g[l - 1] < 0)
  <2>1. Selected(a) = g
    BY <1>1, <1>3, <1>12 DEF Selected
  <2>2. g[l - 1] \in 0 .. b - 1
    BY <1>4, <1>7, <1>12
  <2>3. v - q >= 0
    <3>1. PICK t \in Nat : t = g[l - 1]
      BY <2>2
    <3>2. t * z >= 0
      OBVIOUS
    <3>3. PICK y \in Int : y = t * z
      OBVIOUS
    <3> QED BY <1>8, <1>10, <3>1, <3>2, <3>3
  <2>4. v % q = v - q
    <3>1. Splits(v, q, 1, v - q)
      <4>1. v = q * 1 + (v - q)
        OBVIOUS
      <4> QED BY <1>2, <1>6, <2>3, <4>1 DEF Splits
    <3> QED BY <3>1, SplitsOnce
  <2>5. \A i \in Places : g[i] \in 0 .. b - 1
    BY <1>4, <2>2
  <2> QED BY <1>1, <1>2, <1>4, <1>6, <2>1, <2>4, <2>5
<1> QED BY <1>11, <1>12

\* An entry of the message, and the sum with one more.
Entries == [m : 0 .. MacMod - 1, hibit : {0, 1}]
WithBlock(acc, x, k) == ((acc + x.m + x.hibit * MacMod) * k) % Prime

\* The sum is a number modulo the prime.
LEMMA WithBlockTyped ==
  ASSUME NEW acc \in 0 .. Prime - 1, NEW x \in Entries, NEW k \in Int
  PROVE  WithBlock(acc, x, k) \in 0 .. Prime - 1
<1>1. PICK q \in Nat \ {0} : q = Prime
  BY PrimeFacts
<1>2. PICK m \in 0 .. MacMod - 1, hibit \in {0, 1} : m = x.m /\ hibit = x.hibit
  BY DEF Entries
<1>3. PICK n \in Nat : n = m + hibit * MacMod
  BY BlockFits
<1>4. PICK y \in Int : y = (acc + n) * k
  BY <1>1
<1>5. y % q \in 0 .. q - 1
  BY Division
<1>6. WithBlock(acc, x, k) = y % q
  <2>1. acc + m + hibit * MacMod = acc + n
    <3>1. MacMod \in Nat /\ hibit * MacMod \in Nat
      BY BlockFits
    <3> QED BY <1>1, <1>3, <3>1
  <2> QED BY <1>1, <1>2, <1>4, <2>1, Zenon DEF WithBlock
<1> QED BY <1>1, <1>5, <1>6

\* f is the sums with the first n entries of t.
Evaluates(f, t, k, n) ==
  /\ f \in [0 .. n -> 0 .. Prime - 1]
  /\ f[0] = 0
  /\ \A i \in 1 .. n : f[i] = WithBlock(f[i - 1], t[i], k)

\* There are such sums, and the last is what the polynomial gives.
LEMMA EvaluatesSome ==
  ASSUME NEW k \in Int, NEW t \in Seq(Entries), NEW n \in Nat, n = Len(t)
  PROVE  \E f : Evaluates(f, t, k, n) /\ f[n] = Evaluated(t, k)
<1>1. PICK S, x : S = 0 .. Prime - 1 /\ x = 0
  OBVIOUS
<1>2. DOMAIN t = 1 .. n /\ \A i \in 1 .. n : t[i] \in Entries
  BY LenProperties, ElementOfSeq
<1>3. PICK G : G = [i \in 1 .. n |-> [y \in S |-> WithBlock(y, t[i], k)]]
  OBVIOUS
<1>4. \A i \in 1 .. n : \A y \in S : G[i][y] = WithBlock(y, t[i], k)
  BY <1>3, Zenon
<1>5. G \in [1 .. n -> [S -> S]]
  <2>1. \A i \in 1 .. n : \A y \in S : WithBlock(y, t[i], k) \in S
    BY <1>1, <1>2, WithBlockTyped, Zenon
  <2> QED BY <1>3, <2>1, Zenon
<1> DEFINE Runs(it) == it = [u \in SUBSET (DOMAIN t) |->
                               IF u = {} THEN x ELSE WithBlock(it[u \ {Max(u)}], t[Max(u)], k)]
<1>x. x \in S
  BY <1>1, PrimeFacts
<1>e. PICK j : FoldTable(j, S, x, n, G)
  BY <1>x, <1>5, FoldExists, Zenon
<1>6. /\ j \in [SUBSET (1 .. n) -> S]
      /\ \A u \in SUBSET (1 .. n) : j[u] = IF u = {} THEN x ELSE G[Max(u)][j[u \ {Max(u)}]]
  BY <1>e, Zenon DEF FoldTable
<1>7. ASSUME NEW u \in SUBSET (1 .. n), u # {} PROVE Max(u) \in 1 .. n /\ u \ {Max(u)} \in SUBSET (1 .. n)
  BY <1>7, MaxOfIndices
<1>8. Runs(j)
  <2>1. ASSUME NEW u \in SUBSET (1 .. n)
        PROVE  j[u] = IF u = {} THEN x ELSE WithBlock(j[u \ {Max(u)}], t[Max(u)], k)
    <3>1. CASE u = {}
      BY <1>6, <3>1, Zenon
    <3>2. CASE u # {}
      <4>1. j[u \ {Max(u)}] \in S
        BY <1>6, <1>7, <3>2, Zenon
      <4> QED BY <1>4, <1>6, <1>7, <3>2, <4>1, Zenon
    <3> QED BY <3>1, <3>2, Zenon
  <2>2. j = [u \in SUBSET (1 .. n) |-> j[u]]
    BY <1>6, Zenon
  <2> QED BY <1>2, <2>1, <2>2, Zenon
<1>9. PICK it : Runs(it) /\ Evaluated(t, k) = it[DOMAIN t]
  <2>1. Evaluated(t, k) = (CHOOSE it : Runs(it))[DOMAIN t]
    BY <1>1, Zenon DEF Evaluated, FoldLeft, MapThenFoldSet, WithBlock
  <2>2. Runs(CHOOSE it : Runs(it))
    BY <1>8, Zenon
  <2> QED BY <2>1, <2>2, Zenon
<1>10. it[{}] = x
  BY <1>9, Zenon
<1>11. \A u \in SUBSET (1 .. n) : u # {} /\ it[u \ {Max(u)}] \in S => it[u] = G[Max(u)][it[u \ {Max(u)}]]
  <2> SUFFICES ASSUME NEW u \in SUBSET (1 .. n), u # {}, it[u \ {Max(u)}] \in S
               PROVE  it[u] = G[Max(u)][it[u \ {Max(u)}]]
    BY Zenon
  <2>1. it[u] = WithBlock(it[u \ {Max(u)}], t[Max(u)], k)
    <3>1. it = [v \in SUBSET (DOMAIN t) |-> IF v = {} THEN x ELSE WithBlock(it[v \ {Max(v)}], t[Max(v)], k)]
      BY <1>9, Zenon
    <3>2. u \in SUBSET (DOMAIN t)
      BY <1>2, Zenon
    <3> QED BY <3>1, <3>2, Zenon
  <2>2. Max(u) \in 1 .. n
    BY <1>7, Zenon
  <2> QED BY <1>4, <2>1, <2>2, Zenon
<1>12. PICK f : FoldRun(f, it, S, x, n, G)
  <2>1. FoldsBy(it, S, x, n, G)
    BY <1>x, <1>5, <1>10, <1>11, Zenon DEF FoldsBy
  <2> QED BY <2>1, FoldRuns, Zenon
<1>13. /\ f \in [0 .. n -> S]
       /\ f[0] = x
       /\ \A i \in 1 .. n : f[i] = G[i][f[i - 1]]
       /\ f[n] = it[1 .. n]
  BY <1>12, Zenon DEF FoldRun
<1>14. \A i \in 1 .. n : f[i] = WithBlock(f[i - 1], t[i], k)
  <2> SUFFICES ASSUME NEW i \in 1 .. n PROVE f[i] = WithBlock(f[i - 1], t[i], k)
    OBVIOUS
  <2>1. i - 1 \in 0 .. n
    OBVIOUS
  <2> QED BY <2>1, <1>4, <1>13, Zenon
<1>15. f[n] = Evaluated(t, k)
  BY <1>2, <1>9, <1>13, Zenon
<1> QED BY <1>1, <1>13, <1>14, <1>15, Zenon DEF Evaluates

\* No block is nothing, and one more is as in the polynomial.
LEMMA PolynomialSteps ==
  ASSUME NEW k \in Int
  PROVE  /\ Evaluated(<<>>, k) = 0
         /\ \A t \in Seq(Entries), x \in Entries :
              /\ Evaluated(t, k) \in 0 .. Prime - 1
              /\ Evaluated(Append(t, x), k) = WithBlock(Evaluated(t, k), x, k)
<1>1. Evaluated(<<>>, k) = 0
  <2>1. <<>> \in Seq(Entries) /\ 0 \in Nat /\ 0 = Len(<<>>)
    OBVIOUS
  <2>2. PICK f : Evaluates(f, <<>>, k, 0) /\ f[0] = Evaluated(<<>>, k)
    BY <2>1, EvaluatesSome
  <2> QED BY <2>2, Zenon DEF Evaluates
<1>2. ASSUME NEW t \in Seq(Entries), NEW x \in Entries
      PROVE  /\ Evaluated(t, k) \in 0 .. Prime - 1
             /\ Evaluated(Append(t, x), k) = WithBlock(Evaluated(t, k), x, k)
  <2>1. PICK n \in Nat, u \in Seq(Entries) :
          /\ n = Len(t) /\ u = Append(t, x) /\ Len(u) = n + 1 /\ u[n + 1] = x
          /\ \A i \in 1 .. n : u[i] = t[i]
    <3>1. /\ Len(t) \in Nat /\ Append(t, x) \in Seq(Entries) /\ Len(Append(t, x)) = Len(t) + 1
          /\ Append(t, x)[Len(t) + 1] = x
          /\ \A i \in 1 .. Len(t) : Append(t, x)[i] = t[i]
      OBVIOUS
    <3> QED BY <3>1, Zenon
  <2>2. PICK g : Evaluates(g, t, k, n) /\ g[n] = Evaluated(t, k)
    BY <2>1, EvaluatesSome
  <2>3. PICK f : Evaluates(f, u, k, n + 1) /\ f[n + 1] = Evaluated(u, k)
    <3>1. n + 1 \in Nat
      OBVIOUS
    <3> QED BY <2>1, <3>1, EvaluatesSome
  <2>4. /\ f[0] = 0 /\ \A i \in 1 .. n + 1 : f[i] = WithBlock(f[i - 1], u[i], k)
        /\ g \in [0 .. n -> 0 .. Prime - 1]
        /\ g[0] = 0 /\ \A i \in 1 .. n : g[i] = WithBlock(g[i - 1], t[i], k)
    BY <2>2, <2>3, Zenon DEF Evaluates
  <2> DEFINE Has == {i \in Nat : i <= n => f[i] = g[i]}
  <2>5. 0 \in Has
    BY <2>4
  <2>6. ASSUME NEW i \in Nat, i \in Has PROVE i + 1 \in Has
    <3> SUFFICES ASSUME i + 1 <= n PROVE f[i + 1] = g[i + 1]
      OBVIOUS
    <3>1. i + 1 \in 1 .. n /\ i + 1 \in 1 .. n + 1 /\ (i + 1) - 1 = i /\ f[i] = g[i]
      BY <2>6
    <3> QED BY <3>1, <2>1, <2>4, Zenon
  <2>7. n \in Has
    <3> HIDE DEF Has
    <3> QED BY <2>5, <2>6, SetInduction
  <2>8. f[n] = g[n] /\ g[n] \in 0 .. Prime - 1
    <3>1. n \in 0 .. n
      OBVIOUS
    <3> QED BY <2>4, <2>7, <3>1
  <2>9. f[n + 1] = WithBlock(f[n], x, k)
    <3>1. n + 1 \in 1 .. n + 1 /\ (n + 1) - 1 = n
      OBVIOUS
    <3> QED BY <3>1, <2>1, <2>4, Zenon
  <2> QED BY <2>1, <2>2, <2>3, <2>8, <2>9, Zenon
<1> QED BY <1>1, <1>2

(***************************************************************************)
(* Poly1305: the pad.                                                      *)
(***************************************************************************)

\* A natural number, its quotient and its remainder.
LEMMA NatDivision ==
  ASSUME NEW x \in Nat, NEW w \in Nat \ {0}
  PROVE  x \div w \in Nat /\ x % w \in 0 .. w - 1 /\ x = w * (x \div w) + (x % w)
<1>1. PICK q \in Nat, a \in 0 .. w - 1 : Splits(x, w, q, a) /\ x = w * q + a
  BY SplitsSomehow
<1>2. x \div w = q /\ x % w = a
  BY <1>1, SplitsOnce
<1> QED BY <1>1, <1>2

\* f is the sum of the last digits of x and y and a carry; p and q are the digits
\* before them.
LastDigits(w, x, y, c, p, q, f) ==
  /\ w \in Nat \ {0} /\ x \in Nat /\ y \in Nat /\ c \in Nat
  /\ p = x \div w /\ q = y \div w /\ f = (x % w) + (y % w) + c

\* The last digits of two numbers and a carry make the last digit of the sum, and
\* what they carry over goes to the sum of the rest.
LEMMA DigitsAdd ==
  ASSUME NEW w, NEW x, NEW y, NEW c, NEW p, NEW q, NEW f, LastDigits(w, x, y, c, p, q, f)
  PROVE  /\ f \in Nat
         /\ \E d \in Nat, m \in 0 .. w - 1 :
              d = f \div w /\ m = f % w /\ x + y + c = m + w * (p + q + d)
<1>0. /\ w \in Nat \ {0} /\ x \in Nat /\ y \in Nat /\ c \in Nat
      /\ p = x \div w /\ q = y \div w /\ f = (x % w) + (y % w) + c
  BY DEF LastDigits
<1>1. PICK a \in 0 .. w - 1 : a = x % w /\ x = w * p + a /\ p \in Nat
  BY <1>0, NatDivision
<1>2. PICK b \in 0 .. w - 1 : b = y % w /\ y = w * q + b /\ q \in Nat
  BY <1>0, NatDivision
<1>3. f \in Nat /\ f = a + b + c
  BY <1>0, <1>1, <1>2
<1>4. PICK d \in Nat, m \in 0 .. w - 1 : d = f \div w /\ m = f % w /\ f = w * d + m
  BY <1>0, <1>3, NatDivision
<1>5. PICK i \in Nat, j \in Nat : i = p /\ j = q
  BY <1>1, <1>2
<1>6. PICK g \in Nat, e \in Nat, k \in Nat, s \in Nat :
        g = w * i /\ e = w * j /\ k = w * d /\ s = w * (i + j + d) /\ s = g + e + k
  <2>1. w * (i + j + d) = w * i + w * j + w * d /\ w * i \in Nat /\ w * j \in Nat /\ w * d \in Nat
    BY <1>0
  <2> QED BY <2>1
<1>7. x = g + a /\ y = e + b /\ f = k + m
  BY <1>1, <1>2, <1>4, <1>5, <1>6
<1>8. x + y + c = m + s
  <2>1. w \in Nat /\ c \in Nat
    BY <1>0
  <2>2. (g + a) + (e + b) + c = m + (g + e + k)
    BY <1>3, <1>7, <2>1
  <2> QED BY <1>6, <1>7, <2>2
<1> QED BY <1>3, <1>4, <1>5, <1>6, <1>8

\* The quotient by w of a number below w * n is below n.
LEMMA QuotientBelow ==
  ASSUME NEW w \in Nat \ {0}, NEW x \in Nat, NEW n \in Nat, x < w * n
  PROVE  x \div w \in Nat /\ x \div w < n
<1>1. PICK p \in Nat, a \in 0 .. w - 1 : x \div w = p /\ x = w * p + a
  BY NatDivision
<1>2. p < n
  <2> SUFFICES ASSUME n <= p PROVE FALSE
    BY <1>1
  <2>1. w * n <= w * p
    OBVIOUS
  <2> QED BY <1>1, <2>1
<1> QED BY <1>1, <1>2

\* A number below n with a digit put after it is below w * n.
LEMMA DigitBelow ==
  ASSUME NEW w \in Nat \ {0}, NEW n \in Nat, NEW d \in 0 .. w - 1, NEW x \in 0 .. n - 1
  PROVE  d + w * x \in 0 .. w * n - 1
<1>1. w * x <= w * (n - 1) /\ w * (n - 1) = w * n - w /\ w * x \in Nat
  OBVIOUS
<1> QED BY <1>1

\* The four additions leave the sum of the tag and the pad, modulo 2^128.
LEMMA PadAdded ==
  ASSUME NEW n \in 0 .. MacMod - 1, NEW pad \in 0 .. MacMod - 1
  PROVE  AddPad(n, pad) = (n + pad) % MacMod
<1>1. PICK w \in Nat \ {0}, v \in Nat \ {0}, u \in Nat \ {0}, z \in Nat \ {0} :
        /\ w = PadWord /\ v = w * w /\ u = w * v /\ z = w * u /\ z = MacMod
  <2>1. PICK w \in Nat : w = PadWord /\ w * w * w * w = MacMod
    BY WordAssumption
  <2>2. w # 0
    <3> SUFFICES ASSUME w = 0 PROVE FALSE
      OBVIOUS
    <3>1. MacMod = 0
      BY <2>1
    <3> QED BY <3>1
  <2>3. w * w \in Nat \ {0}
    BY <2>2
  <2>4. PICK v \in Nat \ {0} : v = w * w
    BY <2>3
  <2>5. PICK u \in Nat \ {0} : u = w * v
    <3>1. w * v \in Nat \ {0}
      BY <2>2
    <3> QED BY <3>1
  <2>6. PICK z \in Nat \ {0} : z = w * u
    <3>1. w * u \in Nat \ {0}
      BY <2>2
    <3> QED BY <3>1
  <2>7. z = w * w * w * w
    BY <2>4, <2>5, <2>6
  <2> QED BY <2>1, <2>2, <2>4, <2>5, <2>6, <2>7
<1>2. n \in Nat /\ pad \in Nat /\ n < w * u /\ pad < w * u
  BY <1>1
<1>3. PICK n1 \in Nat, p1 \in Nat : /\ n1 = n \div w /\ p1 = pad \div w
                                    /\ n1 < w * v /\ p1 < w * v
  BY <1>1, <1>2, QuotientBelow
<1>4. PICK n2 \in Nat, p2 \in Nat : /\ n2 = n1 \div w /\ p2 = p1 \div w
                                    /\ n2 < w * w /\ p2 < w * w
  BY <1>1, <1>3, QuotientBelow
<1>5. PICK n3 \in Nat, p3 \in Nat : n3 = n2 \div w /\ p3 = p2 \div w /\ n3 < w /\ p3 < w
  BY <1>4, QuotientBelow
<1>6. PICK f0 \in Nat, c0 \in Nat, m0 \in 0 .. w - 1 :
        /\ f0 = (n % w) + (pad % w) /\ c0 = f0 \div w /\ m0 = f0 % w
        /\ n + pad = m0 + w * (n1 + p1 + c0)
  <2>1. PICK f0 : f0 = (n % w) + (pad % w)
    OBVIOUS
  <2>2. f0 = (n % w) + (pad % w) + 0 /\ 0 \in Nat
    BY <1>2, <2>1, NatDivision
  <2>3. LastDigits(w, n, pad, 0, n1, p1, f0)
    BY <1>2, <1>3, <2>2 DEF LastDigits
  <2>4. PICK d \in Nat, m \in 0 .. w - 1 :
          d = f0 \div w /\ m = f0 % w /\ n + pad + 0 = m + w * (n1 + p1 + d)
    BY <2>3, DigitsAdd
  <2>5. n + pad + 0 = n + pad /\ f0 \in Nat
    BY <1>2, <2>3, DigitsAdd
  <2> QED BY <2>1, <2>4, <2>5
<1>7. PICK f1 \in Nat, c1 \in Nat, m1 \in 0 .. w - 1 :
        /\ f1 = (n1 % w) + (p1 % w) + c0 /\ c1 = f1 \div w /\ m1 = f1 % w
        /\ n1 + p1 + c0 = m1 + w * (n2 + p2 + c1)
  <2>1. PICK f1 : f1 = (n1 % w) + (p1 % w) + c0
    OBVIOUS
  <2>2. LastDigits(w, n1, p1, c0, n2, p2, f1)
    BY <1>4, <2>1 DEF LastDigits
  <2> QED BY <2>1, <2>2, DigitsAdd
<1>8. PICK f2 \in Nat, c2 \in Nat, m2 \in 0 .. w - 1 :
        /\ f2 = (n2 % w) + (p2 % w) + c1 /\ c2 = f2 \div w /\ m2 = f2 % w
        /\ n2 + p2 + c1 = m2 + w * (n3 + p3 + c2)
  <2>1. PICK f2 : f2 = (n2 % w) + (p2 % w) + c1
    OBVIOUS
  <2>2. LastDigits(w, n2, p2, c1, n3, p3, f2)
    BY <1>5, <2>1 DEF LastDigits
  <2> QED BY <2>1, <2>2, DigitsAdd
<1>9. PICK f3 \in Nat, c3 \in Nat, m3 \in 0 .. w - 1 :
        /\ f3 = (n3 % w) + (p3 % w) + c2 /\ c3 = f3 \div w /\ m3 = f3 % w
        /\ n3 + p3 + c2 = m3 + w * c3
  <2>1. PICK o \in Nat : o = 0 /\ n3 \div w = o /\ p3 \div w = o
    <3>1. n3 \in 0 .. w - 1 /\ p3 \in 0 .. w - 1
      BY <1>5
    <3> QED BY <3>1, SmallRemainder
  <2>2. PICK f3 : f3 = (n3 % w) + (p3 % w) + c2
    OBVIOUS
  <2>3. LastDigits(w, n3, p3, c2, o, o, f3)
    BY <2>1, <2>2 DEF LastDigits
  <2>4. PICK d \in Nat, m \in 0 .. w - 1 :
          d = f3 \div w /\ m = f3 % w /\ n3 + p3 + c2 = m + w * (o + o + d)
    BY <2>3, DigitsAdd
  <2>5. o + o + d = d /\ f3 \in Nat
    BY <2>1, <2>3, DigitsAdd
  <2> QED BY <2>2, <2>4, <2>5
<1> DEFINE mac == m0 + w * (m1 + w * (m2 + w * m3))
<1>10. AddPad(n, pad) = mac
  <2>1. WordsOf(n) = <<n % w, n1 % w, n2 % w, n3 % w>>
    BY <1>1, <1>3, <1>4, <1>5 DEF WordsOf
  <2>2. WordsOf(pad) = <<pad % w, p1 % w, p2 % w, p3 % w>>
    BY <1>1, <1>3, <1>4, <1>5 DEF WordsOf
  <2>3. FromWords(<<m0, m1, m2, m3>>) = mac
    BY <1>1 DEF FromWords
  <2>4. /\ WordsOf(n)[1] = n % w /\ WordsOf(n)[2] = n1 % w
        /\ WordsOf(n)[3] = n2 % w /\ WordsOf(n)[4] = n3 % w
        /\ WordsOf(pad)[1] = pad % w /\ WordsOf(pad)[2] = p1 % w
        /\ WordsOf(pad)[3] = p2 % w /\ WordsOf(pad)[4] = p3 % w
    BY <2>1, <2>2
  <2>5. AddPad(n, pad) = FromWords(<<f0 % w, f1 % w, f2 % w, f3 % w>>)
    BY <1>1, <1>6, <1>7, <1>8, <1>9, <2>4, Zenon DEF AddPad
  <2> QED BY <1>6, <1>7, <1>8, <1>9, <2>3, <2>5, Zenon
<1>11. mac \in 0 .. z - 1
  <2>1. PICK x \in 0 .. v - 1 : x = m2 + w * m3
    BY <1>1, DigitBelow
  <2>2. PICK y \in 0 .. u - 1 : y = m1 + w * x
    BY <1>1, DigitBelow
  <2>3. m0 + w * y \in 0 .. z - 1
    BY <1>1, DigitBelow
  <2> QED BY <2>1, <2>2, <2>3
<1>12. n + pad = z * c3 + mac
  <2>1. PICK t3 \in Nat, t2 \in Nat, t1 \in Nat :
          t3 = n3 + p3 + c2 /\ t2 = n2 + p2 + c1 /\ t1 = n1 + p1 + c0
    OBVIOUS
  <2>2. t3 = m3 + w * c3 /\ t2 = m2 + w * t3 /\ t1 = m1 + w * t2 /\ n + pad = m0 + w * t1
    BY <1>6, <1>7, <1>8, <1>9, <2>1
  <2>3. PICK e1 \in Int, e2 \in Int, e3 \in Int, g2 \in Int, g1 \in Int :
          /\ e1 = w * c3 /\ e2 = w * e1 /\ e3 = w * e2
          /\ g2 = m2 + w * m3 /\ g1 = m1 + w * g2
    OBVIOUS
  <2>4. t2 = g2 + e2
    <3>1. w * (m3 + e1) = w * m3 + w * e1
      OBVIOUS
    <3> QED BY <2>2, <2>3, <3>1
  <2>5. t1 = g1 + e3
    <3>1. w * (g2 + e2) = w * g2 + w * e2
      OBVIOUS
    <3> QED BY <2>2, <2>3, <2>4, <3>1
  <2>6. n + pad = m0 + w * g1 + w * e3
    <3>1. w * (g1 + e3) = w * g1 + w * e3
      OBVIOUS
    <3> QED BY <2>2, <2>5, <3>1
  <2>7. w * e3 = z * c3
    <3>1. e2 = v * c3
      BY <1>1, <2>3
    <3>2. e3 = u * c3
      BY <1>1, <2>3, <3>1
    <3> QED BY <1>1, <3>2
  <2>8. mac = m0 + w * g1
    BY <2>3
  <2> HIDE DEF mac
  <2> QED BY <2>3, <2>6, <2>7, <2>8
<1>13. (n + pad) % z = mac
  <2>1. Splits(n + pad, z, c3, mac)
    BY <1>1, <1>2, <1>11, <1>12 DEF Splits
  <2> HIDE DEF mac
  <2> QED BY <2>1, SplitsOnce
<1> QED BY <1>1, <1>10, <1>13

\* There is a number of tags.
LEMMA MacModIsNat == MacMod \in Nat
<1>1. PICK w \in Nat : w * w * w * w = MacMod
  BY WordAssumption
<1>2. w * w * w * w \in Nat
  OBVIOUS
<1> QED BY <1>1, <1>2

\* A remainder can be taken before an addition or not.
LEMMA RemainderFirst ==
  ASSUME NEW x \in Int, NEW y \in Int, NEW m \in Nat \ {0}
  PROVE  ((x % m) + y) % m = (x + y) % m
<1>1. PICK q \in Int, a \in 0 .. m - 1 : q = x \div m /\ a = x % m /\ x = m * q + a
  BY Division
<1>2. Apart(a + y, x + y, m, q)
  BY <1>1 DEF Apart
<1> QED BY <1>1, <1>2, Congruent

(***************************************************************************)
(* Poly1305: keys and messages.                                            *)
(***************************************************************************)

\* The inductive invariant: between blocks the limbs are small and stand for the
\* polynomial.
PolyInv ==
  /\ r \in [Places -> 0 .. Base - 1]
  /\ added \in Seq(Entries)
  /\ LimbsOK(h)
  /\ Value(h) % Prime = Polynomial

\* The limbs of a key stand for a number.
LEMMA KeyIsInt ==
  ASSUME NEW a \in [Places -> 0 .. Base - 1]
  PROVE  Value(a) \in Int
<1>1. a \in [Places -> Int]
  BY PolyAssumption
<1> QED BY <1>1, ValueIsInt

\* No block has been added at the start, and the sum is nothing.
LEMMA PolyInitOK == PolyInit => PolyInv
<1> SUFFICES ASSUME PolyInit PROVE PolyInv
  OBVIOUS
<1>1. r = Split(0) /\ h = Split(0) /\ added = <<>>
  BY DEF PolyInit
<1>2. PICK b \in Nat, q \in Nat \ {0} : b = Base /\ b >= 32 /\ q = Prime /\ Power[Limbs] = q + 5
  BY PolyAssumption, PrimeFacts
<1>3. Split(0) \in [Places -> 0 .. b - 1] /\ Value(Split(0)) = 0
  <2>1. 0 \in Nat /\ 0 < Power[Limbs]
    BY <1>2
  <2> QED BY <1>2, <2>1, SplitValue
<1>4. LimbsOK(h)
  <2>1. h \in [Places -> Nat] /\ \A i \in Places : h[i] < (IF i = 1 THEN 2 * b - 1 ELSE b)
    BY <1>1, <1>2, <1>3
  <2> QED BY <1>2, <2>1 DEF LimbsOK
<1>5. Polynomial = 0
  <2>1. Value(r) \in Int
    BY <1>1, <1>2, <1>3, KeyIsInt
  <2> QED BY <1>1, <2>1, PolynomialSteps DEF Polynomial
<1>6. 0 % q = 0
  <2>1. Splits(0, q, 0, 0)
    BY DEF Splits
  <2> QED BY <2>1, SplitsOnce
<1>7. added \in Seq(Entries)
  BY <1>1
<1> QED BY <1>1, <1>2, <1>3, <1>4, <1>5, <1>6, <1>7 DEF PolyInv

\* A key is taken before the first block: the sum is nothing with any key.
LEMMA TakeKeyOK == PolyInv /\ TakeKey => PolyInv'
<1> SUFFICES ASSUME PolyInv, TakeKey PROVE PolyInv'
  OBVIOUS
<1>1. PICK n \in Multipliers : added = <<>> /\ r' = Split(n) /\ h' = h /\ added' = added
  BY DEF TakeKey
<1>2. /\ r \in [Places -> 0 .. Base - 1] /\ added \in Seq(Entries)
      /\ LimbsOK(h) /\ Value(h) % Prime = Polynomial
  BY DEF PolyInv
<1>3. r' \in [Places -> 0 .. Base - 1]
  <2>1. MacMod \in Nat /\ n \in 0 .. MacMod - 1
    BY PolyAssumption, BlockFits
  <2>2. n \in Nat
    BY <2>1
  <2> QED BY <1>1, <2>2, SplitValue
<1>4. Value(r) \in Int /\ Value(r') \in Int
  BY <1>2, <1>3, KeyIsInt
<1>5. Evaluated(added, Value(r)) = 0 /\ Evaluated(added', Value(r')) = 0
  BY <1>1, <1>4, PolynomialSteps
<1>6. Value(h') % Prime = Evaluated(added', Value(r'))
  BY <1>1, <1>2, <1>5, Zenon DEF Polynomial
<1>7. LimbsOK(h')
  BY <1>1, <1>2, Zenon
<1> QED BY <1>1, <1>2, <1>3, <1>6, <1>7, Zenon DEF PolyInv, Polynomial

\* A block keeps the limbs small and makes one step of the polynomial.
LEMMA BlocksOK == PolyInv /\ Blocks => PolyInv'
<1> SUFFICES ASSUME PolyInv, Blocks PROVE PolyInv'
  OBVIOUS
<1>1. PICK m \in Messages, b \in {0, 1} :
        h' = AddBlock(h, m, b) /\ added' = Append(added, [m |-> m, hibit |-> b]) /\ r' = r
  BY DEF Blocks
<1>2. /\ r \in [Places -> 0 .. Base - 1] /\ added \in Seq(Entries)
      /\ LimbsOK(h) /\ Value(h) % Prime = Polynomial
  BY DEF PolyInv
<1>3. m \in 0 .. MacMod - 1
  BY PolyAssumption
<1>4. PICK x \in Entries : x = [m |-> m, hibit |-> b]
  BY <1>3 DEF Entries
<1>5. x.m = m /\ x.hibit = b
  BY <1>4
<1>6. LimbsOK(h') /\ Value(h') % Prime = (((Value(h) % Prime) + m + b * MacMod) * Value(r)) % Prime
  BY <1>1, <1>2, <1>3, BlockAdded
<1>7. Value(r) \in Int
  BY <1>2, KeyIsInt
<1>8. Evaluated(added', Value(r)) = WithBlock(Evaluated(added, Value(r)), x, Value(r))
  <2>1. added' = Append(added, x)
    BY <1>1, <1>4
  <2> QED BY <1>2, <1>7, <2>1, PolynomialSteps
<1>9. Value(h') % Prime = Evaluated(added', Value(r))
  <2>1. Evaluated(added, Value(r)) = Value(h) % Prime
    BY <1>2, Zenon DEF Polynomial
  <2> QED BY <1>5, <1>6, <1>8, <2>1, Zenon DEF WithBlock
<1>10. added' \in Seq(Entries)
  BY <1>1, <1>2, <1>4
<1>11. Value(h') % Prime = Evaluated(added', Value(r'))
  BY <1>1, <1>9, Zenon
<1>12. r' \in [Places -> 0 .. Base - 1]
  BY <1>1, <1>2, Zenon
<1> QED BY <1>6, <1>10, <1>11, <1>12, Zenon DEF PolyInv, Polynomial

\* The invariant bounds the next product: the limbs of its sides are small.
LEMMA PolyInvGivesFit == PolyInv => ColumnsFit
<1> SUFFICES ASSUME PolyInv, NEW m \in Messages, NEW b \in {0, 1}, NEW i \in Places
             PROVE  Product(h, m, b)[i] <= (10 * Limbs - 3) * Base * Base
  BY DEF ColumnsFit
<1>1. LimbsOK(h) /\ r \in [Places -> 0 .. Base - 1] /\ m \in 0 .. MacMod - 1
  BY PolyAssumption DEF PolyInv
<1> QED BY <1>1, ProductFits

\* The invariant gives the property: the last carries change nothing the limbs stand for,
\* and the selection leaves what is below the prime.
LEMMA PolyInvGivesTag == PolyInv => TagExact
<1> SUFFICES ASSUME PolyInv PROVE TagExact
  OBVIOUS
<1>1. LimbsOK(h) /\ Value(h) % Prime = Polynomial
  BY DEF PolyInv
<1>2. LimbsStandForSum
  BY <1>1 DEF LimbsStandForSum, LimbsOK
<1>3. PICK a : a = FullCarry(h) /\ a \in [Places -> 0 .. Base - 1]
               /\ \E k \in Int : Value(a) = Value(h) - Prime * k
  BY <1>1, FullCarryBounds
<1>4. Value(a) % Prime = Value(h) % Prime
  <2>1. PICK q \in Nat \ {0}, v \in Int, w \in Int : q = Prime /\ v = Value(a) /\ w = Value(h)
    <3>1. h \in [Places -> Int]
      BY <1>1 DEF LimbsOK
    <3> QED BY <1>3, <3>1, KeyIsInt, ValueIsInt, PrimeFacts
  <2>2. PICK k \in Int : v = w - q * k
    BY <1>3, <2>1
  <2>3. Apart(v, w, q, k)
    BY <2>1, <2>2 DEF Apart
  <2> QED BY <2>1, <2>3, Congruent, Zenon
<1>5. /\ \A i \in Places : Selected(a)[i] \in 0 .. Base - 1
      /\ Value(Selected(a)) = Value(a) % Prime
  BY <1>3, TagValue
<1>6. ASSUME NEW pad \in Pads PROVE MacTag(h, pad) = (Polynomial + pad) % MacMod
  <2>1. Tag128(h) = Polynomial % MacMod
    BY <1>1, <1>3, <1>4, <1>5, Zenon DEF Tag128
  <2>2. PICK z \in Nat \ {0}, t \in Int : z = MacMod /\ t = Polynomial
    <3>1. MacMod \in Nat /\ pad \in 0 .. MacMod - 1
      <4>1. MacMod \in Nat
        BY MacModIsNat
      <4> QED BY <4>1, WordAssumption
    <3>2. Polynomial \in Int
      <4>1. PICK q \in Nat \ {0}, x \in Int : q = Prime /\ x = Value(h)
        <5>1. h \in [Places -> Int]
          BY <1>1 DEF LimbsOK
        <5> QED BY <5>1, ValueIsInt, PrimeFacts
      <4>2. x % q \in Int
        BY Division
      <4> QED BY <1>1, <4>1, <4>2
    <3> QED BY <3>1, <3>2
  <2>3. t % z \in 0 .. MacMod - 1 /\ pad \in 0 .. MacMod - 1 /\ pad \in Int
    BY <2>2, Division, WordAssumption
  <2>4. MacTag(h, pad) = ((t % z) + pad) % z
    BY <2>1, <2>2, <2>3, PadAdded DEF MacTag
  <2> QED BY <2>2, <2>3, <2>4, RemainderFirst
<1>7. ColumnsFit
  BY PolyInvGivesFit
<1> QED BY <1>2, <1>3, <1>5, <1>6, <1>7, Zenon DEF TagExact

\* Every step keeps the invariant.
LEMMA PolyStays == PolySpec => []PolyInv
<1>1. PolyInit => PolyInv
  BY PolyInitOK
<1>2. PolyInv /\ [PolyNext]_polyVars => PolyInv'
  <2> SUFFICES ASSUME PolyInv, [PolyNext]_polyVars PROVE PolyInv'
    OBVIOUS
  <2>1. CASE TakeKey
    BY <2>1, TakeKeyOK
  <2>2. CASE Blocks
    BY <2>2, BlocksOK
  <2>3. CASE UNCHANGED polyVars
    <3>1. r' = r /\ h' = h /\ added' = added
      BY <2>3 DEF polyVars
    <3> QED BY <3>1, Zenon DEF PolyInv, Polynomial
  <2> QED BY <2>1, <2>2, <2>3 DEF PolyNext
<1> QED BY <1>1, <1>2, PTL DEF PolySpec

\* Whatever the key and the message, the limbs between blocks stand for the polynomial
\* of the message, and poly1305_finish leaves its tag, with no limb over another.
THEOREM TagIsExact == PolySpec => []TagExact
<1>1. PolySpec => []PolyInv
  BY PolyStays
<1>2. PolyInv => TagExact
  BY PolyInvGivesTag
<1> QED BY <1>1, <1>2, PTL

\* Whatever the key and the message, the sums d0 to d4 of poly1305_blocks stay below what
\* 64 bits hold.
THEOREM ColumnsAlwaysFit == PolySpec => []ColumnsFit
<1>1. PolySpec => []PolyInv
  BY PolyStays
<1>2. PolyInv => ColumnsFit
  BY PolyInvGivesFit
<1> QED BY <1>1, <1>2, PTL
==============================================================================
