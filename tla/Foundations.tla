------------------------------ MODULE Foundations ------------------------------
(***************************************************************************)
(* What the proofs about pure code need of division, of induction and of   *)
(* FoldLeft, stated of sets and functions instead of operators.            *)
(***************************************************************************)
EXTENDS Integers, SequencesExt, SequenceTheorems, WellFoundedInduction, TLAPS

(***************************************************************************)
(* Division.                                                               *)
(***************************************************************************)

\* Quotient and remainder.
LEMMA Division ==
  ASSUME NEW x \in Int, NEW m \in Nat \ {0}
  PROVE  /\ x = m * (x \div m) + (x % m)
         /\ x \div m \in Int /\ x % m \in 0 .. m - 1
OBVIOUS

\* They are the only ones.
LEMMA OneDivision ==
  ASSUME NEW m \in Nat \ {0}, NEW q \in Int, NEW p \in Int,
         NEW r \in 0 .. m - 1, NEW s \in 0 .. m - 1, m * q + r = m * p + s
  PROVE  q = p /\ r = s
<1>1. CASE q < p
  <2>1. m * q + m <= m * p
    BY <1>1
  <2> QED BY <2>1
<1>2. CASE p < q
  <2>1. m * p + m <= m * q
    BY <1>2
  <2> QED BY <2>1
<1> QED BY <1>1, <1>2

\* x and y are k times m apart.
Apart(x, y, m, k) ==
  x \in Int /\ y \in Int /\ k \in Int /\ m \in Nat \ {0} /\ y = x + m * k

\* Numbers that differ by a multiple of the prime stand for the same.
LEMMA Congruent ==
  ASSUME NEW x, NEW y, NEW m, NEW k, Apart(x, y, m, k)
  PROVE  x % m = y % m
<1>0. x \in Int /\ y \in Int /\ k \in Int /\ m \in Nat \ {0} /\ y = x + m * k
  BY DEF Apart
<1>1. x = m * (x \div m) + (x % m) /\ y = m * (y \div m) + (y % m)
      /\ x \div m \in Int /\ y \div m \in Int /\ x % m \in 0 .. m - 1 /\ y % m \in 0 .. m - 1
  BY <1>0, Division
<1>2. PICK q \in Int, p \in Int, r \in 0 .. m - 1, s \in 0 .. m - 1 :
        q = x \div m /\ p = y \div m /\ r = x % m /\ s = y % m
  BY <1>1
<1>3. m * (q + k) + r = m * p + s
  <2>1. m * (q + k) = m * q + m * k
    BY <1>0
  <2>2. y = (m * q + r) + m * k /\ y = m * p + s
    BY <1>0, <1>1, <1>2
  <2> QED BY <1>0, <2>1, <2>2
<1>4. r = s
  <2>1. PICK n \in Int : n = q + k
    BY <1>0
  <2>2. m * n + r = m * p + s /\ m \in Nat \ {0}
    BY <1>0, <1>3, <2>1
  <2> QED BY <2>2, OneDivision
<1> QED BY <1>2, <1>4

\* The remainder of what is small enough already.
LEMMA SmallRemainder ==
  ASSUME NEW m \in Nat \ {0}, NEW x \in 0 .. m - 1
  PROVE  x % m = x /\ x \div m = 0
<1>1. x = m * (x \div m) + (x % m) /\ x \div m \in Int /\ x % m \in 0 .. m - 1
  BY Division
<1>2. PICK q \in Int, r \in 0 .. m - 1 : q = x \div m /\ r = x % m
  BY <1>1
<1>3. m * q + r = m * 0 + x
  BY <1>1, <1>2
<1>4. q = 0 /\ r = x
  BY <1>3, OneDivision
<1> QED BY <1>2, <1>4

\* x is q times m and r more.
Splits(x, m, q, r) ==
  x \in Int /\ m \in Nat \ {0} /\ q \in Int /\ r \in 0 .. m - 1 /\ x = m * q + r

\* A number splits in its quotient and its remainder, and in no other way.
LEMMA SplitsOnce ==
  ASSUME NEW x, NEW m, NEW q, NEW r, Splits(x, m, q, r)
  PROVE  x \div m = q /\ x % m = r
<1>1. x \in Int /\ m \in Nat \ {0} /\ q \in Int /\ r \in 0 .. m - 1 /\ x = m * q + r
  BY DEF Splits
<1>2. x = m * (x \div m) + (x % m) /\ x \div m \in Int /\ x % m \in 0 .. m - 1
  BY <1>1, Division
<1>3. PICK p \in Int, s \in 0 .. m - 1 : p = x \div m /\ s = x % m
  BY <1>2
<1>4. m * q + r = m * p + s
  BY <1>1, <1>2, <1>3
<1>5. q = p /\ r = s
  BY <1>1, <1>4, OneDivision
<1> QED BY <1>3, <1>5

\* A natural number's quotient is one too.
LEMMA SplitsSomehow ==
  ASSUME NEW x \in Nat, NEW m \in Nat \ {0}
  PROVE  \E q \in Nat, r \in 0 .. m - 1 : Splits(x, m, q, r) /\ x = m * q + r
<1>1. PICK q \in Int, r \in 0 .. m - 1 : x = m * q + r
  <2>1. x = m * (x \div m) + (x % m) /\ x \div m \in Int /\ x % m \in 0 .. m - 1
    BY Division
  <2> QED BY <2>1
<1>2. q >= 0
  <2> SUFFICES ASSUME q <= -1 PROVE FALSE
    OBVIOUS
  <2>1. m * q <= -m
    OBVIOUS
  <2> QED BY <2>1, <1>1
<1> QED BY <1>1, <1>2 DEF Splits

(***************************************************************************)
(* Induction.                                                              *)
(***************************************************************************)

\* A set that has 0 and, with a number, the next one, has all of them.
LEMMA SetInduction ==
  ASSUME NEW S, 0 \in S, \A n \in Nat : n \in S => n + 1 \in S
  PROVE  \A n \in Nat : n \in S
<1> DEFINE T == Nat \ S
           R == OpToRel(<, Nat)
<1> SUFFICES ASSUME T # {} PROVE FALSE
  OBVIOUS
<1>1. IsWellFoundedOn(R, Nat)
  BY NatLessThanWellFounded
<1>2. T \subseteq Nat
  OBVIOUS
<1>3. PICK x \in T : \A y \in T : ~(<<y, x>> \in R)
  <2> HIDE DEF T, R
  <2> QED BY <1>1, <1>2, WFMin
<1>4. x \in Nat /\ x # 0 /\ x - 1 \in Nat /\ x - 1 \notin S
  OBVIOUS
<1>5. <<x - 1, x>> \in R
  BY <1>4 DEF OpToRel
<1> QED BY <1>3, <1>4, <1>5

\* The greatest of finitely many indices.
LEMMA MaxOfIndices ==
  ASSUME NEW n \in Nat, NEW t \in SUBSET (1 .. n), t # {}
  PROVE  Max(t) \in t /\ \A j \in t : j <= Max(t)
<1> DEFINE Has == {k \in Nat : \A s \in SUBSET (1 .. k) :
                     s # {} => \E m \in s : \A j \in s : j <= m}
<1>1. 0 \in Has
  <2>1. 1 .. 0 = {} /\ \A s \in SUBSET {} : s = {}
    OBVIOUS
  <2> QED BY <2>1
<1>2. ASSUME NEW k \in Nat, k \in Has PROVE k + 1 \in Has
  <2> SUFFICES ASSUME NEW s \in SUBSET (1 .. k + 1), s # {}
               PROVE  \E m \in s : \A j \in s : j <= m
    OBVIOUS
  <2>1. CASE k + 1 \in s
    BY <2>1
  <2>2. CASE k + 1 \notin s
    <3>1. s \in SUBSET (1 .. k)
      BY <2>2
    <3> QED BY <3>1, <1>2
  <2> QED BY <2>1, <2>2
<1>3. n \in Has
  <2> HIDE DEF Has
  <2> QED BY <1>1, <1>2, SetInduction
<1>4. \E m \in t : \A j \in t : j <= m
  BY <1>3
<1>5. \E m \in t : \A j \in t : m >= j
  BY <1>4
<1>6. Max(t) \in t /\ \A j \in t : Max(t) >= j
  BY <1>5 DEF Max
<1> QED BY <1>6

\* it is a function that FoldLeft may choose to fold the steps G from base.
FoldTable(it, S, base, n, G) ==
  /\ it \in [SUBSET (1 .. n) -> S]
  /\ \A t \in SUBSET (1 .. n) : it[t] = IF t = {} THEN base ELSE G[Max(t)][it[t \ {Max(t)}]]

\* The function that FoldLeft chooses exists, when each step keeps the type.
LEMMA FoldExists ==
  ASSUME NEW S, NEW base \in S, NEW n \in Nat, NEW G \in [1 .. n -> [S -> S]]
  PROVE  \E it : FoldTable(it, S, base, n, G)
<1> DEFINE Good(it, k) == \A t \in SUBSET (1 .. k) :
                            it[t] = IF t = {} THEN base ELSE G[Max(t)][it[t \ {Max(t)}]]
           Has == {k \in Nat : k <= n => \E it \in [SUBSET (1 .. k) -> S] : Good(it, k)}
<1>1. 0 \in Has
  <2>1. 1 .. 0 = {} /\ SUBSET {} = {{}}
    OBVIOUS
  <2>2. [t \in {{}} |-> base] \in [SUBSET (1 .. 0) -> S]
    BY <2>1
  <2>3. Good([t \in {{}} |-> base], 0)
    BY <2>1
  <2> QED BY <2>2, <2>3
<1>2. ASSUME NEW k \in Nat, k \in Has PROVE k + 1 \in Has
  <2> SUFFICES ASSUME k + 1 <= n PROVE \E it \in [SUBSET (1 .. k + 1) -> S] : Good(it, k + 1)
    <3>1. k + 1 \in Nat
      OBVIOUS
    <3> HIDE DEF Good
    <3> QED BY <3>1, Zenon
  <2>1. PICK f \in [SUBSET (1 .. k) -> S] : Good(f, k)
    <3>1. k <= n
      OBVIOUS
    <3> HIDE DEF Good
    <3> QED BY <1>2, <3>1
  <2> DEFINE it == [t \in SUBSET (1 .. k + 1) |->
                      IF k + 1 \in t THEN G[k + 1][f[t \ {k + 1}]] ELSE f[t]]
  <2>2. ASSUME NEW t \in SUBSET (1 .. k + 1)
        PROVE  (IF k + 1 \in t THEN t \ {k + 1} ELSE t) \in SUBSET (1 .. k)
    OBVIOUS
  <2>3. k + 1 \in 1 .. n /\ G[k + 1] \in [S -> S]
    OBVIOUS
  <2>4. it \in [SUBSET (1 .. k + 1) -> S]
    BY <2>2, <2>3
  <2>5. ASSUME NEW t \in SUBSET (1 .. k + 1)
        PROVE  it[t] = IF t = {} THEN base ELSE G[Max(t)][it[t \ {Max(t)}]]
    <3>1. CASE t = {}
      <4>1. t \in SUBSET (1 .. k) /\ k + 1 \notin t
        BY <3>1
      <4>2. it[t] = f[t] /\ f[t] = base
        BY <4>1, <3>1, <2>1
      <4> QED BY <4>2, <3>1
    <3>2. CASE t # {} /\ k + 1 \in t
      <4>0. k + 1 \in Nat
        OBVIOUS
      <4>1. Max(t) \in t /\ \A j \in t : j <= Max(t)
        BY <4>0, <3>2, MaxOfIndices, Zenon
      <4>2. Max(t) = k + 1
        <5>1. Max(t) \in 1 .. k + 1 /\ k + 1 <= Max(t)
          BY <4>1, <3>2
        <5> QED BY <5>1
      <4>3. it[t] = G[k + 1][f[t \ {k + 1}]]
        BY <3>2
      <4>4. t \ {k + 1} \in SUBSET (1 .. k + 1) /\ k + 1 \notin t \ {k + 1}
        OBVIOUS
      <4>5. it[t \ {k + 1}] = f[t \ {k + 1}]
        BY <4>4
      <4> QED BY <4>2, <4>3, <4>5, <3>2
    <3>3. CASE t # {} /\ k + 1 \notin t
      <4>1. t \in SUBSET (1 .. k)
        BY <3>3
      <4>2. Max(t) \in t
        BY <3>3, <4>1, MaxOfIndices
      <4>3. t \ {Max(t)} \in SUBSET (1 .. k) /\ k + 1 \notin t \ {Max(t)}
        BY <4>1, <3>3
      <4>4. it[t] = f[t] /\ it[t \ {Max(t)}] = f[t \ {Max(t)}]
        BY <4>1, <4>3, <3>3
      <4>5. f[t] = G[Max(t)][f[t \ {Max(t)}]]
        BY <2>1, <4>1, <3>3
      <4> QED BY <4>4, <4>5, <3>3
    <3> QED BY <3>1, <3>2, <3>3
  <2>6. Good(it, k + 1)
    BY <2>5
  <2> QED BY <2>4, <2>6
<1>3. n \in Has
  <2> HIDE DEF Has
  <2> QED BY <1>1, <1>2, SetInduction
<1>4. \E it \in [SUBSET (1 .. n) -> S] : Good(it, n)
  <2>1. n <= n
    OBVIOUS
  <2> HIDE DEF Good
  <2> QED BY <1>3, <2>1, Zenon
<1> QED BY <1>4, Zenon DEF FoldTable

\* it folds the steps G, which keep the type S, from base.
FoldsBy(it, S, base, n, G) ==
  /\ base \in S /\ n \in Nat /\ G \in [1 .. n -> [S -> S]]
  /\ it[{}] = base
  /\ \A t \in SUBSET (1 .. n) : t # {} /\ it[t \ {Max(t)}] \in S =>
       it[t] = G[Max(t)][it[t \ {Max(t)}]]

\* f is the states that the steps G of it pass.
FoldRun(f, it, S, base, n, G) ==
  /\ f \in [0 .. n -> S]
  /\ f[0] = base
  /\ \A k \in 1 .. n : f[k] = G[k][f[k - 1]]
  /\ f[n] = it[1 .. n]

\* What it is on the first k indices is the result of the first k steps.
LEMMA FoldRuns ==
  ASSUME NEW S, NEW base, NEW n, NEW G, NEW it, FoldsBy(it, S, base, n, G)
  PROVE  \E f : FoldRun(f, it, S, base, n, G)
<1>0. /\ base \in S /\ n \in Nat /\ G \in [1 .. n -> [S -> S]]
      /\ it[{}] = base
      /\ \A t \in SUBSET (1 .. n) : t # {} /\ it[t \ {Max(t)}] \in S =>
           it[t] = G[Max(t)][it[t \ {Max(t)}]]
  BY DEF FoldsBy
<1> DEFINE Typed == {k \in Nat : k <= n => it[1 .. k] \in S}
<1>1. 1 .. 0 = {}
  OBVIOUS
<1>2. ASSUME NEW k \in 1 .. n
      PROVE  /\ 1 .. k \in SUBSET (1 .. n) /\ 1 .. k # {}
             /\ Max(1 .. k) = k /\ (1 .. k) \ {k} = 1 .. k - 1
  <2>1. 1 .. k \in SUBSET (1 .. n) /\ k \in 1 .. k /\ k \in Nat
    BY <1>0
  <2>2. Max(1 .. k) \in 1 .. k /\ k <= Max(1 .. k)
    BY <2>1, MaxOfIndices
  <2>3. Max(1 .. k) = k
    BY <2>1, <2>2
  <2>4. (1 .. k) \ {k} = 1 .. k - 1
    BY <2>1
  <2> QED BY <2>1, <2>3, <2>4
<1>3. ASSUME NEW k \in 1 .. n, it[1 .. k - 1] \in S
      PROVE  it[1 .. k] = G[k][it[1 .. k - 1]] /\ it[1 .. k] \in S
  <2>1. it[1 .. k] = G[k][it[1 .. k - 1]]
    BY <1>0, <1>2, <1>3
  <2>2. G[k] \in [S -> S]
    BY <1>0
  <2> QED BY <2>1, <2>2, <1>3
<1>4. 0 \in Typed
  BY <1>0, <1>1
<1>5. ASSUME NEW k \in Nat, k \in Typed PROVE k + 1 \in Typed
  <2> SUFFICES ASSUME k + 1 <= n PROVE it[1 .. k + 1] \in S
    OBVIOUS
  <2>1. k + 1 \in 1 .. n /\ (k + 1) - 1 = k /\ it[1 .. k] \in S
    BY <1>0, <1>5
  <2> QED BY <2>1, <1>3
<1>6. \A k \in Nat : k \in Typed
  <2> HIDE DEF Typed
  <2> QED BY <1>4, <1>5, SetInduction
<1> DEFINE f == [k \in 0 .. n |-> it[1 .. k]]
<1>7. f \in [0 .. n -> S]
  BY <1>0, <1>6
<1>8. f[0] = base /\ f[n] = it[1 .. n]
  BY <1>0, <1>1
<1>9. ASSUME NEW k \in 1 .. n PROVE f[k] = G[k][f[k - 1]]
  <2>1. k - 1 \in 0 .. n /\ k \in 0 .. n
    BY <1>0
  <2>2. it[1 .. k - 1] \in S
    BY <2>1, <1>0, <1>6
  <2> QED BY <2>1, <2>2, <1>3
<1> HIDE DEF f
<1>10. FoldRun(f, it, S, base, n, G)
  BY <1>7, <1>8, <1>9, Zenon DEF FoldRun
<1> QED BY <1>10, Zenon
==============================================================================
