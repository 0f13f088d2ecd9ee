----------------------------- MODULE Keys_proofs -----------------------------
(***************************************************************************)
(* Proofs about the keys: their text form, for every text and every length *)
(* of a key that is two more than a multiple of three, as 32 is; and the   *)
(* field arithmetic of X25519, for every size that leaves the room it      *)
(* needs: that of the code, 2^255 - 19 in words of 32 bits, is one.        *)
(***************************************************************************)
EXTENDS Base64, X25519, Foundations

(***************************************************************************)
(* A character of wireguard_base64_decode.                                 *)
(***************************************************************************)

\* The states of its loop.
WgStates ==
  [accum : Int, count : Int, expect : {k \in Int : k <= 3}, out : Seq(Int), failed : BOOLEAN]

\* What the next character makes of expect and accum.
NextExpect(d, c) == IF c = Pad THEN d.expect - 1 ELSE d.expect
NextAccum(d, c)  == d.accum * 64 + (IF c = Pad THEN 0 ELSE c)

\* The character is out of place.
Wrong(d, c) == c = Bad \/ NextExpect(d, c) < 0 \/ (c # Pad /\ d.expect # 3)

\* A state's parts.
LEMMA WgParts ==
  ASSUME NEW d \in WgStates
  PROVE  /\ d.accum \in Int /\ d.count \in Int /\ d.expect \in Int /\ d.expect <= 3
         /\ d.out \in Seq(Int) /\ d.failed \in BOOLEAN
<1>1. PICK E, O : E = {k \in Int : k <= 3} /\ O = Seq(Int)
  OBVIOUS
<1>2. d \in [accum : Int, count : Int, expect : E, out : O, failed : BOOLEAN]
  BY <1>1 DEF WgStates
<1>3. d.accum \in Int /\ d.count \in Int /\ d.expect \in E /\ d.out \in O /\ d.failed \in BOOLEAN
  BY <1>2
<1> QED BY <1>1, <1>3

\* d with other parts.
WgWith(y, a, n, e, o, f) ==
  y \in WgStates /\ y.accum = a /\ y.count = n /\ y.expect = e /\ y.out = o /\ y.failed = f

\* y is a record of those parts.
WgRecord(y, a, n, e, o, f) ==
  /\ y = [i \in {"accum", "count", "expect", "out", "failed"} |-> y[i]]
  /\ y.accum = a /\ y.count = n /\ y.expect = e /\ y.out = o /\ y.failed = f
  /\ a \in Int /\ n \in Int /\ e \in Int /\ e <= 3 /\ o \in Seq(Int) /\ f \in BOOLEAN

\* Such a record is a state.
LEMMA WgRecords ==
  ASSUME NEW y, NEW a, NEW n, NEW e, NEW o, NEW f, WgRecord(y, a, n, e, o, f)
  PROVE  WgWith(y, a, n, e, o, f)
<1>1. PICK E, O : E = {k \in Int : k <= 3} /\ O = Seq(Int)
  OBVIOUS
<1>2. /\ y = [i \in {"accum", "count", "expect", "out", "failed"} |-> y[i]]
      /\ y.accum = a /\ y.count = n /\ y.expect = e /\ y.out = o /\ y.failed = f
      /\ a \in Int /\ n \in Int /\ e \in E /\ o \in O /\ f \in BOOLEAN
  BY <1>1 DEF WgRecord
<1>3. PICK z : z = [accum |-> a, count |-> n, expect |-> e, out |-> o, failed |-> f]
  OBVIOUS
<1>4. /\ z = [i \in {"accum", "count", "expect", "out", "failed"} |-> z[i]]
      /\ z.accum = a /\ z.count = n /\ z.expect = e /\ z.out = o /\ z.failed = f
  BY <1>3
<1>5. \A i \in {"accum", "count", "expect", "out", "failed"} : y[i] = z[i]
  BY <1>2, <1>4
<1>6. y = z
  BY <1>2, <1>4, <1>5
<1>7. y \in [accum : Int, count : Int, expect : E, out : O, failed : BOOLEAN]
  BY <1>2, <1>3, <1>6
<1>8. y \in WgStates
  BY <1>1, <1>7 DEF WgStates
<1> QED BY <1>2, <1>8, Zenon DEF WgWith

\* It stops at a character out of place, or after an earlier one.
LEMMA WgStops ==
  ASSUME NEW d \in WgStates, NEW c, NEW capacity, d.failed \/ Wrong(d, c)
  PROVE  WgWith(DecodeChar(d, c, capacity), d.accum, d.count, d.expect, d.out, TRUE)
<1>1. PICK y : y = [d EXCEPT !.failed = TRUE]
  OBVIOUS
<1>2. DecodeChar(d, c, capacity) = y
  BY <1>1, Zenon DEF DecodeChar, Wrong, NextExpect
<1>3. PICK E, O : E = {k \in Int : k <= 3} /\ O = Seq(Int)
  OBVIOUS
<1>4. d \in [accum : Int, count : Int, expect : E, out : O, failed : BOOLEAN]
  BY <1>3 DEF WgStates
<1>5. /\ y \in [accum : Int, count : Int, expect : E, out : O, failed : BOOLEAN]
      /\ y.accum = d.accum /\ y.count = d.count /\ y.expect = d.expect /\ y.out = d.out /\ y.failed = TRUE
  BY <1>1, <1>4
<1>6. y \in WgStates
  BY <1>3, <1>5 DEF WgStates
<1> QED BY <1>2, <1>5, <1>6, Zenon DEF WgWith

\* A character within a block.
LEMMA WgShort ==
  ASSUME NEW d \in WgStates, NEW c \in Int, NEW capacity, ~d.failed, ~Wrong(d, c), d.count < 3
  PROVE  WgWith(DecodeChar(d, c, capacity), NextAccum(d, c), d.count + 1, NextExpect(d, c), d.out, FALSE)
<1>1. PICK y, a, e : /\ a = NextAccum(d, c) /\ e = NextExpect(d, c)
                     /\ y = [d EXCEPT !.expect = e, !.accum = a, !.count = @ + 1]
  OBVIOUS
<1>2. DecodeChar(d, c, capacity) = y
  BY <1>1, Zenon DEF DecodeChar, Wrong, NextExpect, NextAccum
<1>3. PICK E, O : E = {k \in Int : k <= 3} /\ O = Seq(Int)
  OBVIOUS
<1>4. d \in [accum : Int, count : Int, expect : E, out : O, failed : BOOLEAN] /\ d.failed = FALSE
  BY <1>3, WgParts DEF WgStates
<1>5. e \in E /\ a \in Int
  BY <1>1, <1>3, WgParts DEF NextExpect, NextAccum
<1>6. /\ y = [i \in {"accum", "count", "expect", "out", "failed"} |-> y[i]]
      /\ y.accum = a /\ y.count = d.count + 1 /\ y.expect = e /\ y.out = d.out /\ y.failed = FALSE
  BY <1>1, <1>4
<1>7. e <= 3 /\ e \in Int /\ d.count + 1 \in Int /\ d.out \in Seq(Int) /\ FALSE \in BOOLEAN
  BY <1>3, <1>5, WgParts
<1>8. WgRecord(y, a, d.count + 1, e, d.out, FALSE)
  BY <1>5, <1>6, <1>7, Zenon DEF WgRecord
<1>9. WgWith(y, a, d.count + 1, e, d.out, FALSE)
  BY <1>8, WgRecords, Zenon
<1> QED BY <1>1, <1>2, <1>9, Zenon

\* The last one of a block that does not fit the buffer.
LEMMA WgOverflows ==
  ASSUME NEW d \in WgStates, NEW c, NEW capacity, ~d.failed, ~Wrong(d, c), ~(d.count < 3),
         Len(d.out) + NextExpect(d, c) > capacity
  PROVE  WgWith(DecodeChar(d, c, capacity), d.accum, d.count, d.expect, d.out, TRUE)
<1>1. PICK y : y = [d EXCEPT !.failed = TRUE]
  OBVIOUS
<1>2. DecodeChar(d, c, capacity) = y
  BY <1>1, Zenon DEF DecodeChar, Wrong, NextExpect
<1>3. PICK E, O : E = {k \in Int : k <= 3} /\ O = Seq(Int)
  OBVIOUS
<1>4. d \in [accum : Int, count : Int, expect : E, out : O, failed : BOOLEAN]
  BY <1>3 DEF WgStates
<1>5. /\ y \in [accum : Int, count : Int, expect : E, out : O, failed : BOOLEAN]
      /\ y.accum = d.accum /\ y.count = d.count /\ y.expect = d.expect /\ y.out = d.out /\ y.failed = TRUE
  BY <1>1, <1>4
<1>6. y \in WgStates
  BY <1>3, <1>5 DEF WgStates
<1> QED BY <1>2, <1>5, <1>6, Zenon DEF WgWith

\* b is the upper bytes of a, as many as are due but at least one.
UpperBytes(b, a, e) ==
  /\ b \in Seq(Int) /\ Len(b) = (IF e < 1 THEN 1 ELSE e)
  /\ b[1] = a \div 65536
  /\ e >= 2 => b[2] = (a \div 256) % 256
  /\ e = 3 => b[3] = a % 256

\* The bytes of a block.
LEMMA BlockBytesAre ==
  ASSUME NEW a \in Int, NEW e \in Int, e <= 3
  PROVE  UpperBytes(BlockBytes(a, e), a, e)
<1>1. PICK x, y, z, n : x = a \div 65536 /\ y = (a \div 256) % 256 /\ z = a % 256 /\ n = IF e < 1 THEN 1 ELSE e
  OBVIOUS
<1>2. x \in Int /\ y \in Int /\ z \in Int /\ n \in 1 .. 3
  BY <1>1
<1>3. BlockBytes(a, e) = SubSeq(<<x, y, z>>, 1, n)
  <2>1. BlockBytes(a, e) = SubSeq(<<a \div 65536, (a \div 256) % 256, a % 256>>, 1, IF e < 1 THEN 1 ELSE e)
    BY DEF BlockBytes
  <2>2. <<x, y, z>> = <<a \div 65536, (a \div 256) % 256, a % 256>>
    BY <1>1
  <2>3. BlockBytes(a, e) = SubSeq(<<x, y, z>>, 1, IF e < 1 THEN 1 ELSE e)
    BY <1>1, <2>1
  <2>4. CASE e < 1
    BY <1>1, <2>3, <2>4
  <2>5. CASE ~(e < 1)
    BY <1>1, <2>3, <2>5
  <2> QED BY <2>4, <2>5
<1>4. PICK w : w = SubSeq(<<x, y, z>>, 1, n)
  OBVIOUS
<1>5. w \in Seq(Int) /\ Len(w) = n /\ w[1] = x /\ (n >= 2 => w[2] = y) /\ (n = 3 => w[3] = z)
  BY <1>2, <1>4
<1> QED BY <1>1, <1>3, <1>4, <1>5 DEF UpperBytes

\* The last one of a block that does.
LEMMA WgBlock ==
  ASSUME NEW d \in WgStates, NEW c \in Int, NEW capacity, ~d.failed, ~Wrong(d, c), ~(d.count < 3),
         ~(Len(d.out) + NextExpect(d, c) > capacity)
  PROVE  WgWith(DecodeChar(d, c, capacity), 0, 0, NextExpect(d, c),
                d.out \o BlockBytes(NextAccum(d, c), NextExpect(d, c)), FALSE)
<1>1. PICK y, a, e, b : /\ a = NextAccum(d, c) /\ e = NextExpect(d, c) /\ b = BlockBytes(a, e)
                        /\ y = [d EXCEPT !.expect = e, !.out = @ \o b, !.count = 0, !.accum = 0]
  OBVIOUS
<1>2. DecodeChar(d, c, capacity) = y
  BY <1>1, Zenon DEF DecodeChar, Wrong, NextExpect, NextAccum
<1>3. PICK E, O : E = {k \in Int : k <= 3} /\ O = Seq(Int)
  OBVIOUS
<1>4. d \in [accum : Int, count : Int, expect : E, out : O, failed : BOOLEAN] /\ d.failed = FALSE
  BY <1>3, WgParts DEF WgStates
<1>5. e \in E /\ a \in Int
  BY <1>1, <1>3, WgParts DEF NextExpect, NextAccum
<1>6. PICK o : o = d.out \o b
  OBVIOUS
<1>7. o \in O
  <2>1. b \in Seq(Int)
    <3>1. e \in Int /\ e <= 3
      BY <1>3, <1>5
    <3>2. UpperBytes(b, a, e)
      BY <1>1, <1>5, <3>1, BlockBytesAre, Zenon
    <3> QED BY <3>2 DEF UpperBytes
  <2>2. d.out \in Seq(Int)
    BY WgParts, Zenon
  <2> QED BY <1>3, <1>6, <2>1, <2>2, ConcatProperties, Zenon
<1>8. y = [d EXCEPT !.expect = e, !.out = o, !.count = 0, !.accum = 0]
  BY <1>1, <1>6, Zenon
<1>9. /\ y = [i \in {"accum", "count", "expect", "out", "failed"} |-> y[i]]
      /\ y.accum = 0 /\ y.count = 0 /\ y.expect = e /\ y.out = o /\ y.failed = FALSE
  BY <1>4, <1>8
<1>10. e <= 3 /\ e \in Int /\ 0 \in Int /\ o \in Seq(Int) /\ FALSE \in BOOLEAN
  BY <1>3, <1>5, <1>7
<1>11. WgRecord(y, 0, 0, e, o, FALSE)
  BY <1>9, <1>10, Zenon DEF WgRecord
<1>12. WgWith(y, 0, 0, e, o, FALSE)
  BY <1>11, WgRecords, Zenon
<1> QED BY <1>1, <1>2, <1>6, <1>12, Zenon

\* So does every character keep the type.
LEMMA WgTyped ==
  ASSUME NEW d \in WgStates, NEW c \in Int, NEW capacity
  PROVE  DecodeChar(d, c, capacity) \in WgStates
BY WgStops, WgShort, WgOverflows, WgBlock, Zenon DEF WgWith

(***************************************************************************)
(* The loop of wireguard_base64_decode.                                    *)
(***************************************************************************)

WgStart == [accum |-> 0, count |-> 0, expect |-> 3, out |-> <<>>, failed |-> FALSE]

\* It starts with nothing read.
LEMMA WgStarts ==
  WgStart \in WgStates
<1>1. PICK y, a, n, e, o, f : /\ a = 0 /\ n = 0 /\ e = 3 /\ o = <<>> /\ f = FALSE
                              /\ y = [accum |-> a, count |-> n, expect |-> e, out |-> o, failed |-> f]
  OBVIOUS
<1>2. /\ y = [i \in {"accum", "count", "expect", "out", "failed"} |-> y[i]]
      /\ y.accum = a /\ y.count = n /\ y.expect = e /\ y.out = o /\ y.failed = f
  BY <1>1
<1>3. a \in Int /\ n \in Int /\ e \in Int /\ e <= 3 /\ o \in Seq(Int) /\ f \in BOOLEAN
  <2>1. <<>> \in Seq(Int) /\ FALSE \in BOOLEAN
    OBVIOUS
  <2>2. o \in Seq(Int) /\ f \in BOOLEAN
    BY <1>1, <2>1, Zenon
  <2> QED BY <1>1, <2>2
<1>4. WgWith(y, a, n, e, o, f)
  BY <1>2, <1>3, WgRecords, Zenon DEF WgRecord
<1> QED BY <1>1, <1>4, Zenon DEF WgStart, WgWith

\* f is the states it passes on the n characters of t.
WgRun(f, t, capacity, n) ==
  /\ f \in [0 .. n -> WgStates]
  /\ f[0] = WgStart
  /\ \A i \in 1 .. n : f[i] = DecodeChar(f[i - 1], t[i], capacity)
  /\ f[n] = FoldLeft(LAMBDA s, c : DecodeChar(s, c, capacity), WgStart, t)

\* It does pass some.
LEMMA WgRuns ==
  ASSUME NEW t \in Seq(Int), NEW capacity, NEW n \in Nat, n = Len(t)
  PROVE  \E f : WgRun(f, t, capacity, n)
<1>1. PICK S, x : S = WgStates /\ x = WgStart
  OBVIOUS
<1>2. DOMAIN t = 1 .. n /\ \A i \in 1 .. n : t[i] \in Int
  BY LenProperties, ElementOfSeq
<1>3. PICK G : G = [i \in 1 .. n |-> [y \in S |-> DecodeChar(y, t[i], capacity)]]
  OBVIOUS
<1>4. \A i \in 1 .. n : \A y \in S : G[i][y] = DecodeChar(y, t[i], capacity)
  BY <1>3, Zenon
<1>5. G \in [1 .. n -> [S -> S]]
  <2>1. \A i \in 1 .. n : \A y \in S : DecodeChar(y, t[i], capacity) \in S
    BY <1>1, <1>2, WgTyped, Zenon
  <2> QED BY <1>3, <2>1, Zenon
<1> DEFINE Runs(it) == it = [r \in SUBSET (DOMAIN t) |->
                               IF r = {} THEN x ELSE DecodeChar(it[r \ {Max(r)}], t[Max(r)], capacity)]
<1>x. x \in S
  BY <1>1, WgStarts, Zenon
<1>e. PICK j : FoldTable(j, S, x, n, G)
  BY <1>x, <1>5, FoldExists, Zenon
<1>6. /\ j \in [SUBSET (1 .. n) -> S]
      /\ \A r \in SUBSET (1 .. n) : j[r] = IF r = {} THEN x ELSE G[Max(r)][j[r \ {Max(r)}]]
  BY <1>e, Zenon DEF FoldTable
<1>7. ASSUME NEW r \in SUBSET (1 .. n), r # {} PROVE Max(r) \in 1 .. n /\ r \ {Max(r)} \in SUBSET (1 .. n)
  BY <1>7, MaxOfIndices
<1>8. Runs(j)
  <2>1. ASSUME NEW r \in SUBSET (1 .. n)
        PROVE  j[r] = IF r = {} THEN x ELSE DecodeChar(j[r \ {Max(r)}], t[Max(r)], capacity)
    <3>1. CASE r = {}
      BY <1>6, <3>1, Zenon
    <3>2. CASE r # {}
      <4>1. j[r \ {Max(r)}] \in S
        BY <1>6, <1>7, <3>2, Zenon
      <4> QED BY <1>4, <1>6, <1>7, <3>2, <4>1, Zenon
    <3> QED BY <3>1, <3>2, Zenon
  <2>2. j = [r \in SUBSET (1 .. n) |-> j[r]]
    BY <1>6, Zenon
  <2> QED BY <1>2, <2>1, <2>2, Zenon
<1>9. PICK it : Runs(it) /\ FoldLeft(LAMBDA s, c : DecodeChar(s, c, capacity), WgStart, t) = it[DOMAIN t]
  <2>1. FoldLeft(LAMBDA s, c : DecodeChar(s, c, capacity), WgStart, t) = (CHOOSE it : Runs(it))[DOMAIN t]
    BY <1>1, Zenon DEF FoldLeft, MapThenFoldSet
  <2>2. Runs(CHOOSE it : Runs(it))
    BY <1>8, Zenon
  <2> QED BY <2>1, <2>2, Zenon
<1>10. it[{}] = x
  BY <1>9, Zenon
<1>11. \A r \in SUBSET (1 .. n) : r # {} /\ it[r \ {Max(r)}] \in S => it[r] = G[Max(r)][it[r \ {Max(r)}]]
  <2> SUFFICES ASSUME NEW r \in SUBSET (1 .. n), r # {}, it[r \ {Max(r)}] \in S
               PROVE  it[r] = G[Max(r)][it[r \ {Max(r)}]]
    BY Zenon
  <2>1. it[r] = DecodeChar(it[r \ {Max(r)}], t[Max(r)], capacity)
    <3>1. it = [s \in SUBSET (DOMAIN t) |-> IF s = {} THEN x ELSE DecodeChar(it[s \ {Max(s)}], t[Max(s)], capacity)]
      BY <1>9, Zenon
    <3>2. r \in SUBSET (DOMAIN t)
      BY <1>2, Zenon
    <3> QED BY <3>1, <3>2, Zenon
  <2>2. Max(r) \in 1 .. n
    BY <1>7, Zenon
  <2> QED BY <1>4, <2>1, <2>2, Zenon
<1>12. PICK f : FoldRun(f, it, S, x, n, G)
  <2>1. FoldsBy(it, S, x, n, G)
    BY <1>x, <1>5, <1>10, <1>11, Zenon DEF FoldsBy
  <2> QED BY <2>1, FoldRuns, Zenon
<1>13. /\ f \in [0 .. n -> S]
       /\ f[0] = x
       /\ \A i \in 1 .. n : f[i] = G[i][f[i - 1]]
       /\ f[n] = it[1 .. n]
  BY <1>12, Zenon DEF FoldRun
<1>14. \A i \in 1 .. n : f[i] = DecodeChar(f[i - 1], t[i], capacity)
  <2> SUFFICES ASSUME NEW i \in 1 .. n PROVE f[i] = DecodeChar(f[i - 1], t[i], capacity)
    OBVIOUS
  <2>1. i - 1 \in 0 .. n
    OBVIOUS
  <2> QED BY <2>1, <1>4, <1>13, Zenon
<1>15. f[n] = FoldLeft(LAMBDA s, c : DecodeChar(s, c, capacity), WgStart, t)
  BY <1>2, <1>9, <1>13, Zenon
<1> QED BY <1>1, <1>13, <1>14, <1>15, Zenon DEF WgRun

(***************************************************************************)
(* A character of Base64Decode.                                            *)
(***************************************************************************)

\* The states of its loop.
UtStates ==
  [val : Int, valb : -8 .. -1, out : Seq(Int), done : BOOLEAN, failed : BOOLEAN]

\* What the next character makes of val.
NextVal(d, c) == (d.val * 64 + c) % 16384

\* A state's parts.
LEMMA UtParts ==
  ASSUME NEW d \in UtStates
  PROVE  /\ d.val \in Int /\ d.valb \in -8 .. -1 /\ d.out \in Seq(Int)
         /\ d.done \in BOOLEAN /\ d.failed \in BOOLEAN
<1>1. PICK V, O : V = -8 .. -1 /\ O = Seq(Int)
  OBVIOUS
<1>2. d \in [val : Int, valb : V, out : O, done : BOOLEAN, failed : BOOLEAN]
  BY <1>1, Zenon DEF UtStates
<1>3. d.val \in Int /\ d.valb \in V /\ d.out \in O /\ d.done \in BOOLEAN /\ d.failed \in BOOLEAN
  BY <1>2
<1> QED BY <1>1, <1>3

\* d with other parts.
UtWith(y, v, b, o, e, f) ==
  y \in UtStates /\ y.val = v /\ y.valb = b /\ y.out = o /\ y.done = e /\ y.failed = f

\* y is a record of those parts.
UtRecord(y, v, b, o, e, f) ==
  /\ y = [i \in {"val", "valb", "out", "done", "failed"} |-> y[i]]
  /\ y.val = v /\ y.valb = b /\ y.out = o /\ y.done = e /\ y.failed = f
  /\ v \in Int /\ b \in -8 .. -1 /\ o \in Seq(Int) /\ e \in BOOLEAN /\ f \in BOOLEAN

\* Such a record is a state.
LEMMA UtRecords ==
  ASSUME NEW y, NEW v, NEW b, NEW o, NEW e, NEW f, UtRecord(y, v, b, o, e, f)
  PROVE  UtWith(y, v, b, o, e, f)
<1>1. PICK V, O : V = -8 .. -1 /\ O = Seq(Int)
  OBVIOUS
<1>2. /\ y = [i \in {"val", "valb", "out", "done", "failed"} |-> y[i]]
      /\ y.val = v /\ y.valb = b /\ y.out = o /\ y.done = e /\ y.failed = f
      /\ v \in Int /\ b \in V /\ o \in O /\ e \in BOOLEAN /\ f \in BOOLEAN
  BY <1>1, Zenon DEF UtRecord
<1>3. PICK z : z = [val |-> v, valb |-> b, out |-> o, done |-> e, failed |-> f]
  OBVIOUS
<1>4. /\ z = [i \in {"val", "valb", "out", "done", "failed"} |-> z[i]]
      /\ z.val = v /\ z.valb = b /\ z.out = o /\ z.done = e /\ z.failed = f
  BY <1>3
<1>5. \A i \in {"val", "valb", "out", "done", "failed"} : y[i] = z[i]
  BY <1>2, <1>4
<1>6. y = z
  BY <1>2, <1>4, <1>5
<1>7. y \in [val : Int, valb : V, out : O, done : BOOLEAN, failed : BOOLEAN]
  BY <1>2, <1>3, <1>6
<1>8. y \in UtStates
  BY <1>1, <1>7, Zenon DEF UtStates
<1> QED BY <1>2, <1>8, Zenon DEF UtWith

\* It reads nothing more once it is done or has failed.
LEMMA UtKeeps ==
  ASSUME NEW d \in UtStates, NEW c, d.done \/ d.failed
  PROVE  ReadChar(d, c) = d
BY DEF ReadChar

\* It is done at the first padding character.
LEMMA UtPads ==
  ASSUME NEW d \in UtStates, ~d.done, ~d.failed
  PROVE  UtWith(ReadChar(d, Pad), d.val, d.valb, d.out, TRUE, FALSE)
<1>1. PICK y : y = [d EXCEPT !.done = TRUE]
  OBVIOUS
<1>2. ReadChar(d, Pad) = y
  <2>1. ReadChar(d, Pad) = [d EXCEPT !.done = TRUE]
    BY DEF ReadChar
  <2> QED BY <1>1, <2>1, Zenon
<1>3. PICK V, O : V = -8 .. -1 /\ O = Seq(Int)
  OBVIOUS
<1>4. d \in [val : Int, valb : V, out : O, done : BOOLEAN, failed : BOOLEAN] /\ d.failed = FALSE
  BY <1>3, UtParts, Zenon DEF UtStates
<1>5. /\ y \in [val : Int, valb : V, out : O, done : BOOLEAN, failed : BOOLEAN]
      /\ y.val = d.val /\ y.valb = d.valb /\ y.out = d.out /\ y.done = TRUE /\ y.failed = FALSE
  BY <1>1, <1>4
<1>6. y \in UtStates
  BY <1>3, <1>5, Zenon DEF UtStates
<1> QED BY <1>2, <1>5, <1>6, Zenon DEF UtWith

\* It fails at a character that is not of the alphabet.
LEMMA UtFails ==
  ASSUME NEW d \in UtStates, ~d.done, ~d.failed
  PROVE  UtWith(ReadChar(d, Bad), d.val, d.valb, d.out, FALSE, TRUE)
<1>1. PICK y : y = [d EXCEPT !.failed = TRUE]
  OBVIOUS
<1>2. ReadChar(d, Bad) = y
  <2>1. Bad # Pad
    BY DEF Bad, Pad
  <2>2. ReadChar(d, Bad) = [d EXCEPT !.failed = TRUE]
    BY <2>1 DEF ReadChar
  <2> QED BY <1>1, <2>2, Zenon
<1>3. PICK V, O : V = -8 .. -1 /\ O = Seq(Int)
  OBVIOUS
<1>4. d \in [val : Int, valb : V, out : O, done : BOOLEAN, failed : BOOLEAN] /\ d.done = FALSE
  BY <1>3, UtParts, Zenon DEF UtStates
<1>5. /\ y \in [val : Int, valb : V, out : O, done : BOOLEAN, failed : BOOLEAN]
      /\ y.val = d.val /\ y.valb = d.valb /\ y.out = d.out /\ y.done = FALSE /\ y.failed = TRUE
  BY <1>1, <1>4
<1>6. y \in UtStates
  BY <1>3, <1>5, Zenon DEF UtStates
<1> QED BY <1>2, <1>5, <1>6, Zenon DEF UtWith

\* A character that completes no byte.
LEMMA UtShort ==
  ASSUME NEW d \in UtStates, NEW c \in Int, ~d.done, ~d.failed, c # Pad, c # Bad, d.valb + 6 < 0
  PROVE  UtWith(ReadChar(d, c), NextVal(d, c), d.valb + 6, d.out, FALSE, FALSE)
<1>1. PICK y, v, b : v = NextVal(d, c) /\ b = d.valb + 6 /\ y = [d EXCEPT !.val = v, !.valb = b]
  OBVIOUS
<1>2. ReadChar(d, c) = y
  <2>1. ReadChar(d, c) = Complete(d, NextVal(d, c), d.valb + 6)
    BY DEF ReadChar, NextVal
  <2>2. Complete(d, v, b) = [d EXCEPT !.val = v, !.valb = b]
    BY <1>1, Zenon DEF Complete
  <2> QED BY <1>1, <2>1, <2>2, Zenon
<1>3. PICK V, O : V = -8 .. -1 /\ O = Seq(Int)
  OBVIOUS
<1>4. /\ d \in [val : Int, valb : V, out : O, done : BOOLEAN, failed : BOOLEAN]
      /\ d.done = FALSE /\ d.failed = FALSE
  BY <1>3, UtParts, Zenon DEF UtStates
<1>5. v \in Int /\ b \in -8 .. -1 /\ d.out \in Seq(Int) /\ FALSE \in BOOLEAN
  <2>1. d.val \in Int /\ d.valb \in -8 .. -1 /\ d.out \in Seq(Int)
    BY UtParts, Zenon
  <2>2. v \in Int
    BY <1>1, UtParts DEF NextVal
  <2>3. b \in -8 .. -1
    BY <1>1, <2>1
  <2>4. FALSE \in BOOLEAN
    OBVIOUS
  <2> QED BY <2>1, <2>2, <2>3, <2>4, Zenon
<1>6. /\ y = [i \in {"val", "valb", "out", "done", "failed"} |-> y[i]]
      /\ y.val = v /\ y.valb = b /\ y.out = d.out /\ y.done = FALSE /\ y.failed = FALSE
  BY <1>1, <1>4
<1>7. UtRecord(y, v, b, d.out, FALSE, FALSE)
  BY <1>5, <1>6, Zenon DEF UtRecord
<1> QED BY <1>1, <1>2, <1>7, UtRecords, Zenon

\* The byte a character completes, with k bits left below it.
ReadByte(v, k) == (v \div (2 ^ k)) % 256

\* It is an integer, and the powers are those of the six places it may have.
LEMMA ReadByteIs ==
  ASSUME NEW v \in Int, NEW k \in 0 .. 5
  PROVE  /\ ReadByte(v, k) \in Int
         /\ k = 0 => ReadByte(v, k) = v % 256
         /\ k = 2 => ReadByte(v, k) = (v \div 4) % 256
         /\ k = 4 => ReadByte(v, k) = (v \div 16) % 256
<1>1. k = 0 \/ k = 1 \/ k = 2 \/ k = 3 \/ k = 4 \/ k = 5
  OBVIOUS
<1>2. CASE k = 0
  BY <1>2 DEF ReadByte
<1>3. CASE k = 1
  BY <1>3 DEF ReadByte
<1>4. CASE k = 2
  BY <1>4 DEF ReadByte
<1>5. CASE k = 3
  BY <1>5 DEF ReadByte
<1>6. CASE k = 4
  BY <1>6 DEF ReadByte
<1>7. CASE k = 5
  BY <1>7 DEF ReadByte
<1> QED BY <1>1, <1>2, <1>3, <1>4, <1>5, <1>6, <1>7

\* A character that completes one.
LEMMA UtByte ==
  ASSUME NEW d \in UtStates, NEW c \in Int, ~d.done, ~d.failed, c # Pad, c # Bad, ~(d.valb + 6 < 0)
  PROVE  UtWith(ReadChar(d, c), NextVal(d, c), d.valb - 2,
                Append(d.out, ReadByte(NextVal(d, c), d.valb + 6)), FALSE, FALSE)
<1>1. PICK y, v, b, o : /\ v = NextVal(d, c) /\ b = (d.valb + 6) - 8 /\ o = Append(d.out, ReadByte(v, d.valb + 6))
                        /\ y = [d EXCEPT !.val = v, !.valb = b, !.out = o]
  OBVIOUS
<1>2. ReadChar(d, c) = y
  <2>1. ReadChar(d, c) = Complete(d, NextVal(d, c), d.valb + 6)
    BY DEF ReadChar, NextVal
  <2>2. PICK k : k = d.valb + 6 /\ ~(k < 0)
    OBVIOUS
  <2>3. Complete(d, v, k) = [d EXCEPT !.val = v, !.valb = k - 8, !.out = Append(@, ReadByte(v, k))]
    BY <2>2, Zenon DEF Complete, ReadByte
  <2>4. b = k - 8 /\ o = Append(d.out, ReadByte(v, k))
    BY <1>1, <2>2, Zenon
  <2> QED BY <1>1, <2>1, <2>2, <2>3, <2>4, Zenon
<1>3. PICK V, O : V = -8 .. -1 /\ O = Seq(Int)
  OBVIOUS
<1>4. /\ d \in [val : Int, valb : V, out : O, done : BOOLEAN, failed : BOOLEAN]
      /\ d.done = FALSE /\ d.failed = FALSE
  BY <1>3, UtParts, Zenon DEF UtStates
<1>5. v \in Int /\ b \in -8 .. -1 /\ o \in Seq(Int) /\ FALSE \in BOOLEAN /\ b = d.valb - 2
  <2>1. v \in Int
    BY <1>1, UtParts DEF NextVal
  <2>2. d.valb + 6 \in 0 .. 5
    BY UtParts
  <2>3. ReadByte(v, d.valb + 6) \in Int
    BY <2>1, <2>2, ReadByteIs, Zenon
  <2>4. d.out \in Seq(Int)
    BY UtParts, Zenon
  <2>5. o \in Seq(Int)
    BY <1>1, <2>3, <2>4, AppendProperties, Zenon
  <2>6. d.valb \in -8 .. -1
    BY UtParts, Zenon
  <2>7. b \in -8 .. -1 /\ b = d.valb - 2
    BY <1>1, <2>2, <2>6
  <2>8. FALSE \in BOOLEAN
    OBVIOUS
  <2> QED BY <2>1, <2>5, <2>7, <2>8, Zenon
<1>6. /\ y = [i \in {"val", "valb", "out", "done", "failed"} |-> y[i]]
      /\ y.val = v /\ y.valb = b /\ y.out = o /\ y.done = FALSE /\ y.failed = FALSE
  BY <1>1, <1>4
<1>7. UtRecord(y, v, b, o, FALSE, FALSE)
  BY <1>5, <1>6, Zenon DEF UtRecord
<1>8. UtWith(y, v, b, o, FALSE, FALSE)
  BY <1>7, UtRecords, Zenon
<1> QED BY <1>1, <1>2, <1>5, <1>8, Zenon

\* So does every character keep the type.
LEMMA UtTyped ==
  ASSUME NEW d \in UtStates, NEW c \in Int
  PROVE  ReadChar(d, c) \in UtStates
<1>1. CASE d.done \/ d.failed
  BY <1>1, UtKeeps, Zenon
<1>2. CASE ~d.done /\ ~d.failed /\ c = Pad
  BY <1>2, UtPads, Zenon DEF UtWith
<1>3. CASE ~d.done /\ ~d.failed /\ c = Bad
  BY <1>3, UtFails, Zenon DEF UtWith
<1>4. CASE ~d.done /\ ~d.failed /\ c # Pad /\ c # Bad /\ d.valb + 6 < 0
  BY <1>4, UtShort, Zenon DEF UtWith
<1>5. CASE ~d.done /\ ~d.failed /\ c # Pad /\ c # Bad /\ ~(d.valb + 6 < 0)
  BY <1>5, UtByte, Zenon DEF UtWith
<1> QED BY <1>1, <1>2, <1>3, <1>4, <1>5, Zenon

(***************************************************************************)
(* The loop of Base64Decode.                                               *)
(***************************************************************************)

UtStart == [val |-> 0, valb |-> -8, out |-> <<>>, done |-> FALSE, failed |-> FALSE]

\* It starts with nothing read.
LEMMA UtStarts ==
  UtStart \in UtStates
<1>1. PICK y, v, b, o, e, f : /\ v = 0 /\ b = -8 /\ o = <<>> /\ e = FALSE /\ f = FALSE
                              /\ y = [val |-> v, valb |-> b, out |-> o, done |-> e, failed |-> f]
  OBVIOUS
<1>2. /\ y = [i \in {"val", "valb", "out", "done", "failed"} |-> y[i]]
      /\ y.val = v /\ y.valb = b /\ y.out = o /\ y.done = e /\ y.failed = f
  BY <1>1
<1>3. v \in Int /\ b \in -8 .. -1 /\ o \in Seq(Int) /\ e \in BOOLEAN /\ f \in BOOLEAN
  <2>1. <<>> \in Seq(Int) /\ FALSE \in BOOLEAN
    OBVIOUS
  <2>2. o \in Seq(Int) /\ e \in BOOLEAN /\ f \in BOOLEAN
    BY <1>1, <2>1, Zenon
  <2> QED BY <1>1, <2>2
<1>4. UtWith(y, v, b, o, e, f)
  BY <1>2, <1>3, UtRecords, Zenon DEF UtRecord
<1> QED BY <1>1, <1>4, Zenon DEF UtStart, UtWith

\* f is the states it passes on the n characters of t.
UtRun(f, t, n) ==
  /\ f \in [0 .. n -> UtStates]
  /\ f[0] = UtStart
  /\ \A i \in 1 .. n : f[i] = ReadChar(f[i - 1], t[i])
  /\ f[n] = FoldLeft(ReadChar, UtStart, t)

\* It does pass some.
LEMMA UtRuns ==
  ASSUME NEW t \in Seq(Int), NEW n \in Nat, n = Len(t)
  PROVE  \E f : UtRun(f, t, n)
<1>1. PICK S, x : S = UtStates /\ x = UtStart
  OBVIOUS
<1>2. DOMAIN t = 1 .. n /\ \A i \in 1 .. n : t[i] \in Int
  BY LenProperties, ElementOfSeq
<1>3. PICK G : G = [i \in 1 .. n |-> [y \in S |-> ReadChar(y, t[i])]]
  OBVIOUS
<1>4. \A i \in 1 .. n : \A y \in S : G[i][y] = ReadChar(y, t[i])
  BY <1>3, Zenon
<1>5. G \in [1 .. n -> [S -> S]]
  <2>1. \A i \in 1 .. n : \A y \in S : ReadChar(y, t[i]) \in S
    BY <1>1, <1>2, UtTyped, Zenon
  <2> QED BY <1>3, <2>1, Zenon
<1> DEFINE Runs(it) == it = [r \in SUBSET (DOMAIN t) |->
                               IF r = {} THEN x ELSE ReadChar(it[r \ {Max(r)}], t[Max(r)])]
<1>x. x \in S
  BY <1>1, UtStarts, Zenon
<1>e. PICK j : FoldTable(j, S, x, n, G)
  BY <1>x, <1>5, FoldExists, Zenon
<1>6. /\ j \in [SUBSET (1 .. n) -> S]
      /\ \A r \in SUBSET (1 .. n) : j[r] = IF r = {} THEN x ELSE G[Max(r)][j[r \ {Max(r)}]]
  BY <1>e, Zenon DEF FoldTable
<1>7. ASSUME NEW r \in SUBSET (1 .. n), r # {} PROVE Max(r) \in 1 .. n /\ r \ {Max(r)} \in SUBSET (1 .. n)
  BY <1>7, MaxOfIndices
<1>8. Runs(j)
  <2>1. ASSUME NEW r \in SUBSET (1 .. n)
        PROVE  j[r] = IF r = {} THEN x ELSE ReadChar(j[r \ {Max(r)}], t[Max(r)])
    <3>1. CASE r = {}
      BY <1>6, <3>1, Zenon
    <3>2. CASE r # {}
      <4>1. j[r \ {Max(r)}] \in S
        BY <1>6, <1>7, <3>2, Zenon
      <4> QED BY <1>4, <1>6, <1>7, <3>2, <4>1, Zenon
    <3> QED BY <3>1, <3>2, Zenon
  <2>2. j = [r \in SUBSET (1 .. n) |-> j[r]]
    BY <1>6, Zenon
  <2> QED BY <1>2, <2>1, <2>2, Zenon
<1>9. PICK it : Runs(it) /\ FoldLeft(ReadChar, UtStart, t) = it[DOMAIN t]
  <2>1. FoldLeft(ReadChar, UtStart, t) = (CHOOSE it : Runs(it))[DOMAIN t]
    BY <1>1, Zenon DEF FoldLeft, MapThenFoldSet
  <2>2. Runs(CHOOSE it : Runs(it))
    BY <1>8, Zenon
  <2> QED BY <2>1, <2>2, Zenon
<1>10. it[{}] = x
  BY <1>9, Zenon
<1>11. \A r \in SUBSET (1 .. n) : r # {} /\ it[r \ {Max(r)}] \in S => it[r] = G[Max(r)][it[r \ {Max(r)}]]
  <2> SUFFICES ASSUME NEW r \in SUBSET (1 .. n), r # {}, it[r \ {Max(r)}] \in S
               PROVE  it[r] = G[Max(r)][it[r \ {Max(r)}]]
    BY Zenon
  <2>1. it[r] = ReadChar(it[r \ {Max(r)}], t[Max(r)])
    <3>1. it = [s \in SUBSET (DOMAIN t) |-> IF s = {} THEN x ELSE ReadChar(it[s \ {Max(s)}], t[Max(s)])]
      BY <1>9, Zenon
    <3>2. r \in SUBSET (DOMAIN t)
      BY <1>2, Zenon
    <3> QED BY <3>1, <3>2, Zenon
  <2>2. Max(r) \in 1 .. n
    BY <1>7, Zenon
  <2> QED BY <1>4, <2>1, <2>2, Zenon
<1>12. PICK f : FoldRun(f, it, S, x, n, G)
  <2>1. FoldsBy(it, S, x, n, G)
    BY <1>x, <1>5, <1>10, <1>11, Zenon DEF FoldsBy
  <2> QED BY <2>1, FoldRuns, Zenon
<1>13. /\ f \in [0 .. n -> S]
       /\ f[0] = x
       /\ \A i \in 1 .. n : f[i] = G[i][f[i - 1]]
       /\ f[n] = it[1 .. n]
  BY <1>12, Zenon DEF FoldRun
<1>14. \A i \in 1 .. n : f[i] = ReadChar(f[i - 1], t[i])
  <2> SUFFICES ASSUME NEW i \in 1 .. n PROVE f[i] = ReadChar(f[i - 1], t[i])
    OBVIOUS
  <2>1. i - 1 \in 0 .. n
    OBVIOUS
  <2> QED BY <2>1, <1>4, <1>13, Zenon
<1>15. f[n] = FoldLeft(ReadChar, UtStart, t)
  BY <1>2, <1>9, <1>13, Zenon
<1> QED BY <1>1, <1>13, <1>14, <1>15, Zenon DEF UtRun

(***************************************************************************)
(* The results.                                                            *)
(***************************************************************************)

\* What wireguard_base64_decode returns and has written.
LEMMA WgResult ==
  ASSUME NEW f, NEW t, NEW capacity, NEW n, WgRun(f, t, capacity, n)
  PROVE  WgDecode(t, capacity) = [ok |-> ~f[n].failed /\ f[n].count = 0, out |-> f[n].out]
BY Zenon DEF WgRun, WgDecode, WgStart

\* Base64Decode of t, as its run f says.
UtDecode(t, capacity, f, n) ==
  UtilDecode(t, capacity) =
    IF t = <<>> \/ Len(t) % 4 # 0 \/ capacity < Expected(t) THEN [ok |-> FALSE, out |-> <<>>]
    ELSE [ok |-> ~f[n].failed, out |-> f[n].out]

\* What Base64Decode returns and has written.
LEMMA UtResult ==
  ASSUME NEW f, NEW t, NEW capacity, NEW n, UtRun(f, t, n)
  PROVE  UtDecode(t, capacity, f, n)
BY Zenon DEF UtRun, UtilDecode, UtStart, UtDecode

(***************************************************************************)
(* A block of four characters.                                             *)
(***************************************************************************)

\* The bytes that four characters stand for.
First(c1, c2)  == 4 * c1 + (c2 \div 16)
Second(c2, c3) == 16 * (c2 % 16) + (c3 \div 4)
Third(c3, c4)  == 64 * (c3 % 4) + c4

\* The number that the characters make up.
Accumulated(c1, c2, c3, c4) == ((c1 * 64 + c2) * 64 + c3) * 64 + c4

\* It has those bytes.
StandsFor(a, c1, c2, c3, c4) ==
  a \in Int /\ a \div 65536 = First(c1, c2) /\ (a \div 256) % 256 = Second(c2, c3) /\ a % 256 = Third(c3, c4)

\* It does.
LEMMA BytesOfFour ==
  ASSUME NEW c1 \in 0 .. 63, NEW c2 \in 0 .. 63, NEW c3 \in 0 .. 63, NEW c4 \in 0 .. 63
  PROVE  StandsFor(Accumulated(c1, c2, c3, c4), c1, c2, c3, c4)
<1>a. PICK a \in Int : a = Accumulated(c1, c2, c3, c4) /\ a = ((c1 * 64 + c2) * 64 + c3) * 64 + c4
  BY DEF Accumulated
<1>1. a \div 65536 = 4 * c1 + (c2 \div 16)
  BY <1>a
<1>2. PICK b \in Int : b = a \div 256
  OBVIOUS
<1>3. b = c1 * 1024 + c2 * 16 + (c3 \div 4)
  BY <1>a, <1>2
<1>4. b % 256 = 16 * (c2 % 16) + (c3 \div 4)
  BY <1>3
<1>5. a % 256 = 64 * (c3 % 4) + c4
  BY <1>a
<1>6. StandsFor(a, c1, c2, c3, c4)
  BY <1>1, <1>2, <1>4, <1>5 DEF StandsFor, First, Second, Third
<1> QED BY ONLY <1>a, <1>6

\* They are integers.
LEMMA BytesTyped ==
  ASSUME NEW c \in 0 .. 63, NEW e \in 0 .. 63
  PROVE  First(c, e) \in Int /\ Second(c, e) \in Int /\ Third(c, e) \in Int
BY DEF First, Second, Third

\* The four characters that encode three bytes x, y and z, whose number is a.
Encodes(c1, c2, c3, c4, a, x, y, z) ==
  /\ c1 \in 0 .. 63 /\ c2 \in 0 .. 63 /\ c3 \in 0 .. 63 /\ c4 \in 0 .. 63
  /\ (a \div 262144) % 64 = c1 /\ (a \div 4096) % 64 = c2 /\ (a \div 64) % 64 = c3
  /\ (a \div 1) % 64 = c4
  /\ First(c1, c2) = x /\ Second(c2, c3) = y /\ Third(c3, c4) = z

\* The number of three bytes.
Number(x, y, z) == x * 65536 + y * 256 + z

\* There are such characters.
LEMMA FourOfBytes ==
  ASSUME NEW x \in 0 .. 255, NEW y \in 0 .. 255, NEW z \in 0 .. 255
  PROVE  \E c1, c2, c3, c4 : Encodes(c1, c2, c3, c4, Number(x, y, z), x, y, z)
<1>a. PICK a \in Int : a = Number(x, y, z) /\ a = x * 65536 + y * 256 + z
  BY DEF Number
<1>1. PICK p \in Int, q \in Int, r \in Int : p = a \div 262144 /\ q = a \div 4096 /\ r = a \div 64 /\ a \div 1 = a
  OBVIOUS
<1>2. p = x \div 4
  BY <1>1, <1>a
<1>3. q = 16 * x + (y \div 16)
  BY <1>1, <1>a
<1>4. r = 1024 * x + 4 * y + (z \div 64)
  BY <1>1, <1>a
<1>5. p % 64 = x \div 4
  BY <1>2
<1>6. q % 64 = 16 * (x % 4) + (y \div 16)
  BY <1>3
<1>7. r % 64 = 4 * (y % 16) + (z \div 64)
  BY <1>4
<1>8. a % 64 = z % 64
  BY <1>a
<1>9. PICK c1 \in 0 .. 63 : c1 = x \div 4
  OBVIOUS
<1>10. PICK c2 \in 0 .. 63 : c2 = 16 * (x % 4) + (y \div 16)
  OBVIOUS
<1>11. PICK c3 \in 0 .. 63 : c3 = 4 * (y % 16) + (z \div 64)
  OBVIOUS
<1>12. PICK c4 \in 0 .. 63 : c4 = z % 64
  OBVIOUS
<1>13. c2 \div 16 = x % 4 /\ c2 % 16 = y \div 16
  BY <1>10
<1>14. c3 \div 4 = y % 16 /\ c3 % 4 = z \div 64
  BY <1>11
<1>15. First(c1, c2) = x /\ Second(c2, c3) = y /\ Third(c3, c4) = z
  BY <1>9, <1>12, <1>13, <1>14 DEF First, Second, Third
<1>16. /\ (a \div 262144) % 64 = c1 /\ (a \div 4096) % 64 = c2 /\ (a \div 64) % 64 = c3
       /\ (a \div 1) % 64 = c4
  BY <1>1, <1>5, <1>6, <1>7, <1>8, <1>9, <1>10, <1>11, <1>12
<1>17. c1 \in 0 .. 63 /\ c2 \in 0 .. 63 /\ c3 \in 0 .. 63 /\ c4 \in 0 .. 63
  OBVIOUS
<1>18. Encodes(c1, c2, c3, c4, a, x, y, z)
  BY ONLY <1>15, <1>16, <1>17 DEF Encodes
<1> QED BY ONLY <1>a, <1>18

\* Each character comes below the bits that val had.
LEMMA NextValIs ==
  ASSUME NEW d \in UtStates, NEW c \in 0 .. 63
  PROVE  \E k \in Int : NextVal(d, c) = 64 * d.val + c + 16384 * k
<1>1. PICK v \in Int : v = d.val
  BY UtParts
<1>2. PICK q \in Int : q = (v * 64 + c) \div 16384
  OBVIOUS
<1>3. PICK k \in Int : k = -q
  OBVIOUS
<1>4. (v * 64 + c) % 16384 = 64 * v + c + 16384 * k
  BY <1>2, <1>3
<1> QED BY <1>1, <1>4 DEF NextVal

\* val is w after two characters c and e.
After(w, g, c, e, k) == w = 64 * (64 * g + c) + e + 16384 * k

\* The bytes that the two complete, with what is left of val below each.
Completes(w, c, e) ==
  (w \div 16) % 256 = First(c, e) /\ (w \div 4) % 256 = Second(c, e) /\ w % 256 = Third(c, e)

\* They are that whatever came before.
LEMMA BytesOfTwo ==
  ASSUME NEW g \in Int, NEW k \in Int, NEW c \in 0 .. 63, NEW e \in 0 .. 63,
         NEW w \in Int, After(w, g, c, e, k)
  PROVE  Completes(w, c, e)
<1>1. (w \div 16) % 256 = 4 * c + (e \div 16)
  BY DEF After
<1>2. (w \div 4) % 256 = 16 * (c % 16) + (e \div 4)
  BY DEF After
<1>3. w % 256 = 64 * (c % 4) + e
  BY DEF After
<1> QED BY <1>1, <1>2, <1>3 DEF First, Second, Third, Completes

(***************************************************************************)
(* The characters of a block, one by one.                                  *)
(***************************************************************************)

\* The decoder goes from d to e at the character c.
WgReads(d, e, c, capacity) == e = DecodeChar(d, c, capacity)
UtReads(d, e, c)           == e = ReadChar(d, c)

\* wireguard_base64_decode takes in a character of the alphabet.
LEMMA WgGood ==
  ASSUME NEW d, NEW e, NEW c \in 0 .. 63, NEW capacity, NEW a, NEW n, NEW o,
         WgWith(d, a, n, 3, o, FALSE), WgReads(d, e, c, capacity), n < 3
  PROVE  WgWith(e, a * 64 + c, n + 1, 3, o, FALSE)
<1>1. d \in WgStates /\ d.accum = a /\ d.count = n /\ d.expect = 3 /\ d.out = o /\ d.failed = FALSE
  BY Zenon DEF WgWith
<1>2. c \in Int /\ c # Pad /\ c # Bad
  BY DEF Pad, Bad
<1>3. NextExpect(d, c) = 3 /\ NextAccum(d, c) = a * 64 + c
  BY <1>1, <1>2, Zenon DEF NextExpect, NextAccum
<1>4. ~Wrong(d, c)
  BY <1>1, <1>2, <1>3 DEF Wrong
<1>5. ~d.failed /\ d.count < 3
  BY <1>1
<1>6. WgWith(e, NextAccum(d, c), d.count + 1, NextExpect(d, c), d.out, FALSE)
  BY <1>1, <1>2, <1>4, <1>5, WgShort, Zenon DEF WgReads
<1> QED BY <1>1, <1>3, <1>6, Zenon

\* It takes in a padding character within a block.
LEMMA WgPad ==
  ASSUME NEW d, NEW e, NEW capacity, NEW a, NEW n, NEW k, NEW o,
         WgWith(d, a, n, k, o, FALSE), WgReads(d, e, Pad, capacity), n < 3, k > 0
  PROVE  WgWith(e, a * 64, n + 1, k - 1, o, FALSE)
<1>1. d \in WgStates /\ d.accum = a /\ d.count = n /\ d.expect = k /\ d.out = o /\ d.failed = FALSE
  BY Zenon DEF WgWith
<1>2. Pad \in Int /\ Pad # Bad /\ a \in Int /\ k \in Int
  BY <1>1, WgParts DEF Pad, Bad
<1>3. NextExpect(d, Pad) = k - 1 /\ NextAccum(d, Pad) = a * 64
  BY <1>1, <1>2 DEF NextExpect, NextAccum
<1>4. ~Wrong(d, Pad)
  BY <1>2, <1>3 DEF Wrong
<1>5. ~d.failed /\ d.count < 3
  BY <1>1
<1>6. WgWith(e, NextAccum(d, Pad), d.count + 1, NextExpect(d, Pad), d.out, FALSE)
  BY <1>1, <1>2, <1>4, <1>5, WgShort, Zenon DEF WgReads
<1> QED BY <1>1, <1>3, <1>6, Zenon

\* It takes in the last character of a block.
LEMMA WgGoodEnds ==
  ASSUME NEW d, NEW e, NEW c \in 0 .. 63, NEW capacity, NEW a, NEW o,
         WgWith(d, a, 3, 3, o, FALSE), WgReads(d, e, c, capacity), ~(Len(o) + 3 > capacity)
  PROVE  WgWith(e, 0, 0, 3, o \o BlockBytes(a * 64 + c, 3), FALSE)
<1>1. d \in WgStates /\ d.accum = a /\ d.count = 3 /\ d.expect = 3 /\ d.out = o /\ d.failed = FALSE
  BY Zenon DEF WgWith
<1>2. c \in Int /\ c # Pad /\ c # Bad
  BY DEF Pad, Bad
<1>3. NextExpect(d, c) = 3 /\ NextAccum(d, c) = a * 64 + c
  BY <1>1, <1>2, Zenon DEF NextExpect, NextAccum
<1>4. ~Wrong(d, c)
  BY <1>1, <1>2, <1>3 DEF Wrong
<1>5. ~d.failed /\ ~(d.count < 3) /\ ~(Len(d.out) + NextExpect(d, c) > capacity)
  <2>1. ~d.failed /\ ~(d.count < 3)
    BY <1>1
  <2> QED BY <1>1, <1>3, <2>1, Zenon
<1>6. WgWith(e, 0, 0, NextExpect(d, c), d.out \o BlockBytes(NextAccum(d, c), NextExpect(d, c)), FALSE)
  BY <1>1, <1>2, <1>4, <1>5, WgBlock, Zenon DEF WgReads
<1> QED BY <1>1, <1>3, <1>6, Zenon

\* Padding can be that character.
LEMMA WgPadEnds ==
  ASSUME NEW d, NEW e, NEW capacity, NEW a, NEW k, NEW o,
         WgWith(d, a, 3, k, o, FALSE), WgReads(d, e, Pad, capacity), k > 0, ~(Len(o) + (k - 1) > capacity)
  PROVE  WgWith(e, 0, 0, k - 1, o \o BlockBytes(a * 64, k - 1), FALSE)
<1>1. d \in WgStates /\ d.accum = a /\ d.count = 3 /\ d.expect = k /\ d.out = o /\ d.failed = FALSE
  BY Zenon DEF WgWith
<1>2. Pad \in Int /\ Pad # Bad /\ a \in Int /\ k \in Int
  BY <1>1, WgParts DEF Pad, Bad
<1>3. NextExpect(d, Pad) = k - 1 /\ NextAccum(d, Pad) = a * 64
  BY <1>1, <1>2 DEF NextExpect, NextAccum
<1>4. ~Wrong(d, Pad)
  BY <1>2, <1>3 DEF Wrong
<1>5. ~d.failed /\ ~(d.count < 3) /\ ~(Len(d.out) + NextExpect(d, Pad) > capacity)
  <2>1. ~d.failed /\ ~(d.count < 3)
    BY <1>1
  <2> QED BY <1>1, <1>3, <2>1, Zenon
<1>6. WgWith(e, 0, 0, NextExpect(d, Pad), d.out \o BlockBytes(NextAccum(d, Pad), NextExpect(d, Pad)), FALSE)
  BY <1>1, <1>2, <1>4, <1>5, WgBlock, Zenon DEF WgReads
<1> QED BY <1>1, <1>3, <1>6, Zenon

\* Base64Decode at the start of a block: what is left in val is not read again.
UtClean(d, o) == d \in UtStates /\ d.valb = -8 /\ d.out = o /\ d.done = FALSE /\ d.failed = FALSE

\* Within a block: c was the last character, and what is left of it is below b.
UtHas(d, c, b, o) == \E g \in Int : UtWith(d, 64 * g + c, b, o, FALSE, FALSE)

\* After the first padding character.
UtDone(d, o) == d \in UtStates /\ d.out = o /\ d.done = TRUE /\ d.failed = FALSE

\* The byte that c and the character after it complete.
Completed(b, c, e) == IF b = -2 THEN First(c, e) ELSE IF b = -4 THEN Second(c, e) ELSE Third(c, e)

\* The first character of a block.
LEMMA UtFirst ==
  ASSUME NEW d, NEW e, NEW c \in 0 .. 63, NEW o, UtClean(d, o), UtReads(d, e, c)
  PROVE  UtHas(e, c, -2, o)
<1>1. d \in UtStates /\ d.valb = -8 /\ d.out = o /\ d.done = FALSE /\ d.failed = FALSE
  BY Zenon DEF UtClean
<1>2. c \in Int /\ c # Pad /\ c # Bad /\ ~d.done /\ ~d.failed /\ d.valb + 6 < 0 /\ d.valb + 6 = -2
  BY <1>1 DEF Pad, Bad
<1>3. UtWith(e, NextVal(d, c), -2, o, FALSE, FALSE)
  <2>1. UtWith(ReadChar(d, c), NextVal(d, c), d.valb + 6, d.out, FALSE, FALSE)
    BY <1>1, <1>2, UtShort, Zenon
  <2> QED BY <1>1, <1>2, <2>1, Zenon DEF UtReads
<1>4. PICK k \in Int : NextVal(d, c) = 64 * d.val + c + 16384 * k
  BY <1>1, NextValIs
<1>5. PICK g \in Int : g = d.val + 256 * k
  BY <1>1, UtParts
<1>6. NextVal(d, c) = 64 * g + c
  BY <1>1, <1>4, <1>5, UtParts
<1>7. UtWith(e, 64 * g + c, -2, o, FALSE, FALSE)
  BY ONLY <1>3, <1>6
<1> QED BY ONLY <1>7, g \in Int, Zenon DEF UtHas

\* One of the others.
LEMMA UtNext ==
  ASSUME NEW d, NEW e, NEW c \in 0 .. 63, NEW c2 \in 0 .. 63, NEW b \in {-2, -4, -6}, NEW o,
         UtHas(d, c, b, o), UtReads(d, e, c2)
  PROVE  UtHas(e, c2, b - 2, Append(o, Completed(b, c, c2)))
<1>0. PICK h \in Int : UtWith(d, 64 * h + c, b, o, FALSE, FALSE)
  BY Zenon DEF UtHas
<1>1. d \in UtStates /\ d.val = 64 * h + c /\ d.valb = b /\ d.out = o /\ d.done = FALSE /\ d.failed = FALSE
  BY <1>0, Zenon DEF UtWith
<1>2. c2 \in Int /\ c2 # Pad /\ c2 # Bad /\ ~d.done /\ ~d.failed /\ ~(d.valb + 6 < 0) /\ d.valb - 2 = b - 2
  BY <1>1 DEF Pad, Bad
<1>3. PICK k \in Int : NextVal(d, c2) = 64 * d.val + c2 + 16384 * k
  BY ONLY <1>1, c2 \in 0 .. 63, NextValIs
<1>4. PICK w \in Int : w = NextVal(d, c2) /\ w = 64 * (64 * h + c) + c2 + 16384 * k
  BY <1>1, <1>3
<1>5. UtWith(e, w, b - 2, Append(o, ReadByte(w, b + 6)), FALSE, FALSE)
  <2>1. UtWith(ReadChar(d, c2), NextVal(d, c2), d.valb - 2, Append(d.out, ReadByte(NextVal(d, c2), d.valb + 6)), FALSE, FALSE)
    BY <1>1, <1>2, UtByte, Zenon
  <2>2. w = NextVal(d, c2)
    BY <1>4
  <2> QED BY ONLY <1>1, <2>1, <2>2, UtReads(d, e, c2), Zenon DEF UtReads
<1>6. ReadByte(w, b + 6) = Completed(b, c, c2)
  <2>1. (w \div 16) % 256 = First(c, c2) /\ (w \div 4) % 256 = Second(c, c2) /\ w % 256 = Third(c, c2)
    <3>1. After(w, h, c, c2, k)
      BY <1>4 DEF After
    <3>2. Completes(w, c, c2)
      BY ONLY <3>1, w \in Int, h \in Int, k \in Int, c \in 0 .. 63, c2 \in 0 .. 63, BytesOfTwo, Zenon
    <3> QED BY <3>2 DEF Completes
  <2>2. PICK j \in 0 .. 5 : j = b + 6
    OBVIOUS
  <2>3. /\ j = 0 => ReadByte(w, j) = w % 256
        /\ j = 2 => ReadByte(w, j) = (w \div 4) % 256
        /\ j = 4 => ReadByte(w, j) = (w \div 16) % 256
    BY ONLY w \in Int, j \in 0 .. 5, ReadByteIs
  <2> QED BY <2>1, <2>2, <2>3 DEF Completed
<1>7. PICK g \in Int : w = 64 * g + c2
  <2>1. PICK g \in Int : g = 64 * h + c + 256 * k
    OBVIOUS
  <2>2. w = 64 * g + c2
    BY <1>4, <2>1
  <2> QED BY <2>2
<1>8. UtWith(e, 64 * g + c2, b - 2, Append(o, Completed(b, c, c2)), FALSE, FALSE)
  BY ONLY <1>5, <1>6, <1>7
<1> QED BY ONLY <1>8, g \in Int, Zenon DEF UtHas

\* Padding.
LEMMA UtEnds ==
  ASSUME NEW d, NEW e, NEW c, NEW b, NEW o, UtHas(d, c, b, o), UtReads(d, e, Pad)
  PROVE  UtDone(e, o)
<1>1. d \in UtStates /\ d.out = o /\ d.done = FALSE /\ d.failed = FALSE
  BY Zenon DEF UtHas, UtWith
<1>2. UtWith(ReadChar(d, Pad), d.val, d.valb, d.out, TRUE, FALSE)
  BY <1>1, UtPads
<1> QED BY <1>1, <1>2, Zenon DEF UtWith, UtReads, UtDone

\* What comes after it.
LEMMA UtRests ==
  ASSUME NEW d, NEW e, NEW c, NEW o, UtDone(d, o), UtReads(d, e, c)
  PROVE  UtDone(e, o)
<1>1. d \in UtStates /\ (d.done \/ d.failed)
  BY Zenon DEF UtDone
<1>2. ReadChar(d, c) = d
  BY <1>1, UtKeeps, Zenon
<1> QED BY <1>2, Zenon DEF UtReads

\* The state after a block is one before a block.
LEMMA UtCleans ==
  ASSUME NEW d, NEW c, NEW o, UtHas(d, c, -8, o)
  PROVE  UtClean(d, o)
BY Zenon DEF UtHas, UtWith, UtClean

(***************************************************************************)
(* Whole blocks.                                                           *)
(***************************************************************************)

\* What has been written after one, two and three bytes of a block.
Out1(o, c1, c2)         == Append(o, First(c1, c2))
Out2(o, c1, c2, c3)     == Append(Out1(o, c1, c2), Second(c2, c3))
Out3(o, c1, c2, c3, c4) == Append(Out2(o, c1, c2, c3), Third(c3, c4))

\* w is v with x after it.
Appended(w, v, x) ==
  /\ w = Append(v, x) /\ w \in Seq(Int) /\ Len(w) = Len(v) + 1
  /\ \A i \in 1 .. Len(v) : w[i] = v[i]
  /\ w[Len(v) + 1] = x

\* There is one.
LEMMA Appends ==
  ASSUME NEW v \in Seq(Int), NEW x \in Int
  PROVE  \E w : Appended(w, v, x)
<1>1. Appended(Append(v, x), v, x)
  BY AppendProperties DEF Appended
<1> QED BY <1>1, Zenon

\* u is o and b after it, of the lengths m and n.
Joined(u, o, b, m, n) ==
  u \in Seq(Int) /\ Len(u) = m + n /\ \A i \in 1 .. m + n : u[i] = IF i <= m THEN o[i] ELSE b[i - m]

\* Their concatenation is.
LEMMA Joins ==
  ASSUME NEW o \in Seq(Int), NEW b \in Seq(Int), NEW m, NEW n, m = Len(o), n = Len(b)
  PROVE  Joined(o \o b, o, b, m, n)
BY ConcatProperties, Zenon DEF Joined

\* u, v after o, ends in x.
EndsIn(u, v, x) == u = Append(v, x)

\* A sequence appends its one element.
LEMMA AppendsOne ==
  ASSUME NEW o \in Seq(Int), NEW b \in Seq(Int), NEW x \in Int, Len(b) = 1, b[1] = x
  PROVE  EndsIn(o \o b, o, x)
<1>1. PICK L \in Nat : L = Len(o)
  BY LenProperties
<1>2. PICK u : u = o \o b
  OBVIOUS
<1>3. u \in Seq(Int) /\ Len(u) = L + 1 /\ \A i \in 1 .. L + 1 : u[i] = IF i <= L THEN o[i] ELSE b[i - L]
  <2>1. PICK B : B = 1 /\ B = Len(b)
    OBVIOUS
  <2>2. Joined(u, o, b, L, B)
    BY <1>1, <1>2, <2>1, Joins, Zenon
  <2> QED BY ONLY <2>1, <2>2 DEF Joined
<1>4. PICK w : Appended(w, o, x)
  BY Appends, Zenon
<1>5. /\ w = Append(o, x) /\ w \in Seq(Int) /\ Len(w) = L + 1
      /\ (\A i \in 1 .. L : w[i] = o[i]) /\ w[L + 1] = x
  BY <1>1, <1>4 DEF Appended
<1>6. Len(u) = Len(w) /\ \A i \in 1 .. Len(u) : u[i] = w[i]
  BY ONLY <1>3, <1>5, b[1] = x, L \in Nat
<1> QED BY <1>2, <1>3, <1>5, <1>6, SeqEqual, Zenon DEF EndsIn

\* b is v and x after it.
LastIs(b, v, x) == v \in Seq(Int) /\ Len(b) = Len(v) + 1 /\ b[Len(v) + 1] = x /\ \A i \in 1 .. Len(v) : b[i] = v[i]

\* A sequence appends its last element last.
LEMMA AppendsLast ==
  ASSUME NEW o \in Seq(Int), NEW b \in Seq(Int), NEW v, NEW x \in Int, LastIs(b, v, x)
  PROVE  EndsIn(o \o b, o \o v, x)
<1>0. v \in Seq(Int) /\ Len(b) = Len(v) + 1 /\ b[Len(v) + 1] = x /\ \A i \in 1 .. Len(v) : b[i] = v[i]
  BY Zenon DEF LastIs
<1>1. PICK L \in Nat, B \in Nat : L = Len(o) /\ B = Len(v) /\ Len(b) = B + 1
  BY <1>0, LenProperties
<1>2. PICK u : u = o \o b
  OBVIOUS
<1>3. u \in Seq(Int) /\ Len(u) = L + (B + 1) /\ \A i \in 1 .. L + (B + 1) : u[i] = IF i <= L THEN o[i] ELSE b[i - L]
  <2>1. PICK C \in Nat : C = B + 1 /\ C = Len(b)
    BY <1>1
  <2>2. Joined(u, o, b, L, C)
    BY <1>1, <1>2, <2>1, Joins, Zenon
  <2> QED BY <2>1, <2>2, Zenon DEF Joined
<1>4. PICK t : t = o \o v
  OBVIOUS
<1>5. t \in Seq(Int) /\ Len(t) = L + B /\ \A i \in 1 .. L + B : t[i] = IF i <= L THEN o[i] ELSE v[i - L]
  BY <1>0, <1>1, <1>4, ConcatProperties, Zenon
<1>6. PICK w : Appended(w, t, x)
  BY <1>5, Appends, Zenon
<1>7. /\ w = Append(t, x) /\ w \in Seq(Int) /\ Len(w) = L + B + 1
      /\ (\A i \in 1 .. L + B : w[i] = t[i]) /\ w[L + B + 1] = x
  BY <1>5, <1>6 DEF Appended
<1>8. ASSUME NEW i \in 1 .. L + (B + 1) PROVE u[i] = w[i]
  <2>1. CASE i <= L
    <3>1. i \in 1 .. L + B
      BY <2>1
    <3>2. u[i] = o[i]
      BY <1>3, <2>1
    <3>3. t[i] = o[i] /\ w[i] = t[i]
      BY ONLY <1>5, <1>7, <2>1, <3>1
    <3> QED BY <3>2, <3>3, Zenon
  <2>2. CASE i > L /\ i <= L + B
    <3>1. i - L \in 1 .. B
      BY <1>1, <2>2
    <3>2. b[i - L] = v[i - L]
      BY <1>0, <1>1, <3>1, Zenon
    <3>3. u[i] = b[i - L]
      BY <1>3, <2>2
    <3>4. i \in 1 .. L + B /\ ~(i <= L)
      BY <2>2
    <3>5. w[i] = v[i - L]
      BY <1>5, <1>7, <3>4
    <3> QED BY <3>2, <3>3, <3>5, Zenon
  <2>3. CASE i = L + B + 1
    <3>1. i - L = B + 1 /\ ~(i <= L)
      BY <2>3
    <3>2. u[i] = b[i - L]
      BY <1>3, <3>1
    <3>3. u[i] = b[B + 1]
      BY <3>1, <3>2, Zenon
    <3> QED BY <1>0, <1>1, <1>7, <2>3, <3>3, Zenon
  <2> QED BY <2>1, <2>2, <2>3
<1>9. Len(u) = Len(w) /\ \A i \in 1 .. Len(u) : u[i] = w[i]
  <2>1. Len(u) = Len(w) /\ Len(u) = L + (B + 1)
    BY <1>3, <1>7
  <2> QED BY <1>8, <2>1, Zenon
<1>10. u = w
  BY <1>3, <1>7, <1>9, SeqEqual, Zenon
<1> QED BY <1>2, <1>4, <1>7, <1>10, Zenon DEF EndsIn

\* The elements of b are x and y, or x, y and z.
Two(b, x, y)      == b \in Seq(Int) /\ Len(b) = 2 /\ b[1] = x /\ b[2] = y
Three(b, x, y, z) == b \in Seq(Int) /\ Len(b) = 3 /\ b[1] = x /\ b[2] = y /\ b[3] = z

\* u is v with x and y after it.
EndsInTwo(u, v, x, y) == u = Append(Append(v, x), y)

\* A sequence appends its two elements.
LEMMA AppendsTwo ==
  ASSUME NEW o \in Seq(Int), NEW b, NEW x \in Int, NEW y \in Int, Two(b, x, y)
  PROVE  EndsInTwo(o \o b, o, x, y)
<1>1. PICK v : v = <<x>>
  OBVIOUS
<1>2. v \in Seq(Int) /\ Len(v) = 1 /\ v[1] = x
  BY <1>1
<1>3. LastIs(b, v, y) /\ b \in Seq(Int)
  BY <1>2 DEF LastIs, Two
<1>4. EndsIn(o \o v, o, x)
  BY <1>2, AppendsOne, Zenon
<1>5. EndsIn(o \o b, o \o v, y)
  BY ONLY o \in Seq(Int), y \in Int, <1>3, AppendsLast, Zenon
<1> QED BY ONLY <1>4, <1>5, Zenon DEF EndsIn, EndsInTwo

\* A sequence appends its three elements.
LEMMA AppendsThree ==
  ASSUME NEW o \in Seq(Int), NEW b, NEW x \in Int, NEW y \in Int, NEW z \in Int, Three(b, x, y, z)
  PROVE  EndsIn(o \o b, Append(Append(o, x), y), z)
<1>1. PICK v : v = <<x, y>>
  OBVIOUS
<1>2. v \in Seq(Int) /\ Len(v) = 2 /\ v[1] = x /\ v[2] = y
  BY <1>1
<1>3. LastIs(b, v, z) /\ b \in Seq(Int)
  BY <1>2 DEF LastIs, Three
<1>4. EndsInTwo(o \o v, o, x, y)
  <2>1. Two(v, x, y)
    BY <1>2 DEF Two
  <2> QED BY ONLY o \in Seq(Int), x \in Int, y \in Int, <2>1, AppendsTwo, Zenon
<1>5. EndsIn(o \o b, o \o v, z)
  BY ONLY o \in Seq(Int), z \in Int, <1>3, AppendsLast, Zenon
<1> QED BY ONLY <1>4, <1>5, Zenon DEF EndsIn, EndsInTwo

\* The length of what has been written.
LEMMA OutLengths ==
  ASSUME NEW o \in Seq(Int), NEW c1 \in 0 .. 63, NEW c2 \in 0 .. 63, NEW c3 \in 0 .. 63, NEW c4 \in 0 .. 63
  PROVE  /\ Out1(o, c1, c2) \in Seq(Int) /\ Len(Out1(o, c1, c2)) = Len(o) + 1
         /\ Out2(o, c1, c2, c3) \in Seq(Int) /\ Len(Out2(o, c1, c2, c3)) = Len(o) + 2
         /\ Out3(o, c1, c2, c3, c4) \in Seq(Int) /\ Len(Out3(o, c1, c2, c3, c4)) = Len(o) + 3
<1>1. PICK x \in Int, y \in Int, z \in Int : x = First(c1, c2) /\ y = Second(c2, c3) /\ z = Third(c3, c4)
  BY BytesTyped
<1>2. /\ Append(o, x) \in Seq(Int) /\ Len(Append(o, x)) = Len(o) + 1
      /\ Append(Append(o, x), y) \in Seq(Int) /\ Len(Append(Append(o, x), y)) = Len(o) + 2
      /\ Append(Append(Append(o, x), y), z) \in Seq(Int)
      /\ Len(Append(Append(Append(o, x), y), z)) = Len(o) + 3
  OBVIOUS
<1> QED BY <1>1, <1>2, Zenon DEF Out1, Out2, Out3

\* What the end of a block with expect bytes writes after o.
Writes(a, o, c1, c2, c3, c4) ==
  /\ o \o BlockBytes(a, 1) = Out1(o, c1, c2)
  /\ o \o BlockBytes(a, 2) = Out2(o, c1, c2, c3)
  /\ o \o BlockBytes(a, 3) = Out3(o, c1, c2, c3, c4)

\* Its first bytes.
LEMMA BlockWrites ==
  ASSUME NEW o \in Seq(Int), NEW c1 \in 0 .. 63, NEW c2 \in 0 .. 63, NEW c3 \in 0 .. 63, NEW c4 \in 0 .. 63
  PROVE  Writes(Accumulated(c1, c2, c3, c4), o, c1, c2, c3, c4)
<1>0. PICK a : a = Accumulated(c1, c2, c3, c4)
  OBVIOUS
<1>1. PICK x \in Int, y \in Int, z \in Int : x = First(c1, c2) /\ y = Second(c2, c3) /\ z = Third(c3, c4)
  BY BytesTyped
<1>2. a \in Int /\ a \div 65536 = x /\ (a \div 256) % 256 = y /\ a % 256 = z
  <2>1. StandsFor(a, c1, c2, c3, c4)
    BY <1>0, BytesOfFour, Zenon
  <2> QED BY <1>1, <2>1 DEF StandsFor
<1>3. ASSUME NEW e \in 1 .. 3
      PROVE  /\ BlockBytes(a, e) \in Seq(Int) /\ Len(BlockBytes(a, e)) = e /\ BlockBytes(a, e)[1] = x
             /\ (e >= 2 => BlockBytes(a, e)[2] = y) /\ (e = 3 => BlockBytes(a, e)[3] = z)
  <2>1. e \in Int /\ e <= 3 /\ (IF e < 1 THEN 1 ELSE e) = e
    OBVIOUS
  <2>2. UpperBytes(BlockBytes(a, e), a, e)
    BY ONLY <1>2, <2>1, BlockBytesAre
  <2> QED BY ONLY <1>2, <2>1, <2>2, e \in 1 .. 3 DEF UpperBytes
<1>4. EndsIn(o \o BlockBytes(a, 1), o, x)
  <2>1. PICK b : b = BlockBytes(a, 1)
    OBVIOUS
  <2>2. b \in Seq(Int) /\ Len(b) = 1 /\ b[1] = x
    BY <1>3, <2>1
  <2> QED BY <2>1, <2>2, AppendsOne, Zenon
<1>5. EndsInTwo(o \o BlockBytes(a, 2), o, x, y)
  <2>1. PICK b : b = BlockBytes(a, 2)
    OBVIOUS
  <2>2. Two(b, x, y)
    BY <1>3, <2>1 DEF Two
  <2> QED BY <2>1, <2>2, AppendsTwo, Zenon
<1>6. EndsIn(o \o BlockBytes(a, 3), Append(Append(o, x), y), z)
  <2>1. PICK b : b = BlockBytes(a, 3)
    OBVIOUS
  <2>2. Three(b, x, y, z)
    BY <1>3, <2>1 DEF Three
  <2> QED BY <2>1, <2>2, AppendsThree, Zenon
<1> QED BY ONLY <1>0, <1>1, <1>4, <1>5, <1>6, Zenon DEF Writes, Out1, Out2, Out3, EndsIn, EndsInTwo

\* The decoder reads two or three characters.
WgTwoRead(d, e, c1, c2, capacity) ==
  \E d1 : WgReads(d, d1, c1, capacity) /\ WgReads(d1, e, c2, capacity)
WgThreeRead(d, e, c1, c2, c3, capacity) ==
  \E d2 : WgTwoRead(d, d2, c1, c2, capacity) /\ WgReads(d2, e, c3, capacity)

\* They accumulate.
LEMMA WgTwo ==
  ASSUME NEW d, NEW e, NEW c1 \in 0 .. 63, NEW c2 \in 0 .. 63, NEW capacity, NEW o,
         WgWith(d, 0, 0, 3, o, FALSE), WgTwoRead(d, e, c1, c2, capacity)
  PROVE  WgWith(e, c1 * 64 + c2, 2, 3, o, FALSE)
<1>1. PICK d1 : WgReads(d, d1, c1, capacity) /\ WgReads(d1, e, c2, capacity)
  BY Zenon DEF WgTwoRead
<1>2. WgWith(d1, c1, 1, 3, o, FALSE)
  <2>1. PICK a, n : a = 0 /\ n = 0
    OBVIOUS
  <2>2. n < 3 /\ a * 64 + c1 = c1 /\ n + 1 = 1
    BY <2>1
  <2>3. WgWith(d, a, n, 3, o, FALSE)
    BY <2>1, Zenon
  <2>4. WgWith(d1, a * 64 + c1, n + 1, 3, o, FALSE)
    BY <1>1, <2>2, <2>3, WgGood, Zenon
  <2> QED BY ONLY <2>2, <2>4
<1>3. PICK n : n = 1
  OBVIOUS
<1>4. n < 3 /\ n + 1 = 2 /\ WgWith(d1, c1, n, 3, o, FALSE)
  <2>1. n < 3 /\ n + 1 = 2
    BY <1>3
  <2> QED BY <1>2, <1>3, <2>1, Zenon
<1>5. WgWith(e, c1 * 64 + c2, n + 1, 3, o, FALSE)
  BY <1>1, <1>4, WgGood, Zenon
<1> QED BY ONLY <1>4, <1>5

\* The third as well.
LEMMA WgThree ==
  ASSUME NEW d, NEW e, NEW c1 \in 0 .. 63, NEW c2 \in 0 .. 63, NEW c3 \in 0 .. 63, NEW capacity, NEW o,
         WgWith(d, 0, 0, 3, o, FALSE), WgThreeRead(d, e, c1, c2, c3, capacity)
  PROVE  WgWith(e, (c1 * 64 + c2) * 64 + c3, 3, 3, o, FALSE)
<1>1. PICK d2 : WgTwoRead(d, d2, c1, c2, capacity) /\ WgReads(d2, e, c3, capacity)
  BY Zenon DEF WgThreeRead
<1>2. WgWith(d2, c1 * 64 + c2, 2, 3, o, FALSE)
  BY <1>1, WgTwo, Zenon
<1>3. PICK n, a : n = 2 /\ a = c1 * 64 + c2
  OBVIOUS
<1>4. n < 3 /\ n + 1 = 3 /\ WgWith(d2, a, n, 3, o, FALSE)
  <2>1. n < 3 /\ n + 1 = 3
    BY <1>3
  <2> QED BY <1>2, <1>3, <2>1, Zenon
<1>5. WgWith(e, a * 64 + c3, n + 1, 3, o, FALSE)
  BY <1>1, <1>4, WgGood, Zenon
<1> QED BY ONLY <1>3, <1>4, <1>5

\* The state between two blocks, with o written.
WgClean(d, o) == WgWith(d, 0, 0, 3, o, FALSE)

\* A whole block writes three bytes.
LEMMA WgFour ==
  ASSUME NEW d, NEW d3, NEW e, NEW c1 \in 0 .. 63, NEW c2 \in 0 .. 63, NEW c3 \in 0 .. 63, NEW c4 \in 0 .. 63,
         NEW capacity, NEW o \in Seq(Int),
         WgClean(d, o), WgThreeRead(d, d3, c1, c2, c3, capacity), WgReads(d3, e, c4, capacity),
         ~(Len(o) + 3 > capacity)
  PROVE  WgClean(e, Out3(o, c1, c2, c3, c4))
<1>1. WgWith(d3, (c1 * 64 + c2) * 64 + c3, 3, 3, o, FALSE)
  BY WgThree, Zenon DEF WgClean
<1>2. PICK a : a = (c1 * 64 + c2) * 64 + c3
  OBVIOUS
<1>3. WgWith(d3, a, 3, 3, o, FALSE)
  BY <1>1, <1>2, Zenon
<1>4. WgWith(e, 0, 0, 3, o \o BlockBytes(a * 64 + c4, 3), FALSE)
  BY <1>3, WgGoodEnds, Zenon
<1>5. PICK w : w = a * 64 + c4
  OBVIOUS
<1>6. w = Accumulated(c1, c2, c3, c4)
  BY <1>2, <1>5 DEF Accumulated
<1>7. o \o BlockBytes(w, 3) = Out3(o, c1, c2, c3, c4)
  <2>1. Writes(w, o, c1, c2, c3, c4)
    BY <1>6, BlockWrites, Zenon
  <2> QED BY <2>1, Zenon DEF Writes
<1> QED BY ONLY <1>4, <1>5, <1>7, Zenon DEF WgClean

\* One character of padding: two bytes.
LEMMA WgOnePad ==
  ASSUME NEW d, NEW d3, NEW e, NEW c1 \in 0 .. 63, NEW c2 \in 0 .. 63, NEW c3 \in 0 .. 63,
         NEW capacity, NEW o \in Seq(Int),
         WgClean(d, o), WgThreeRead(d, d3, c1, c2, c3, capacity), WgReads(d3, e, Pad, capacity),
         ~(Len(o) + 2 > capacity)
  PROVE  WgWith(e, 0, 0, 2, Out2(o, c1, c2, c3), FALSE)
<1>1. WgWith(d3, (c1 * 64 + c2) * 64 + c3, 3, 3, o, FALSE)
  BY WgThree, Zenon DEF WgClean
<1>2. PICK a, k : a = (c1 * 64 + c2) * 64 + c3 /\ k = 3
  OBVIOUS
<1>3. WgWith(d3, a, 3, k, o, FALSE)
  BY <1>1, <1>2, Zenon
<1>4. k > 0 /\ k - 1 = 2
  BY <1>2
<1>5. ~(Len(o) + (k - 1) > capacity)
  BY <1>4, Zenon
<1>6. WgWith(e, 0, 0, k - 1, o \o BlockBytes(a * 64, k - 1), FALSE)
  BY <1>3, <1>4, <1>5, WgPadEnds, Zenon
<1>7. PICK w, z : w = a * 64 /\ z = 0
  OBVIOUS
<1>8. z \in 0 .. 63 /\ w = Accumulated(c1, c2, c3, z)
  BY <1>2, <1>7 DEF Accumulated
<1>9. o \o BlockBytes(w, 2) = Out2(o, c1, c2, c3)
  <2>1. Writes(w, o, c1, c2, c3, z)
    BY <1>8, BlockWrites, Zenon
  <2> QED BY <2>1, Zenon DEF Writes
<1> QED BY ONLY <1>4, <1>6, <1>7, <1>9, Zenon

\* Two: one byte.
LEMMA WgTwoPads ==
  ASSUME NEW d, NEW d2, NEW d3, NEW e, NEW c1 \in 0 .. 63, NEW c2 \in 0 .. 63,
         NEW capacity, NEW o \in Seq(Int),
         WgClean(d, o), WgTwoRead(d, d2, c1, c2, capacity),
         WgReads(d2, d3, Pad, capacity), WgReads(d3, e, Pad, capacity),
         ~(Len(o) + 1 > capacity)
  PROVE  WgWith(e, 0, 0, 1, Out1(o, c1, c2), FALSE)
<1>1. WgWith(d2, c1 * 64 + c2, 2, 3, o, FALSE)
  BY WgTwo, Zenon DEF WgClean
<1>2. PICK a, n, k, j : a = c1 * 64 + c2 /\ n = 2 /\ k = 3 /\ j = 2
  OBVIOUS
<1>3. WgWith(d2, a, n, k, o, FALSE) /\ n < 3 /\ k > 0 /\ n + 1 = 3 /\ k - 1 = j /\ j > 0 /\ j - 1 = 1
  <2>1. n < 3 /\ k > 0 /\ n + 1 = 3 /\ k - 1 = j /\ j > 0 /\ j - 1 = 1
    BY <1>2
  <2> QED BY <1>1, <1>2, <2>1, Zenon
<1>4. WgWith(d3, a * 64, n + 1, k - 1, o, FALSE)
  BY <1>3, WgPad, Zenon
<1>5. PICK b : b = a * 64
  OBVIOUS
<1>6. WgWith(d3, b, 3, j, o, FALSE)
  BY ONLY <1>3, <1>4, <1>5, Zenon
<1>7. ~(Len(o) + (j - 1) > capacity)
  BY <1>3, Zenon
<1>8. WgWith(e, 0, 0, j - 1, o \o BlockBytes(b * 64, j - 1), FALSE)
  BY <1>3, <1>6, <1>7, WgPadEnds, Zenon
<1>9. PICK w, y, z : w = b * 64 /\ y = 0 /\ z = 0
  OBVIOUS
<1>10. y \in 0 .. 63 /\ z \in 0 .. 63 /\ w = Accumulated(c1, c2, y, z)
  BY <1>2, <1>5, <1>9 DEF Accumulated
<1>11. o \o BlockBytes(w, 1) = Out1(o, c1, c2)
  <2>1. Writes(w, o, c1, c2, y, z)
    BY <1>10, BlockWrites, Zenon
  <2> QED BY <2>1, Zenon DEF Writes
<1> QED BY ONLY <1>3, <1>8, <1>9, <1>11, Zenon

\* Base64Decode reads two or three characters.
UtTwoRead(d, e, c1, c2) == \E d1 : UtReads(d, d1, c1) /\ UtReads(d1, e, c2)
UtThreeRead(d, e, c1, c2, c3) == \E d2 : UtTwoRead(d, d2, c1, c2) /\ UtReads(d2, e, c3)

\* They complete one byte.
LEMMA UtTwo ==
  ASSUME NEW d, NEW e, NEW c1 \in 0 .. 63, NEW c2 \in 0 .. 63, NEW o,
         UtClean(d, o), UtTwoRead(d, e, c1, c2)
  PROVE  UtHas(e, c2, -4, Out1(o, c1, c2))
<1>1. PICK d1 : UtReads(d, d1, c1) /\ UtReads(d1, e, c2)
  BY Zenon DEF UtTwoRead
<1>2. UtHas(d1, c1, -2, o)
  BY <1>1, UtFirst, Zenon
<1>3. PICK b \in {-2, -4, -6} : b = -2
  OBVIOUS
<1>4. UtHas(e, c2, b - 2, Append(o, Completed(b, c1, c2)))
  <2>1. UtHas(d1, c1, b, o)
    BY <1>2, <1>3, Zenon
  <2> QED BY <1>1, <2>1, UtNext, Zenon
<1>5. b - 2 = -4 /\ Completed(b, c1, c2) = First(c1, c2)
  BY <1>3 DEF Completed
<1> QED BY <1>4, <1>5, Zenon DEF Out1

\* The third completes another.
LEMMA UtThree ==
  ASSUME NEW d, NEW e, NEW c1 \in 0 .. 63, NEW c2 \in 0 .. 63, NEW c3 \in 0 .. 63, NEW o,
         UtClean(d, o), UtThreeRead(d, e, c1, c2, c3)
  PROVE  UtHas(e, c3, -6, Out2(o, c1, c2, c3))
<1>1. PICK d2 : UtTwoRead(d, d2, c1, c2) /\ UtReads(d2, e, c3)
  BY Zenon DEF UtThreeRead
<1>2. UtHas(d2, c2, -4, Out1(o, c1, c2))
  BY <1>1, UtTwo, Zenon
<1>3. PICK b \in {-2, -4, -6} : b = -4
  OBVIOUS
<1>4. UtHas(e, c3, b - 2, Append(Out1(o, c1, c2), Completed(b, c2, c3)))
  <2>1. UtHas(d2, c2, b, Out1(o, c1, c2))
    BY <1>2, <1>3, Zenon
  <2> QED BY <1>1, <2>1, UtNext, Zenon
<1>5. b - 2 = -6 /\ Completed(b, c2, c3) = Second(c2, c3)
  BY <1>3 DEF Completed
<1> QED BY <1>4, <1>5, Zenon DEF Out2

\* The fourth a third one, and the block is over.
LEMMA UtFour ==
  ASSUME NEW d, NEW d3, NEW e, NEW c1 \in 0 .. 63, NEW c2 \in 0 .. 63, NEW c3 \in 0 .. 63, NEW c4 \in 0 .. 63,
         NEW o, UtClean(d, o), UtThreeRead(d, d3, c1, c2, c3), UtReads(d3, e, c4)
  PROVE  UtClean(e, Out3(o, c1, c2, c3, c4))
<1>2. UtHas(d3, c3, -6, Out2(o, c1, c2, c3))
  BY UtThree, Zenon
<1>3. PICK b \in {-2, -4, -6} : b = -6
  OBVIOUS
<1>4. UtHas(e, c4, b - 2, Append(Out2(o, c1, c2, c3), Completed(b, c3, c4)))
  <2>1. UtHas(d3, c3, b, Out2(o, c1, c2, c3))
    BY <1>2, <1>3, Zenon
  <2> QED BY <2>1, UtNext, Zenon
<1>5. b - 2 = -8 /\ Completed(b, c3, c4) = Third(c3, c4)
  BY <1>3 DEF Completed
<1>6. UtHas(e, c4, -8, Out3(o, c1, c2, c3, c4))
  BY <1>4, <1>5, Zenon DEF Out3
<1> QED BY <1>6, UtCleans, Zenon

(***************************************************************************)
(* Texts.                                                                  *)
(***************************************************************************)

\* Byte i of what t stands for.
Decoded(t, i) ==
  LET k == (i - 1) \div 3
      r == (i - 1) % 3
  IN  IF r = 0 THEN First(t[4 * k + 1], t[4 * k + 2])
      ELSE IF r = 1 THEN Second(t[4 * k + 2], t[4 * k + 3])
      ELSE Third(t[4 * k + 3], t[4 * k + 4])

\* Those of block k.
LEMMA DecodedIs ==
  ASSUME NEW t, NEW k \in Nat
  PROVE  /\ Decoded(t, 3 * k + 1) = First(t[4 * k + 1], t[4 * k + 2])
         /\ Decoded(t, 3 * k + 2) = Second(t[4 * k + 2], t[4 * k + 3])
         /\ Decoded(t, 3 * k + 3) = Third(t[4 * k + 3], t[4 * k + 4])
<1>1. /\ ((3 * k + 1) - 1) \div 3 = k /\ ((3 * k + 1) - 1) % 3 = 0
      /\ ((3 * k + 2) - 1) \div 3 = k /\ ((3 * k + 2) - 1) % 3 = 1
      /\ ((3 * k + 3) - 1) \div 3 = k /\ ((3 * k + 3) - 1) % 3 = 2
  OBVIOUS
<1> QED BY <1>1 DEF Decoded

\* o is the first n bytes.
DecodesTo(o, t, n) == o \in Seq(Int) /\ Len(o) = n /\ \A i \in 1 .. n : o[i] = Decoded(t, i)

\* One more.
LEMMA DecodesNext ==
  ASSUME NEW o, NEW t, NEW n \in Nat, NEW x \in Int, DecodesTo(o, t, n), Decoded(t, n + 1) = x
  PROVE  DecodesTo(Append(o, x), t, n + 1)
<1>1. o \in Seq(Int) /\ Len(o) = n /\ \A i \in 1 .. n : o[i] = Decoded(t, i)
  BY DEF DecodesTo
<1>2. PICK w : Appended(w, o, x)
  BY <1>1, Appends, Zenon
<1>3. /\ w = Append(o, x) /\ w \in Seq(Int) /\ Len(w) = n + 1
      /\ (\A i \in 1 .. n : w[i] = o[i]) /\ w[n + 1] = x
  BY <1>1, <1>2 DEF Appended
<1>4. ASSUME NEW i \in 1 .. n + 1 PROVE w[i] = Decoded(t, i)
  <2>1. CASE i \in 1 .. n
    BY <1>1, <1>3, <2>1, Zenon
  <2>2. CASE i = n + 1
    BY <1>3, <2>2, Zenon
  <2> QED BY <2>1, <2>2
<1>5. DecodesTo(w, t, n + 1)
  BY <1>3, <1>4, Zenon DEF DecodesTo
<1> QED BY <1>3, <1>5, Zenon

\* c1, c2, c3 and c4 are block k of t.
BlockAt(t, k, c1, c2, c3, c4) ==
  c1 = t[4 * k + 1] /\ c2 = t[4 * k + 2] /\ c3 = t[4 * k + 3] /\ c4 = t[4 * k + 4]

\* The first byte of a block.
LEMMA OutsOne ==
  ASSUME NEW o, NEW t, NEW k \in Nat, NEW c1 \in 0 .. 63, NEW c2 \in 0 .. 63, NEW c3, NEW c4,
         DecodesTo(o, t, 3 * k), BlockAt(t, k, c1, c2, c3, c4)
  PROVE  DecodesTo(Out1(o, c1, c2), t, 3 * k + 1)
<1>1. Decoded(t, 3 * k + 1) = First(c1, c2)
  BY DecodedIs, Zenon DEF BlockAt
<1>x. PICK x \in Int : x = First(c1, c2)
  BY BytesTyped, Zenon
<1>n. PICK n \in Nat : n = 3 * k
  OBVIOUS
<1>2. n = 3 * k /\ x = First(c1, c2)
  BY <1>x, <1>n, Zenon
<1>3. DecodesTo(Append(o, x), t, n + 1)
  BY <1>1, <1>2, DecodesNext, Zenon
<1> QED BY <1>2, <1>3, Zenon DEF Out1

\* The second.
LEMMA OutsTwo ==
  ASSUME NEW o, NEW t, NEW k \in Nat, NEW c1 \in 0 .. 63, NEW c2 \in 0 .. 63, NEW c3 \in 0 .. 63, NEW c4,
         DecodesTo(o, t, 3 * k), BlockAt(t, k, c1, c2, c3, c4)
  PROVE  DecodesTo(Out2(o, c1, c2, c3), t, 3 * k + 2)
<1>1. Decoded(t, 3 * k + 2) = Second(c2, c3)
  BY DecodedIs, Zenon DEF BlockAt
<1>x. PICK x \in Int : x = Second(c2, c3)
  BY BytesTyped, Zenon
<1>n. PICK n \in Nat : n = 3 * k + 1 /\ n + 1 = 3 * k + 2
  OBVIOUS
<1>2. n = 3 * k + 1 /\ n + 1 = 3 * k + 2 /\ x = Second(c2, c3)
  BY <1>x, <1>n, Zenon
<1>3. DecodesTo(Out1(o, c1, c2), t, n)
  BY <1>2, OutsOne, Zenon
<1>4. DecodesTo(Append(Out1(o, c1, c2), x), t, n + 1)
  BY <1>1, <1>2, <1>3, DecodesNext, Zenon
<1> QED BY <1>2, <1>4, Zenon DEF Out2

\* The third.
LEMMA OutsThree ==
  ASSUME NEW o, NEW t, NEW k \in Nat, NEW c1 \in 0 .. 63, NEW c2 \in 0 .. 63, NEW c3 \in 0 .. 63, NEW c4 \in 0 .. 63,
         DecodesTo(o, t, 3 * k), BlockAt(t, k, c1, c2, c3, c4)
  PROVE  DecodesTo(Out3(o, c1, c2, c3, c4), t, 3 * k + 3)
<1>1. Decoded(t, 3 * k + 3) = Third(c3, c4)
  BY DecodedIs, Zenon DEF BlockAt
<1>x. PICK x \in Int : x = Third(c3, c4)
  BY BytesTyped, Zenon
<1>n. PICK n \in Nat : n = 3 * k + 2 /\ n + 1 = 3 * k + 3
  OBVIOUS
<1>2. n = 3 * k + 2 /\ n + 1 = 3 * k + 3 /\ x = Third(c3, c4)
  BY <1>x, <1>n, Zenon
<1>3. DecodesTo(Out2(o, c1, c2, c3), t, n)
  BY <1>2, OutsTwo, Zenon
<1>4. DecodesTo(Append(Out2(o, c1, c2, c3), x), t, n + 1)
  BY <1>1, <1>2, <1>3, DecodesNext, Zenon
<1> QED BY <1>2, <1>4, Zenon DEF Out3

(***************************************************************************)
(* Whole blocks of a text.                                                 *)
(***************************************************************************)

\* The first j characters are of the alphabet.
Good(t, j) == \A i \in 1 .. j : t[i] \in 0 .. 63

\* The decoder has read block k but for its last character.
WgStepped(f, t, capacity, k) ==
  /\ WgTwoRead(f[4 * k], f[4 * k + 2], t[4 * k + 1], t[4 * k + 2], capacity)
  /\ WgThreeRead(f[4 * k], f[4 * k + 3], t[4 * k + 1], t[4 * k + 2], t[4 * k + 3], capacity)
  /\ WgReads(f[4 * k + 2], f[4 * k + 3], t[4 * k + 3], capacity)
  /\ WgReads(f[4 * k + 3], f[4 * k + 4], t[4 * k + 4], capacity)

\* A run reads each block.
LEMMA WgSteps ==
  ASSUME NEW f, NEW t, NEW capacity, NEW n \in Nat, NEW k \in Nat, WgRun(f, t, capacity, n), 4 * k + 4 <= n
  PROVE  WgStepped(f, t, capacity, k)
<1>1. \A i \in 1 .. n : WgReads(f[i - 1], f[i], t[i], capacity)
  BY Zenon DEF WgRun, WgReads
<1>2. /\ 4 * k + 1 \in 1 .. n /\ (4 * k + 1) - 1 = 4 * k
      /\ 4 * k + 2 \in 1 .. n /\ (4 * k + 2) - 1 = 4 * k + 1
      /\ 4 * k + 3 \in 1 .. n /\ (4 * k + 3) - 1 = 4 * k + 2
      /\ 4 * k + 4 \in 1 .. n /\ (4 * k + 4) - 1 = 4 * k + 3
  OBVIOUS
<1>3. /\ WgReads(f[4 * k], f[4 * k + 1], t[4 * k + 1], capacity)
      /\ WgReads(f[4 * k + 1], f[4 * k + 2], t[4 * k + 2], capacity)
      /\ WgReads(f[4 * k + 2], f[4 * k + 3], t[4 * k + 3], capacity)
      /\ WgReads(f[4 * k + 3], f[4 * k + 4], t[4 * k + 4], capacity)
  BY ONLY <1>1, <1>2
<1> QED BY <1>3, Zenon DEF WgStepped, WgTwoRead, WgThreeRead

\* The other decoder has.
UtStepped(f, t, k) ==
  /\ UtTwoRead(f[4 * k], f[4 * k + 2], t[4 * k + 1], t[4 * k + 2])
  /\ UtThreeRead(f[4 * k], f[4 * k + 3], t[4 * k + 1], t[4 * k + 2], t[4 * k + 3])
  /\ UtReads(f[4 * k + 2], f[4 * k + 3], t[4 * k + 3])
  /\ UtReads(f[4 * k + 3], f[4 * k + 4], t[4 * k + 4])

\* Its run reads each block.
LEMMA UtSteps ==
  ASSUME NEW f, NEW t, NEW n \in Nat, NEW k \in Nat, UtRun(f, t, n), 4 * k + 4 <= n
  PROVE  UtStepped(f, t, k)
<1>1. \A i \in 1 .. n : UtReads(f[i - 1], f[i], t[i])
  BY Zenon DEF UtRun, UtReads
<1>2. /\ 4 * k + 1 \in 1 .. n /\ (4 * k + 1) - 1 = 4 * k
      /\ 4 * k + 2 \in 1 .. n /\ (4 * k + 2) - 1 = 4 * k + 1
      /\ 4 * k + 3 \in 1 .. n /\ (4 * k + 3) - 1 = 4 * k + 2
      /\ 4 * k + 4 \in 1 .. n /\ (4 * k + 4) - 1 = 4 * k + 3
  OBVIOUS
<1>3. /\ UtReads(f[4 * k], f[4 * k + 1], t[4 * k + 1])
      /\ UtReads(f[4 * k + 1], f[4 * k + 2], t[4 * k + 2])
      /\ UtReads(f[4 * k + 2], f[4 * k + 3], t[4 * k + 3])
      /\ UtReads(f[4 * k + 3], f[4 * k + 4], t[4 * k + 4])
  BY ONLY <1>1, <1>2
<1> QED BY <1>3, Zenon DEF UtStepped, UtTwoRead, UtThreeRead

\* Both have written the bytes of the first k blocks.
BothAt(f, g, t, k) == \E o : WgClean(f[4 * k], o) /\ UtClean(g[4 * k], o) /\ DecodesTo(o, t, 3 * k)

\* Two runs on a text that starts with b blocks, of which a buffer holds the bytes.
BothRun(f, g, t, c1, n, b) ==
  /\ n \in Nat /\ b \in Nat /\ c1 \in Int /\ WgRun(f, t, c1, n) /\ UtRun(g, t, n)
  /\ 4 * b <= n /\ 3 * b <= c1 /\ Good(t, 4 * b)

\* They get through all of them with the same bytes.
LEMMA WholeBlocks ==
  ASSUME NEW f, NEW g, NEW t, NEW c1, NEW n, NEW b, BothRun(f, g, t, c1, n, b)
  PROVE  BothAt(f, g, t, b)
<1>0. /\ n \in Nat /\ b \in Nat /\ c1 \in Int /\ WgRun(f, t, c1, n) /\ UtRun(g, t, n)
      /\ 4 * b <= n /\ 3 * b <= c1 /\ Good(t, 4 * b)
  BY Zenon DEF BothRun
<1> DEFINE Has == {k \in Nat : k <= b => BothAt(f, g, t, k)}
<1>1. 0 \in Has
  <2>1. PICK o : o = <<>>
    OBVIOUS
  <2>2. DecodesTo(o, t, 0)
    <3>1. o \in Seq(Int) /\ Len(o) = 0 /\ \A i \in 1 .. 0 : o[i] = Decoded(t, i)
      BY <2>1
    <3> QED BY <3>1, Zenon DEF DecodesTo
  <2>3. WgClean(f[0], o)
    <3>1. f[0] = WgStart
      BY <1>0, Zenon DEF WgRun
    <3>2. WgWith(WgStart, 0, 0, 3, <<>>, FALSE)
      BY WgStarts DEF WgWith, WgStart
    <3> QED BY <2>1, <3>1, <3>2, Zenon DEF WgClean
  <2>4. UtClean(g[0], o)
    <3>1. g[0] = UtStart
      BY <1>0, Zenon DEF UtRun
    <3>2. UtClean(UtStart, <<>>)
      BY UtStarts DEF UtClean, UtStart
    <3> QED BY <2>1, <3>1, <3>2, Zenon
  <2>5. \A k : k = 0 => 4 * k = 0 /\ 3 * k = 0
    OBVIOUS
  <2>6. BothAt(f, g, t, 0)
    BY <2>2, <2>3, <2>4, <2>5, Zenon DEF BothAt
  <2> QED BY <2>6
<1>2. ASSUME NEW k \in Nat, k \in Has PROVE k + 1 \in Has
  <2> SUFFICES ASSUME k + 1 <= b PROVE BothAt(f, g, t, k + 1)
    OBVIOUS
  <2>1. BothAt(f, g, t, k)
    BY <1>2, <1>0
  <2>2. PICK o : WgClean(f[4 * k], o) /\ UtClean(g[4 * k], o) /\ DecodesTo(o, t, 3 * k)
    BY <2>1, Zenon DEF BothAt
  <2>3. 4 * k + 4 <= n /\ 3 * k + 3 <= c1 /\ 4 * (k + 1) = 4 * k + 4 /\ 3 * (k + 1) = 3 * k + 3
    BY <1>0
  <2>4. PICK a1, a2, a3, a4 : BlockAt(t, k, a1, a2, a3, a4)
    BY Zenon DEF BlockAt
  <2>5. a1 \in 0 .. 63 /\ a2 \in 0 .. 63 /\ a3 \in 0 .. 63 /\ a4 \in 0 .. 63
    <3>1. 4 * k + 1 \in 1 .. 4 * b /\ 4 * k + 2 \in 1 .. 4 * b /\ 4 * k + 3 \in 1 .. 4 * b /\ 4 * k + 4 \in 1 .. 4 * b
      BY <1>0
    <3> QED BY <1>0, <2>4, <3>1, Zenon DEF BlockAt, Good
  <2>6. WgStepped(f, t, c1, k) /\ UtStepped(g, t, k)
    BY <1>0, <2>3, WgSteps, UtSteps, Zenon
  <2>7. /\ WgThreeRead(f[4 * k], f[4 * k + 3], a1, a2, a3, c1) /\ WgReads(f[4 * k + 3], f[4 * k + 4], a4, c1)
        /\ UtThreeRead(g[4 * k], g[4 * k + 3], a1, a2, a3) /\ UtReads(g[4 * k + 3], g[4 * k + 4], a4)
    BY <2>4, <2>6, Zenon DEF BlockAt, WgStepped, UtStepped
  <2>8. o \in Seq(Int) /\ ~(Len(o) + 3 > c1)
    <3>1. o \in Seq(Int) /\ Len(o) = 3 * k
      BY <2>2, Zenon DEF DecodesTo
    <3> QED BY <1>0, <2>3, <3>1
  <2>9. WgClean(f[4 * k + 4], Out3(o, a1, a2, a3, a4))
    BY <2>2, <2>5, <2>7, <2>8, WgFour, Zenon
  <2>10. UtClean(g[4 * k + 4], Out3(o, a1, a2, a3, a4))
    BY <2>2, <2>5, <2>7, UtFour, Zenon
  <2>11. DecodesTo(Out3(o, a1, a2, a3, a4), t, 3 * k + 3)
    BY <2>2, <2>4, <2>5, OutsThree, Zenon
  <2> QED BY <2>3, <2>9, <2>10, <2>11, Zenon DEF BothAt
<1>3. b \in Has
  <2> HIDE DEF Has
  <2> QED BY <1>0, <1>1, <1>2, SetInduction
<1> QED BY <1>0, <1>3

(***************************************************************************)
(* Texts that both decode.                                                 *)
(***************************************************************************)

\* A decoder decodes t to o.
WgGives(t, capacity, o) == WgDecode(t, capacity) = [ok |-> TRUE, out |-> o]
UtGives(t, capacity, o) == UtilDecode(t, capacity) = [ok |-> TRUE, out |-> o]

\* Both decode t to its first m bytes.
BothDecode(t, capacity, m) ==
  \E o : DecodesTo(o, t, m) /\ WgGives(t, capacity, o) /\ UtGives(t, capacity, o)

\* Where a run ends well.
WgEnd(y, o) == y.failed = FALSE /\ y.count = 0 /\ y.out = o
UtEnd(y, o) == y.failed = FALSE /\ y.out = o

\* wireguard_base64_decode returns what it has written.
LEMMA WgSucceeds ==
  ASSUME NEW f, NEW t, NEW capacity, NEW n, NEW o, WgRun(f, t, capacity, n), WgEnd(f[n], o)
  PROVE  WgGives(t, capacity, o)
<1>1. WgDecode(t, capacity) = [ok |-> ~f[n].failed /\ f[n].count = 0, out |-> f[n].out]
  BY WgResult, Zenon
<1>2. f[n].failed = FALSE /\ f[n].count = 0 /\ f[n].out = o
  BY Zenon DEF WgEnd
<1>3. (~f[n].failed /\ f[n].count = 0) = TRUE
  BY <1>2
<1> QED BY <1>1, <1>2, <1>3, Zenon DEF WgGives

\* A text that Base64Decode looks at.
Fits(t, capacity) == ~(t = <<>> \/ Len(t) % 4 # 0 \/ capacity < Expected(t))

\* So does Base64Decode.
LEMMA UtSucceeds ==
  ASSUME NEW f, NEW t, NEW capacity, NEW n, NEW o, UtRun(f, t, n), Fits(t, capacity), UtEnd(f[n], o)
  PROVE  UtGives(t, capacity, o)
<1>1. UtilDecode(t, capacity) = [ok |-> ~f[n].failed, out |-> f[n].out]
  <2>1. UtDecode(t, capacity, f, n)
    BY UtResult, Zenon
  <2> QED BY <2>1, Zenon DEF UtDecode, Fits
<1>2. f[n].failed = FALSE /\ f[n].out = o
  BY Zenon DEF UtEnd
<1>3. (~f[n].failed) = TRUE
  BY <1>2
<1> QED BY <1>1, <1>2, <1>3, Zenon DEF UtGives

\* t is n characters with b whole blocks: nothing more, or one block with padding.
Plain(t, n, b) ==
  t \in Seq(Int) /\ n = Len(t) /\ b \in Nat /\ b > 0 /\ n = 4 * b /\ Good(t, 4 * b)
OnePad(t, n, b) ==
  t \in Seq(Int) /\ n = Len(t) /\ b \in Nat /\ n = 4 * b + 4 /\ Good(t, 4 * b + 3) /\ t[n] = Pad
TwoPads(t, n, b) ==
  /\ t \in Seq(Int) /\ n = Len(t) /\ b \in Nat /\ n = 4 * b + 4 /\ Good(t, 4 * b + 2)
  /\ t[4 * b + 3] = Pad /\ t[n] = Pad

\* Such a text has runs, which get through its whole blocks.
LEMMA BothStart ==
  ASSUME NEW t \in Seq(Int), NEW n, NEW b \in Nat, NEW c \in Int,
         n = Len(t), 4 * b <= n, 3 * b <= c, Good(t, 4 * b)
  PROVE  \E f, g : WgRun(f, t, c, n) /\ UtRun(g, t, n) /\ BothAt(f, g, t, b)
<1>1. n \in Nat
  BY LenProperties, Zenon
<1>2. PICK f : WgRun(f, t, c, n)
  BY <1>1, WgRuns, Zenon
<1>3. PICK g : UtRun(g, t, n)
  BY <1>1, UtRuns, Zenon
<1>4. BothRun(f, g, t, c, n, b)
  BY <1>1, <1>2, <1>3, Zenon DEF BothRun
<1> QED BY <1>2, <1>3, <1>4, WholeBlocks, Zenon

\* Whole blocks only.
LEMMA DecodesPlain ==
  ASSUME NEW t, NEW n, NEW b, NEW c \in Int, Plain(t, n, b), 3 * b <= c
  PROVE  BothDecode(t, c, 3 * b)
<1>0. t \in Seq(Int) /\ n = Len(t) /\ b \in Nat /\ b > 0 /\ n = 4 * b /\ Good(t, 4 * b)
  BY Zenon DEF Plain
<1>1. PICK f, g : WgRun(f, t, c, n) /\ UtRun(g, t, n) /\ BothAt(f, g, t, b)
  <2>1. 4 * b <= n
    BY <1>0
  <2> QED BY <1>0, <2>1, BothStart, Zenon
<1>2. PICK o : WgClean(f[n], o) /\ UtClean(g[n], o) /\ DecodesTo(o, t, 3 * b)
  BY <1>0, <1>1, Zenon DEF BothAt
<1>3. WgEnd(f[n], o) /\ UtEnd(g[n], o)
  BY <1>2, Zenon DEF WgClean, WgWith, WgEnd, UtClean, UtEnd
<1>4. Fits(t, c)
  <2>1. t[n] # Pad /\ t[n - 1] # Pad
    <3>1. n \in 1 .. 4 * b /\ n - 1 \in 1 .. 4 * b
      BY <1>0
    <3>2. t[n] \in 0 .. 63 /\ t[n - 1] \in 0 .. 63
      BY <1>0, <3>1, Zenon DEF Good
    <3> QED BY <3>2 DEF Pad
  <2>2. n % 4 = 0 /\ n \div 4 = b /\ t # <<>>
    <3>1. n % 4 = 0 /\ n \div 4 = b /\ n # 0
      BY <1>0
    <3>2. Len(<<>>) = 0
      OBVIOUS
    <3>3. t # <<>>
      BY <1>0, <3>1, <3>2, Zenon
    <3> QED BY <3>1, <3>3, Zenon
  <2>3. Expected(t) = 3 * b
    BY <1>0, <2>1, <2>2 DEF Expected
  <2> QED BY <1>0, <2>2, <2>3 DEF Fits
<1> QED BY <1>1, <1>2, <1>3, <1>4, WgSucceeds, UtSucceeds, Zenon DEF BothDecode

\* Base64Decode looks at such a text.
LEMMA KeysFit ==
  ASSUME NEW t, NEW n, NEW b, NEW c \in Int, OnePad(t, n, b), 3 * b + 2 <= c
  PROVE  Fits(t, c)
<1>0. t \in Seq(Int) /\ n = Len(t) /\ b \in Nat /\ n = 4 * b + 4 /\ Good(t, 4 * b + 3) /\ t[n] = Pad
  BY Zenon DEF OnePad
<1>1. t[n - 1] # Pad
  <2>1. n - 1 \in 1 .. 4 * b + 3
    BY <1>0
  <2>2. t[n - 1] \in 0 .. 63
    BY <1>0, <2>1, Zenon DEF Good
  <2> QED BY <2>2 DEF Pad
<1>2. n % 4 = 0 /\ n \div 4 = b + 1 /\ t # <<>>
  <2>1. n % 4 = 0 /\ n \div 4 = b + 1 /\ n # 0
    BY <1>0
  <2>2. Len(<<>>) = 0
    OBVIOUS
  <2>3. t # <<>>
    BY <1>0, <2>1, <2>2, Zenon
  <2> QED BY <2>1, <2>3, Zenon
<1>3. Expected(t) = 3 * b + 2
  BY <1>0, <1>1, <1>2 DEF Expected
<1> QED BY <1>0, <1>2, <1>3 DEF Fits

\* A last block with one character of padding.
LEMMA DecodesOnePad ==
  ASSUME NEW t, NEW n, NEW b, NEW c \in Int, OnePad(t, n, b), 3 * b + 2 <= c
  PROVE  BothDecode(t, c, 3 * b + 2)
<1>0. t \in Seq(Int) /\ n = Len(t) /\ b \in Nat /\ n = 4 * b + 4 /\ Good(t, 4 * b + 3) /\ t[n] = Pad
  BY Zenon DEF OnePad
<1>1. PICK f, g : WgRun(f, t, c, n) /\ UtRun(g, t, n) /\ BothAt(f, g, t, b)
  <2>1. 4 * b <= n /\ 3 * b <= c
    BY <1>0
  <2>2. Good(t, 4 * b)
    BY <1>0 DEF Good
  <2> QED BY <1>0, <2>1, <2>2, BothStart, Zenon
<1>2. PICK o : WgClean(f[4 * b], o) /\ UtClean(g[4 * b], o) /\ DecodesTo(o, t, 3 * b)
  BY <1>1, Zenon DEF BothAt
<1>3. PICK a1, a2, a3, a4 : BlockAt(t, b, a1, a2, a3, a4)
  BY Zenon DEF BlockAt
<1>4. a1 \in 0 .. 63 /\ a2 \in 0 .. 63 /\ a3 \in 0 .. 63 /\ a4 = Pad
  <2>1. 4 * b + 1 \in 1 .. 4 * b + 3 /\ 4 * b + 2 \in 1 .. 4 * b + 3 /\ 4 * b + 3 \in 1 .. 4 * b + 3
    BY <1>0
  <2> QED BY <1>0, <1>3, <2>1, Zenon DEF BlockAt, Good
<1>5. WgStepped(f, t, c, b) /\ UtStepped(g, t, b)
  <2>1. n \in Nat /\ 4 * b + 4 <= n
    BY <1>0
  <2> QED BY <1>0, <1>1, <2>1, WgSteps, UtSteps, Zenon
<1>6. /\ WgThreeRead(f[4 * b], f[4 * b + 3], a1, a2, a3, c) /\ WgReads(f[4 * b + 3], f[n], Pad, c)
      /\ UtThreeRead(g[4 * b], g[4 * b + 3], a1, a2, a3) /\ UtReads(g[4 * b + 3], g[n], Pad)
  BY <1>0, <1>3, <1>4, <1>5, Zenon DEF BlockAt, WgStepped, UtStepped
<1>7. o \in Seq(Int) /\ ~(Len(o) + 2 > c)
  <2>1. o \in Seq(Int) /\ Len(o) = 3 * b
    BY <1>2, Zenon DEF DecodesTo
  <2> QED BY <1>0, <2>1
<1>8. WgWith(f[n], 0, 0, 2, Out2(o, a1, a2, a3), FALSE)
  BY <1>2, <1>4, <1>6, <1>7, WgOnePad, Zenon
<1>9. UtDone(g[n], Out2(o, a1, a2, a3))
  <2>1. UtHas(g[4 * b + 3], a3, -6, Out2(o, a1, a2, a3))
    BY <1>2, <1>4, <1>6, UtThree, Zenon
  <2> QED BY <1>6, <2>1, UtEnds, Zenon
<1>10. WgEnd(f[n], Out2(o, a1, a2, a3)) /\ UtEnd(g[n], Out2(o, a1, a2, a3))
  BY <1>8, <1>9, Zenon DEF WgWith, WgEnd, UtDone, UtEnd
<1>11. DecodesTo(Out2(o, a1, a2, a3), t, 3 * b + 2)
  BY <1>0, <1>2, <1>3, <1>4, OutsTwo, Zenon
<1>12. Fits(t, c)
  BY KeysFit, Zenon
<1> QED BY <1>1, <1>10, <1>11, <1>12, WgSucceeds, UtSucceeds, Zenon DEF BothDecode

\* Both decoders give the same.
SameFrom(t, c) == WgDecode(t, c) = UtilDecode(t, c)

\* As big as the buffer, both decode it to the same.
LEMMA KeysDecode ==
  ASSUME NEW t, NEW n, NEW b \in Nat, NEW c, OnePad(t, n, b), c = 3 * b + 2
  PROVE  SameFrom(t, c)
<1>1. c \in Int /\ 3 * b + 2 <= c
  OBVIOUS
<1>2. BothDecode(t, c, 3 * b + 2)
  BY <1>1, DecodesOnePad, Zenon
<1> QED BY <1>2, Zenon DEF BothDecode, WgGives, UtGives, SameFrom

\* One with two.
LEMMA DecodesTwoPads ==
  ASSUME NEW t, NEW n, NEW b, NEW c \in Int, TwoPads(t, n, b), 3 * b + 1 <= c
  PROVE  BothDecode(t, c, 3 * b + 1)
<1>0. /\ t \in Seq(Int) /\ n = Len(t) /\ b \in Nat /\ n = 4 * b + 4 /\ Good(t, 4 * b + 2)
      /\ t[4 * b + 3] = Pad /\ t[n] = Pad
  BY Zenon DEF TwoPads
<1>1. PICK f, g : WgRun(f, t, c, n) /\ UtRun(g, t, n) /\ BothAt(f, g, t, b)
  <2>1. 4 * b <= n /\ 3 * b <= c
    BY <1>0
  <2>2. Good(t, 4 * b)
    BY <1>0 DEF Good
  <2> QED BY <1>0, <2>1, <2>2, BothStart, Zenon
<1>2. PICK o : WgClean(f[4 * b], o) /\ UtClean(g[4 * b], o) /\ DecodesTo(o, t, 3 * b)
  BY <1>1, Zenon DEF BothAt
<1>3. PICK a1, a2, a3, a4 : BlockAt(t, b, a1, a2, a3, a4)
  BY Zenon DEF BlockAt
<1>4. a1 \in 0 .. 63 /\ a2 \in 0 .. 63 /\ a3 = Pad /\ a4 = Pad
  <2>1. 4 * b + 1 \in 1 .. 4 * b + 2 /\ 4 * b + 2 \in 1 .. 4 * b + 2
    BY <1>0
  <2> QED BY <1>0, <1>3, <2>1, Zenon DEF BlockAt, Good
<1>5. WgStepped(f, t, c, b) /\ UtStepped(g, t, b)
  <2>1. n \in Nat /\ 4 * b + 4 <= n
    BY <1>0
  <2> QED BY <1>0, <1>1, <2>1, WgSteps, UtSteps, Zenon
<1>6. /\ WgTwoRead(f[4 * b], f[4 * b + 2], a1, a2, c)
      /\ WgReads(f[4 * b + 2], f[4 * b + 3], Pad, c) /\ WgReads(f[4 * b + 3], f[n], Pad, c)
      /\ UtTwoRead(g[4 * b], g[4 * b + 2], a1, a2)
      /\ UtReads(g[4 * b + 2], g[4 * b + 3], Pad) /\ UtReads(g[4 * b + 3], g[n], Pad)
  BY <1>0, <1>3, <1>4, <1>5, Zenon DEF BlockAt, WgStepped, UtStepped
<1>7. o \in Seq(Int) /\ ~(Len(o) + 1 > c)
  <2>1. o \in Seq(Int) /\ Len(o) = 3 * b
    BY <1>2, Zenon DEF DecodesTo
  <2> QED BY <1>0, <2>1
<1>8. WgWith(f[n], 0, 0, 1, Out1(o, a1, a2), FALSE)
  BY <1>2, <1>4, <1>6, <1>7, WgTwoPads, Zenon
<1>9. UtDone(g[n], Out1(o, a1, a2))
  <2>1. UtHas(g[4 * b + 2], a2, -4, Out1(o, a1, a2))
    BY <1>2, <1>4, <1>6, UtTwo, Zenon
  <2>2. UtDone(g[4 * b + 3], Out1(o, a1, a2))
    BY <1>6, <2>1, UtEnds, Zenon
  <2> QED BY <1>6, <2>2, UtRests, Zenon
<1>10. WgEnd(f[n], Out1(o, a1, a2)) /\ UtEnd(g[n], Out1(o, a1, a2))
  BY <1>8, <1>9, Zenon DEF WgWith, WgEnd, UtDone, UtEnd
<1>11. DecodesTo(Out1(o, a1, a2), t, 3 * b + 1)
  BY <1>0, <1>2, <1>3, <1>4, OutsOne, Zenon
<1>12. Fits(t, c)
  <2>1. n - 1 = 4 * b + 3
    BY <1>0
  <2>2. n % 4 = 0 /\ n \div 4 = b + 1 /\ t # <<>>
    <3>1. n % 4 = 0 /\ n \div 4 = b + 1 /\ n # 0
      BY <1>0
    <3>2. Len(<<>>) = 0
      OBVIOUS
    <3>3. t # <<>>
      BY <1>0, <3>1, <3>2, Zenon
    <3> QED BY <3>1, <3>3, Zenon
  <2>3. Expected(t) = 3 * b + 1
    BY <1>0, <2>1, <2>2 DEF Expected
  <2> QED BY <1>0, <2>2, <2>3 DEF Fits
<1> QED BY <1>1, <1>10, <1>11, <1>12, WgSucceeds, UtSucceeds, Zenon DEF BothDecode

(***************************************************************************)
(* The encoders.                                                           *)
(***************************************************************************)

\* The six bits of block k of b, which has those bytes.
SixAt(b, k, c1, c2, c3, c4) ==
  /\ c1 \in 0 .. 63 /\ c2 \in 0 .. 63 /\ c3 \in 0 .. 63 /\ c4 \in 0 .. 63
  /\ SixBits(b, 4 * k) = c1 /\ SixBits(b, 4 * k + 1) = c2
  /\ SixBits(b, 4 * k + 2) = c3 /\ SixBits(b, 4 * k + 3) = c4
  /\ First(c1, c2) = Byte(b, 3 * k + 1) /\ Second(c2, c3) = Byte(b, 3 * k + 2)
  /\ Third(c3, c4) = Byte(b, 3 * k + 3)

\* A byte to encode.
LEMMA ByteTyped ==
  ASSUME NEW b \in Seq(0 .. 255), NEW i \in Nat \ {0}
  PROVE  Byte(b, i) \in 0 .. 255
<1>1. CASE i <= Len(b)
  <2>1. i \in 1 .. Len(b)
    BY <1>1
  <2>2. b[i] \in 0 .. 255
    BY <2>1, ElementOfSeq
  <2> QED BY <1>1, <2>2 DEF Byte
<1>2. CASE ~(i <= Len(b))
  BY <1>2 DEF Byte
<1> QED BY <1>1, <1>2

\* Every block is encoded.
LEMMA SixBitsOf ==
  ASSUME NEW b \in Seq(0 .. 255), NEW k \in Nat
  PROVE  \E c1, c2, c3, c4 : SixAt(b, k, c1, c2, c3, c4)
<1>1. PICK x \in 0 .. 255, y \in 0 .. 255, z \in 0 .. 255 :
        x = Byte(b, 3 * k + 1) /\ y = Byte(b, 3 * k + 2) /\ z = Byte(b, 3 * k + 3)
  <2>1. 3 * k + 1 \in Nat \ {0} /\ 3 * k + 2 \in Nat \ {0} /\ 3 * k + 3 \in Nat \ {0}
    OBVIOUS
  <2> QED BY <2>1, ByteTyped, Zenon
<1>2. PICK a : a = Triple(b, k)
  OBVIOUS
<1>3. a = Number(x, y, z)
  BY <1>1, <1>2 DEF Triple, Number
<1>4. PICK c1, c2, c3, c4 : Encodes(c1, c2, c3, c4, a, x, y, z)
  BY ONLY <1>3, x \in 0 .. 255, y \in 0 .. 255, z \in 0 .. 255, FourOfBytes, Zenon
<1>5. /\ (4 * k) \div 4 = k /\ (4 * k) % 4 = 0 /\ (4 * k + 1) \div 4 = k /\ (4 * k + 1) % 4 = 1
      /\ (4 * k + 2) \div 4 = k /\ (4 * k + 2) % 4 = 2 /\ (4 * k + 3) \div 4 = k /\ (4 * k + 3) % 4 = 3
  OBVIOUS
<1>6. /\ SixBits(b, 4 * k) = (a \div (64 ^ (3 - 0))) % 64
      /\ SixBits(b, 4 * k + 1) = (a \div (64 ^ (3 - 1))) % 64
      /\ SixBits(b, 4 * k + 2) = (a \div (64 ^ (3 - 2))) % 64
      /\ SixBits(b, 4 * k + 3) = (a \div (64 ^ (3 - 3))) % 64
  BY <1>2, <1>5, Zenon DEF SixBits
<1>7. /\ c1 \in 0 .. 63 /\ c2 \in 0 .. 63 /\ c3 \in 0 .. 63 /\ c4 \in 0 .. 63
      /\ (a \div 262144) % 64 = c1 /\ (a \div 4096) % 64 = c2 /\ (a \div 64) % 64 = c3
      /\ (a \div 1) % 64 = c4
      /\ First(c1, c2) = x /\ Second(c2, c3) = y /\ Third(c3, c4) = z
  BY ONLY <1>4 DEF Encodes
<1>8. 64 ^ (3 - 0) = 262144 /\ 64 ^ (3 - 1) = 4096 /\ 64 ^ (3 - 2) = 64 /\ 64 ^ (3 - 3) = 1
  OBVIOUS
<1>9. /\ SixBits(b, 4 * k) = c1 /\ SixBits(b, 4 * k + 1) = c2
      /\ SixBits(b, 4 * k + 2) = c3 /\ SixBits(b, 4 * k + 3) = c4
  BY ONLY <1>6, <1>7, <1>8
<1>10. SixAt(b, k, c1, c2, c3, c4)
  BY ONLY <1>1, <1>7, <1>9 DEF SixAt
<1> QED BY <1>10, Zenon

\* The first m characters of t are those of the encoding of b.
SixUpTo(t, b, m) == \A i \in 1 .. m : t[i] = SixBits(b, i - 1)

\* They stand for its bytes.
LEMMA EncodedByte ==
  ASSUME NEW t, NEW b \in Seq(0 .. 255), NEW m \in Nat, NEW k \in Nat, NEW r \in 0 .. 2,
         SixUpTo(t, b, m), 4 * k + 2 + r <= m
  PROVE  Decoded(t, 3 * k + r + 1) = Byte(b, 3 * k + r + 1)
<1>1. PICK c1, c2, c3, c4 : SixAt(b, k, c1, c2, c3, c4)
  BY SixBitsOf, Zenon
<1>2. /\ SixBits(b, 4 * k) = c1 /\ SixBits(b, 4 * k + 1) = c2
      /\ SixBits(b, 4 * k + 2) = c3 /\ SixBits(b, 4 * k + 3) = c4
      /\ First(c1, c2) = Byte(b, 3 * k + 1) /\ Second(c2, c3) = Byte(b, 3 * k + 2)
      /\ Third(c3, c4) = Byte(b, 3 * k + 3)
  BY <1>1, Zenon DEF SixAt
<1>3. /\ 4 * k + 1 <= m => t[4 * k + 1] = c1
      /\ 4 * k + 2 <= m => t[4 * k + 2] = c2
      /\ 4 * k + 3 <= m => t[4 * k + 3] = c3
      /\ 4 * k + 4 <= m => t[4 * k + 4] = c4
  <2>1. /\ 4 * k + 1 <= m => 4 * k + 1 \in 1 .. m
        /\ 4 * k + 2 <= m => 4 * k + 2 \in 1 .. m
        /\ 4 * k + 3 <= m => 4 * k + 3 \in 1 .. m
        /\ 4 * k + 4 <= m => 4 * k + 4 \in 1 .. m
        /\ (4 * k + 1) - 1 = 4 * k /\ (4 * k + 2) - 1 = 4 * k + 1
        /\ (4 * k + 3) - 1 = 4 * k + 2 /\ (4 * k + 4) - 1 = 4 * k + 3
    OBVIOUS
  <2>2. \A i \in 1 .. m : t[i] = SixBits(b, i - 1)
    BY Zenon DEF SixUpTo
  <2> QED BY ONLY <1>2, <2>1, <2>2
<1>4. /\ Decoded(t, 3 * k + 1) = First(t[4 * k + 1], t[4 * k + 2])
      /\ Decoded(t, 3 * k + 2) = Second(t[4 * k + 2], t[4 * k + 3])
      /\ Decoded(t, 3 * k + 3) = Third(t[4 * k + 3], t[4 * k + 4])
  BY DecodedIs, Zenon
<1>5. CASE r = 0
  <2>1. 4 * k + 1 <= m /\ 4 * k + 2 <= m /\ 3 * k + r + 1 = 3 * k + 1
    BY <1>5
  <2> QED BY ONLY <1>2, <1>3, <1>4, <2>1, Zenon
<1>6. CASE r = 1
  <2>1. 4 * k + 2 <= m /\ 4 * k + 3 <= m /\ 3 * k + r + 1 = 3 * k + 2
    BY <1>6
  <2> QED BY ONLY <1>2, <1>3, <1>4, <2>1, Zenon
<1>7. CASE r = 2
  <2>1. 4 * k + 3 <= m /\ 4 * k + 4 <= m /\ 3 * k + r + 1 = 3 * k + 3
    BY <1>7
  <2> QED BY ONLY <1>2, <1>3, <1>4, <2>1, Zenon
<1> QED BY <1>5, <1>6, <1>7

\* They are of the alphabet.
LEMMA EncodedGood ==
  ASSUME NEW t, NEW b \in Seq(0 .. 255), NEW m \in Nat, SixUpTo(t, b, m)
  PROVE  Good(t, m)
<1> SUFFICES ASSUME NEW i \in 1 .. m PROVE t[i] \in 0 .. 63
  BY Zenon DEF Good
<1>1. PICK k \in Nat : i - 1 = 4 * k \/ i - 1 = 4 * k + 1 \/ i - 1 = 4 * k + 2 \/ i - 1 = 4 * k + 3
  <2>1. PICK k \in Nat : k = (i - 1) \div 4
    OBVIOUS
  <2>2. i - 1 = 4 * k \/ i - 1 = 4 * k + 1 \/ i - 1 = 4 * k + 2 \/ i - 1 = 4 * k + 3
    BY <2>1
  <2> QED BY <2>2
<1>2. PICK c1, c2, c3, c4 : SixAt(b, k, c1, c2, c3, c4)
  BY SixBitsOf, Zenon
<1>3. SixBits(b, i - 1) \in 0 .. 63
  BY <1>1, <1>2, Zenon DEF SixAt
<1> QED BY <1>3, Zenon DEF SixUpTo

\* b is N blocks, of which padding makes up the last p bytes.
Shape(b, N, p) ==
  /\ N \in Nat /\ p \in 0 .. 2 /\ b \in Seq(0 .. 255) /\ N > 0
  /\ Len(b) = 3 * N - p /\ EncodedLength(b) = 4 * N /\ Padding(b) = p

\* Bytes have a shape.
LEMMA Shapes ==
  ASSUME NEW b \in Seq(0 .. 255), b # <<>>
  PROVE  \E N, p : Shape(b, N, p)
<1>1. PICK L \in Nat : L = Len(b) /\ L > 0
  BY LenProperties, EmptySeq
<1>a. PICK N \in Nat : N = (L + 2) \div 3
  OBVIOUS
<1>b. PICK r \in 0 .. 2 : r = L % 3
  OBVIOUS
<1>c. PICK p \in 0 .. 2 : p = IF L % 3 = 0 THEN 0 ELSE 3 - (L % 3)
  BY <1>b
<1>2. N = (L + 2) \div 3 /\ p = IF L % 3 = 0 THEN 0 ELSE 3 - (L % 3)
  BY <1>a, <1>c, Zenon
<1>3. N > 0 /\ L = 3 * N - p
  <2>1. r = 0 => L = 3 * N /\ p = 0
    BY <1>a, <1>b, <1>c
  <2>2. r = 1 => L + 2 = 3 * N /\ p = 2
    BY <1>a, <1>b, <1>c
  <2>3. r = 2 => L + 1 = 3 * N /\ p = 1
    BY <1>a, <1>b, <1>c
  <2> QED BY ONLY <1>1, <2>1, <2>2, <2>3, L \in Nat, N \in Nat, r \in 0 .. 2
<1>4. EncodedLength(b) = 4 * N /\ Padding(b) = p
  BY <1>1, <1>2, Zenon DEF EncodedLength, Padding
<1>5. Shape(b, N, p)
  BY <1>1, <1>3, <1>4, Zenon DEF Shape
<1> QED BY <1>5, Zenon

\* The first n bytes that t stands for are those of b.
StandsForBytes(t, b, n) == \A i \in 1 .. n : Decoded(t, i) = Byte(b, i)

\* t, of which all but q characters at the end are of the encoding, stands for all of b.
LEMMA EncodedBytes ==
  ASSUME NEW t, NEW b, NEW N, NEW p, NEW q \in 0 .. 2, Shape(b, N, p), SixUpTo(t, b, 4 * N - q)
  PROVE  StandsForBytes(t, b, 3 * N - q)
<1>0. N \in Nat /\ b \in Seq(0 .. 255) /\ N > 0
  BY Zenon DEF Shape
<1> SUFFICES ASSUME NEW i \in 1 .. 3 * N - q PROVE Decoded(t, i) = Byte(b, i)
  BY Zenon DEF StandsForBytes
<1>k. PICK k \in Nat : k = (i - 1) \div 3
  BY <1>0
<1>r. PICK r \in 0 .. 2 : r = (i - 1) % 3
  BY <1>0
<1>1. k = (i - 1) \div 3 /\ r = (i - 1) % 3
  BY <1>k, <1>r
<1>2. i = 3 * k + r + 1
  BY <1>0, <1>1
<1>3. PICK m \in Nat : m = 4 * N - q
  BY <1>0
<1>4. 4 * k + 2 + r <= m
  <2>1. CASE k <= N - 2
    BY <1>0, <1>3, <2>1
  <2>2. CASE k = N - 1
    BY <1>0, <1>2, <1>3, <2>2
  <2>3. k <= N - 1
    BY <1>0, <1>2
  <2> QED BY <1>0, <2>1, <2>2, <2>3
<1>5. Decoded(t, 3 * k + r + 1) = Byte(b, 3 * k + r + 1)
  BY <1>0, <1>3, <1>4, EncodedByte, Zenon
<1> QED BY <1>2, <1>5, Zenon

\* A function on the first m numbers is a sequence.
LEMMA FunctionIsSeq ==
  ASSUME NEW m \in Nat, NEW t \in [1 .. m -> Int]
  PROVE  t \in Seq(Int) /\ Len(t) = m
OBVIOUS

\* Bytes are integers.
LEMMA BytesAreInts ==
  ASSUME NEW b \in Seq(0 .. 255)
  PROVE  b \in Seq(Int)
<1>1. PICK m \in Nat : m = Len(b)
  BY LenProperties
<1>2. b \in [1 .. m -> 0 .. 255]
  BY <1>1, LenProperties
<1>3. b \in [1 .. m -> Int]
  <2>1. PICK B : B = 0 .. 255
    OBVIOUS
  <2>2. B \subseteq Int /\ b \in [1 .. m -> B]
    BY <1>2, <2>1
  <2>3. b = [i \in 1 .. m |-> b[i]] /\ \A i \in 1 .. m : b[i] \in Int
    BY <2>2, Zenon
  <2> QED BY <2>3, Zenon
<1> QED BY <1>3, FunctionIsSeq, Zenon

\* Characters are integers.
LEMMA CharactersAreInts ==
  ASSUME NEW t \in Seq(0 .. 65)
  PROVE  t \in Seq(Int)
<1>1. PICK m \in Nat : m = Len(t)
  BY LenProperties
<1>2. t \in [1 .. m -> 0 .. 65]
  BY <1>1, LenProperties
<1>3. t \in [1 .. m -> Int]
  <2>1. PICK B : B = 0 .. 65
    OBVIOUS
  <2>2. B \subseteq Int /\ t \in [1 .. m -> B]
    BY <1>2, <2>1
  <2>3. t = [i \in 1 .. m |-> t[i]] /\ \A i \in 1 .. m : t[i] \in Int
    BY <2>2, Zenon
  <2> QED BY <2>3, Zenon
<1> QED BY <1>3, FunctionIsSeq, Zenon

\* t is the encoding of b, whose last q characters are padding.
EncodingOf(t, b, N, q) ==
  t \in Seq(Int) /\ 4 * N = Len(t) /\ SixUpTo(t, b, 4 * N - q) /\ \A i \in 4 * N - q + 1 .. 4 * N : t[i] = Pad

\* What wireguard_base64_encode writes is that, with all the padding.
LEMMA WgEncodes ==
  ASSUME NEW b, NEW N, NEW p, Shape(b, N, p)
  PROVE  EncodingOf(WgEncode(b), b, N, p)
<1>0. N \in Nat /\ p \in 0 .. 2 /\ b \in Seq(0 .. 255) /\ N > 0 /\ EncodedLength(b) = 4 * N /\ Padding(b) = p
  BY Zenon DEF Shape
<1>1. PICK n \in Nat, m \in Nat : n = 4 * N /\ m = 4 * N - p
  <2>1. 4 * N \in Nat /\ 4 * N - p \in Nat
    BY <1>0
  <2> QED BY <2>1, Zenon
<1>2. PICK t : t = WgEncode(b)
  OBVIOUS
<1>3. t = [i \in 1 .. n |-> IF i > m THEN Pad ELSE SixBits(b, i - 1)]
  BY <1>0, <1>1, <1>2, Zenon DEF WgEncode
<1>4. (\A i \in 1 .. m : t[i] = SixBits(b, i - 1)) /\ \A i \in m + 1 .. n : t[i] = Pad
  <2>1. (\A i \in 1 .. m : i \in 1 .. n /\ ~(i > m)) /\ \A i \in m + 1 .. n : i \in 1 .. n /\ i > m
    BY <1>0, <1>1
  <2> QED BY <1>3, <2>1, Zenon
<1>5. SixUpTo(t, b, m)
  BY <1>4, Zenon DEF SixUpTo
<1>6. t \in [1 .. n -> Int]
  <2>1. Good(t, m)
    BY <1>0, <1>5, EncodedGood, Zenon
  <2>2. ASSUME NEW i \in 1 .. n PROVE t[i] \in Int
    <3>1. CASE i \in 1 .. m
      <4>1. t[i] \in 0 .. 63
        BY <2>1, <3>1, Zenon DEF Good
      <4> QED BY <4>1
    <3>2. CASE i \in m + 1 .. n
      BY <1>4, <3>2 DEF Pad
    <3> QED BY <3>1, <3>2
  <2>3. t = [i \in 1 .. n |-> t[i]]
    BY <1>3, Zenon
  <2> QED BY <2>2, <2>3, Zenon
<1>7. t \in Seq(Int) /\ n = Len(t)
  BY <1>6, FunctionIsSeq, Zenon
<1> QED BY <1>1, <1>2, <1>4, <1>5, <1>7, Zenon DEF EncodingOf

\* What Base64Encode writes is that, with none.
LEMMA UtEncodes ==
  ASSUME NEW b, NEW N, NEW p, Shape(b, N, p)
  PROVE  EncodingOf(UtilEncode(b), b, N, 0)
<1>0. N \in Nat /\ b \in Seq(0 .. 255) /\ N > 0 /\ EncodedLength(b) = 4 * N
  BY Zenon DEF Shape
<1>1. PICK n \in Nat : n = 4 * N /\ n = 4 * N - 0
  BY <1>0
<1>2. PICK t : t = UtilEncode(b)
  OBVIOUS
<1>3. t = [i \in 1 .. n |-> SixBits(b, i - 1)]
  BY <1>0, <1>1, <1>2, Zenon DEF UtilEncode
<1>4. (\A i \in 1 .. n : t[i] = SixBits(b, i - 1)) /\ \A i \in n + 1 .. n : t[i] = Pad
  <2>1. n + 1 .. n = {}
    OBVIOUS
  <2> QED BY <1>3, <2>1, Zenon
<1>5. SixUpTo(t, b, n)
  BY <1>4, Zenon DEF SixUpTo
<1>6. t \in [1 .. n -> Int]
  <2>1. Good(t, n)
    BY <1>0, <1>5, EncodedGood, Zenon
  <2>2. ASSUME NEW i \in 1 .. n PROVE t[i] \in Int
    <3>1. t[i] \in 0 .. 63
      BY <2>1, Zenon DEF Good
    <3> QED BY <3>1
  <2>3. t = [i \in 1 .. n |-> t[i]]
    BY <1>3, Zenon
  <2> QED BY <2>2, <2>3, Zenon
<1>7. t \in Seq(Int) /\ n = Len(t)
  BY <1>6, FunctionIsSeq, Zenon
<1> QED BY <1>1, <1>2, <1>4, <1>5, <1>7, Zenon DEF EncodingOf

\* An encoding with its padding, or without any, decodes to what it stands for.
LEMMA EncodingsDecode ==
  ASSUME NEW t, NEW b, NEW N, NEW p, NEW q \in 0 .. 2, NEW c \in Int,
         Shape(b, N, p), EncodingOf(t, b, N, q), 3 * N - q <= c
  PROVE  BothDecode(t, c, 3 * N - q)
<1>0. /\ N \in Nat /\ N > 0 /\ b \in Seq(0 .. 255) /\ t \in Seq(Int) /\ 4 * N = Len(t)
      /\ SixUpTo(t, b, 4 * N - q) /\ \A i \in 4 * N - q + 1 .. 4 * N : t[i] = Pad
  BY Zenon DEF Shape, EncodingOf
<1>1. PICK m \in Nat : m = 4 * N - q
  <2>1. 4 * N - q \in Nat
    BY <1>0
  <2> QED BY <2>1, Zenon
<1>2. Good(t, m)
  BY <1>0, <1>1, EncodedGood, Zenon
<1>3. PICK k \in Nat : k = N - 1
  BY <1>0
<1>4. CASE q = 0
  <2>1. m = 4 * N /\ 3 * N - q = 3 * N
    BY <1>0, <1>1, <1>4
  <2>2. Plain(t, 4 * N, N)
    BY <1>0, <1>2, <2>1, Zenon DEF Plain
  <2>3. 3 * N <= c
    BY <2>1, Zenon
  <2>4. BothDecode(t, c, 3 * N)
    BY <2>2, <2>3, DecodesPlain, Zenon
  <2> QED BY <2>1, <2>4, Zenon
<1>5. CASE q = 1
  <2>1. /\ m = 4 * k + 3 /\ 3 * N - q = 3 * k + 2 /\ 4 * N = 4 * k + 4
        /\ 4 * N \in 4 * N - q + 1 .. 4 * N
    BY <1>0, <1>1, <1>3, <1>5
  <2>2. OnePad(t, 4 * N, k)
    BY <1>0, <1>2, <2>1, Zenon DEF OnePad
  <2>3. 3 * k + 2 <= c
    BY <2>1, Zenon
  <2>4. BothDecode(t, c, 3 * k + 2)
    BY <2>2, <2>3, DecodesOnePad, Zenon
  <2> QED BY <2>1, <2>4, Zenon
<1>6. CASE q = 2
  <2>1. /\ m = 4 * k + 2 /\ 3 * N - q = 3 * k + 1 /\ 4 * N = 4 * k + 4
        /\ 4 * N \in 4 * N - q + 1 .. 4 * N /\ 4 * k + 3 \in 4 * N - q + 1 .. 4 * N
    BY <1>0, <1>1, <1>3, <1>6
  <2>2. TwoPads(t, 4 * N, k)
    BY <1>0, <1>2, <2>1, Zenon DEF TwoPads
  <2>3. 3 * k + 1 <= c
    BY <2>1, Zenon
  <2>4. BothDecode(t, c, 3 * k + 1)
    BY <2>2, <2>3, DecodesTwoPads, Zenon
  <2> QED BY <2>1, <2>4, Zenon
<1> QED BY <1>4, <1>5, <1>6

\* The bytes to encode, as B64Spec makes them.
BytesInv == bytes \in Seq(0 .. 255) /\ Len(bytes) <= MaxBytes

\* They stay that.
THEOREM BytesTo == B64Spec => []BytesInv
<1>1. B64Init => BytesInv
  BY Base64Assumption DEF B64Init, BytesInv
<1>2. BytesInv /\ [B64Next]_b64Vars => BytesInv'
  <2> SUFFICES ASSUME BytesInv, [B64Next]_b64Vars PROVE BytesInv'
    OBVIOUS
  <2>1. CASE UNCHANGED bytes
    BY <2>1 DEF BytesInv
  <2>2. ASSUME Len(bytes) < MaxBytes, NEW b \in SampleBytes, bytes' = Append(bytes, b) PROVE BytesInv'
    <3>1. b \in 0 .. 255 /\ MaxBytes \in Nat
      BY Base64Assumption
    <3>2. bytes \in Seq(0 .. 255)
      BY DEF BytesInv
    <3>3. bytes' \in Seq(0 .. 255) /\ Len(bytes') = Len(bytes) + 1 /\ Len(bytes) \in Nat
      BY <2>2, <3>1, <3>2, AppendProperties, LenProperties
    <3>4. Len(bytes') <= MaxBytes
      BY <2>2, <3>1, <3>3
    <3> QED BY <3>3, <3>4, Zenon DEF BytesInv
  <2> QED BY <2>1, <2>2 DEF B64Next, b64Vars
<1> QED BY <1>1, <1>2, PTL DEF B64Spec

\* The two decoders undo wireguard_base64_encode.
LEMMA WgUndone ==
  ASSUME NEW b \in Seq(0 .. 255), b # <<>>
  PROVE  WgGives(WgEncode(b), Len(b), b) /\ UtGives(WgEncode(b), Len(b), b)
<1>1. PICK N, p : Shape(b, N, p)
  BY Shapes, Zenon
<1>2. /\ N \in Nat /\ p \in 0 .. 2 /\ N > 0 /\ Len(b) = 3 * N - p
  BY <1>1, Zenon DEF Shape
<1>3. PICK t : t = WgEncode(b) /\ EncodingOf(t, b, N, p)
  BY <1>1, WgEncodes, Zenon
<1>4. PICK c \in Nat : c = Len(b) /\ c = 3 * N - p /\ 3 * N - p <= c
  <2>1. PICK c \in Nat : c = Len(b)
    BY LenProperties, Zenon
  <2>2. 3 * N - p <= c
    BY <1>2, <2>1
  <2> QED BY <1>2, <2>1, <2>2, Zenon
<1>5. BothDecode(t, c, 3 * N - p)
  <2>1. c \in Int
    OBVIOUS
  <2> QED BY <1>1, <1>2, <1>3, <1>4, <2>1, EncodingsDecode, Zenon
<1>6. PICK o : DecodesTo(o, t, c) /\ WgGives(t, c, o) /\ UtGives(t, c, o)
  BY <1>4, <1>5, Zenon DEF BothDecode
<1>7. \A i \in 1 .. c : Decoded(t, i) = Byte(b, i)
  <2>1. SixUpTo(t, b, 4 * N - p)
    BY <1>3, Zenon DEF EncodingOf
  <2>2. StandsForBytes(t, b, 3 * N - p)
    BY <1>1, <1>2, <2>1, EncodedBytes, Zenon
  <2> QED BY <1>4, <2>2, Zenon DEF StandsForBytes
<1>8. o = b
  <2>1. o \in Seq(Int) /\ Len(o) = c /\ \A i \in 1 .. c : o[i] = Decoded(t, i)
    BY <1>6, Zenon DEF DecodesTo
  <2>2. \A i \in 1 .. c : Byte(b, i) = b[i]
    BY <1>4 DEF Byte
  <2>3. b \in Seq(Int)
    BY BytesAreInts, Zenon
  <2>4. Len(o) = Len(b) /\ \A i \in 1 .. Len(o) : o[i] = b[i]
    BY <1>4, <1>7, <2>1, <2>2, Zenon
  <2> QED BY <2>1, <2>3, <2>4, SeqEqual, Zenon
<1> QED BY <1>3, <1>4, <1>6, <1>8, Zenon

\* b with the zeros that stand where padding should.
ZeroPadded(b) == b \o [i \in 1 .. Padding(b) |-> 0]

\* Base64Decode gets that from what Base64Encode wrote.
LEMMA UtUndone ==
  ASSUME NEW b \in Seq(0 .. 255), b # <<>>, NEW c \in Int, Len(b) + 2 <= c
  PROVE  UtGives(UtilEncode(b), c, ZeroPadded(b))
<1>1. PICK N, p : Shape(b, N, p)
  BY Shapes, Zenon
<1>2. /\ N \in Nat /\ p \in 0 .. 2 /\ N > 0 /\ Len(b) = 3 * N - p /\ Padding(b) = p
  BY <1>1, Zenon DEF Shape
<1>3. PICK t, q : t = UtilEncode(b) /\ EncodingOf(t, b, N, q) /\ q = 0
  BY <1>1, UtEncodes, Zenon
<1>4. PICK m \in Nat, l \in Nat : m = 3 * N /\ l = Len(b) /\ m = l + p
  BY <1>2
<1>5. q \in 0 .. 2 /\ 3 * N - q = m /\ m <= c
  BY <1>2, <1>3, <1>4
<1>6. BothDecode(t, c, m)
  BY <1>1, <1>3, <1>5, EncodingsDecode, Zenon
<1>7. PICK o : DecodesTo(o, t, m) /\ UtGives(t, c, o)
  BY <1>6, Zenon DEF BothDecode
<1>8. \A i \in 1 .. m : Decoded(t, i) = Byte(b, i)
  <2>1. SixUpTo(t, b, 4 * N - q)
    BY <1>3, Zenon DEF EncodingOf
  <2>2. StandsForBytes(t, b, 3 * N - q)
    BY <1>1, <1>5, <2>1, EncodedBytes, Zenon
  <2> QED BY <1>5, <2>2, Zenon DEF StandsForBytes
<1>9. o = ZeroPadded(b)
  <2>1. o \in Seq(Int) /\ Len(o) = m /\ \A i \in 1 .. m : o[i] = Decoded(t, i)
    BY <1>7, Zenon DEF DecodesTo
  <2>2. PICK z : z = [i \in 1 .. p |-> 0]
    OBVIOUS
  <2>3. p \in Nat /\ z \in [1 .. p -> Int] /\ \A i \in 1 .. p : z[i] = 0
    BY <1>2, <2>2
  <2>4. z \in Seq(Int) /\ p = Len(z)
    BY <2>3, FunctionIsSeq, Zenon
  <2>5. b \in Seq(Int)
    BY BytesAreInts, Zenon
  <2>6. PICK u : u = b \o z /\ Joined(u, b, z, l, p)
    BY <1>4, <2>4, <2>5, Joins, Zenon
  <2>7. /\ u \in Seq(Int) /\ Len(u) = l + p
        /\ \A i \in 1 .. l + p : u[i] = IF i <= l THEN b[i] ELSE z[i - l]
    BY <2>6, Zenon DEF Joined
  <2>8. ASSUME NEW i \in 1 .. m PROVE o[i] = u[i]
    <3>1. o[i] = Byte(b, i)
      BY <1>8, <2>1, Zenon
    <3>2. CASE i <= l
      <4>1. u[i] = b[i]
        BY <1>4, <2>7, <3>2
      <4>2. Byte(b, i) = b[i]
        BY <1>4, <3>2 DEF Byte
      <4> QED BY <3>1, <4>1, <4>2, Zenon
    <3>3. CASE ~(i <= l)
      <4>1. i - l \in 1 .. p
        BY <1>2, <1>4, <3>3
      <4>2. u[i] = 0
        BY <1>4, <2>3, <2>7, <3>3, <4>1
      <4>3. Byte(b, i) = 0
        BY <1>4, <3>3 DEF Byte
      <4> QED BY <3>1, <4>2, <4>3, Zenon
    <3> QED BY <3>2, <3>3
  <2>9. Len(o) = Len(u) /\ \A i \in 1 .. Len(o) : o[i] = u[i]
    BY <1>4, <2>1, <2>7, <2>8, Zenon
  <2>10. o = u
    BY <2>1, <2>7, <2>9, SeqEqual, Zenon
  <2> QED BY <1>2, <2>2, <2>6, <2>10, Zenon DEF ZeroPadded
<1> QED BY <1>3, <1>7, <1>9, Zenon

\* What wireguard_base64_encode encodes, both decoders decode; what Base64Encode encodes,
\* Base64Decode decodes with a zero byte for each missing character of padding.
THEOREM EncodingsUndone == B64Spec => []EncodingDecodes
<1>1. BytesInv => EncodingDecodes
  <2> SUFFICES ASSUME BytesInv, bytes # <<>>
               PROVE  /\ WgGives(WgEncode(bytes), Len(bytes), bytes)
                      /\ UtGives(WgEncode(bytes), Len(bytes), bytes)
                      /\ UtGives(UtilEncode(bytes), MaxBytes + 2, ZeroPadded(bytes))
    BY Zenon DEF EncodingDecodes, WgGives, UtGives, ZeroPadded
  <2>1. bytes \in Seq(0 .. 255) /\ Len(bytes) <= MaxBytes
    BY Zenon DEF BytesInv
  <2>2. PICK c \in Int : c = MaxBytes + 2 /\ Len(bytes) + 2 <= c
    BY <2>1, Base64Assumption, LenProperties
  <2>3. UtGives(UtilEncode(bytes), c, ZeroPadded(bytes))
    BY <2>1, <2>2, UtUndone, Zenon
  <2> QED BY <2>1, <2>2, <2>3, WgUndone, Zenon
<1> QED BY <1>1, BytesTo, PTL

(***************************************************************************)
(* Any text.                                                               *)
(***************************************************************************)

\* The characters up to j + 1 are good if those up to j and the next one are.
LEMMA GoodNext ==
  ASSUME NEW t, NEW j \in Nat, Good(t, j), t[j + 1] \in 0 .. 63
  PROVE  Good(t, j + 1)
<1> SUFFICES ASSUME NEW i \in 1 .. j + 1 PROVE t[i] \in 0 .. 63
  BY Zenon DEF Good
<1>1. CASE i \in 1 .. j
  BY <1>1, Zenon DEF Good
<1>2. CASE i = j + 1
  BY <1>2, Zenon
<1> QED BY <1>1, <1>2

\* What wireguard_base64_decode has written after m blocks and n characters, the last p of
\* them padding.
WgLen(m, n, p) == IF p <= n THEN 3 * m ELSE 3 * (m - 1) + (IF p - n >= 2 THEN 1 ELSE 2)

\* It has read i characters of t so, and expects e bytes.
WgReading(t, i, n, e, l, m, p) ==
  /\ m \in Nat /\ p \in 0 .. 3 /\ n \in 0 .. 3
  /\ e = 3 - p /\ i = 4 * m + n /\ p <= i /\ l = WgLen(m, n, p)
  /\ Good(t, i - p) /\ (p > 0 => t[i] = Pad)

\* y is a state after i characters: what is written is within the buffer.
WgAt(y, t, i) ==
  /\ y \in WgStates /\ Len(y.out) <= KeyLength
  /\ y.failed = FALSE => \E m, p : WgReading(t, i, y.count, y.expect, Len(y.out), m, p)

\* One character more within a block.
LEMMA WgReadsOn ==
  ASSUME NEW t, NEW i \in Nat, NEW d \in WgStates, NEW l \in Int, NEW m, NEW p, t[i + 1] \in 0 .. 65,
         ~Wrong(d, t[i + 1]), d.count < 3, WgReading(t, i, d.count, d.expect, l, m, p)
  PROVE  \E q : WgReading(t, i + 1, d.count + 1, NextExpect(d, t[i + 1]), l, m, q)
<1>1. PICK n, e, c : n = d.count /\ e = d.expect /\ c = t[i + 1]
  OBVIOUS
<1>2. /\ m \in Nat /\ p \in 0 .. 3 /\ n \in 0 .. 3
      /\ e = 3 - p /\ i = 4 * m + n /\ p <= i /\ l = WgLen(m, n, p)
      /\ Good(t, i - p) /\ (p > 0 => t[i] = Pad)
  BY <1>1, Zenon DEF WgReading
<1>3. n + 1 \in 0 .. 3 /\ i + 1 = 4 * m + (n + 1)
  BY <1>1, <1>2
<1>4. CASE c = Pad
  <2>1. NextExpect(d, c) = e - 1 /\ e - 1 >= 0
    <3>1. NextExpect(d, c) = e - 1
      BY <1>1, <1>4, Zenon DEF NextExpect
    <3>2. ~(NextExpect(d, c) < 0)
      BY <1>1, Zenon DEF Wrong
    <3> QED BY <1>2, <3>1, <3>2
  <2>2. PICK q \in 0 .. 3 : q = p + 1
    BY <1>2, <2>1
  <2>3. e - 1 = 3 - q /\ q <= i + 1 /\ (i + 1) - q = i - p
    BY <1>2, <2>2
  <2>4. l = WgLen(m, n + 1, q)
    BY <1>2, <2>2 DEF WgLen
  <2>5. WgReading(t, i + 1, n + 1, e - 1, l, m, q)
    BY <1>1, <1>2, <1>3, <1>4, <2>3, <2>4, Zenon DEF WgReading
  <2> QED BY <1>1, <2>1, <2>5, Zenon
<1>5. CASE c # Pad
  <2>1. NextExpect(d, c) = e /\ e = 3 /\ c # Bad
    BY <1>1, <1>5, Zenon DEF NextExpect, Wrong
  <2>2. p = 0 /\ i - p = i /\ (i + 1) - p = i + 1 /\ p <= i + 1 /\ ~(p > 0)
    BY <1>2, <2>1
  <2>3. t[i + 1] \in 0 .. 63
    BY <1>1, <1>5, <2>1 DEF Pad, Bad
  <2>4. Good(t, i + 1)
    BY <1>2, <2>2, <2>3, GoodNext, Zenon
  <2>5. l = WgLen(m, n + 1, p)
    BY <1>2, <2>2 DEF WgLen
  <2>6. WgReading(t, i + 1, n + 1, e, l, m, p)
    BY <1>2, <1>3, <2>2, <2>4, <2>5, Zenon DEF WgReading
  <2> QED BY <1>1, <2>1, <2>6, Zenon
<1> QED BY <1>4, <1>5

\* The last one of a block.
LEMMA WgReadsLast ==
  ASSUME NEW t, NEW i \in Nat, NEW d \in WgStates, NEW l \in Int, NEW m, NEW p, t[i + 1] \in 0 .. 65,
         ~Wrong(d, t[i + 1]), ~(d.count < 3), WgReading(t, i, d.count, d.expect, l, m, p),
         NEW e, e = NextExpect(d, t[i + 1]), ~(l + e > KeyLength), NEW k, k = IF e < 1 THEN 1 ELSE e
  PROVE  l + k <= KeyLength /\ \E q : WgReading(t, i + 1, 0, e, l + k, m + 1, q)
<1>1. PICK n, x, c : n = d.count /\ x = d.expect /\ c = t[i + 1]
  OBVIOUS
<1>2. /\ m \in Nat /\ p \in 0 .. 3 /\ n \in 0 .. 3
      /\ x = 3 - p /\ i = 4 * m + n /\ p <= i /\ l = WgLen(m, n, p)
      /\ Good(t, i - p) /\ (p > 0 => t[i] = Pad)
  BY <1>1, Zenon DEF WgReading
<1>3. n = 3 /\ m + 1 \in Nat /\ i + 1 = 4 * (m + 1) + 0 /\ 0 \in 0 .. 3
  BY <1>1, <1>2
<1>4. l = 3 * m
  BY <1>2, <1>3 DEF WgLen
<1>5. PICK K \in Nat : KeyLength = 3 * K + 2
  <2>1. PICK K \in Nat : K = KeyLength \div 3
    BY Base64Assumption
  <2> QED BY <2>1, Base64Assumption
<1>6. ASSUME NEW q \in 0 .. 3, e = 3 - q
      PROVE  l + k <= KeyLength /\ l + k = WgLen(m + 1, 0, q)
  BY <1>2, <1>4, <1>5, <1>6 DEF WgLen
<1>7. CASE c = Pad
  <2>1. e = x - 1 /\ e >= 0
    <3>1. e = x - 1
      BY <1>1, <1>7, Zenon DEF NextExpect
    <3>2. ~(e < 0)
      BY <1>1, Zenon DEF Wrong
    <3> QED BY <1>2, <3>1, <3>2
  <2>2. PICK q \in 0 .. 3 : q = p + 1
    BY <1>2, <2>1
  <2>3. e = 3 - q /\ q <= i + 1 /\ (i + 1) - q = i - p
    BY <1>2, <2>1, <2>2
  <2>4. WgReading(t, i + 1, 0, e, l + k, m + 1, q)
    BY <1>1, <1>2, <1>3, <1>6, <1>7, <2>3, Zenon DEF WgReading
  <2> QED BY <1>6, <2>3, <2>4, Zenon
<1>8. CASE c # Pad
  <2>1. e = x /\ x = 3 /\ c # Bad
    BY <1>1, <1>8, Zenon DEF NextExpect, Wrong
  <2>2. p = 0 /\ i - p = i /\ (i + 1) - p = i + 1 /\ p <= i + 1 /\ ~(p > 0) /\ e = 3 - p
    BY <1>2, <2>1
  <2>3. t[i + 1] \in 0 .. 63
    BY <1>1, <1>8, <2>1 DEF Pad, Bad
  <2>4. Good(t, i + 1)
    BY <1>2, <2>2, <2>3, GoodNext, Zenon
  <2>5. WgReading(t, i + 1, 0, e, l + k, m + 1, p)
    BY <1>2, <1>3, <1>6, <2>2, <2>4, Zenon DEF WgReading
  <2> QED BY <1>2, <1>6, <2>2, <2>5, Zenon
<1> QED BY <1>7, <1>8

\* Every character keeps it so.
LEMMA WgKept ==
  ASSUME NEW t, NEW i \in Nat, NEW d, WgAt(d, t, i), t[i + 1] \in 0 .. 65
  PROVE  WgAt(DecodeChar(d, t[i + 1], KeyLength), t, i + 1)
<1>1. PICK c, y : c = t[i + 1] /\ y = DecodeChar(d, c, KeyLength)
  OBVIOUS
<1>2. d \in WgStates /\ Len(d.out) <= KeyLength /\ c \in Int
  <2>1. d \in WgStates /\ Len(d.out) <= KeyLength
    BY Zenon DEF WgAt
  <2>2. c \in Int
    BY <1>1
  <2> QED BY <2>1, <2>2, Zenon
<1>3. CASE d.failed \/ Wrong(d, c)
  <2>1. WgWith(y, d.accum, d.count, d.expect, d.out, TRUE)
    BY <1>1, <1>2, <1>3, WgStops, Zenon
  <2>2. y \in WgStates /\ y.out = d.out /\ y.failed # FALSE
    BY <2>1 DEF WgWith
  <2>3. WgAt(y, t, i + 1)
    BY <1>2, <2>2, Zenon DEF WgAt
  <2> QED BY <1>1, <2>3, Zenon
<1>4. CASE ~d.failed /\ ~Wrong(d, c)
  <2>1. PICK m, p, l : WgReading(t, i, d.count, d.expect, l, m, p) /\ l = Len(d.out)
    <3>1. d.failed = FALSE
      BY <1>2, <1>4, WgParts
    <3> QED BY <3>1, Zenon DEF WgAt
  <2>2. d.out \in Seq(Int) /\ l \in Int
    <3>1. d.out \in Seq(Int)
      BY <1>2, WgParts, Zenon
    <3> QED BY <2>1, <3>1, LenProperties
  <2>3. CASE d.count < 3
    <3>1. WgWith(y, NextAccum(d, c), d.count + 1, NextExpect(d, c), d.out, FALSE)
      BY <1>1, <1>2, <1>4, <2>3, WgShort, Zenon
    <3>2. PICK q : WgReading(t, i + 1, d.count + 1, NextExpect(d, c), l, m, q)
      BY <1>1, <1>2, <1>4, <2>1, <2>2, <2>3, WgReadsOn, Zenon
    <3>3. WgAt(y, t, i + 1)
      BY <1>2, <2>1, <3>1, <3>2, Zenon DEF WgAt, WgWith
    <3> QED BY <1>1, <3>3, Zenon
  <2>4. CASE ~(d.count < 3)
    <3>1. PICK e : e = NextExpect(d, c)
      OBVIOUS
    <3>2. CASE l + e > KeyLength
      <4>1. WgWith(y, d.accum, d.count, d.expect, d.out, TRUE)
        BY <1>1, <1>2, <1>4, <2>1, <2>4, <3>1, <3>2, WgOverflows, Zenon
      <4>2. y \in WgStates /\ y.out = d.out /\ y.failed # FALSE
        BY <4>1 DEF WgWith
      <4>3. WgAt(y, t, i + 1)
        BY <1>2, <4>2, Zenon DEF WgAt
      <4> QED BY <1>1, <4>3, Zenon
    <3>3. CASE ~(l + e > KeyLength)
      <4>1. PICK k, a, b : k = (IF e < 1 THEN 1 ELSE e) /\ a = NextAccum(d, c) /\ b = BlockBytes(a, e)
        OBVIOUS
      <4>2. PICK o : o = d.out \o b /\ WgWith(y, 0, 0, e, o, FALSE)
        BY <1>1, <1>2, <1>4, <2>1, <2>4, <3>1, <3>3, <4>1, WgBlock, Zenon
      <4>3. l + k <= KeyLength /\ \E q : WgReading(t, i + 1, 0, e, l + k, m + 1, q)
        BY <1>1, <1>2, <1>4, <2>1, <2>2, <2>4, <3>1, <3>3, <4>1, WgReadsLast, Zenon
      <4>4. Len(o) = l + k
        <5>1. a \in Int /\ e \in Int /\ e <= 3
          BY <1>2, <3>1, <4>1, WgParts DEF NextAccum, NextExpect
        <5>2. UpperBytes(b, a, e)
          BY <4>1, <5>1, BlockBytesAre, Zenon
        <5>3. b \in Seq(Int) /\ Len(b) = k
          <6>1. b \in Seq(Int) /\ Len(b) = IF e < 1 THEN 1 ELSE e
            BY <5>2 DEF UpperBytes
          <6> QED BY <4>1, <6>1
        <5> QED BY <2>1, <2>2, <4>2, <5>3, ConcatProperties, Zenon
      <4>5. y \in WgStates /\ y.out = o /\ y.count = 0 /\ y.expect = e
        BY <4>2, Zenon DEF WgWith
      <4>6. WgAt(y, t, i + 1)
        BY <4>3, <4>4, <4>5, Zenon DEF WgAt
      <4> QED BY <1>1, <4>6, Zenon
    <3> QED BY <3>2, <3>3
  <2> QED BY <2>3, <2>4
<1> QED BY <1>3, <1>4

\* Base64Decode after j characters of the alphabet: what it has written, and valb.
UtLen(j)  == 3 * (j \div 4) + (IF j % 4 < 2 THEN 0 ELSE (j % 4) - 1)
UtBits(j) == IF j % 4 = 0 THEN -8 ELSE -2 * (j % 4)

\* It has read i characters of t, the first j of which are of the alphabet.
UtReading(t, i, y, j) ==
  /\ y \in UtStates /\ j \in 0 .. i /\ Good(t, j) /\ Len(y.out) = UtLen(j)
  /\ (y.done = FALSE /\ y.failed = FALSE => j = i /\ y.valb = UtBits(j))
  /\ (y.done = TRUE => j < i /\ t[j + 1] = Pad)

\* y is a state after i characters.
UtAt(y, t, i) == \E j : UtReading(t, i, y, j)

\* Every character keeps it so.
LEMMA UtKept ==
  ASSUME NEW t, NEW i \in Nat, NEW d, UtAt(d, t, i), t[i + 1] \in 0 .. 65
  PROVE  UtAt(ReadChar(d, t[i + 1]), t, i + 1)
<1>1. PICK c, y : c = t[i + 1] /\ y = ReadChar(d, c)
  OBVIOUS
<1>2. PICK j : UtReading(t, i, d, j)
  BY Zenon DEF UtAt
<1>3. /\ d \in UtStates /\ j \in 0 .. i /\ Good(t, j) /\ Len(d.out) = UtLen(j)
      /\ (d.done = FALSE /\ d.failed = FALSE => j = i /\ d.valb = UtBits(j))
      /\ (d.done = TRUE => j < i /\ t[j + 1] = Pad)
  BY <1>2, Zenon DEF UtReading
<1>4. j \in 0 .. i + 1 /\ j < i + 1 /\ c \in 0 .. 65 /\ c \in Int
  <2>1. c \in 0 .. 65 /\ c \in Int
    BY <1>1
  <2>2. j \in 0 .. i + 1 /\ j < i + 1
    BY <1>3
  <2> QED BY <2>1, <2>2, Zenon
<1>5. d.done \in BOOLEAN /\ d.failed \in BOOLEAN /\ d.valb \in -8 .. -1 /\ d.out \in Seq(Int)
  BY <1>3, UtParts, Zenon
<1>6. CASE d.done \/ d.failed
  <2>1. y = d
    BY <1>1, <1>3, <1>6, UtKeeps, Zenon
  <2>2. ~(d.done = FALSE /\ d.failed = FALSE)
    BY <1>6
  <2>3. d.done = TRUE => j < i + 1
    BY <1>4, Zenon
  <2>4. UtReading(t, i + 1, y, j)
    BY <1>3, <1>4, <2>1, <2>2, <2>3, Zenon DEF UtReading
  <2> QED BY <1>1, <2>4, Zenon DEF UtAt
<1>7. CASE ~d.done /\ ~d.failed
  <2>1. j = i /\ d.valb = UtBits(i) /\ Good(t, i) /\ Len(d.out) = UtLen(i)
    <3>1. d.done = FALSE /\ d.failed = FALSE
      BY <1>5, <1>7
    <3> QED BY <1>3, <3>1, Zenon
  <2>2. CASE c = Pad
    <3>1. UtWith(y, d.val, d.valb, d.out, TRUE, FALSE)
      BY <1>1, <1>3, <1>7, <2>2, UtPads, Zenon
    <3>2. y \in UtStates /\ y.out = d.out /\ y.done = TRUE /\ ~(y.done = FALSE)
      BY <3>1 DEF UtWith
    <3>3. UtReading(t, i + 1, y, j)
      BY <1>1, <1>3, <1>4, <2>1, <2>2, <3>2, Zenon DEF UtReading
    <3> QED BY <1>1, <3>3, Zenon DEF UtAt
  <2>3. CASE c = Bad
    <3>1. UtWith(y, d.val, d.valb, d.out, FALSE, TRUE)
      BY <1>1, <1>3, <1>7, <2>3, UtFails, Zenon
    <3>2. y \in UtStates /\ y.out = d.out /\ ~(y.done = TRUE) /\ ~(y.failed = FALSE)
      BY <3>1 DEF UtWith
    <3>3. UtReading(t, i + 1, y, j)
      BY <1>3, <1>4, <3>2, Zenon DEF UtReading
    <3> QED BY <1>1, <3>3, Zenon DEF UtAt
  <2>4. CASE c # Pad /\ c # Bad
    <3>1. c \in 0 .. 63
      BY <1>4, <2>4 DEF Pad, Bad
    <3>2. Good(t, i + 1)
      BY <1>1, <2>1, <3>1, GoodNext, Zenon
    <3>3. i + 1 \in 0 .. i + 1
      OBVIOUS
    <3>4. CASE d.valb + 6 < 0
      <4>1. UtWith(y, NextVal(d, c), d.valb + 6, d.out, FALSE, FALSE)
        BY <1>1, <1>3, <1>4, <1>7, <2>4, <3>4, UtShort, Zenon
      <4>2. UtLen(i + 1) = UtLen(i) /\ d.valb + 6 = UtBits(i + 1)
        BY <1>5, <2>1, <3>4 DEF UtLen, UtBits
      <4>3. y \in UtStates /\ y.out = d.out /\ ~(y.done = TRUE) /\ y.valb = d.valb + 6
        BY <4>1 DEF UtWith
      <4>4. UtReading(t, i + 1, y, i + 1)
        BY <2>1, <3>2, <3>3, <4>2, <4>3, Zenon DEF UtReading
      <4> QED BY <1>1, <4>4, Zenon DEF UtAt
    <3>5. CASE ~(d.valb + 6 < 0)
      <4>1. PICK x : x = ReadByte(NextVal(d, c), d.valb + 6)
        OBVIOUS
      <4>2. UtWith(y, NextVal(d, c), d.valb - 2, Append(d.out, x), FALSE, FALSE)
        BY <1>1, <1>3, <1>4, <1>7, <2>4, <3>5, <4>1, UtByte, Zenon
      <4>3. UtLen(i + 1) = UtLen(i) + 1 /\ d.valb - 2 = UtBits(i + 1)
        BY <1>5, <2>1, <3>5 DEF UtLen, UtBits
      <4>4. y \in UtStates /\ y.out = Append(d.out, x) /\ ~(y.done = TRUE) /\ y.valb = d.valb - 2
        BY <4>2 DEF UtWith
      <4>5. Len(y.out) = Len(d.out) + 1
        <5>1. x \in Int
          <6>1. d.valb + 6 \in 0 .. 5
            BY <1>5, <3>5
          <6>2. NextVal(d, c) \in Int
            BY <1>3, <1>4, UtParts DEF NextVal
          <6> QED BY <4>1, <6>1, <6>2, ReadByteIs, Zenon
        <5> QED BY <1>5, <4>4, <5>1
      <4>6. Len(y.out) = UtLen(i + 1)
        BY <2>1, <4>3, <4>5, Zenon
      <4>7. UtReading(t, i + 1, y, i + 1)
        BY <3>2, <3>3, <4>3, <4>4, <4>6, Zenon DEF UtReading
      <4> QED BY <1>1, <4>7, Zenon DEF UtAt
    <3> QED BY <3>4, <3>5
  <2> QED BY <2>2, <2>3, <2>4
<1> QED BY <1>5, <1>6, <1>7

\* A run of wireguard_base64_decode on n characters gets to such a state.
LEMMA WgArrives ==
  ASSUME NEW f, NEW t \in Seq(0 .. 65), NEW n \in Nat, n = Len(t), WgRun(f, t, KeyLength, n)
  PROVE  WgAt(f[n], t, n)
<1> DEFINE Has == {i \in Nat : i <= n => WgAt(f[i], t, i)}
<1>1. f[0] = WgStart /\ \A i \in 1 .. n : f[i] = DecodeChar(f[i - 1], t[i], KeyLength)
  BY Zenon DEF WgRun
<1>2. 0 \in Has
  <2>1. WgStart.out = <<>> /\ WgStart.count = 0 /\ WgStart.expect = 3 /\ Len(WgStart.out) = 0
    BY DEF WgStart
  <2>2. WgReading(t, 0, 0, 3, 0, 0, 0)
    <3>1. Good(t, 0 - 0)
      BY DEF Good
    <3> QED BY <3>1 DEF WgReading, WgLen
  <2>3. 0 <= KeyLength
    BY Base64Assumption
  <2>4. WgAt(WgStart, t, 0)
    BY <2>1, <2>2, <2>3, WgStarts, Zenon DEF WgAt
  <2>5. WgAt(f[0], t, 0)
    BY <1>1, <2>4, Zenon
  <2> QED BY <2>5
<1>3. ASSUME NEW i \in Nat, i \in Has PROVE i + 1 \in Has
  <2> SUFFICES ASSUME i + 1 <= n PROVE WgAt(f[i + 1], t, i + 1)
    OBVIOUS
  <2>1. WgAt(f[i], t, i)
    BY <1>3
  <2>2. i + 1 \in 1 .. n /\ (i + 1) - 1 = i
    OBVIOUS
  <2>3. f[i + 1] = DecodeChar(f[i], t[i + 1], KeyLength)
    BY <1>1, <2>2, Zenon
  <2>4. t[i + 1] \in 0 .. 65
    BY <2>2, ElementOfSeq
  <2> QED BY <2>1, <2>3, <2>4, WgKept, Zenon
<1>4. n \in Has
  <2> HIDE DEF Has
  <2> QED BY <1>2, <1>3, SetInduction
<1> QED BY <1>4

\* So does one of Base64Decode.
LEMMA UtArrives ==
  ASSUME NEW f, NEW t \in Seq(0 .. 65), NEW n \in Nat, n = Len(t), UtRun(f, t, n)
  PROVE  UtAt(f[n], t, n)
<1> DEFINE Has == {i \in Nat : i <= n => UtAt(f[i], t, i)}
<1>1. f[0] = UtStart /\ \A i \in 1 .. n : f[i] = ReadChar(f[i - 1], t[i])
  BY Zenon DEF UtRun
<1>2. 0 \in Has
  <2>1. UtStart.out = <<>> /\ UtStart.valb = -8 /\ ~(UtStart.done = TRUE) /\ Len(UtStart.out) = 0
    BY DEF UtStart
  <2>2. UtLen(0) = 0 /\ UtBits(0) = -8 /\ 0 \in 0 .. 0
    BY DEF UtLen, UtBits
  <2>3. Good(t, 0)
    BY DEF Good
  <2>4. UtReading(t, 0, UtStart, 0)
    BY <2>1, <2>2, <2>3, UtStarts, Zenon DEF UtReading
  <2>5. UtAt(f[0], t, 0)
    BY <1>1, <2>4, Zenon DEF UtAt
  <2> QED BY <2>5
<1>3. ASSUME NEW i \in Nat, i \in Has PROVE i + 1 \in Has
  <2> SUFFICES ASSUME i + 1 <= n PROVE UtAt(f[i + 1], t, i + 1)
    OBVIOUS
  <2>1. UtAt(f[i], t, i)
    BY <1>3
  <2>2. i + 1 \in 1 .. n /\ (i + 1) - 1 = i
    OBVIOUS
  <2>3. f[i + 1] = ReadChar(f[i], t[i + 1])
    BY <1>1, <2>2, Zenon
  <2>4. t[i + 1] \in 0 .. 65
    BY <2>2, ElementOfSeq
  <2> QED BY <2>1, <2>3, <2>4, UtKept, Zenon
<1>4. n \in Has
  <2> HIDE DEF Has
  <2> QED BY <1>2, <1>3, SetInduction
<1> QED BY <1>4

(***************************************************************************)
(* Keys.                                                                   *)
(***************************************************************************)

\* The buffer holds K whole blocks and two bytes.
LEMMA KeyHolds ==
  \E K \in Nat : KeyLength = 3 * K + 2
<1>1. PICK K \in Nat : K = KeyLength \div 3
  BY Base64Assumption
<1> QED BY <1>1, Base64Assumption

\* The text of a key: of what wireguard_base64_decode accepts, only that fills the buffer.
LEMMA WgFull ==
  ASSUME NEW y, NEW t \in Seq(0 .. 65), NEW n \in Nat, n = Len(t), WgAt(y, t, n),
         y.failed = FALSE, y.count = 0, Len(y.out) = KeyLength, NEW K \in Nat, KeyLength = 3 * K + 2
  PROVE  OnePad(t, n, K)
<1>1. PICK e, l, m, p : WgReading(t, n, 0, e, l, m, p) /\ l = KeyLength
  BY Zenon DEF WgAt
<1>2. /\ m \in Nat /\ p \in 0 .. 3 /\ n = 4 * m + 0 /\ p <= n /\ l = WgLen(m, 0, p)
      /\ Good(t, n - p) /\ (p > 0 => t[n] = Pad)
  BY <1>1, Zenon DEF WgReading
<1>3. p = 1 /\ m = K + 1
  <2>1. CASE p = 0
    BY <1>1, <1>2, <2>1 DEF WgLen
  <2>2. CASE p = 1
    BY <1>1, <1>2, <2>2 DEF WgLen
  <2>3. CASE p >= 2
    BY <1>1, <1>2, <2>3 DEF WgLen
  <2> QED BY <1>2, <2>1, <2>2, <2>3
<1>4. n = 4 * K + 4 /\ n - p = 4 * K + 3 /\ p > 0
  BY <1>2, <1>3
<1>5. t \in Seq(Int)
  BY CharactersAreInts, Zenon
<1> QED BY <1>2, <1>4, <1>5, Zenon DEF OnePad

\* So it is of what Base64Decode accepts.
LEMMA UtFull ==
  ASSUME NEW y, NEW t \in Seq(0 .. 65), NEW n \in Nat, n = Len(t), UtAt(y, t, n), Fits(t, KeyLength),
         y.failed = FALSE, Len(y.out) = KeyLength, NEW K \in Nat, KeyLength = 3 * K + 2
  PROVE  OnePad(t, n, K)
<1>1. PICK j : UtReading(t, n, y, j)
  BY Zenon DEF UtAt
<1>2. /\ j \in 0 .. n /\ Good(t, j) /\ KeyLength = UtLen(j)
      /\ (y.done = FALSE => j = n) /\ (y.done = TRUE => j < n /\ t[j + 1] = Pad)
  BY <1>1, Zenon DEF UtReading
<1>3. y.done \in BOOLEAN
  BY <1>1, UtParts, Zenon DEF UtReading
<1>4. j = 4 * K + 3
  BY <1>2 DEF UtLen
<1>5. n % 4 = 0 /\ KeyLength >= Expected(t)
  <2>1. ~(Len(t) % 4 # 0) /\ ~(KeyLength < Expected(t))
    BY Zenon DEF Fits
  <2>2. Expected(t) \in Int
    <3>1. n \div 4 \in Int
      OBVIOUS
    <3> QED BY <3>1 DEF Expected
  <2> QED BY <2>1, <2>2, Base64Assumption
<1>6. y.done = TRUE
  <2>1. j # n
    BY <1>2, <1>4, <1>5
  <2> QED BY <1>2, <1>3, <2>1
<1>7. PICK m \in Nat : n = 4 * m /\ m = n \div 4
  <2>1. PICK m \in Nat : m = n \div 4
    OBVIOUS
  <2>2. n = 4 * m
    BY <1>5, <2>1
  <2> QED BY <2>1, <2>2
<1>8. Expected(t) >= 3 * m - 2
  BY <1>7 DEF Expected
<1>9. n = 4 * K + 4
  <2>1. j < n
    BY <1>2, <1>6, Zenon
  <2>2. 3 * m - 2 <= 3 * K + 2
    <3>1. Expected(t) \in Int
      BY <1>7 DEF Expected
    <3> QED BY <1>5, <1>8, <3>1
  <2> QED BY <1>4, <1>7, <2>1, <2>2
<1>10. t[n] = Pad
  <2>1. j + 1 = n
    BY <1>4, <1>9
  <2> QED BY <1>2, <1>6, <2>1, Zenon
<1>11. t \in Seq(Int)
  BY CharactersAreInts, Zenon
<1> QED BY <1>2, <1>4, <1>9, <1>10, <1>11, Zenon DEF OnePad

\* Base64Decode never writes past the length that it expects.
LEMMA UtBounded ==
  ASSUME NEW y, NEW t \in Seq(0 .. 65), NEW n \in Nat, n = Len(t), UtAt(y, t, n), Fits(t, KeyLength)
  PROVE  Len(y.out) <= KeyLength
<1>1. PICK j : UtReading(t, n, y, j)
  BY Zenon DEF UtAt
<1>2. j \in 0 .. n /\ Good(t, j) /\ Len(y.out) = UtLen(j)
  BY <1>1, Zenon DEF UtReading
<1>3. n % 4 = 0 /\ ~(KeyLength < Expected(t)) /\ n # 0
  <2>1. ~(Len(t) % 4 # 0) /\ ~(KeyLength < Expected(t)) /\ t # <<>>
    BY Zenon DEF Fits
  <2>2. n # 0
    BY <2>1, EmptySeq
  <2> QED BY <2>1, <2>2
<1>4. PICK m \in Nat : n = 4 * m /\ m = n \div 4 /\ m > 0
  <2>1. PICK m \in Nat : m = n \div 4
    OBVIOUS
  <2>2. n = 4 * m /\ m > 0
    BY <1>3, <2>1
  <2> QED BY <2>1, <2>2
<1>5. t[n] = Pad => j < n
  <2> SUFFICES ASSUME j = n PROVE t[n] # Pad
    BY <1>2
  <2>1. n \in 1 .. j
    BY <1>4
  <2>2. t[n] \in 0 .. 63
    BY <1>2, <2>1, Zenon DEF Good
  <2>3. \A x \in 0 .. 63 : x # Pad
    BY DEF Pad
  <2> QED BY <2>2, <2>3, Zenon
<1>6. t[n - 1] = Pad => j < n - 1
  <2> SUFFICES ASSUME ~(j < n - 1) PROVE t[n - 1] # Pad
    OBVIOUS
  <2>1. n - 1 \in 1 .. j
    BY <1>2, <1>4
  <2>2. t[n - 1] \in 0 .. 63
    BY <1>2, <2>1, Zenon DEF Good
  <2>3. \A x \in 0 .. 63 : x # Pad
    BY DEF Pad
  <2> QED BY <2>2, <2>3, Zenon
<1>7. PICK a \in 0 .. 1, b \in 0 .. 1 : /\ a = (IF t[n] = Pad THEN 1 ELSE 0)
                                        /\ b = (IF t[n - 1] = Pad THEN 1 ELSE 0)
  OBVIOUS
<1>8. Expected(t) = 3 * m - a - b
  BY <1>4, <1>7 DEF Expected
<1>9. (a = 1 => j < n) /\ (b = 1 => j < n - 1)
  BY <1>5, <1>6, <1>7
<1>10. UtLen(j) <= 3 * m - a - b
  BY <1>2, <1>4, <1>9 DEF UtLen
<1>11. UtLen(j) \in Int
  BY <1>2 DEF UtLen
<1> QED BY <1>2, <1>3, <1>8, <1>10, <1>11, Base64Assumption

\* The text to decode, as B64Spec makes it.
TextInv == text \in Seq(0 .. 65)

\* It stays that.
THEOREM TextTo == B64Spec => []TextInv
<1>1. B64Init => TextInv
  BY DEF B64Init, TextInv
<1>2. TextInv /\ [B64Next]_b64Vars => TextInv'
  <2> SUFFICES ASSUME TextInv, [B64Next]_b64Vars PROVE TextInv'
    OBVIOUS
  <2>1. CASE UNCHANGED text
    BY <2>1 DEF TextInv
  <2>2. ASSUME NEW c \in Symbols, text' = Append(text, c) PROVE TextInv'
    <3>1. c \in 0 .. 65
      BY Base64Assumption
    <3> QED BY <2>2, <3>1, AppendProperties DEF TextInv
  <2> QED BY <2>1, <2>2 DEF B64Next, b64Vars
<1> QED BY <1>1, <1>2, PTL DEF B64Spec

\* The two decoders agree on t as on keys.
Agree(t) ==
  LET w == WgDecode(t, KeyLength)
      u == UtilDecode(t, KeyLength)
  IN  /\ (w.ok /\ Len(w.out) = KeyLength) \/ (u.ok /\ Len(u.out) = KeyLength) => w = u
      /\ Len(w.out) <= KeyLength /\ Len(u.out) <= KeyLength

\* They do on any text.
LEMMA AllAgree ==
  ASSUME NEW t \in Seq(0 .. 65)
  PROVE  Agree(t)
<1>1. PICK n \in Nat : n = Len(t)
  BY LenProperties
<1>2. t \in Seq(Int)
  BY CharactersAreInts, Zenon
<1>3. PICK f : WgRun(f, t, KeyLength, n)
  BY <1>1, <1>2, WgRuns, Zenon
<1>4. PICK g : UtRun(g, t, n)
  BY <1>1, <1>2, UtRuns, Zenon
<1>5. WgAt(f[n], t, n) /\ UtAt(g[n], t, n)
  BY <1>1, <1>3, <1>4, WgArrives, UtArrives, Zenon
<1>6. PICK w : w = WgDecode(t, KeyLength)
  OBVIOUS
<1>7. PICK u : u = UtilDecode(t, KeyLength)
  OBVIOUS
<1>8. w = [ok |-> ~f[n].failed /\ f[n].count = 0, out |-> f[n].out]
  BY <1>3, <1>6, WgResult, Zenon
<1>9. w.out = f[n].out /\ (w.ok => f[n].failed = FALSE /\ f[n].count = 0)
  <2>1. f[n] \in WgStates
    BY <1>5, Zenon DEF WgAt
  <2>2. f[n].failed \in BOOLEAN
    BY <2>1, WgParts, Zenon
  <2>3. w.out = f[n].out /\ (w.ok => ~f[n].failed /\ f[n].count = 0)
    BY <1>8
  <2> QED BY <2>2, <2>3
<1>10. UtDecode(t, KeyLength, g, n)
  BY <1>4, UtResult, Zenon
<1>11. CASE Fits(t, KeyLength)
  <2>1. u = [ok |-> ~g[n].failed, out |-> g[n].out]
    BY <1>7, <1>10, <1>11, Zenon DEF UtDecode, Fits
  <2>2. u.out = g[n].out /\ (u.ok => g[n].failed = FALSE)
    <3>1. g[n] \in UtStates
      BY <1>5, Zenon DEF UtAt, UtReading
    <3>2. g[n].failed \in BOOLEAN
      BY <3>1, UtParts, Zenon
    <3>3. u.out = g[n].out /\ (u.ok => ~g[n].failed)
      BY <2>1
    <3> QED BY <3>2, <3>3
  <2>3. Len(w.out) <= KeyLength /\ Len(u.out) <= KeyLength
    BY <1>1, <1>5, <1>9, <1>11, <2>2, UtBounded, Zenon DEF WgAt
  <2>4. ASSUME (w.ok /\ Len(w.out) = KeyLength) \/ (u.ok /\ Len(u.out) = KeyLength) PROVE w = u
    <3>1. PICK K \in Nat : KeyLength = 3 * K + 2
      BY KeyHolds
    <3>2. OnePad(t, n, K)
      <4>1. CASE w.ok /\ Len(w.out) = KeyLength
        BY <1>1, <1>5, <1>9, <3>1, <4>1, WgFull, Zenon
      <4>2. CASE u.ok /\ Len(u.out) = KeyLength
        BY <1>1, <1>5, <1>11, <2>2, <3>1, <4>2, UtFull, Zenon
      <4> QED BY <2>4, <4>1, <4>2
    <3>3. SameFrom(t, KeyLength)
      BY <3>1, <3>2, KeysDecode, Zenon
    <3> QED BY <1>6, <1>7, <3>3, Zenon DEF SameFrom
  <2> QED BY <1>6, <1>7, <2>3, <2>4, Zenon DEF Agree
<1>12. CASE ~Fits(t, KeyLength)
  <2>1. u = [ok |-> FALSE, out |-> <<>>]
    BY <1>7, <1>10, <1>12, Zenon DEF UtDecode, Fits
  <2>2. u.out = <<>> /\ ~u.ok
    BY <2>1
  <2>3. Len(w.out) <= KeyLength
    BY <1>5, <1>9, Zenon DEF WgAt
  <2>4. Len(u.out) <= KeyLength
    <3>1. Len(<<>>) <= KeyLength
      BY Base64Assumption
    <3> QED BY <2>2, <3>1, Zenon
  <2>5. ~(w.ok /\ Len(w.out) = KeyLength)
    <3> SUFFICES ASSUME w.ok /\ Len(w.out) = KeyLength PROVE FALSE
      OBVIOUS
    <3>1. PICK K \in Nat : KeyLength = 3 * K + 2
      BY KeyHolds
    <3>2. OnePad(t, n, K)
      BY <1>1, <1>5, <1>9, <3>1, WgFull, Zenon
    <3>3. Fits(t, KeyLength)
      <4>1. KeyLength \in Int /\ 3 * K + 2 <= KeyLength
        BY <3>1
      <4> QED BY <3>2, <4>1, KeysFit, Zenon
    <3> QED BY <1>12, <3>3, Zenon
  <2> QED BY <1>6, <1>7, <2>2, <2>3, <2>4, <2>5, Zenon DEF Agree
<1> QED BY <1>11, <1>12

\* The two decoders accept the same keys and give the same bytes, and neither writes past
\* the buffer.
THEOREM KeysAreTheSame == B64Spec => []SameKeys
<1>1. TextInv => SameKeys
  <2> SUFFICES ASSUME TextInv PROVE SameKeys
    OBVIOUS
  <2>1. Agree(text)
    BY AllAgree, Zenon DEF TextInv
  <2> QED BY <2>1, Zenon DEF SameKeys, Agree
<1> QED BY <1>1, TextTo, PTL

(***************************************************************************)
(* X25519: the sizes.                                                      *)
(***************************************************************************)

\* What the provers are told of the sizes.
LEMMA Sizes ==
  /\ Gap \in Nat /\ Gap > 0 /\ Half \in Nat /\ WordSize \in Nat
  /\ Size = 2 * Half /\ Size \in Nat /\ Field = Half - Gap /\ Field \in Nat
  /\ Gap * (2 * Gap + 3) < WordSize /\ 5 * Gap < WordSize /\ 2 * Gap + 3 < WordSize
  /\ Gap * WordSize + WordSize <= Half /\ WordSize + 2 * Gap < Half
<1> PICK g \in Nat, H \in Nat, W \in Nat :
      g = Gap /\ H = Half /\ W = WordSize /\ g > 0 /\ g * (2 * g + 3) < W /\ (g + 1) * W <= H
  BY X25519Assumption, RoomAssumption
<1>1. g * (2 * g + 3) = 2 * (g * g) + 3 * g /\ (g + 1) * W = g * W + W
  OBVIOUS
<1>2. g * g >= g /\ g * W >= W
  OBVIOUS
<1>3. 5 * g < W /\ 2 * g + 3 < W
  BY <1>1, <1>2
<1>4. W + 2 * g < H
  BY <1>1, <1>2, <1>3
<1> QED BY <1>1, <1>3, <1>4, RoomAssumption DEF Field

(***************************************************************************)
(* X25519: the operations.                                                 *)
(***************************************************************************)

\* What propagate adds fits the word it is kept in, and the result the bound that
\* x25519.c states; it stands for the number with its carry.
LEMMA PropagateExact ==
  ASSUME NEW x \in 0 .. Size - 1, NEW over \in 0 .. Gap + 1
  PROVE  /\ Propagate(x, over) = (x % Half) + Gap * ((x \div Half) + 2 * over)
         /\ Propagate(x, over) \in 0 .. Half + WordSize - 1
         /\ Propagate(x, over) % Field = (x + Size * over) % Field
<1>s. PICK g \in Nat, H \in Nat, W \in Nat, S \in Nat, F \in Nat :
        /\ g = Gap /\ H = Half /\ W = WordSize /\ S = Size /\ F = Field
        /\ g > 0 /\ S = 2 * H /\ F = H - g /\ g * (2 * g + 3) < W /\ 2 * g + 3 < W
        /\ W + 2 * g < H
  BY Sizes
<1>1. x = H * (x \div H) + (x % H) /\ x \div H \in Int /\ x % H \in 0 .. H - 1
  <2>1. x \in Int /\ H \in Nat \ {0}
    BY <1>s
  <2> QED BY <2>1, Division
<1>2. PICK t \in Int, r \in 0 .. H - 1 : t = x \div H /\ r = x % H
  BY <1>1
<1>3. t \in 0 .. 1
  <2>0. x \in 0 .. 2 * H - 1 /\ x = H * t + r
    BY <1>1, <1>2, <1>s
  <2>1. ASSUME t >= 2 PROVE FALSE
    <3>1. H * t >= 2 * H
      BY <2>1
    <3> QED BY <3>1, <2>0
  <2>2. ASSUME t <= -1 PROVE FALSE
    <3>1. H * t <= -H
      BY <2>2
    <3> QED BY <3>1, <2>0
  <2> QED BY <2>1, <2>2
<1>4. PICK o \in Nat : o = t + 2 * over
  BY <1>3, <1>s
<1>5. o <= 2 * g + 3
  BY <1>3, <1>4, <1>s
<1>6. g * o < W /\ g * o \in Nat
  <2>1. g * o <= g * (2 * g + 3)
    BY <1>5
  <2> QED BY <2>1, <1>s
<1>7. o % W = o
  <2>1. W \in Nat \ {0} /\ o \in 0 .. W - 1
    BY <1>5, <1>s
  <2> QED BY <2>1, SmallRemainder
<1>12. (g * o) % W = g * o
  <2>1. W \in Nat \ {0} /\ g * o \in 0 .. W - 1
    BY <1>6, <1>s
  <2> QED BY <2>1, SmallRemainder
<1>8. (r + g * o) % S = r + g * o
  <2>1. S \in Nat \ {0} /\ r + g * o \in 0 .. S - 1
    BY <1>6, <1>s
  <2> QED BY <2>1, SmallRemainder
<1>9. Propagate(x, over) = r + g * o
  BY <1>2, <1>4, <1>7, <1>12, <1>8, <1>s DEF Propagate
<1>10. r + g * o \in 0 .. H + W - 1
  BY <1>6, <1>s
<1>11. (r + g * o) % F = (x + S * over) % F
  <2>1. H * t + S * over = H * o
    <3>1. H * o = H * t + 2 * (H * over)
      BY <1>4
    <3>2. S * over = 2 * (H * over)
      BY <1>s
    <3> QED BY <3>1, <3>2
  <2>2. H * o = F * o + g * o
    BY <1>s
  <2>3. x + S * over = (r + g * o) + F * o
    BY <2>1, <2>2, <1>1, <1>2
  <2>4. r + g * o \in Int /\ x + S * over \in Int /\ o \in Int /\ F \in Nat \ {0}
    BY <1>10, <1>s
  <2>5. Apart(r + g * o, x + S * over, F, o)
    BY <2>3, <2>4 DEF Apart
  <2> QED BY <2>5, Congruent, Zenon
<1> QED BY <1>9, <1>10, <1>11, <1>2, <1>4, <1>s

\* The sum, which carries at most one.
LEMMA AddExact ==
  ASSUME NEW a \in 0 .. Size - 1, NEW v \in 0 .. Half + WordSize - 1
  PROVE  Add(a, v) \in 0 .. Half + WordSize - 1 /\ Add(a, v) % Field = (a + v) % Field
<1>s. PICK H \in Nat, W \in Nat, S \in Nat :
        /\ H = Half /\ W = WordSize /\ S = Size /\ S = 2 * H /\ W < H
        /\ Gap \in Nat /\ Gap > 0
  BY Sizes
<1>1. PICK q \in Int, r \in 0 .. S - 1 :
        q = (a + v) \div S /\ r = (a + v) % S /\ a + v = S * q + r
  <2>1. a + v \in Int /\ S \in Nat \ {0}
    BY <1>s
  <2> QED BY <2>1, Division
<1>2. q \in 0 .. 1
  <2>0. a + v \in 0 .. 2 * S - 1
    BY <1>s
  <2>1. ASSUME q >= 2 PROVE FALSE
    <3>1. S * q >= 2 * S
      BY <2>1
    <3> QED BY <3>1, <2>0, <1>1
  <2>2. ASSUME q <= -1 PROVE FALSE
    <3>1. S * q <= -S
      BY <2>2
    <3> QED BY <3>1, <2>0, <1>1
  <2> QED BY <2>1, <2>2
<1>3. Add(a, v) = Propagate(r, q)
  BY <1>1, <1>s DEF Add
<1>4. r \in 0 .. Size - 1 /\ q \in 0 .. Gap + 1
  BY <1>2, <1>s
<1>5. r + Size * q = a + v
  BY <1>1, <1>s
<1> QED BY <1>3, <1>4, <1>5, PropagateExact

\* The difference: the prime is taken away twice more than it is given back, and the
\* carry, one less than what the limbs lack, comes out zero or one.
LEMMA SubExact ==
  ASSUME NEW a \in 0 .. Size - 1, NEW v \in 0 .. Half + WordSize - 1
  PROVE  Sub(a, v) \in 0 .. Half + WordSize - 1 /\ Sub(a, v) % Field = (a - v) % Field
<1>s. PICK g \in Nat, H \in Nat, W \in Nat, S \in Nat, F \in Nat :
        /\ g = Gap /\ H = Half /\ W = WordSize /\ S = Size /\ F = Field
        /\ g > 0 /\ S = 2 * H /\ F = H - g /\ W + 2 * g < H
  BY Sizes
<1>0. PICK d \in Int : d = a - v - 2 * g
  BY <1>s
<1>1. PICK q \in Int, r \in 0 .. S - 1 :
        q = d \div S /\ r = d % S /\ d = S * q + r
  <2>1. S \in Nat \ {0}
    BY <1>s
  <2> QED BY <2>1, Division
<1>2. q \in -1 .. 0
  <2>0. d \in -S .. S - 1
    BY <1>s, <1>0
  <2>1. ASSUME q >= 1 PROVE FALSE
    <3>1. S * q >= S
      BY <2>1
    <3> QED BY <3>1, <2>0, <1>1
  <2>2. ASSUME q <= -2 PROVE FALSE
    <3>1. S * q <= -(2 * S)
      BY <2>2
    <3> QED BY <3>1, <2>0, <1>1
  <2> QED BY <2>1, <2>2
<1>3. Sub(a, v) = Propagate(r, 1 + q)
  BY <1>0, <1>1, <1>s DEF Sub
<1>4. r \in 0 .. Size - 1 /\ 1 + q \in 0 .. Gap + 1
  BY <1>2, <1>s
<1>5. r + Size * (1 + q) = (a - v) + F * 2
  <2>1. S * (1 + q) = S + S * q
    OBVIOUS
  <2>2. r + S * (1 + q) = (a - v) + F * 2
    <3>1. PICK m \in Int, n \in Int : m = S * q /\ n = S * (1 + q)
      OBVIOUS
    <3>2. n = S + m /\ d = m + r
      BY <3>1, <2>1, <1>1
    <3> QED BY <3>1, <3>2, <1>0, <1>s
  <2> QED BY <2>2, <1>s, Zenon
<1>6. (a - v) % F = ((a - v) + F * 2) % F
  <2>1. a - v \in Int /\ (a - v) + F * 2 \in Int /\ F \in Nat \ {0}
    BY <1>s
  <2>2. Apart(a - v, (a - v) + F * 2, F, 2)
    BY <2>1 DEF Apart
  <2> QED BY <2>2, Congruent, Zenon
<1> QED BY <1>3, <1>4, <1>5, <1>6, <1>s, PropagateExact

\* The product: the upper half, folded in, leaves a carry of at most Gap + 1.
LEMMA MulExact ==
  ASSUME NEW a \in 0 .. Size - 1, NEW v \in 0 .. Half + WordSize - 1
  PROVE  Mul(a, v) \in 0 .. Half + WordSize - 1 /\ Mul(a, v) % Field = (a * v) % Field
<1>s. PICK g \in Nat, H \in Nat, W \in Nat, S \in Nat, F \in Nat :
        /\ g = Gap /\ H = Half /\ W = WordSize /\ S = Size /\ F = Field
        /\ g > 0 /\ S = 2 * H /\ F = H - g /\ W + 2 * g < H /\ g * W + W <= H
  BY Sizes
<1>0. PICK p \in Nat : p = a * v
  <2>1. \A i, j \in Nat : i * j \in Nat
    OBVIOUS
  <2>2. a \in Nat /\ v \in Nat
    BY <1>s
  <2> QED BY <2>1, <2>2
<1>1. PICK q \in Int, r \in 0 .. S - 1 :
        q = p \div S /\ r = p % S /\ p = S * q + r
  <2>1. S \in Nat \ {0} /\ p \in Int
    BY <1>s
  <2> QED BY <2>1, Division
<1>2. q \in 0 .. H + W - 1
  <2>0. p <= S * (H + W - 1)
    <3>1. PICK i \in Nat, j \in Nat : i = a /\ j = v /\ i <= S /\ j <= H + W - 1
      BY <1>s
    <3>2. i * j <= S * j
      BY <3>1
    <3>3. S * j <= S * (H + W - 1)
      BY <3>1
    <3> QED BY <1>0, <3>1, <3>2, <3>3, <1>s
  <2>1. ASSUME q >= H + W PROVE FALSE
    <3>1. S * q >= S * (H + W)
      BY <2>1
    <3>2. S * (H + W) = S * (H + W - 1) + S
      OBVIOUS
    <3>3. S > 0
      BY <1>s
    <3> QED BY <3>1, <3>2, <3>3, <2>0, <1>1
  <2>2. ASSUME q <= -1 PROVE FALSE
    <3>1. S * q <= -S
      BY <2>2
    <3> QED BY <3>1, <1>1
  <2> QED BY <2>1, <2>2
<1>3. PICK f \in Nat : f = r + 2 * g * q
  <2>1. 2 * g * q \in Nat
    BY <1>2
  <2> QED BY <2>1
<1>4. PICK over \in Int, low \in 0 .. S - 1 :
        over = f \div S /\ low = f % S /\ f = S * over + low
  <2>1. S \in Nat \ {0} /\ f \in Int
    BY <1>s
  <2> QED BY <2>1, Division
<1>5. over \in 0 .. g + 1
  <2>0. f < S * (g + 2)
    <3>1. 2 * g * q <= 2 * g * (H + W)
      BY <1>2
    <3>2. 2 * g * (H + W) = g * S + 2 * (g * W)
      BY <1>s
    <3>3. S * (g + 2) = g * S + 2 * S
      OBVIOUS
    <3>4. 2 * (g * W) <= S
      BY <1>s
    <3> QED BY <3>1, <3>2, <3>3, <3>4, <1>3
  <2>1. ASSUME over >= g + 2 PROVE FALSE
    <3>1. S * over >= S * (g + 2)
      BY <2>1
    <3> QED BY <3>1, <2>0, <1>4
  <2>2. ASSUME over <= -1 PROVE FALSE
    <3>1. S * over <= -S
      BY <2>2
    <3> QED BY <3>1, <1>4
  <2> QED BY <2>1, <2>2
<1>6. Mul(a, v) = Propagate(low, over)
  <2>1. Mul(a, v) = LET folded == (p % S) + 2 * g * (p \div S) IN Propagate(folded % S, folded \div S)
    BY <1>0, <1>s DEF Mul
  <2> QED BY <2>1, <1>1, <1>3, <1>4
<1>7. low \in 0 .. Size - 1 /\ over \in 0 .. Gap + 1
  BY <1>5, <1>s
<1>8. f % F = p % F
  <2>1. S * q = F * (2 * q) + 2 * g * q
    BY <1>s
  <2>2. p = f + F * (2 * q)
    BY <2>1, <1>1, <1>3
  <2>3. 2 * q \in Int /\ F \in Nat \ {0} /\ f \in Int /\ p \in Int
    BY <1>s
  <2>4. Apart(f, p, F, 2 * q)
    BY <2>2, <2>3 DEF Apart
  <2> QED BY <2>4, Congruent, Zenon
<1>9. low + Size * over = f
  BY <1>4, <1>s
<1> QED BY <1>0, <1>6, <1>7, <1>8, <1>9, <1>s, PropagateExact

\* A number below twice the prime has the prime taken away at most once.
LEMMA FieldRemainder ==
  ASSUME NEW F \in Nat \ {0}, NEW x \in 0 .. 2 * F - 1
  PROVE  x % F = IF x < F THEN x ELSE x - F
<1>1. CASE x < F
  BY <1>1, SmallRemainder
<1>2. CASE x >= F
  <2>1. PICK y \in 0 .. F - 1 : y = x - F
    BY <1>2
  <2>2. Apart(y, x, F, 1)
    BY <2>1 DEF Apart
  <2>3. y % F = x % F
    BY <2>2, Congruent, Zenon
  <2>4. y % F = y
    BY SmallRemainder
  <2> QED BY <1>2, <2>1, <2>3, <2>4
<1> QED BY <1>1, <1>2

\* The one number below the prime: with Gap added, the top bit tells whether there is
\* a prime to take away, and propagate adds Gap once more when there is.
LEMMA CanonExact ==
  ASSUME NEW x \in 0 .. Half + WordSize - 1
  PROVE  Canon(x) = [x |-> x % Field, ret |-> IF x % Field = 0 THEN -1 ELSE 0]
<1>s. PICK g \in Nat, H \in Nat, W \in Nat, S \in Nat, F \in Nat \ {0} :
        /\ g = Gap /\ H = Half /\ W = WordSize /\ S = Size /\ F = Field
        /\ g > 0 /\ S = 2 * H /\ F = H - g /\ W + 2 * g < H
  <2>1. Field # 0
    BY Sizes
  <2> QED BY <2>1, Sizes
<1>1. PICK s \in Nat : s = x + g /\ s < S
  BY <1>s
<1>2. s % S = s /\ s \div S = 0
  <2>1. S \in Nat \ {0} /\ s \in 0 .. S - 1
    BY <1>1, <1>s
  <2> QED BY <2>1, SmallRemainder
<1>3. PICK y \in Nat : y = Propagate(s, 0) /\ y = (s % H) + g * (s \div H)
  <2>1. s \in 0 .. Size - 1 /\ 0 \in 0 .. Gap + 1
    BY <1>1, <1>s
  <2>2. Propagate(s, 0) = (s % Half) + Gap * ((s \div Half) + 2 * 0)
        /\ Propagate(s, 0) \in 0 .. Half + WordSize - 1
    BY <2>1, PropagateExact, Zenon
  <2>3. s \div H \in Int
    <3>1. s \in Int /\ H \in Nat \ {0}
      BY <1>s
    <3> QED BY <3>1, Division
  <2>4. (s \div H) + 2 * 0 = s \div H
    BY <2>3
  <2> QED BY <2>2, <2>4, <1>s
<1>4. y = (IF s < H THEN s ELSE s - H + g)
  <2>0. H \in Nat \ {0} /\ s \in Int
    BY <1>s
  <2>1. CASE s < H
    <3>1. s % H = s /\ s \div H = 0
      BY <2>0, <2>1, SmallRemainder
    <3> QED BY <2>1, <3>1, <1>3
  <2>2. CASE s >= H
    <3>1. PICK q \in Int, r \in 0 .. H - 1 : q = s \div H /\ r = s % H /\ s = H * q + r
      BY <2>0, Division
    <3>2. H * q + r = H * 1 + (s - H) /\ s - H \in 0 .. H - 1
      BY <2>2, <3>1, <1>1, <1>s
    <3>3. q = 1 /\ r = s - H
      <4>1. PICK n \in 0 .. H - 1 : n = s - H
        BY <3>2
      <4>2. H * q + r = H * 1 + n
        BY <3>2, <4>1
      <4>3. q = 1 /\ r = n
        BY <2>0, <4>2, OneDivision
      <4> QED BY <4>1, <4>3
    <3> QED BY <2>2, <3>1, <3>3, <1>3
  <2> QED BY <2>1, <2>2
<1>5. PICK n \in 0 .. F - 1 : n = y - g /\ n = (IF x < F THEN x ELSE x - F)
  <2>1. x \in Nat /\ x < H + W
    BY <1>s
  <2>2. CASE s < H
    BY <2>1, <2>2, <1>1, <1>4, <1>s
  <2>3. CASE s >= H
    BY <2>1, <2>3, <1>1, <1>4, <1>s
  <2> QED BY <2>2, <2>3
<1>6. x % F = n
  <2>1. x \in 0 .. 2 * F - 1
    BY <1>s
  <2> QED BY <2>1, <1>5, FieldRemainder
<1>7. n % S = n
  <2>1. S \in Nat \ {0} /\ n \in 0 .. S - 1
    BY <1>s
  <2> QED BY <2>1, SmallRemainder
<1>8. Canon(x) = [x |-> n % S, ret |-> IF n % S = 0 THEN -1 ELSE 0]
  <2>1. Canon(x) = [ x |-> (Propagate(s % S, s \div S) - g) % S,
                     ret |-> IF (Propagate(s % S, s \div S) - g) % S = 0 THEN -1 ELSE 0 ]
    BY <1>1, <1>s, Zenon DEF Canon
  <2> QED BY <2>1, <1>2, <1>3, <1>5
<1> QED BY <1>6, <1>7, <1>8, <1>s, Zenon

(***************************************************************************)
(* X25519: the theorem.                                                    *)
(***************************************************************************)

\* The element tried is a number of 256 bits, or none yet.
ElementInv == element \in -1 .. Size - 1

\* The operations of the field, of every number that fits in 256 bits, give what the
\* field gives, and numbers small enough to be given to the next operation.
THEOREM FieldIsExact == XSpec => []FieldExact
<1>1. XInit => ElementInv
  <2>1. -1 \in -1 .. Size - 1
    BY Sizes
  <2> QED BY <2>1 DEF XInit, ElementInv
<1>2. ElementInv /\ [XNext]_xVars => ElementInv'
  <2> SUFFICES ASSUME ElementInv, [XNext]_xVars PROVE ElementInv'
    OBVIOUS
  <2>1. CASE TryElement
    <3>1. \A e \in 0 .. Size - 1 : e \in -1 .. Size - 1
      BY Sizes
    <3> QED BY <2>1, <3>1 DEF TryElement, ElementInv
  <2>2. CASE UNCHANGED element
    BY <2>2 DEF ElementInv
  <2> QED BY <2>1, <2>2 DEF XNext, TryKeys, LadderRound, Return, Invert, xVars
<1>3. ElementInv => FieldExact
  <2> SUFFICES ASSUME ElementInv, element >= 0 PROVE FieldExact
    BY DEF FieldExact
  <2>s. /\ Half + WordSize \in Nat /\ Size \in Nat /\ Field \in Nat
        /\ \A n \in 0 .. Half + WordSize - 1 : n < Half + WordSize
    BY Sizes
  <2>1. element \in 0 .. Size - 1
    BY <2>s DEF ElementInv
  <2>2. ASSUME NEW v \in 0 .. Half + WordSize - 1
        PROVE  /\ Add(element, v) < Half + WordSize
               /\ Add(element, v) % Field = (element + v) % Field
               /\ Sub(element, v) < Half + WordSize
               /\ Sub(element, v) % Field = (element - v) % Field
               /\ Mul(element, v) < Half + WordSize
               /\ Mul(element, v) % Field = (element * v) % Field
    BY <2>1, <2>2, <2>s, AddExact, SubExact, MulExact, Zenon
  <2>3. ASSUME element < Half + WordSize
        PROVE  Canon(element)
                 = [x |-> element % Field, ret |-> IF element % Field = 0 THEN -1 ELSE 0]
    <3>1. element \in 0 .. Half + WordSize - 1
      <4>1. PICK H \in Nat, W \in Nat : H = Half /\ W = WordSize
        BY Sizes
      <4>2. element \in 0 .. H + W - 1
        BY <4>1, <2>1, <2>3, <2>s
      <4> QED BY <4>1, <4>2
    <3> QED BY <3>1, CanonExact, Zenon
  <2> QED BY <2>2, <2>3, Zenon DEF FieldExact
<1> QED BY <1>1, <1>2, <1>3, PTL DEF XSpec

(***************************************************************************)
(* X25519: the chain that inverts.                                         *)
(***************************************************************************)

\* The chain s has done n steps; the exponents in xs[1 .. 4] are those given, and prev
\* is xs[p].
At(s, n, w, x, y, z, p) ==
  s.exps = <<w, x, y, z>> /\ s.prev = p /\ s.done = n /\ s.clean = TRUE

\* Step m of the code squares xs[p], whose exponents are E, k times: that makes them R,
\* none of which is in xs[c], whose exponents are F.
Squares(w, x, y, z, p, m, a, c, k, E, R, F) ==
  /\ m \in 1 .. 13 /\ p \in 1 .. 4 /\ a \in 1 .. 4 /\ c \in 1 .. 4 /\ k \in Int
  /\ Steps[m] = <<a, c, k>> /\ <<w, x, y, z>>[p] = E /\ <<w, x, y, z>>[c] = F
  /\ (\A b \in E : b + k \in R) /\ (\A b \in R : b - k \in E /\ b = (b - k) + k)
  /\ R \intersect F = {}

\* What becomes of xs[i] when V goes to xs[a].
Put(i, a, V, old) == IF a = i THEN V ELSE old

\* A step of the chain.
LEMMA OneStep ==
  ASSUME NEW s, NEW w, NEW x, NEW y, NEW z, NEW p, NEW n, NEW m,
         NEW a, NEW c, NEW k, NEW E, NEW R, NEW F,
         At(s, n, w, x, y, z, p), Squares(w, x, y, z, p, m, a, c, k, E, R, F)
  PROVE  At(ChainStep(s, m), m, Put(1, a, R \union F, w), Put(2, a, R \union F, x),
            Put(3, a, R \union F, y), Put(4, a, R \union F, z), a)
<1>1. PICK e, st : e = <<w, x, y, z>> /\ st = <<a, c, k>>
  OBVIOUS
<1>2. /\ s.exps = e /\ s.prev = p /\ s.clean = TRUE /\ Steps[m] = st
      /\ e[p] = E /\ e[c] = F /\ R \intersect F = {} /\ a \in 1 .. 4 /\ k \in Int
      /\ (\A b \in E : b + k \in R) /\ (\A b \in R : b - k \in E /\ b = (b - k) + k)
  BY <1>1, Zenon DEF At, Squares
<1>3. st[1] = a /\ st[2] = c /\ st[3] = k
  BY <1>1
<1>4. {b + Steps[m][3] : b \in s.exps[s.prev]} = R
  <2>1. /\ \A b \in s.exps[s.prev] : b + Steps[m][3] \in R
        /\ \A b \in R : b - Steps[m][3] \in s.exps[s.prev] /\ b = (b - Steps[m][3]) + Steps[m][3]
    BY <1>2, <1>3, Zenon
  <2> QED BY ONLY <2>1
<1>5. ChainStep(s, m) = [ exps |-> [e EXCEPT ![a] = R \union F], prev |-> a, done |-> m,
                          clean |-> s.clean /\ R \intersect F = {} ]
  <2>1. PICK D : D = {b + Steps[m][3] : b \in s.exps[s.prev]}
    OBVIOUS
  <2>2. ChainStep(s, m) = [ exps |-> [s.exps EXCEPT ![Steps[m][1]] = D \union s.exps[Steps[m][2]]],
                            prev |-> Steps[m][1], done |-> m,
                            clean |-> s.clean /\ D \intersect s.exps[Steps[m][2]] = {} ]
    BY <2>1, Zenon DEF ChainStep
  <2>3. D = R
    BY <1>4, <2>1, Zenon
  <2> QED BY <1>2, <1>3, <2>2, <2>3, Zenon
<1>6. PICK V : V = R \union F
  OBVIOUS
<1>7. PICK u : u = [<<w, x, y, z>> EXCEPT ![a] = V]
  OBVIOUS
<1>8. u = <<Put(1, a, V, w), Put(2, a, V, x), Put(3, a, V, y), Put(4, a, V, z)>>
  <2>1. a = 1 \/ a = 2 \/ a = 3 \/ a = 4
    BY <1>2
  <2>2. CASE a = 1
    BY ONLY <1>7, <2>2 DEF Put
  <2>3. CASE a = 2
    BY ONLY <1>7, <2>3 DEF Put
  <2>4. CASE a = 3
    BY ONLY <1>7, <2>4 DEF Put
  <2>5. CASE a = 4
    BY ONLY <1>7, <2>5 DEF Put
  <2> QED BY <2>1, <2>2, <2>3, <2>4, <2>5
<1>9. PICK f : f = (s.clean /\ R \intersect F = {}) /\ f = TRUE
  BY <1>2
<1>10. ChainStep(s, m) = [exps |-> u, prev |-> a, done |-> m, clean |-> f]
  BY <1>1, <1>5, <1>6, <1>7, <1>9, Zenon
<1>11. /\ ChainStep(s, m).exps = u /\ ChainStep(s, m).prev = a /\ ChainStep(s, m).done = m
       /\ ChainStep(s, m).clean = f
  BY <1>10
<1> QED BY <1>6, <1>8, <1>9, <1>11, Zenon DEF At

\* The steps of x25519.
LEMMA StepsAre ==
  /\ Steps[1] = <<2,1,1>> /\ Steps[2] = <<2,1,1>> /\ Steps[3] = <<4,2,3>> /\ Steps[4] = <<2,4,6>>
  /\ Steps[5] = <<3,1,1>> /\ Steps[6] = <<3,2,12>> /\ Steps[7] = <<4,3,25>> /\ Steps[8] = <<2,3,25>>
  /\ Steps[9] = <<2,4,50>> /\ Steps[10] = <<3,2,125>> /\ Steps[11] = <<3,1,2>> /\ Steps[12] = <<3,1,2>>
  /\ Steps[13] = <<3,1,1>> /\ Len(Steps) = 13
BY DEF Steps

\* The exponents after each step.
Chained(s) ==
  \/ At(s, 0, {0}, {}, {}, {}, 1)
  \/ At(s, 1, {0}, 0 .. 1, {}, {}, 2)
  \/ At(s, 2, {0}, 0 .. 2, {}, {}, 2)
  \/ At(s, 3, {0}, 0 .. 2, {}, 0 .. 5, 4)
  \/ At(s, 4, {0}, 0 .. 11, {}, 0 .. 5, 2)
  \/ At(s, 5, {0}, 0 .. 11, 0 .. 12, 0 .. 5, 3)
  \/ At(s, 6, {0}, 0 .. 11, 0 .. 24, 0 .. 5, 3)
  \/ At(s, 7, {0}, 0 .. 11, 0 .. 24, 0 .. 49, 4)
  \/ At(s, 8, {0}, 0 .. 74, 0 .. 24, 0 .. 49, 2)
  \/ At(s, 9, {0}, 0 .. 124, 0 .. 24, 0 .. 49, 2)
  \/ At(s, 10, {0}, 0 .. 124, 0 .. 249, 0 .. 49, 3)
  \/ At(s, 11, {0}, 0 .. 124, {0} \union (2 .. 251), 0 .. 49, 3)
  \/ At(s, 12, {0}, 0 .. 124, {0, 2} \union (4 .. 253), 0 .. 49, 3)
  \/ At(s, 13, {0}, 0 .. 124, (0 .. 254) \ {2, 4}, 0 .. 49, 3)

\* One step after another gets there: step 1 goes from row 0 of that table to row 1.
LEMMA Step1 ==
  ASSUME NEW s, At(s, 0, {0}, {}, {}, {}, 1)
  PROVE  At(ChainStep(s, 1), 1, {0}, 0 .. 1, {}, {}, 2)
<1>1. At(s, 0, {0}, {}, {}, {}, 1)
  OBVIOUS
<1>2. PICK w, x, y, z, R, m, p, a, c, k :
        /\ w = {0} /\ x = {} /\ y = {} /\ z = {}
        /\ R = {1} /\ m = 1 /\ p = 1 /\ a = 2 /\ c = 1 /\ k = 1
  OBVIOUS
<1>3. PICK E, F : E = w /\ F = w
  OBVIOUS
<1>4. /\ (\A b \in E : b + k \in R) /\ (\A b \in R : b - k \in E /\ b = (b - k) + k)
      /\ R \intersect F = {} /\ R \union F = 0 .. 1
  BY <1>2, <1>3
<1>5. /\ m \in 1 .. 13 /\ p \in 1 .. 4 /\ a \in 1 .. 4 /\ c \in 1 .. 4 /\ k \in Int
      /\ Steps[m] = <<a, c, k>> /\ <<w, x, y, z>>[p] = E /\ <<w, x, y, z>>[c] = F
  BY <1>2, <1>3, StepsAre
<1>6. Squares(w, x, y, z, p, m, a, c, k, E, R, F) /\ At(s, 0, w, x, y, z, p)
  BY <1>1, <1>2, <1>4, <1>5, Zenon DEF Squares
<1>7. At(ChainStep(s, m), m, Put(1, a, R \union F, w), Put(2, a, R \union F, x), Put(3, a, R \union F, y), Put(4, a, R \union F, z), a)
  BY <1>6, OneStep, Zenon
<1>8. Put(1, a, R \union F, w) = w /\ Put(2, a, R \union F, x) = R \union F /\ Put(3, a, R \union F, y) = y /\ Put(4, a, R \union F, z) = z
  BY <1>2 DEF Put
<1>9. At(ChainStep(s, m), m, w, R \union F, y, z, a)
  BY <1>7, <1>8, Zenon
<1> QED BY <1>2, <1>4, <1>9

\* Step 2 goes from row 1 of that table to row 2.
LEMMA Step2 ==
  ASSUME NEW s, At(s, 1, {0}, 0 .. 1, {}, {}, 2)
  PROVE  At(ChainStep(s, 2), 2, {0}, 0 .. 2, {}, {}, 2)
<1>1. At(s, 1, {0}, 0 .. 1, {}, {}, 2)
  OBVIOUS
<1>2. PICK w, x, y, z, R, m, p, a, c, k :
        /\ w = {0} /\ x = 0 .. 1 /\ y = {} /\ z = {}
        /\ R = 1 .. 2 /\ m = 2 /\ p = 2 /\ a = 2 /\ c = 1 /\ k = 1
  OBVIOUS
<1>3. PICK E, F : E = x /\ F = w
  OBVIOUS
<1>4. /\ (\A b \in E : b + k \in R) /\ (\A b \in R : b - k \in E /\ b = (b - k) + k)
      /\ R \intersect F = {} /\ R \union F = 0 .. 2
  BY <1>2, <1>3
<1>5. /\ m \in 1 .. 13 /\ p \in 1 .. 4 /\ a \in 1 .. 4 /\ c \in 1 .. 4 /\ k \in Int
      /\ Steps[m] = <<a, c, k>> /\ <<w, x, y, z>>[p] = E /\ <<w, x, y, z>>[c] = F
  BY <1>2, <1>3, StepsAre
<1>6. Squares(w, x, y, z, p, m, a, c, k, E, R, F) /\ At(s, 1, w, x, y, z, p)
  BY <1>1, <1>2, <1>4, <1>5, Zenon DEF Squares
<1>7. At(ChainStep(s, m), m, Put(1, a, R \union F, w), Put(2, a, R \union F, x), Put(3, a, R \union F, y), Put(4, a, R \union F, z), a)
  BY <1>6, OneStep, Zenon
<1>8. Put(1, a, R \union F, w) = w /\ Put(2, a, R \union F, x) = R \union F /\ Put(3, a, R \union F, y) = y /\ Put(4, a, R \union F, z) = z
  BY <1>2 DEF Put
<1>9. At(ChainStep(s, m), m, w, R \union F, y, z, a)
  BY <1>7, <1>8, Zenon
<1> QED BY <1>2, <1>4, <1>9

\* Step 3 goes from row 2 of that table to row 3.
LEMMA Step3 ==
  ASSUME NEW s, At(s, 2, {0}, 0 .. 2, {}, {}, 2)
  PROVE  At(ChainStep(s, 3), 3, {0}, 0 .. 2, {}, 0 .. 5, 4)
<1>1. At(s, 2, {0}, 0 .. 2, {}, {}, 2)
  OBVIOUS
<1>2. PICK w, x, y, z, R, m, p, a, c, k :
        /\ w = {0} /\ x = 0 .. 2 /\ y = {} /\ z = {}
        /\ R = 3 .. 5 /\ m = 3 /\ p = 2 /\ a = 4 /\ c = 2 /\ k = 3
  OBVIOUS
<1>3. PICK E, F : E = x /\ F = x
  OBVIOUS
<1>4. /\ (\A b \in E : b + k \in R) /\ (\A b \in R : b - k \in E /\ b = (b - k) + k)
      /\ R \intersect F = {} /\ R \union F = 0 .. 5
  BY <1>2, <1>3
<1>5. /\ m \in 1 .. 13 /\ p \in 1 .. 4 /\ a \in 1 .. 4 /\ c \in 1 .. 4 /\ k \in Int
      /\ Steps[m] = <<a, c, k>> /\ <<w, x, y, z>>[p] = E /\ <<w, x, y, z>>[c] = F
  BY <1>2, <1>3, StepsAre
<1>6. Squares(w, x, y, z, p, m, a, c, k, E, R, F) /\ At(s, 2, w, x, y, z, p)
  BY <1>1, <1>2, <1>4, <1>5, Zenon DEF Squares
<1>7. At(ChainStep(s, m), m, Put(1, a, R \union F, w), Put(2, a, R \union F, x), Put(3, a, R \union F, y), Put(4, a, R \union F, z), a)
  BY <1>6, OneStep, Zenon
<1>8. Put(1, a, R \union F, w) = w /\ Put(2, a, R \union F, x) = x /\ Put(3, a, R \union F, y) = y /\ Put(4, a, R \union F, z) = R \union F
  BY <1>2 DEF Put
<1>9. At(ChainStep(s, m), m, w, x, y, R \union F, a)
  BY <1>7, <1>8, Zenon
<1> QED BY <1>2, <1>4, <1>9

\* Step 4 goes from row 3 of that table to row 4.
LEMMA Step4 ==
  ASSUME NEW s, At(s, 3, {0}, 0 .. 2, {}, 0 .. 5, 4)
  PROVE  At(ChainStep(s, 4), 4, {0}, 0 .. 11, {}, 0 .. 5, 2)
<1>1. At(s, 3, {0}, 0 .. 2, {}, 0 .. 5, 4)
  OBVIOUS
<1>2. PICK w, x, y, z, R, m, p, a, c, k :
        /\ w = {0} /\ x = 0 .. 2 /\ y = {} /\ z = 0 .. 5
        /\ R = 6 .. 11 /\ m = 4 /\ p = 4 /\ a = 2 /\ c = 4 /\ k = 6
  OBVIOUS
<1>3. PICK E, F : E = z /\ F = z
  OBVIOUS
<1>4. /\ (\A b \in E : b + k \in R) /\ (\A b \in R : b - k \in E /\ b = (b - k) + k)
      /\ R \intersect F = {} /\ R \union F = 0 .. 11
  BY <1>2, <1>3
<1>5. /\ m \in 1 .. 13 /\ p \in 1 .. 4 /\ a \in 1 .. 4 /\ c \in 1 .. 4 /\ k \in Int
      /\ Steps[m] = <<a, c, k>> /\ <<w, x, y, z>>[p] = E /\ <<w, x, y, z>>[c] = F
  BY <1>2, <1>3, StepsAre
<1>6. Squares(w, x, y, z, p, m, a, c, k, E, R, F) /\ At(s, 3, w, x, y, z, p)
  BY <1>1, <1>2, <1>4, <1>5, Zenon DEF Squares
<1>7. At(ChainStep(s, m), m, Put(1, a, R \union F, w), Put(2, a, R \union F, x), Put(3, a, R \union F, y), Put(4, a, R \union F, z), a)
  BY <1>6, OneStep, Zenon
<1>8. Put(1, a, R \union F, w) = w /\ Put(2, a, R \union F, x) = R \union F /\ Put(3, a, R \union F, y) = y /\ Put(4, a, R \union F, z) = z
  BY <1>2 DEF Put
<1>9. At(ChainStep(s, m), m, w, R \union F, y, z, a)
  BY <1>7, <1>8, Zenon
<1> QED BY <1>2, <1>4, <1>9

\* Step 5 goes from row 4 of that table to row 5.
LEMMA Step5 ==
  ASSUME NEW s, At(s, 4, {0}, 0 .. 11, {}, 0 .. 5, 2)
  PROVE  At(ChainStep(s, 5), 5, {0}, 0 .. 11, 0 .. 12, 0 .. 5, 3)
<1>1. At(s, 4, {0}, 0 .. 11, {}, 0 .. 5, 2)
  OBVIOUS
<1>2. PICK w, x, y, z, R, m, p, a, c, k :
        /\ w = {0} /\ x = 0 .. 11 /\ y = {} /\ z = 0 .. 5
        /\ R = 1 .. 12 /\ m = 5 /\ p = 2 /\ a = 3 /\ c = 1 /\ k = 1
  OBVIOUS
<1>3. PICK E, F : E = x /\ F = w
  OBVIOUS
<1>4. /\ (\A b \in E : b + k \in R) /\ (\A b \in R : b - k \in E /\ b = (b - k) + k)
      /\ R \intersect F = {} /\ R \union F = 0 .. 12
  BY <1>2, <1>3
<1>5. /\ m \in 1 .. 13 /\ p \in 1 .. 4 /\ a \in 1 .. 4 /\ c \in 1 .. 4 /\ k \in Int
      /\ Steps[m] = <<a, c, k>> /\ <<w, x, y, z>>[p] = E /\ <<w, x, y, z>>[c] = F
  BY <1>2, <1>3, StepsAre
<1>6. Squares(w, x, y, z, p, m, a, c, k, E, R, F) /\ At(s, 4, w, x, y, z, p)
  BY <1>1, <1>2, <1>4, <1>5, Zenon DEF Squares
<1>7. At(ChainStep(s, m), m, Put(1, a, R \union F, w), Put(2, a, R \union F, x), Put(3, a, R \union F, y), Put(4, a, R \union F, z), a)
  BY <1>6, OneStep, Zenon
<1>8. Put(1, a, R \union F, w) = w /\ Put(2, a, R \union F, x) = x /\ Put(3, a, R \union F, y) = R \union F /\ Put(4, a, R \union F, z) = z
  BY <1>2 DEF Put
<1>9. At(ChainStep(s, m), m, w, x, R \union F, z, a)
  BY <1>7, <1>8, Zenon
<1> QED BY <1>2, <1>4, <1>9

\* Step 6 goes from row 5 of that table to row 6.
LEMMA Step6 ==
  ASSUME NEW s, At(s, 5, {0}, 0 .. 11, 0 .. 12, 0 .. 5, 3)
  PROVE  At(ChainStep(s, 6), 6, {0}, 0 .. 11, 0 .. 24, 0 .. 5, 3)
<1>1. At(s, 5, {0}, 0 .. 11, 0 .. 12, 0 .. 5, 3)
  OBVIOUS
<1>2. PICK w, x, y, z, R, m, p, a, c, k :
        /\ w = {0} /\ x = 0 .. 11 /\ y = 0 .. 12 /\ z = 0 .. 5
        /\ R = 12 .. 24 /\ m = 6 /\ p = 3 /\ a = 3 /\ c = 2 /\ k = 12
  OBVIOUS
<1>3. PICK E, F : E = y /\ F = x
  OBVIOUS
<1>4. /\ (\A b \in E : b + k \in R) /\ (\A b \in R : b - k \in E /\ b = (b - k) + k)
      /\ R \intersect F = {} /\ R \union F = 0 .. 24
  BY <1>2, <1>3
<1>5. /\ m \in 1 .. 13 /\ p \in 1 .. 4 /\ a \in 1 .. 4 /\ c \in 1 .. 4 /\ k \in Int
      /\ Steps[m] = <<a, c, k>> /\ <<w, x, y, z>>[p] = E /\ <<w, x, y, z>>[c] = F
  BY <1>2, <1>3, StepsAre
<1>6. Squares(w, x, y, z, p, m, a, c, k, E, R, F) /\ At(s, 5, w, x, y, z, p)
  BY <1>1, <1>2, <1>4, <1>5, Zenon DEF Squares
<1>7. At(ChainStep(s, m), m, Put(1, a, R \union F, w), Put(2, a, R \union F, x), Put(3, a, R \union F, y), Put(4, a, R \union F, z), a)
  BY <1>6, OneStep, Zenon
<1>8. Put(1, a, R \union F, w) = w /\ Put(2, a, R \union F, x) = x /\ Put(3, a, R \union F, y) = R \union F /\ Put(4, a, R \union F, z) = z
  BY <1>2 DEF Put
<1>9. At(ChainStep(s, m), m, w, x, R \union F, z, a)
  BY <1>7, <1>8, Zenon
<1> QED BY <1>2, <1>4, <1>9

\* Step 7 goes from row 6 of that table to row 7.
LEMMA Step7 ==
  ASSUME NEW s, At(s, 6, {0}, 0 .. 11, 0 .. 24, 0 .. 5, 3)
  PROVE  At(ChainStep(s, 7), 7, {0}, 0 .. 11, 0 .. 24, 0 .. 49, 4)
<1>1. At(s, 6, {0}, 0 .. 11, 0 .. 24, 0 .. 5, 3)
  OBVIOUS
<1>2. PICK w, x, y, z, R, m, p, a, c, k :
        /\ w = {0} /\ x = 0 .. 11 /\ y = 0 .. 24 /\ z = 0 .. 5
        /\ R = 25 .. 49 /\ m = 7 /\ p = 3 /\ a = 4 /\ c = 3 /\ k = 25
  OBVIOUS
<1>3. PICK E, F : E = y /\ F = y
  OBVIOUS
<1>4. /\ (\A b \in E : b + k \in R) /\ (\A b \in R : b - k \in E /\ b = (b - k) + k)
      /\ R \intersect F = {} /\ R \union F = 0 .. 49
  BY <1>2, <1>3
<1>5. /\ m \in 1 .. 13 /\ p \in 1 .. 4 /\ a \in 1 .. 4 /\ c \in 1 .. 4 /\ k \in Int
      /\ Steps[m] = <<a, c, k>> /\ <<w, x, y, z>>[p] = E /\ <<w, x, y, z>>[c] = F
  BY <1>2, <1>3, StepsAre
<1>6. Squares(w, x, y, z, p, m, a, c, k, E, R, F) /\ At(s, 6, w, x, y, z, p)
  BY <1>1, <1>2, <1>4, <1>5, Zenon DEF Squares
<1>7. At(ChainStep(s, m), m, Put(1, a, R \union F, w), Put(2, a, R \union F, x), Put(3, a, R \union F, y), Put(4, a, R \union F, z), a)
  BY <1>6, OneStep, Zenon
<1>8. Put(1, a, R \union F, w) = w /\ Put(2, a, R \union F, x) = x /\ Put(3, a, R \union F, y) = y /\ Put(4, a, R \union F, z) = R \union F
  BY <1>2 DEF Put
<1>9. At(ChainStep(s, m), m, w, x, y, R \union F, a)
  BY <1>7, <1>8, Zenon
<1> QED BY <1>2, <1>4, <1>9

\* Step 8 goes from row 7 of that table to row 8.
LEMMA Step8 ==
  ASSUME NEW s, At(s, 7, {0}, 0 .. 11, 0 .. 24, 0 .. 49, 4)
  PROVE  At(ChainStep(s, 8), 8, {0}, 0 .. 74, 0 .. 24, 0 .. 49, 2)
<1>1. At(s, 7, {0}, 0 .. 11, 0 .. 24, 0 .. 49, 4)
  OBVIOUS
<1>2. PICK w, x, y, z, R, m, p, a, c, k :
        /\ w = {0} /\ x = 0 .. 11 /\ y = 0 .. 24 /\ z = 0 .. 49
        /\ R = 25 .. 74 /\ m = 8 /\ p = 4 /\ a = 2 /\ c = 3 /\ k = 25
  OBVIOUS
<1>3. PICK E, F : E = z /\ F = y
  OBVIOUS
<1>4. /\ (\A b \in E : b + k \in R) /\ (\A b \in R : b - k \in E /\ b = (b - k) + k)
      /\ R \intersect F = {} /\ R \union F = 0 .. 74
  BY <1>2, <1>3
<1>5. /\ m \in 1 .. 13 /\ p \in 1 .. 4 /\ a \in 1 .. 4 /\ c \in 1 .. 4 /\ k \in Int
      /\ Steps[m] = <<a, c, k>> /\ <<w, x, y, z>>[p] = E /\ <<w, x, y, z>>[c] = F
  BY <1>2, <1>3, StepsAre
<1>6. Squares(w, x, y, z, p, m, a, c, k, E, R, F) /\ At(s, 7, w, x, y, z, p)
  BY <1>1, <1>2, <1>4, <1>5, Zenon DEF Squares
<1>7. At(ChainStep(s, m), m, Put(1, a, R \union F, w), Put(2, a, R \union F, x), Put(3, a, R \union F, y), Put(4, a, R \union F, z), a)
  BY <1>6, OneStep, Zenon
<1>8. Put(1, a, R \union F, w) = w /\ Put(2, a, R \union F, x) = R \union F /\ Put(3, a, R \union F, y) = y /\ Put(4, a, R \union F, z) = z
  BY <1>2 DEF Put
<1>9. At(ChainStep(s, m), m, w, R \union F, y, z, a)
  BY <1>7, <1>8, Zenon
<1> QED BY <1>2, <1>4, <1>9

\* Step 9 goes from row 8 of that table to row 9.
LEMMA Step9 ==
  ASSUME NEW s, At(s, 8, {0}, 0 .. 74, 0 .. 24, 0 .. 49, 2)
  PROVE  At(ChainStep(s, 9), 9, {0}, 0 .. 124, 0 .. 24, 0 .. 49, 2)
<1>1. At(s, 8, {0}, 0 .. 74, 0 .. 24, 0 .. 49, 2)
  OBVIOUS
<1>2. PICK w, x, y, z, R, m, p, a, c, k :
        /\ w = {0} /\ x = 0 .. 74 /\ y = 0 .. 24 /\ z = 0 .. 49
        /\ R = 50 .. 124 /\ m = 9 /\ p = 2 /\ a = 2 /\ c = 4 /\ k = 50
  OBVIOUS
<1>3. PICK E, F : E = x /\ F = z
  OBVIOUS
<1>4. /\ (\A b \in E : b + k \in R) /\ (\A b \in R : b - k \in E /\ b = (b - k) + k)
      /\ R \intersect F = {} /\ R \union F = 0 .. 124
  BY <1>2, <1>3
<1>5. /\ m \in 1 .. 13 /\ p \in 1 .. 4 /\ a \in 1 .. 4 /\ c \in 1 .. 4 /\ k \in Int
      /\ Steps[m] = <<a, c, k>> /\ <<w, x, y, z>>[p] = E /\ <<w, x, y, z>>[c] = F
  BY <1>2, <1>3, StepsAre
<1>6. Squares(w, x, y, z, p, m, a, c, k, E, R, F) /\ At(s, 8, w, x, y, z, p)
  BY <1>1, <1>2, <1>4, <1>5, Zenon DEF Squares
<1>7. At(ChainStep(s, m), m, Put(1, a, R \union F, w), Put(2, a, R \union F, x), Put(3, a, R \union F, y), Put(4, a, R \union F, z), a)
  BY <1>6, OneStep, Zenon
<1>8. Put(1, a, R \union F, w) = w /\ Put(2, a, R \union F, x) = R \union F /\ Put(3, a, R \union F, y) = y /\ Put(4, a, R \union F, z) = z
  BY <1>2 DEF Put
<1>9. At(ChainStep(s, m), m, w, R \union F, y, z, a)
  BY <1>7, <1>8, Zenon
<1> QED BY <1>2, <1>4, <1>9

\* Step 10 goes from row 9 of that table to row 10.
LEMMA Step10 ==
  ASSUME NEW s, At(s, 9, {0}, 0 .. 124, 0 .. 24, 0 .. 49, 2)
  PROVE  At(ChainStep(s, 10), 10, {0}, 0 .. 124, 0 .. 249, 0 .. 49, 3)
<1>1. At(s, 9, {0}, 0 .. 124, 0 .. 24, 0 .. 49, 2)
  OBVIOUS
<1>2. PICK w, x, y, z, R, m, p, a, c, k :
        /\ w = {0} /\ x = 0 .. 124 /\ y = 0 .. 24 /\ z = 0 .. 49
        /\ R = 125 .. 249 /\ m = 10 /\ p = 2 /\ a = 3 /\ c = 2 /\ k = 125
  OBVIOUS
<1>3. PICK E, F : E = x /\ F = x
  OBVIOUS
<1>4. /\ (\A b \in E : b + k \in R) /\ (\A b \in R : b - k \in E /\ b = (b - k) + k)
      /\ R \intersect F = {} /\ R \union F = 0 .. 249
  BY <1>2, <1>3
<1>5. /\ m \in 1 .. 13 /\ p \in 1 .. 4 /\ a \in 1 .. 4 /\ c \in 1 .. 4 /\ k \in Int
      /\ Steps[m] = <<a, c, k>> /\ <<w, x, y, z>>[p] = E /\ <<w, x, y, z>>[c] = F
  BY <1>2, <1>3, StepsAre
<1>6. Squares(w, x, y, z, p, m, a, c, k, E, R, F) /\ At(s, 9, w, x, y, z, p)
  BY <1>1, <1>2, <1>4, <1>5, Zenon DEF Squares
<1>7. At(ChainStep(s, m), m, Put(1, a, R \union F, w), Put(2, a, R \union F, x), Put(3, a, R \union F, y), Put(4, a, R \union F, z), a)
  BY <1>6, OneStep, Zenon
<1>8. Put(1, a, R \union F, w) = w /\ Put(2, a, R \union F, x) = x /\ Put(3, a, R \union F, y) = R \union F /\ Put(4, a, R \union F, z) = z
  BY <1>2 DEF Put
<1>9. At(ChainStep(s, m), m, w, x, R \union F, z, a)
  BY <1>7, <1>8, Zenon
<1> QED BY <1>2, <1>4, <1>9

\* Step 11 goes from row 10 of that table to row 11.
LEMMA Step11 ==
  ASSUME NEW s, At(s, 10, {0}, 0 .. 124, 0 .. 249, 0 .. 49, 3)
  PROVE  At(ChainStep(s, 11), 11, {0}, 0 .. 124, {0} \union (2 .. 251), 0 .. 49, 3)
<1>1. At(s, 10, {0}, 0 .. 124, 0 .. 249, 0 .. 49, 3)
  OBVIOUS
<1>2. PICK w, x, y, z, R, m, p, a, c, k :
        /\ w = {0} /\ x = 0 .. 124 /\ y = 0 .. 249 /\ z = 0 .. 49
        /\ R = 2 .. 251 /\ m = 11 /\ p = 3 /\ a = 3 /\ c = 1 /\ k = 2
  OBVIOUS
<1>3. PICK E, F : E = y /\ F = w
  OBVIOUS
<1>4. /\ (\A b \in E : b + k \in R) /\ (\A b \in R : b - k \in E /\ b = (b - k) + k)
      /\ R \intersect F = {} /\ R \union F = {0} \union (2 .. 251)
  BY <1>2, <1>3
<1>5. /\ m \in 1 .. 13 /\ p \in 1 .. 4 /\ a \in 1 .. 4 /\ c \in 1 .. 4 /\ k \in Int
      /\ Steps[m] = <<a, c, k>> /\ <<w, x, y, z>>[p] = E /\ <<w, x, y, z>>[c] = F
  BY <1>2, <1>3, StepsAre
<1>6. Squares(w, x, y, z, p, m, a, c, k, E, R, F) /\ At(s, 10, w, x, y, z, p)
  BY <1>1, <1>2, <1>4, <1>5, Zenon DEF Squares
<1>7. At(ChainStep(s, m), m, Put(1, a, R \union F, w), Put(2, a, R \union F, x), Put(3, a, R \union F, y), Put(4, a, R \union F, z), a)
  BY <1>6, OneStep, Zenon
<1>8. Put(1, a, R \union F, w) = w /\ Put(2, a, R \union F, x) = x /\ Put(3, a, R \union F, y) = R \union F /\ Put(4, a, R \union F, z) = z
  BY <1>2 DEF Put
<1>9. At(ChainStep(s, m), m, w, x, R \union F, z, a)
  BY <1>7, <1>8, Zenon
<1> QED BY <1>2, <1>4, <1>9

\* Step 12 goes from row 11 of that table to row 12.
LEMMA Step12 ==
  ASSUME NEW s, At(s, 11, {0}, 0 .. 124, {0} \union (2 .. 251), 0 .. 49, 3)
  PROVE  At(ChainStep(s, 12), 12, {0}, 0 .. 124, {0, 2} \union (4 .. 253), 0 .. 49, 3)
<1>1. At(s, 11, {0}, 0 .. 124, {0} \union (2 .. 251), 0 .. 49, 3)
  OBVIOUS
<1>2. PICK w, x, y, z, R, m, p, a, c, k :
        /\ w = {0} /\ x = 0 .. 124 /\ y = {0} \union (2 .. 251) /\ z = 0 .. 49
        /\ R = {2} \union (4 .. 253) /\ m = 12 /\ p = 3 /\ a = 3 /\ c = 1 /\ k = 2
  OBVIOUS
<1>3. PICK E, F : E = y /\ F = w
  OBVIOUS
<1>4. /\ (\A b \in E : b + k \in R) /\ (\A b \in R : b - k \in E /\ b = (b - k) + k)
      /\ R \intersect F = {} /\ R \union F = {0, 2} \union (4 .. 253)
  BY <1>2, <1>3
<1>5. /\ m \in 1 .. 13 /\ p \in 1 .. 4 /\ a \in 1 .. 4 /\ c \in 1 .. 4 /\ k \in Int
      /\ Steps[m] = <<a, c, k>> /\ <<w, x, y, z>>[p] = E /\ <<w, x, y, z>>[c] = F
  BY <1>2, <1>3, StepsAre
<1>6. Squares(w, x, y, z, p, m, a, c, k, E, R, F) /\ At(s, 11, w, x, y, z, p)
  BY <1>1, <1>2, <1>4, <1>5, Zenon DEF Squares
<1>7. At(ChainStep(s, m), m, Put(1, a, R \union F, w), Put(2, a, R \union F, x), Put(3, a, R \union F, y), Put(4, a, R \union F, z), a)
  BY <1>6, OneStep, Zenon
<1>8. Put(1, a, R \union F, w) = w /\ Put(2, a, R \union F, x) = x /\ Put(3, a, R \union F, y) = R \union F /\ Put(4, a, R \union F, z) = z
  BY <1>2 DEF Put
<1>9. At(ChainStep(s, m), m, w, x, R \union F, z, a)
  BY <1>7, <1>8, Zenon
<1> QED BY <1>2, <1>4, <1>9

\* Step 13 goes from row 12 of that table to row 13.
LEMMA Step13 ==
  ASSUME NEW s, At(s, 12, {0}, 0 .. 124, {0, 2} \union (4 .. 253), 0 .. 49, 3)
  PROVE  At(ChainStep(s, 13), 13, {0}, 0 .. 124, (0 .. 254) \ {2, 4}, 0 .. 49, 3)
<1>1. At(s, 12, {0}, 0 .. 124, {0, 2} \union (4 .. 253), 0 .. 49, 3)
  OBVIOUS
<1>2. PICK w, x, y, z, R, m, p, a, c, k :
        /\ w = {0} /\ x = 0 .. 124 /\ y = {0, 2} \union (4 .. 253) /\ z = 0 .. 49
        /\ R = {1, 3} \union (5 .. 254) /\ m = 13 /\ p = 3 /\ a = 3 /\ c = 1 /\ k = 1
  OBVIOUS
<1>3. PICK E, F : E = y /\ F = w
  OBVIOUS
<1>4. /\ (\A b \in E : b + k \in R) /\ (\A b \in R : b - k \in E /\ b = (b - k) + k)
      /\ R \intersect F = {} /\ R \union F = (0 .. 254) \ {2, 4}
  BY <1>2, <1>3
<1>5. /\ m \in 1 .. 13 /\ p \in 1 .. 4 /\ a \in 1 .. 4 /\ c \in 1 .. 4 /\ k \in Int
      /\ Steps[m] = <<a, c, k>> /\ <<w, x, y, z>>[p] = E /\ <<w, x, y, z>>[c] = F
  BY <1>2, <1>3, StepsAre
<1>6. Squares(w, x, y, z, p, m, a, c, k, E, R, F) /\ At(s, 12, w, x, y, z, p)
  BY <1>1, <1>2, <1>4, <1>5, Zenon DEF Squares
<1>7. At(ChainStep(s, m), m, Put(1, a, R \union F, w), Put(2, a, R \union F, x), Put(3, a, R \union F, y), Put(4, a, R \union F, z), a)
  BY <1>6, OneStep, Zenon
<1>8. Put(1, a, R \union F, w) = w /\ Put(2, a, R \union F, x) = x /\ Put(3, a, R \union F, y) = R \union F /\ Put(4, a, R \union F, z) = z
  BY <1>2 DEF Put
<1>9. At(ChainStep(s, m), m, w, x, R \union F, z, a)
  BY <1>7, <1>8, Zenon
<1> QED BY <1>2, <1>4, <1>9

\* The chain of an inversion in progress is one of those.
ChainInv == Chained(chain)

\* The multiplications of the code raise to the power two below the prime: no two of
\* the exponents multiplied together ever share a bit, so that the sum of each step is
\* their union, and the last one has every bit of 2^255 - 21.
THEOREM InversionIsExact == XSpec => []ChainInverts
<1>1. XInit => ChainInv
  <2> SUFFICES ASSUME XInit PROVE ChainInv
    OBVIOUS
  <2>1. PICK e : e = <<{0}, {}, {}, {}>>
    OBVIOUS
  <2>2. chain = [exps |-> e, prev |-> 1, done |-> 0, clean |-> TRUE]
    BY <2>1, Zenon DEF XInit
  <2>3. chain.exps = e /\ chain.prev = 1 /\ chain.done = 0 /\ chain.clean = TRUE
    BY <2>2
  <2> QED BY <2>1, <2>3, Zenon DEF ChainInv, Chained, At
<1>2. ChainInv /\ [XNext]_xVars => ChainInv'
  <2> SUFFICES ASSUME ChainInv, [XNext]_xVars PROVE ChainInv'
    OBVIOUS
  <2>1. CASE Invert
    <3>1. chain' = ChainStep(chain, chain.done + 1) /\ chain.done < 13
      BY <2>1, StepsAre DEF Invert
    <3>2. SUFFICES Chained(ChainStep(chain, chain.done + 1))
      BY <3>1, Zenon DEF ChainInv, Chained
    <3>3. CASE At(chain, 0, {0}, {}, {}, {}, 1)
      <4>1. chain.done + 1 = 1
        BY <3>3 DEF At
      <4>2. At(ChainStep(chain, 1), 1, {0}, 0 .. 1, {}, {}, 2)
        BY <3>3, Step1, Zenon
      <4> QED BY <4>1, <4>2, Zenon DEF Chained
    <3>4. CASE At(chain, 1, {0}, 0 .. 1, {}, {}, 2)
      <4>1. chain.done + 1 = 2
        BY <3>4 DEF At
      <4>2. At(ChainStep(chain, 2), 2, {0}, 0 .. 2, {}, {}, 2)
        BY <3>4, Step2, Zenon
      <4> QED BY <4>1, <4>2, Zenon DEF Chained
    <3>5. CASE At(chain, 2, {0}, 0 .. 2, {}, {}, 2)
      <4>1. chain.done + 1 = 3
        BY <3>5 DEF At
      <4>2. At(ChainStep(chain, 3), 3, {0}, 0 .. 2, {}, 0 .. 5, 4)
        BY <3>5, Step3, Zenon
      <4> QED BY <4>1, <4>2, Zenon DEF Chained
    <3>6. CASE At(chain, 3, {0}, 0 .. 2, {}, 0 .. 5, 4)
      <4>1. chain.done + 1 = 4
        BY <3>6 DEF At
      <4>2. At(ChainStep(chain, 4), 4, {0}, 0 .. 11, {}, 0 .. 5, 2)
        BY <3>6, Step4, Zenon
      <4> QED BY <4>1, <4>2, Zenon DEF Chained
    <3>7. CASE At(chain, 4, {0}, 0 .. 11, {}, 0 .. 5, 2)
      <4>1. chain.done + 1 = 5
        BY <3>7 DEF At
      <4>2. At(ChainStep(chain, 5), 5, {0}, 0 .. 11, 0 .. 12, 0 .. 5, 3)
        BY <3>7, Step5, Zenon
      <4> QED BY <4>1, <4>2, Zenon DEF Chained
    <3>8. CASE At(chain, 5, {0}, 0 .. 11, 0 .. 12, 0 .. 5, 3)
      <4>1. chain.done + 1 = 6
        BY <3>8 DEF At
      <4>2. At(ChainStep(chain, 6), 6, {0}, 0 .. 11, 0 .. 24, 0 .. 5, 3)
        BY <3>8, Step6, Zenon
      <4> QED BY <4>1, <4>2, Zenon DEF Chained
    <3>9. CASE At(chain, 6, {0}, 0 .. 11, 0 .. 24, 0 .. 5, 3)
      <4>1. chain.done + 1 = 7
        BY <3>9 DEF At
      <4>2. At(ChainStep(chain, 7), 7, {0}, 0 .. 11, 0 .. 24, 0 .. 49, 4)
        BY <3>9, Step7, Zenon
      <4> QED BY <4>1, <4>2, Zenon DEF Chained
    <3>10. CASE At(chain, 7, {0}, 0 .. 11, 0 .. 24, 0 .. 49, 4)
      <4>1. chain.done + 1 = 8
        BY <3>10 DEF At
      <4>2. At(ChainStep(chain, 8), 8, {0}, 0 .. 74, 0 .. 24, 0 .. 49, 2)
        BY <3>10, Step8, Zenon
      <4> QED BY <4>1, <4>2, Zenon DEF Chained
    <3>11. CASE At(chain, 8, {0}, 0 .. 74, 0 .. 24, 0 .. 49, 2)
      <4>1. chain.done + 1 = 9
        BY <3>11 DEF At
      <4>2. At(ChainStep(chain, 9), 9, {0}, 0 .. 124, 0 .. 24, 0 .. 49, 2)
        BY <3>11, Step9, Zenon
      <4> QED BY <4>1, <4>2, Zenon DEF Chained
    <3>12. CASE At(chain, 9, {0}, 0 .. 124, 0 .. 24, 0 .. 49, 2)
      <4>1. chain.done + 1 = 10
        BY <3>12 DEF At
      <4>2. At(ChainStep(chain, 10), 10, {0}, 0 .. 124, 0 .. 249, 0 .. 49, 3)
        BY <3>12, Step10, Zenon
      <4> QED BY <4>1, <4>2, Zenon DEF Chained
    <3>13. CASE At(chain, 10, {0}, 0 .. 124, 0 .. 249, 0 .. 49, 3)
      <4>1. chain.done + 1 = 11
        BY <3>13 DEF At
      <4>2. At(ChainStep(chain, 11), 11, {0}, 0 .. 124, {0} \union (2 .. 251), 0 .. 49, 3)
        BY <3>13, Step11, Zenon
      <4> QED BY <4>1, <4>2, Zenon DEF Chained
    <3>14. CASE At(chain, 11, {0}, 0 .. 124, {0} \union (2 .. 251), 0 .. 49, 3)
      <4>1. chain.done + 1 = 12
        BY <3>14 DEF At
      <4>2. At(ChainStep(chain, 12), 12, {0}, 0 .. 124, {0, 2} \union (4 .. 253), 0 .. 49, 3)
        BY <3>14, Step12, Zenon
      <4> QED BY <4>1, <4>2, Zenon DEF Chained
    <3>15. CASE At(chain, 12, {0}, 0 .. 124, {0, 2} \union (4 .. 253), 0 .. 49, 3)
      <4>1. chain.done + 1 = 13
        BY <3>15 DEF At
      <4>2. At(ChainStep(chain, 13), 13, {0}, 0 .. 124, (0 .. 254) \ {2, 4}, 0 .. 49, 3)
        BY <3>15, Step13, Zenon
      <4> QED BY <4>1, <4>2, Zenon DEF Chained
    <3>16. CASE At(chain, 13, {0}, 0 .. 124, (0 .. 254) \ {2, 4}, 0 .. 49, 3)
      BY <3>1, <3>16 DEF At
    <3> QED BY <3>3, <3>4, <3>5, <3>6, <3>7, <3>8, <3>9, <3>10, <3>11, <3>12, <3>13, <3>14, <3>15, <3>16, Zenon DEF ChainInv, Chained
  <2>2. CASE UNCHANGED chain
    BY <2>2 DEF ChainInv, Chained, At
  <2> QED BY <2>1, <2>2, Zenon DEF XNext, TryElement, TryKeys, LadderRound, Return, xVars
<1>3. ChainInv => ChainInverts
  <2> SUFFICES ASSUME ChainInv, chain.done = 13 PROVE chain.clean /\ chain.exps[chain.prev] = (0 .. 254) \ {2, 4}
    BY StepsAre DEF ChainInverts
  <2>1. At(chain, 13, {0}, 0 .. 124, (0 .. 254) \ {2, 4}, 0 .. 49, 3)
    BY DEF ChainInv, Chained, At
  <2>2. /\ chain.exps = <<{0}, 0 .. 124, (0 .. 254) \ {2, 4}, 0 .. 49>>
        /\ chain.prev = 3 /\ chain.clean = TRUE
    BY <2>1, Zenon DEF At
  <2>3. PICK w, x, y, z : w = {0} /\ x = 0 .. 124 /\ y = (0 .. 254) \ {2, 4} /\ z = 0 .. 49
    OBVIOUS
  <2>4. chain.exps = <<w, x, y, z>>
    BY <2>2, <2>3, Zenon
  <2>5. chain.exps[chain.prev] = y
    BY <2>2, <2>4
  <2> QED BY <2>2, <2>3, <2>5, Zenon
<1> QED BY <1>1, <1>2, <1>3, PTL DEF XSpec
==============================================================================
