---------------------------- MODULE Streams_proofs ----------------------------
(***************************************************************************)
(* Proofs about CryptoStreams, for blocks of any size and messages of any  *)
(* length, cut into calls in any way.                                      *)
(***************************************************************************)
EXTENDS CryptoStreams, Foundations

(***************************************************************************)
(* Poly1305.                                                               *)
(***************************************************************************)

\* The whole blocks of s.
BlockOf(s, n, k) == [i \in 1 .. n |-> s[n * (k - 1) + i]]
FullBlock(s, k)  == BlockOf(s, MacBlock, k)
FullBlocks(s)   == [k \in 1 .. Len(s) \div MacBlock |-> Block(FullBlock(s, k), 1)]

\* x has been fed s: its whole blocks are added and the rest is in the buffer.
Absorbed(x, s) ==
  /\ x = [h |-> FullBlocks(s), leftover |-> Len(s) % MacBlock, buffer |-> x.buffer]
  /\ x.buffer \in [1 .. MacBlock -> Int]
  /\ \A j \in 1 .. Len(s) % MacBlock :
       x.buffer[j] = s[MacBlock * (Len(s) \div MacBlock) + j]

\* Where byte i of block k is.
LEMMA BlockPlace ==
  ASSUME NEW m \in Nat \ {0}, NEW q \in Nat, NEW k \in 1 .. q, NEW i \in 1 .. m
  PROVE  m * (k - 1) + i \in 1 .. m * q
<1>1. m * (k - 1) + m = m * k
  OBVIOUS
<1>2. m * k <= m * q
  OBVIOUS
<1>3. m * (k - 1) >= 0
  OBVIOUS
<1>4. PICK a \in Int, b \in Int, c \in Int : a = m * (k - 1) /\ b = m * k /\ c = m * q
  OBVIOUS
<1> QED BY <1>1, <1>2, <1>3, <1>4

\* What follows the whole blocks does not change them.
LEMMA FullBlockConcat ==
  ASSUME NEW s \in Seq(Int), NEW u \in Seq(Int), NEW q \in Nat, MacBlock * q <= Len(s),
         NEW k \in 1 .. q
  PROVE  FullBlock(s \o u, k) = FullBlock(s, k)
<1>s. PICK m \in Nat \ {0} : m = MacBlock
  BY StreamAssumption
<1>1. ASSUME NEW i \in 1 .. m PROVE (s \o u)[m * (k - 1) + i] = s[m * (k - 1) + i]
  <2>1. m * (k - 1) + i \in 1 .. m * q
    BY BlockPlace
  <2>2. PICK j \in Int, c \in Int : j = m * (k - 1) + i /\ c = m * q
    BY <2>1
  <2>3. Len(s) \in Nat /\ Len(u) \in Nat
    BY LenProperties
  <2>4. j \in 1 .. Len(s) + Len(u) /\ j <= Len(s)
    BY <2>1, <2>2, <2>3, <1>s
  <2>5. (s \o u)[j] = s[j]
    BY <2>4, ConcatProperties
  <2> QED BY <2>2, <2>5, Zenon
<1> QED BY <1>1, <1>s DEF FullBlock, BlockOf

\* There is room for u in the buffer of x.
Room(x, s, u) ==
  /\ s \in Seq(Int) /\ u \in Seq(Int) /\ Absorbed(x, s)
  /\ (Len(s) % MacBlock) + Len(u) <= MacBlock

\* With u the buffer is b.
Kept(x, s, u, b) ==
  /\ b \in [1 .. MacBlock -> Int]
  /\ Keep(x, u) = [h |-> FullBlocks(s), leftover |-> (Len(s) % MacBlock) + Len(u), buffer |-> b]
  /\ \A j \in 1 .. (Len(s) % MacBlock) + Len(u) :
       b[j] = (s \o u)[MacBlock * (Len(s) \div MacBlock) + j]

\* Keep puts bytes behind those left over.
LEMMA KeepsBytes ==
  ASSUME NEW s, NEW u, NEW x, Room(x, s, u)
  PROVE  \E b : Kept(x, s, u, b)
<1>r. s \in Seq(Int) /\ u \in Seq(Int) /\ Absorbed(x, s) /\ (Len(s) % MacBlock) + Len(u) <= MacBlock
  BY DEF Room
<1>s. PICK m \in Nat \ {0}, L \in Nat, n \in Nat : m = MacBlock /\ L = Len(s) /\ n = Len(u)
  BY <1>r, StreamAssumption, LenProperties
<1>1. PICK q \in Nat, l \in 0 .. m - 1 : Splits(L, m, q, l) /\ L = m * q + l
  BY SplitsSomehow
<1>2. L \div m = q /\ L % m = l
  BY <1>1, SplitsOnce
<1>7. x = [h |-> FullBlocks(s), leftover |-> l, buffer |-> x.buffer]
      /\ x.buffer \in [1 .. m -> Int]
      /\ \A j \in 1 .. l : x.buffer[j] = s[m * q + j]
  BY <1>r, <1>2, <1>s DEF Absorbed
<1> DEFINE buffer == [i \in 1 .. m |-> IF i \in l + 1 .. l + n THEN u[i - l] ELSE x.buffer[i]]
<1>8. Keep(x, u) = [h |-> FullBlocks(s), leftover |-> l + n, buffer |-> buffer]
  <2>1. PICK h, b : h = FullBlocks(s) /\ b = x.buffer
    OBVIOUS
  <2>2. x = [h |-> h, leftover |-> l, buffer |-> b] /\ x.leftover = l
    BY <1>7, <2>1
  <2>3. buffer = [i \in 1 .. MacBlock |->
          IF i \in x.leftover + 1 .. x.leftover + Len(u) THEN u[i - x.leftover] ELSE b[i]]
    BY <2>1, <2>2, <1>s, Zenon
  <2>4. Keep(x, u) = [[x EXCEPT !.buffer = buffer] EXCEPT !.leftover = @ + Len(u)]
    BY <2>1, <2>3, Zenon DEF Keep
  <2> HIDE DEF buffer
  <2> QED BY <2>2, <2>4, <2>1, <1>s
<1>9. buffer \in [1 .. m -> Int]
  BY <1>r, <1>7, <1>s, ElementOfSeq
<1>10. ASSUME NEW j \in 1 .. l + n PROVE buffer[j] = (s \o u)[m * q + j]
  <2>0. j \in 1 .. m
    BY <1>r, <1>2, <1>s
  <2>1. PICK i \in Int : i = m * q + j
    OBVIOUS
  <2>2. i \in 1 .. L + n /\ (i <= L <=> j <= l) /\ i - L = j - l
    <3>1. PICK p \in Nat : p = m * q
      OBVIOUS
    <3>2. i = p + j /\ L = p + l
      BY <1>1, <2>1, <3>1
    <3>3. j \in 1 .. l + n /\ l \in Int /\ n \in Nat /\ i \in Int /\ L \in Nat /\ p \in Nat
      OBVIOUS
    <3> QED BY ONLY <3>2, <3>3
  <2>3. (s \o u)[i] = IF i <= L THEN s[i] ELSE u[i - L]
    BY <1>r, <2>2, <1>s, ConcatProperties
  <2>4. CASE j <= l
    <3>1. buffer[j] = x.buffer[j]
      BY <2>0, <2>4
    <3>2. x.buffer[j] = s[m * q + j] /\ j \in 1 .. l
      BY <2>4, <1>7
    <3> HIDE DEF buffer
    <3> QED BY <3>1, <3>2, <2>1, <2>2, <2>3, <2>4, Zenon
  <2>5. CASE j > l
    <3>1. buffer[j] = u[j - l]
      BY <2>0, <2>5
    <3>2. ~(i <= L)
      BY <2>2, <2>5
    <3> HIDE DEF buffer
    <3> QED BY <3>1, <3>2, <2>1, <2>2, <2>3, Zenon
  <2>6. j <= l \/ j > l
    OBVIOUS
  <2> QED BY <2>4, <2>5, <2>6, Zenon
<1> HIDE DEF buffer
<1>11. /\ buffer \in [1 .. MacBlock -> Int]
       /\ Keep(x, u) = [h |-> FullBlocks(s), leftover |-> (Len(s) % MacBlock) + Len(u), buffer |-> buffer]
       /\ \A j \in 1 .. (Len(s) % MacBlock) + Len(u) :
            buffer[j] = (s \o u)[MacBlock * (Len(s) \div MacBlock) + j]
  BY <1>2, <1>8, <1>9, <1>10, <1>s, Zenon
<1> QED BY <1>11, Zenon DEF Kept

\* What a state says of the bytes fed when its parts are named.
Parts(s, q, l, b) ==
  /\ Len(s) \div MacBlock = q /\ Len(s) % MacBlock = l
  /\ b \in [1 .. MacBlock -> Int]
  /\ \A j \in 1 .. l : b[j] = s[MacBlock * q + j]

\* They are what is absorbed.
LEMMA IsAbsorbed ==
  ASSUME NEW s, NEW q, NEW l, NEW b, Parts(s, q, l, b)
  PROVE  Absorbed([h |-> FullBlocks(s), leftover |-> l, buffer |-> b], s)
<1>0. /\ Len(s) \div MacBlock = q /\ Len(s) % MacBlock = l
      /\ b \in [1 .. MacBlock -> Int]
      /\ \A j \in 1 .. l : b[j] = s[MacBlock * q + j]
  BY DEF Parts
<1> DEFINE y == [h |-> FullBlocks(s), leftover |-> l, buffer |-> b]
<1>1. y.buffer = b
  OBVIOUS
<1>2. y = [h |-> FullBlocks(s), leftover |-> Len(s) % MacBlock, buffer |-> y.buffer]
  BY <1>0, <1>1, Zenon
<1> HIDE DEF y
<1>3. Absorbed(y, s)
  BY <1>0, <1>1, <1>2, Zenon DEF Absorbed
<1> QED BY <1>3 DEF y

\* Bytes that do not fill the buffer are kept in it.
LEMMA KeepFits ==
  ASSUME NEW s \in Seq(Int), NEW u \in Seq(Int), NEW x, Absorbed(x, s),
         (Len(s) % MacBlock) + Len(u) < MacBlock
  PROVE  Absorbed(Keep(x, u), s \o u)
<1>s. PICK m \in Nat \ {0}, L \in Nat, n \in Nat : m = MacBlock /\ L = Len(s) /\ n = Len(u)
  BY StreamAssumption, LenProperties
<1>1. PICK q \in Nat, l \in 0 .. m - 1 : Splits(L, m, q, l) /\ L = m * q + l
  BY SplitsSomehow
<1>2. L \div m = q /\ L % m = l
  BY <1>1, SplitsOnce
<1>3. Len(s \o u) = L + n /\ s \o u \in Seq(Int)
  BY <1>s, ConcatProperties
<1>4. Splits(L + n, m, q, l + n)
  BY <1>1, <1>2, <1>s DEF Splits
<1>5. (L + n) \div m = q /\ (L + n) % m = l + n
  BY <1>4, SplitsOnce
<1>6. FullBlocks(s \o u) = FullBlocks(s)
  <2>1. ASSUME NEW k \in 1 .. q PROVE FullBlock(s \o u, k) = FullBlock(s, k)
    <3>1. MacBlock * q <= Len(s)
      BY <1>1, <1>s
    <3> QED BY <3>1, FullBlockConcat
  <2> QED BY <2>1, <1>2, <1>3, <1>5, <1>s DEF FullBlocks
<1>7. (Len(s) % MacBlock) + Len(u) <= MacBlock /\ Len(s) % MacBlock = l /\ Len(s) \div MacBlock = q
  BY <1>2, <1>s
<1>8. PICK b \in [1 .. MacBlock -> Int] :
        /\ Keep(x, u) = [h |-> FullBlocks(s), leftover |-> l + Len(u), buffer |-> b]
        /\ \A j \in 1 .. l + Len(u) : b[j] = (s \o u)[MacBlock * q + j]
  <2>1. Room(x, s, u)
    BY <1>7 DEF Room
  <2>2. PICK b : Kept(x, s, u, b)
    BY <2>1, KeepsBytes, Zenon
  <2> QED BY <2>2, <1>7 DEF Kept
<1>9. Len(s \o u) \div MacBlock = q /\ Len(s \o u) % MacBlock = l + Len(u)
  BY <1>3, <1>5, <1>s
<1>10. PICK r : r = l + Len(u)
  OBVIOUS
<1>11. Absorbed([h |-> FullBlocks(s), leftover |-> r, buffer |-> b], s \o u)
  <2>1. Parts(s \o u, q, r, b)
    BY <1>8, <1>9, <1>10, Zenon DEF Parts
  <2> QED BY <2>1, <1>6, IsAbsorbed, Zenon
<1> QED BY <1>8, <1>10, <1>11, Zenon

\* The parts of a state.
IsMac(y, h, l, b) == y = [h |-> h, leftover |-> l, buffer |-> b]

\* A state with another list of blocks and another number of bytes left over.
LEMMA OtherBlocks ==
  ASSUME NEW y, NEW h, NEW l, NEW b, IsMac(y, h, l, b)
  PROVE  /\ y.h = h /\ y.leftover = l /\ y.buffer = b
         /\ \A g : IsMac([y EXCEPT !.h = g], g, l, b)
         /\ \A g, c : IsMac([y EXCEPT !.h = g, !.leftover = c], g, c, b)
<1>1. y = [h |-> h, leftover |-> l, buffer |-> b] /\ y.h = h /\ y.leftover = l /\ y.buffer = b
  BY DEF IsMac
<1> SUFFICES ASSUME NEW g, NEW c
             PROVE  /\ [y EXCEPT !.h = g] = [h |-> g, leftover |-> l, buffer |-> b]
                    /\ [y EXCEPT !.h = g, !.leftover = c] = [h |-> g, leftover |-> c, buffer |-> b]
  BY <1>1, Zenon DEF IsMac
<1>2. PICK z : z = [y EXCEPT !.h = g]
  OBVIOUS
<1>3. DOMAIN z = {"h", "leftover", "buffer"} /\ z.h = g /\ z.leftover = l /\ z.buffer = b
      /\ z = [i \in DOMAIN z |-> z[i]]
  BY <1>1, <1>2
<1>4. PICK w : w = [h |-> g, leftover |-> l, buffer |-> b]
  OBVIOUS
<1>5. DOMAIN w = {"h", "leftover", "buffer"} /\ w.h = g /\ w.leftover = l /\ w.buffer = b
      /\ w = [i \in DOMAIN w |-> w[i]]
  BY <1>4
<1>6. z = w
  BY <1>3, <1>5
<1>7. PICK v : v = [y EXCEPT !.h = g, !.leftover = c]
  OBVIOUS
<1>8. DOMAIN v = {"h", "leftover", "buffer"} /\ v.h = g /\ v.leftover = c /\ v.buffer = b
      /\ v = [i \in DOMAIN v |-> v[i]]
  BY <1>1, <1>7
<1>9. PICK u : u = [h |-> g, leftover |-> c, buffer |-> b]
  OBVIOUS
<1>10. DOMAIN u = {"h", "leftover", "buffer"} /\ u.h = g /\ u.leftover = c /\ u.buffer = b
      /\ u = [i \in DOMAIN u |-> u[i]]
  BY <1>9
<1>11. v = u
  BY <1>8, <1>10
<1> QED BY <1>1, <1>2, <1>4, <1>6, <1>7, <1>9, <1>11, Zenon

\* Bytes that fill the buffer complete a block.
LEMMA FillUp ==
  ASSUME NEW s \in Seq(Int), NEW u \in Seq(Int), NEW x, Absorbed(x, s),
         (Len(s) % MacBlock) + Len(u) = MacBlock
  PROVE  LET y == Keep(x, u)
         IN  /\ y.leftover = MacBlock
             /\ Absorbed([y EXCEPT !.h = Append(@, Block(y.buffer, 1)), !.leftover = 0], s \o u)
             /\ Len(s \o u) % MacBlock = 0
<1>s. PICK m \in Nat \ {0}, L \in Nat, n \in Nat : m = MacBlock /\ L = Len(s) /\ n = Len(u)
  BY StreamAssumption, LenProperties
<1>1. PICK q \in Nat, l \in 0 .. m - 1 : Splits(L, m, q, l) /\ L = m * q + l
  BY SplitsSomehow
<1>2. L \div m = q /\ L % m = l
  BY <1>1, SplitsOnce
<1>3. Len(s \o u) = L + n /\ s \o u \in Seq(Int) /\ l + n = m
  BY <1>2, <1>s, ConcatProperties
<1>4. Splits(L + n, m, q + 1, 0)
  <2>1. m * (q + 1) = m * q + m
    OBVIOUS
  <2> QED BY <1>1, <1>3, <2>1 DEF Splits
<1>5. (L + n) \div m = q + 1 /\ (L + n) % m = 0
  BY <1>4, SplitsOnce
<1>7. (Len(s) % MacBlock) + Len(u) <= MacBlock /\ Len(s) % MacBlock = l /\ Len(s) \div MacBlock = q
      /\ l + Len(u) = MacBlock
  BY <1>2, <1>3, <1>s
<1>8. PICK b \in [1 .. MacBlock -> Int] :
        /\ Keep(x, u) = [h |-> FullBlocks(s), leftover |-> MacBlock, buffer |-> b]
        /\ \A j \in 1 .. MacBlock : b[j] = (s \o u)[MacBlock * q + j]
  <2>0. (Len(s) % MacBlock) + Len(u) <= MacBlock
    BY <1>7
  <2>1. Room(x, s, u)
    BY <2>0 DEF Room
  <2>2. PICK b : Kept(x, s, u, b)
    BY <2>1, KeepsBytes, Zenon
  <2> QED BY <2>2, <1>7 DEF Kept
<1>9. Len(s \o u) \div MacBlock = q + 1 /\ Len(s \o u) % MacBlock = 0
  BY <1>3, <1>5, <1>s
<1>10. b = FullBlock(s \o u, q + 1)
  <2>1. (q + 1) - 1 = q
    OBVIOUS
  <2>2. b = [i \in 1 .. MacBlock |-> (s \o u)[MacBlock * q + i]]
    BY <1>8
  <2> QED BY <2>1, <2>2 DEF FullBlock, BlockOf
<1>11. FullBlocks(s \o u) = Append(FullBlocks(s), Block(b, 1))
  <2>1. ASSUME NEW k \in 1 .. q PROVE FullBlock(s \o u, k) = FullBlock(s, k)
    <3>1. MacBlock * q <= Len(s)
      BY <1>1, <1>s
    <3> QED BY <3>1, FullBlockConcat
  <2>2. FullBlocks(s \o u) = [k \in 1 .. q + 1 |-> Block(FullBlock(s \o u, k), 1)]
        /\ FullBlocks(s) = [k \in 1 .. q |-> Block(FullBlock(s, k), 1)]
    BY <1>7, <1>9 DEF FullBlocks
  <2>3. PICK F : F = [k \in 1 .. q + 1 |-> Block(FullBlock(s \o u, k), 1)]
    OBVIOUS
  <2>4. FullBlocks(s) = [k \in 1 .. q |-> F[k]] /\ F[q + 1] = Block(b, 1)
    BY <2>1, <2>2, <2>3, <1>10
  <2>5. F = Append([k \in 1 .. q |-> F[k]], F[q + 1])
    BY <2>3
  <2> QED BY <2>2, <2>3, <2>4, <2>5
<1>12. PICK y : y = Keep(x, u)
  OBVIOUS
<1>13. PICK h : h = FullBlocks(s)
  OBVIOUS
<1>14. y = [h |-> h, leftover |-> MacBlock, buffer |-> b]
  BY <1>8, <1>12, <1>13
<1>15. /\ y.leftover = MacBlock
       /\ [y EXCEPT !.h = Append(@, Block(y.buffer, 1)), !.leftover = 0]
          = [h |-> Append(h, Block(b, 1)), leftover |-> 0, buffer |-> b]
  <2>1. y.leftover = MacBlock /\ y.h = h /\ y.buffer = b
    BY <1>14
  <2>2. PICK g : g = Append(h, Block(b, 1))
    OBVIOUS
  <2>3. [y EXCEPT !.h = g, !.leftover = 0] = [h |-> g, leftover |-> 0, buffer |-> b]
    <3>1. IsMac(y, h, MacBlock, b)
      BY <1>14, Zenon DEF IsMac
    <3>2. IsMac([y EXCEPT !.h = g, !.leftover = 0], g, 0, b)
      BY <3>1, OtherBlocks, Zenon
    <3> QED BY <3>2, Zenon DEF IsMac
  <2> QED BY <2>1, <2>2, <2>3, Zenon
<1>16. Absorbed([h |-> Append(h, Block(b, 1)), leftover |-> 0, buffer |-> b], s \o u)
  <2>1. \A j \in 1 .. 0 : b[j] = (s \o u)[MacBlock * (q + 1) + j]
    OBVIOUS
  <2>2. Append(h, Block(b, 1)) = FullBlocks(s \o u)
    BY <1>11, <1>13
  <2>3. Parts(s \o u, q + 1, 0, b)
    BY <2>1, <1>9, Zenon DEF Parts
  <2> QED BY <2>2, <2>3, IsAbsorbed, Zenon
<1> QED BY <1>9, <1>12, <1>15, <1>16, Zenon

(***************************************************************************)
(* Cutting a sequence into blocks.                                         *)
(***************************************************************************)

\* The elements of a concatenation.
LEMMA IntConcat ==
  ASSUME NEW a \in Seq(Int), NEW b \in Seq(Int)
  PROVE  /\ a \o b \in Seq(Int) /\ Len(a \o b) = Len(a) + Len(b)
         /\ \A i \in 1 .. Len(a) + Len(b) : (a \o b)[i] = IF i <= Len(a) THEN a[i] ELSE b[i - Len(a)]
BY ConcatProperties

\* Concatenation associates.
LEMMA Associates ==
  ASSUME NEW a \in Seq(Int), NEW b \in Seq(Int), NEW c \in Seq(Int)
  PROVE  (a \o b) \o c = a \o (b \o c)
BY ConcatAssociative

\* f is a function on 1 .. n.
Indexed(f, n) == f = [k \in 1 .. n |-> f[k]]

\* It is a sequence.
LEMMA IndexedSeq ==
  ASSUME NEW S, NEW n \in Nat, NEW f, Indexed(f, n), \A k \in 1 .. n : f[k] \in S
  PROVE  f \in Seq(S) /\ Len(f) = n
<1>1. f \in [1 .. n -> S]
  BY DEF Indexed
<1> QED BY <1>1

\* H has the q elements of F and then the p elements of G.
Joined(H, F, G, q, p) ==
  /\ q \in Nat /\ p \in Nat
  /\ H = [k \in 1 .. q + p |-> H[k]] /\ F = [k \in 1 .. q |-> F[k]] /\ G = [k \in 1 .. p |-> G[k]]
  /\ \A k \in 1 .. q : H[k] = F[k]
  /\ \A k \in 1 .. p : H[q + k] = G[k]

\* It is their concatenation.
LEMMA ConcatIs ==
  ASSUME NEW F, NEW G, NEW H, NEW q, NEW p, Joined(H, F, G, q, p)
  PROVE  H = F \o G
<1>0. /\ q \in Nat /\ p \in Nat
      /\ H = [k \in 1 .. q + p |-> H[k]] /\ F = [k \in 1 .. q |-> F[k]] /\ G = [k \in 1 .. p |-> G[k]]
      /\ \A k \in 1 .. q : H[k] = F[k]
      /\ \A k \in 1 .. p : H[q + k] = G[k]
  BY DEF Joined
<1>1. PICK S : S = {H[k] : k \in 1 .. q + p}
  OBVIOUS
<1>2. \A k \in 1 .. q + p : H[k] \in S
  BY <1>1
<1>3. \A k \in 1 .. q : F[k] \in S
  <2> SUFFICES ASSUME NEW k \in 1 .. q PROVE F[k] \in S
    OBVIOUS
  <2>1. k \in 1 .. q + p
    BY <1>0
  <2>2. H[k] = F[k]
    BY <1>0, Zenon
  <2> QED BY <2>1, <2>2, <1>2, Zenon
<1>4. \A k \in 1 .. p : G[k] \in S
  <2> SUFFICES ASSUME NEW k \in 1 .. p PROVE G[k] \in S
    OBVIOUS
  <2>1. q + k \in 1 .. q + p
    BY <1>0
  <2>2. H[q + k] = G[k]
    BY <1>0, Zenon
  <2> QED BY <2>1, <2>2, <1>2, Zenon
<1>5. F \in Seq(S) /\ Len(F) = q
  BY <1>0, <1>3, IndexedSeq, Zenon DEF Indexed
<1>6. G \in Seq(S) /\ Len(G) = p
  BY <1>0, <1>4, IndexedSeq, Zenon DEF Indexed
<1>7. H \in Seq(S) /\ Len(H) = q + p
  <2>1. q + p \in Nat
    BY <1>0
  <2> QED BY <2>1, <1>0, <1>2, IndexedSeq, Zenon DEF Indexed
<1>8. PICK K : K = F \o G
  OBVIOUS
<1>9. K \in Seq(S) /\ Len(K) = q + p
      /\ \A i \in 1 .. q + p : K[i] = IF i <= q THEN F[i] ELSE G[i - q]
  <2>1. /\ F \o G \in Seq(S) /\ Len(F \o G) = Len(F) + Len(G)
        /\ \A i \in 1 .. Len(F) + Len(G) :
             (F \o G)[i] = IF i <= Len(F) THEN F[i] ELSE G[i - Len(F)]
    BY <1>5, <1>6, ConcatProperties, Zenon
  <2> QED BY <2>1, <1>5, <1>6, <1>8, Zenon
<1>10. \A i \in 1 .. q + p : H[i] = K[i]
  <2> SUFFICES ASSUME NEW i \in 1 .. q + p PROVE H[i] = K[i]
    OBVIOUS
  <2>1. CASE i <= q
    <3>1. i \in 1 .. q
      BY <2>1, <1>0
    <3> QED BY <2>1, <3>1, <1>0, <1>9, Zenon
  <2>2. CASE ~(i <= q)
    <3>1. i - q \in 1 .. p /\ q + (i - q) = i
      BY <2>2, <1>0
    <3>2. H[i] = G[i - q]
      BY <3>1, <1>0, Zenon
    <3> QED BY <2>2, <3>2, <1>9, Zenon
  <2> QED BY <2>1, <2>2, Zenon
<1>11. H = K
  BY <1>0, <1>7, <1>9, <1>10, SeqEqual
<1> QED BY <1>8, <1>11

\* The bytes of a sequence behind the first a and up to the one at b.
LEMMA Piece ==
  ASSUME NEW s \in Seq(Int), NEW a \in Nat, NEW b \in Nat, a <= b, b <= Len(s)
  PROVE  /\ SubSeq(s, a + 1, b) = [i \in 1 .. b - a |-> s[a + i]]
         /\ SubSeq(s, a + 1, b) \in Seq(Int)
         /\ Len(SubSeq(s, a + 1, b)) = b - a
<1>1. \A i \in a + 1 .. b : s[i] \in Int
  BY ElementOfSeq, LenProperties
<1>2. PICK w : w = SubSeq(s, a + 1, b)
  OBVIOUS
<1>3. w \in Seq(Int) /\ Len(w) = b - a /\ \A i \in 1 .. b - (a + 1) + 1 : w[i] = s[(a + 1) + i - 1]
  <2>1. a + 1 \in Int /\ b \in Int /\ (IF a + 1 <= b THEN b - (a + 1) + 1 ELSE 0) = b - a
    OBVIOUS
  <2> QED BY <1>1, <1>2, <2>1, SubSeqProperties
<1>4. \A i \in 1 .. b - a : w[i] = s[a + i]
  <2> SUFFICES ASSUME NEW i \in 1 .. b - a PROVE w[i] = s[a + i]
    OBVIOUS
  <2>1. i \in 1 .. b - (a + 1) + 1 /\ (a + 1) + i - 1 = a + i
    OBVIOUS
  <2>2. w[i] = s[(a + 1) + i - 1]
    BY <1>3, <2>1
  <2> QED BY <2>1, <2>2
<1>5. w = [i \in 1 .. b - a |-> w[i]]
  BY <1>3, LenProperties
<1> QED BY <1>2, <1>3, <1>4, <1>5

\* s is q blocks of size n and l bytes.
Cuts(s, n, q, l) ==
  s \in Seq(Int) /\ n \in Nat \ {0} /\ q \in Nat /\ l \in 0 .. n - 1 /\ Splits(Len(s), n, q, l)

\* The blocks of Cut.
LEMMA CutBlocks ==
  ASSUME NEW s, NEW n, NEW q, NEW l, Cuts(s, n, q, l)
  PROVE  /\ Indexed(Cut(s, n), IF l = 0 THEN q ELSE q + 1)
         /\ \A k \in 1 .. q : Cut(s, n)[k] = BlockOf(s, n, k)
         /\ l > 0 => Cut(s, n)[q + 1] = [i \in 1 .. l |-> s[n * q + i]]
<1>0. s \in Seq(Int) /\ n \in Nat \ {0} /\ q \in Nat /\ l \in 0 .. n - 1 /\ Splits(Len(s), n, q, l)
  BY DEF Cuts
<1>1. PICK L \in Nat : L = Len(s)
  BY <1>0, LenProperties
<1>2. PICK p \in Nat : p = n * q
  BY <1>0
<1>3. L = p + l
  BY <1>0, <1>1, <1>2 DEF Splits
<1>4. (L + n - 1) \div n = IF l = 0 THEN q ELSE q + 1
  <2>1. CASE l = 0
    <3>1. Splits(L + n - 1, n, q, n - 1)
      BY <1>0, <1>2, <1>3, <2>1 DEF Splits
    <3> QED BY <2>1, <3>1, SplitsOnce
  <2>2. CASE l # 0
    <3>1. n * (q + 1) = p + n
      BY <1>0, <1>2
    <3>2. Splits(L + n - 1, n, q + 1, l - 1)
      BY <1>0, <1>3, <2>2, <3>1 DEF Splits
    <3> QED BY <2>2, <3>2, SplitsOnce
  <2> QED BY <2>1, <2>2
<1>5. PICK N \in Nat : N = IF l = 0 THEN q ELSE q + 1
  BY <1>0
<1>6. Cut(s, n) = [k \in 1 .. N |-> SubSeq(s, n * (k - 1) + 1, IF n * k < L THEN n * k ELSE L)]
  BY <1>1, <1>4, <1>5, Zenon DEF Cut
<1>7. ASSUME NEW k \in 1 .. q PROVE Cut(s, n)[k] = BlockOf(s, n, k)
  <2>1. PICK a \in Nat : a = n * (k - 1)
    BY <1>0
  <2>2. PICK b \in Nat : b = n * k
    BY <1>0
  <2>3. b = a + n
    BY <1>0, <2>1, <2>2
  <2>4. b <= p
    BY <1>0, <1>2, <2>2
  <2>5. k \in 1 .. N /\ (IF b < L THEN b ELSE L) = b
    BY <1>0, <1>3, <1>5, <2>4
  <2>6. Cut(s, n)[k] = SubSeq(s, a + 1, b)
    BY <1>6, <2>1, <2>2, <2>5
  <2>7. a <= b /\ b <= Len(s) /\ b - a = n
    BY <1>0, <1>1, <1>3, <2>3, <2>4
  <2>8. SubSeq(s, a + 1, b) = [i \in 1 .. b - a |-> s[a + i]]
    BY <1>0, <2>7, Piece
  <2> QED BY <2>1, <2>6, <2>7, <2>8 DEF BlockOf
<1>8. ASSUME l > 0 PROVE Cut(s, n)[q + 1] = [i \in 1 .. l |-> s[n * q + i]]
  <2>1. PICK b \in Nat : b = n * (q + 1)
    BY <1>0
  <2>2. b = p + n
    BY <1>0, <1>2, <2>1
  <2>3. q + 1 \in 1 .. N /\ (IF b < L THEN b ELSE L) = L /\ (q + 1) - 1 = q
    BY <1>0, <1>3, <1>5, <1>8, <2>2
  <2>4. Cut(s, n)[q + 1] = SubSeq(s, p + 1, L)
    BY <1>2, <1>6, <2>1, <2>3
  <2>5. p <= L /\ L <= Len(s) /\ L - p = l
    BY <1>0, <1>1, <1>3
  <2>6. SubSeq(s, p + 1, L) = [i \in 1 .. L - p |-> s[p + i]]
    BY <1>0, <2>5, Piece
  <2> QED BY <1>2, <2>4, <2>5, <2>6
<1>9. Indexed(Cut(s, n), N)
  BY <1>6 DEF Indexed
<1> QED BY <1>5, <1>7, <1>8, <1>9

\* One of the whole blocks.
LEMMA CutBlock ==
  ASSUME NEW s, NEW n, NEW q, NEW l, Cuts(s, n, q, l), NEW k \in 1 .. q
  PROVE  Cut(s, n)[k] = BlockOf(s, n, k)
<1>1. \A i \in 1 .. q : Cut(s, n)[i] = BlockOf(s, n, i)
  BY CutBlocks
<1> QED BY <1>1

\* s is q whole blocks.
Whole(s, q) == s \in Seq(Int) /\ q \in Nat /\ Len(s) = MacBlock * q

\* Whole blocks behind whole blocks.
LEMMA BlocksConcat ==
  ASSUME NEW s, NEW w, NEW q, NEW p, Whole(s, q), Whole(w, p)
  PROVE  /\ FullBlocks(s \o w) = FullBlocks(s) \o [k \in 1 .. p |-> Block(FullBlock(w, k), 1)]
         /\ Len(s \o w) \div MacBlock = q + p /\ Len(s \o w) % MacBlock = 0
<1>s. PICK m \in Nat \ {0} : m = MacBlock
  BY StreamAssumption
<1>0. s \in Seq(Int) /\ q \in Nat /\ Len(s) = MacBlock * q
      /\ w \in Seq(Int) /\ p \in Nat /\ Len(w) = MacBlock * p
  BY DEF Whole
<1>1. Splits(Len(s), m, q, 0)
  BY <1>0, <1>s, LenProperties DEF Splits
<1>2. Len(s) \div m = q
  BY <1>1, SplitsOnce
<1>3. Len(s \o w) = Len(s) + Len(w) /\ s \o w \in Seq(Int) /\ Len(s) \in Nat /\ Len(w) \in Nat
  BY <1>0, ConcatProperties, LenProperties
<1>4. Splits(Len(s \o w), m, q + p, 0)
  <2>1. m * (q + p) = m * q + m * p
    BY <1>0
  <2> QED BY <1>0, <1>3, <1>s, <2>1 DEF Splits
<1>5. Len(s \o w) \div m = q + p /\ Len(s \o w) % m = 0
  BY <1>4, SplitsOnce
<1>6. ASSUME NEW k \in 1 .. q PROVE FullBlock(s \o w, k) = FullBlock(s, k)
  <2>1. MacBlock * q <= Len(s)
    BY <1>0, <1>3
  <2> QED BY <1>0, <2>1, FullBlockConcat
<1>7. ASSUME NEW k \in 1 .. p PROVE FullBlock(s \o w, q + k) = FullBlock(w, k)
  <2>1. ASSUME NEW i \in 1 .. m
        PROVE  (s \o w)[m * ((q + k) - 1) + i] = w[m * (k - 1) + i]
    <3>1. m * (k - 1) + i \in 1 .. m * p
      BY <1>0, BlockPlace
    <3>2. PICK j \in Int : j = m * (k - 1) + i
      BY <3>1
    <3>3. PICK a \in Int, b \in Int, c \in Int : a = m * q /\ b = m * (k - 1) /\ c = m * p
      BY <1>0
    <3>4. m * ((q + k) - 1) = a + b
      BY <1>0, <3>3
    <3>5. m * ((q + k) - 1) + i = a + j /\ j \in 1 .. c /\ Len(s) = a /\ Len(w) = c
      BY <3>1, <3>2, <3>3, <3>4, <1>0, <1>s
    <3>6. (s \o w)[a + j] = w[j]
      <4>1. a + j \in 1 .. Len(s) + Len(w) /\ ~(a + j <= Len(s)) /\ (a + j) - Len(s) = j
        BY <1>0, <3>5, <1>3
      <4> QED BY <1>0, <4>1, ConcatProperties
    <3> QED BY <3>2, <3>5, <3>6, Zenon
  <2> QED BY <2>1, <1>s, Zenon DEF FullBlock, BlockOf
<1>8. PICK F : F = [k \in 1 .. q |-> Block(FullBlock(s, k), 1)]
  OBVIOUS
<1>9. PICK G : G = [k \in 1 .. p |-> Block(FullBlock(w, k), 1)]
  OBVIOUS
<1>10. PICK H : H = [k \in 1 .. q + p |-> Block(FullBlock(s \o w, k), 1)]
  OBVIOUS
<1>11. \A k \in 1 .. q : H[k] = F[k]
  BY <1>0, <1>6, <1>8, <1>10
<1>12. \A k \in 1 .. p : H[q + k] = G[k]
  <2> SUFFICES ASSUME NEW k \in 1 .. p PROVE H[q + k] = G[k]
    OBVIOUS
  <2>1. q + k \in 1 .. q + p
    BY <1>0
  <2> QED BY <2>1, <1>7, <1>9, <1>10
<1>13. H = F \o G
  <2>1. H = [k \in 1 .. q + p |-> H[k]] /\ F = [k \in 1 .. q |-> F[k]] /\ G = [k \in 1 .. p |-> G[k]]
    BY <1>8, <1>9, <1>10
  <2>2. Joined(H, F, G, q, p)
    BY <1>0, <2>1, <1>11, <1>12, Zenon DEF Joined
  <2> QED BY <2>2, ConcatIs, Zenon
<1>14. FullBlocks(s \o w) = H /\ FullBlocks(s) = F
  BY <1>2, <1>5, <1>8, <1>10, <1>s DEF FullBlocks
<1> QED BY <1>5, <1>9, <1>13, <1>14, <1>s

\* The whole blocks of r behind a state with nothing left over.
AddBlocks(x, r) ==
  LET full == (Len(r) \div MacBlock) * MacBlock
  IN  Keep([x EXCEPT !.h = @ \o [k \in 1 .. full \div MacBlock |-> Block(Cut(r, MacBlock)[k], 1)]],
           SubSeq(r, full + 1, Len(r)))

\* Behind whole blocks, the whole blocks are added at once and the rest is kept.
LEMMA AddsBlocks ==
  ASSUME NEW s \in Seq(Int), NEW r \in Seq(Int), NEW x, Absorbed(x, s), Len(s) % MacBlock = 0
  PROVE  Absorbed(AddBlocks(x, r), s \o r)
<1>s. PICK m \in Nat \ {0}, L \in Nat, R \in Nat : m = MacBlock /\ L = Len(s) /\ R = Len(r)
  BY StreamAssumption, LenProperties
<1>1. PICK q \in Nat, z \in 0 .. m - 1 : Splits(L, m, q, z) /\ L = m * q + z
  BY SplitsSomehow
<1>2. L \div m = q /\ L % m = z /\ z = 0
  BY <1>1, <1>s, SplitsOnce
<1>3. PICK p \in Nat, l \in 0 .. m - 1 : Splits(R, m, p, l) /\ R = m * p + l
  BY SplitsSomehow
<1>4. R \div m = p /\ R % m = l
  BY <1>3, SplitsOnce
<1>5. PICK f \in Nat : f = m * p
  OBVIOUS
<1>6. f \div m = p
  <2>1. Splits(f, m, p, 0)
    BY <1>5 DEF Splits
  <2> QED BY <2>1, SplitsOnce
<1>7. R = f + l /\ (Len(r) \div MacBlock) * MacBlock = f
  <2>1. p * m = m * p
    OBVIOUS
  <2> QED BY <2>1, <1>3, <1>4, <1>5, <1>s
<1> DEFINE w == SubSeq(r, 1, f)
           d == SubSeq(r, f + 1, R)
<1>8. w = [i \in 1 .. f |-> r[i]] /\ w \in Seq(Int) /\ Len(w) = f
  <2>1. 0 <= f /\ f <= Len(r) /\ f - 0 = f /\ 0 + 1 = 1
    BY <1>7, <1>s
  <2>2. /\ SubSeq(r, 0 + 1, f) = [i \in 1 .. f - 0 |-> r[0 + i]]
        /\ SubSeq(r, 0 + 1, f) \in Seq(Int)
        /\ Len(SubSeq(r, 0 + 1, f)) = f - 0
    BY <2>1, Piece
  <2> QED BY <2>1, <2>2
<1>9. d \in Seq(Int) /\ Len(d) = l
  <2>1. f <= R /\ R <= Len(r) /\ R - f = l
    BY <1>7, <1>s
  <2>2. SubSeq(r, f + 1, R) \in Seq(Int) /\ Len(SubSeq(r, f + 1, R)) = R - f
    BY <2>1, Piece
  <2> QED BY <2>1, <2>2
<1>10. r = w \o d
  <2>1. 1 \in 1 .. Len(r) + 1 /\ f \in 1 - 1 .. Len(r) /\ R \in f .. Len(r)
    BY <1>7, <1>s
  <2>2. SubSeq(r, 1, f) \o SubSeq(r, f + 1, R) = SubSeq(r, 1, R)
    BY <2>1, ConcatAdjacentSubSeq
  <2>3. SubSeq(r, 1, R) = r
    BY <1>s, SubSeqFull
  <2> QED BY <2>2, <2>3
<1>11. ASSUME NEW k \in 1 .. p PROVE Cut(r, MacBlock)[k] = FullBlock(w, k)
  <2>1. Cut(r, m)[k] = BlockOf(r, m, k)
    <3>1. Cuts(r, m, p, l)
      BY <1>3, <1>s DEF Cuts
    <3> QED BY <3>1, CutBlock, Zenon
  <2>2. ASSUME NEW i \in 1 .. m PROVE r[m * (k - 1) + i] = w[m * (k - 1) + i]
    <3>1. m * (k - 1) + i \in 1 .. f
      BY <1>5, BlockPlace
    <3>2. PICK j : j = m * (k - 1) + i
      OBVIOUS
    <3> QED BY <3>1, <3>2, <1>8
  <2> HIDE DEF w
  <2> QED BY <2>1, <2>2, <1>s, Zenon DEF FullBlock, BlockOf
<1>12. Absorbed([x EXCEPT !.h = @ \o [k \in 1 .. p |-> Block(Cut(r, MacBlock)[k], 1)]], s \o w)
       /\ s \o w \in Seq(Int) /\ Len(s \o w) % MacBlock = 0
  <2>1. PICK B : B = [k \in 1 .. p |-> Block(Cut(r, MacBlock)[k], 1)]
    OBVIOUS
  <2>2. B = [k \in 1 .. p |-> Block(FullBlock(w, k), 1)]
    BY <1>11, <2>1
  <2> HIDE DEF w
  <2>3. Len(s) = MacBlock * q /\ Len(w) = MacBlock * p
    BY <1>1, <1>2, <1>5, <1>8, <1>s
  <2>4. /\ FullBlocks(s \o w) = FullBlocks(s) \o B
        /\ Len(s \o w) \div MacBlock = q + p /\ Len(s \o w) % MacBlock = 0
    <3>0. Whole(s, q) /\ Whole(w, p)
      BY <1>8, <2>3 DEF Whole
    <3>1. /\ FullBlocks(s \o w) = FullBlocks(s) \o [k \in 1 .. p |-> Block(FullBlock(w, k), 1)]
          /\ Len(s \o w) \div MacBlock = q + p /\ Len(s \o w) % MacBlock = 0
      BY <3>0, BlocksConcat, Zenon
    <3> QED BY <2>2, <3>1, Zenon
  <2>5. IsMac(x, FullBlocks(s), 0, x.buffer) /\ x.buffer \in [1 .. MacBlock -> Int]
    BY <1>2, <1>s DEF Absorbed, IsMac
  <2>6. IsMac([x EXCEPT !.h = FullBlocks(s \o w)], FullBlocks(s \o w), 0, x.buffer) /\ x.h = FullBlocks(s)
    BY <2>5, OtherBlocks, Zenon
  <2>7. Absorbed([h |-> FullBlocks(s \o w), leftover |-> 0, buffer |-> x.buffer], s \o w)
    <3>1. \A j \in 1 .. 0 : x.buffer[j] = (s \o w)[MacBlock * (q + p) + j]
      OBVIOUS
    <3>2. Parts(s \o w, q + p, 0, x.buffer)
      BY <3>1, <2>4, <2>5, Zenon DEF Parts
    <3> QED BY <3>2, IsAbsorbed, Zenon
  <2>8. s \o w \in Seq(Int)
    BY <1>8, ConcatProperties
  <2> QED BY <2>1, <2>4, <2>6, <2>7, <2>8, Zenon DEF IsMac
<1>13. PICK y : y = [x EXCEPT !.h = @ \o [k \in 1 .. p |-> Block(Cut(r, MacBlock)[k], 1)]]
  OBVIOUS
<1>14. AddBlocks(x, r) = Keep(y, d)
  BY <1>6, <1>7, <1>13, <1>s, Zenon DEF AddBlocks
<1>15. Absorbed(Keep(y, d), (s \o w) \o d)
  <2> HIDE DEF w, d
  <2>1. (Len(s \o w) % MacBlock) + Len(d) < MacBlock
    BY <1>9, <1>12, <1>s
  <2> QED BY <2>1, <1>9, <1>12, <1>13, KeepFits, Zenon
<1>16. (s \o w) \o d = s \o r
  <2> HIDE DEF w, d
  <2> QED BY <1>8, <1>9, <1>10, ConcatAssociative
<1> QED BY <1>14, <1>15, <1>16, Zenon

\* However many bytes come, what is absorbed is all that came.
LEMMA MacUpdateAbsorbs ==
  ASSUME NEW s \in Seq(Int), NEW t \in Seq(Int), NEW x, Absorbed(x, s)
  PROVE  Absorbed(MacUpdate(x, t), s \o t)
<1>s. PICK m \in Nat \ {0}, L \in Nat, n \in Nat : m = MacBlock /\ L = Len(s) /\ n = Len(t)
  BY StreamAssumption, LenProperties
<1>1. PICK l \in 0 .. m - 1 : l = Len(s) % MacBlock
  BY <1>s, Division
<1>2. x.leftover = l
  BY <1>1 DEF Absorbed
<1> DEFINE want == IF x.leftover = 0 THEN 0 ELSE Least(MacBlock - x.leftover, Len(t))
           y == Keep(x, SubSeq(t, 1, want))
           rest == SubSeq(t, want + 1, Len(t))
           z == IF x.leftover = 0 THEN x ELSE [y EXCEPT !.h = Append(@, Block(y.buffer, 1)), !.leftover = 0]
<1>3. MacUpdate(x, t) = IF x.leftover # 0 /\ y.leftover < MacBlock THEN y ELSE AddBlocks(z, rest)
  BY Zenon DEF MacUpdate, AddBlocks
<1>4. want \in 0 .. n
  BY <1>2, <1>s DEF Least
<1> DEFINE u == SubSeq(t, 1, want)
<1>5. u \in Seq(Int) /\ Len(u) = want
  <2> HIDE DEF want
  <2>1. 0 <= want /\ want <= Len(t) /\ want - 0 = want /\ 0 + 1 = 1 /\ want \in Nat
    BY <1>4, <1>s
  <2>2. SubSeq(t, 0 + 1, want) \in Seq(Int) /\ Len(SubSeq(t, 0 + 1, want)) = want - 0
    BY <2>1, Piece
  <2> QED BY <2>1, <2>2
<1>6. rest \in Seq(Int) /\ Len(rest) = n - want
  <2> HIDE DEF want
  <2>1. want <= n /\ n <= Len(t) /\ want \in Nat
    BY <1>4, <1>s
  <2>2. SubSeq(t, want + 1, n) \in Seq(Int) /\ Len(SubSeq(t, want + 1, n)) = n - want
    BY <2>1, Piece
  <2> QED BY <2>2, <1>s
<1>7. u \o rest = t
  <2> HIDE DEF want
  <2>1. 1 \in 1 .. Len(t) + 1 /\ want \in 1 - 1 .. Len(t) /\ n \in want .. Len(t)
    BY <1>4, <1>s
  <2>2. SubSeq(t, 1, want) \o SubSeq(t, want + 1, n) = SubSeq(t, 1, n)
    BY <2>1, ConcatAdjacentSubSeq
  <2>3. SubSeq(t, 1, n) = t
    BY <1>s, SubSeqFull
  <2> QED BY <2>2, <2>3, <1>s
<1>8. CASE l = 0
  <2>1. rest = t
    <3>1. want = 0 /\ 0 + 1 = 1
      BY <1>2, <1>8
    <3>2. SubSeq(t, 1, n) = t
      BY <1>s, SubSeqFull
    <3> QED BY <3>1, <3>2, <1>s
  <2>2. MacUpdate(x, t) = AddBlocks(x, t)
    <3>1. z = x
      BY <1>2, <1>8
    <3> QED BY <1>2, <1>3, <1>8, <2>1, <3>1, Zenon
  <2> QED BY <2>2, <1>1, <1>8, AddsBlocks
<1>9. CASE l # 0 /\ n < m - l
  <2>1. want = n /\ u = t
    <3>1. want = n
      BY <1>2, <1>9, <1>s DEF Least
    <3>2. SubSeq(t, 1, n) = t
      BY <1>s, SubSeqFull
    <3> QED BY <3>1, <3>2, Zenon
  <2>2. (Len(s) % MacBlock) + Len(t) < MacBlock
    BY <1>1, <1>9, <1>s
  <2>3. Absorbed(Keep(x, t), s \o t)
    BY <2>2, KeepFits
  <2>4. y = Keep(x, t)
    BY <2>1
  <2>5. y.leftover = Len(s \o t) % MacBlock
    BY <2>3, <2>4 DEF Absorbed
  <2>6. Len(s \o t) % MacBlock < MacBlock
    BY <1>s, ConcatProperties, LenProperties, Division
  <2> HIDE DEF y, z, rest
  <2>7. y.leftover < MacBlock /\ x.leftover # 0
    BY <1>2, <1>9, <2>5, <2>6
  <2> QED BY <1>3, <2>3, <2>4, <2>7, Zenon
<1>10. CASE l # 0 /\ n >= m - l
  <2>1. want = m - l
    BY <1>2, <1>10, <1>s DEF Least
  <2>2. (Len(s) % MacBlock) + Len(u) = MacBlock
    <3> HIDE DEF want, u
    <3> QED BY <1>1, <1>5, <1>s, <2>1
  <2>3. y = Keep(x, u)
    OBVIOUS
  <2> HIDE DEF u
  <2>4. /\ y.leftover = MacBlock
        /\ Absorbed([y EXCEPT !.h = Append(@, Block(y.buffer, 1)), !.leftover = 0], s \o u)
        /\ Len(s \o u) % MacBlock = 0
    <3> HIDE DEF y
    <3> QED BY <2>2, <2>3, <1>5, FillUp
  <2>5. z = [y EXCEPT !.h = Append(@, Block(y.buffer, 1)), !.leftover = 0]
    BY <1>2, <1>10, Zenon
  <2> HIDE DEF y, z, rest, want
  <2>6. MacUpdate(x, t) = AddBlocks(z, rest)
    <3>1. ~(y.leftover < MacBlock)
      BY <2>4, <1>s
    <3> QED BY <1>3, <3>1, Zenon
  <2>7. s \o u \in Seq(Int)
    BY <1>5, ConcatProperties
  <2>8. Absorbed(AddBlocks(z, rest), (s \o u) \o rest)
    BY <1>6, <2>4, <2>5, <2>7, AddsBlocks, Zenon
  <2>9. (s \o u) \o rest = s \o t
    <3>0. s \in Seq(Int) /\ u \in Seq(Int) /\ rest \in Seq(Int)
      BY <1>5, <1>6
    <3>1. (s \o u) \o rest = s \o (u \o rest)
      BY <3>0, Associates, Zenon
    <3> QED BY <3>1, <1>7, Zenon
  <2> QED BY <2>6, <2>8, <2>9, Zenon
<1> QED BY <1>8, <1>9, <1>10, <1>1

\* The blocks that the authenticator adds for s.
MacBlocks(s) ==
  LET q == Len(s) \div MacBlock
      l == Len(s) % MacBlock
  IN  IF l = 0 THEN FullBlocks(s)
      ELSE Append(FullBlocks(s), Block([i \in 1 .. MacBlock |->
             IF i <= l THEN s[MacBlock * q + i] ELSE IF i = l + 1 THEN 1 ELSE 0], 0))

\* They are what poly1305_finish makes of a state that absorbed s.
LEMMA MacFinishBlocks ==
  ASSUME NEW s \in Seq(Int), NEW x, Absorbed(x, s)
  PROVE  MacFinish(x) = MacBlocks(s)
<1>s. PICK m \in Nat \ {0} : m = MacBlock
  BY StreamAssumption
<1>1. PICK l \in 0 .. m - 1 : l = Len(s) % MacBlock
  BY <1>s, Division, LenProperties
<1>2. PICK q : q = Len(s) \div MacBlock
  OBVIOUS
<1>3. x.leftover = l /\ x.h = FullBlocks(s) /\ \A j \in 1 .. l : x.buffer[j] = s[MacBlock * q + j]
  BY <1>1, <1>2 DEF Absorbed
<1>4. [i \in 1 .. MacBlock |-> IF i <= l THEN x.buffer[i] ELSE IF i = l + 1 THEN 1 ELSE 0]
      = [i \in 1 .. MacBlock |-> IF i <= l THEN s[MacBlock * q + i] ELSE IF i = l + 1 THEN 1 ELSE 0]
  <2>1. ASSUME NEW i \in 1 .. MacBlock, i <= l PROVE x.buffer[i] = s[MacBlock * q + i]
    <3>1. i \in 1 .. l
      BY <1>s, <2>1
    <3> QED BY <3>1, <1>3, Zenon
  <2> QED BY <2>1, Zenon
<1>5. MacFinish(x) = IF l = 0 THEN FullBlocks(s) ELSE Append(FullBlocks(s), Block([i \in 1 .. MacBlock |->
        IF i <= l THEN x.buffer[i] ELSE IF i = l + 1 THEN 1 ELSE 0], 0))
  BY <1>3, Zenon DEF MacFinish
<1>6. MacBlocks(s) = IF l = 0 THEN FullBlocks(s) ELSE Append(FullBlocks(s), Block([i \in 1 .. MacBlock |->
        IF i <= l THEN s[MacBlock * q + i] ELSE IF i = l + 1 THEN 1 ELSE 0], 0))
  BY <1>1, <1>2, Zenon DEF MacBlocks
<1> QED BY <1>4, <1>5, <1>6, Zenon

\* A piece with a one and zeros behind it.
LEMMA Padded ==
  ASSUME NEW m \in Nat \ {0}, NEW l \in 0 .. m - 1, NEW a \in Seq(Int), Len(a) = l
  PROVE  a \o <<1>> \o Zeros(m - 1 - l)
         = [i \in 1 .. m |-> IF i <= l THEN a[i] ELSE IF i = l + 1 THEN 1 ELSE 0]
<1>1. PICK b : b = <<1>>
  OBVIOUS
<1>2. b \in Seq(Int) /\ Len(b) = 1 /\ b[1] = 1
  BY <1>1
<1>3. PICK z : z = Zeros(m - 1 - l)
  OBVIOUS
<1>4. z \in Seq(Int) /\ Len(z) = m - 1 - l /\ \A i \in 1 .. m - 1 - l : z[i] = 0
  <2>1. PICK n \in Nat : n = m - 1 - l
    OBVIOUS
  <2>2. z = [i \in 1 .. n |-> 0]
    BY <1>3, <2>1 DEF Zeros
  <2>3. z \in Seq(Int) /\ Len(z) = n /\ \A i \in 1 .. n : z[i] = 0
    BY <2>2
  <2> QED BY <2>1, <2>3
<1>5. PICK c : c = a \o b
  OBVIOUS
<1>6. c \in Seq(Int) /\ Len(c) = l + 1 /\ \A i \in 1 .. l + 1 : c[i] = IF i <= l THEN a[i] ELSE b[i - l]
  <2>1. /\ c \in Seq(Int) /\ Len(c) = Len(a) + Len(b)
        /\ \A i \in 1 .. Len(a) + Len(b) : c[i] = IF i <= Len(a) THEN a[i] ELSE b[i - Len(a)]
    BY <1>2, <1>5, IntConcat, Zenon
  <2> QED BY <2>1, <1>2
<1>7. PICK d : d = c \o z
  OBVIOUS
<1>8. d \in Seq(Int) /\ Len(d) = m /\ \A i \in 1 .. m : d[i] = IF i <= l + 1 THEN c[i] ELSE z[i - (l + 1)]
  <2>1. /\ d \in Seq(Int) /\ Len(d) = Len(c) + Len(z)
        /\ \A i \in 1 .. Len(c) + Len(z) : d[i] = IF i <= Len(c) THEN c[i] ELSE z[i - Len(c)]
    BY <1>4, <1>6, <1>7, IntConcat, Zenon
  <2>2. Len(c) + Len(z) = m /\ Len(c) = l + 1
    BY <1>4, <1>6
  <2> QED BY <2>1, <2>2, Zenon
<1>9. ASSUME NEW i \in 1 .. m PROVE d[i] = IF i <= l THEN a[i] ELSE IF i = l + 1 THEN 1 ELSE 0
  <2>1. CASE i <= l
    BY <2>1, <1>6, <1>8
  <2>2. CASE i = l + 1
    BY <2>2, <1>2, <1>6, <1>8
  <2>3. CASE i > l + 1
    <3>1. i - (l + 1) \in 1 .. m - 1 - l /\ ~(i <= l + 1) /\ ~(i <= l) /\ i # l + 1
      BY <2>3
    <3> QED BY <3>1, <1>4, <1>8
  <2> QED BY <2>1, <2>2, <2>3
<1>10. d = [i \in 1 .. m |-> IF i <= l THEN a[i] ELSE IF i = l + 1 THEN 1 ELSE 0]
  <2>1. d = [i \in 1 .. m |-> d[i]]
    BY <1>8, LenProperties
  <2> QED BY <2>1, <1>9, Zenon
<1> QED BY <1>1, <1>3, <1>5, <1>7, <1>10, Zenon

\* A number of bytes.
LEMMA BytesOf ==
  ASSUME NEW n \in Nat
  PROVE  /\ Bytes(1, n) = [i \in 1 .. n |-> i] /\ Bytes(1, n) \in Seq(Int) /\ Len(Bytes(1, n)) = n
<1>1. n - 1 + 1 = n /\ \A i \in 1 .. n : 1 + i - 1 = i
  OBVIOUS
<1>2. Bytes(1, n) = [i \in 1 .. n |-> i]
  BY <1>1 DEF Bytes
<1> QED BY <1>2

\* The next bytes.
LEMMA MoreBytes ==
  ASSUME NEW h \in Nat, NEW n \in Nat
  PROVE  /\ Bytes(h + 1, h + n) \in Seq(Int)
         /\ Bytes(1, h) \o Bytes(h + 1, h + n) = Bytes(1, h + n)
<1>1. Bytes(h + 1, h + n) = [i \in 1 .. n |-> h + i]
  <2>1. (h + n) - (h + 1) + 1 = n /\ \A i \in 1 .. n : (h + 1) + i - 1 = h + i
    OBVIOUS
  <2> QED BY <2>1 DEF Bytes
<1>2. PICK F : F = [i \in 1 .. h |-> i]
  OBVIOUS
<1>3. PICK G : G = [i \in 1 .. n |-> h + i]
  OBVIOUS
<1>4. PICK H : H = [i \in 1 .. h + n |-> i]
  OBVIOUS
<1>5. Joined(H, F, G, h, n)
  <2>1. H = [k \in 1 .. h + n |-> H[k]] /\ F = [k \in 1 .. h |-> F[k]] /\ G = [k \in 1 .. n |-> G[k]]
    BY <1>2, <1>3, <1>4
  <2>2. \A k \in 1 .. h : H[k] = F[k]
    BY <1>2, <1>4
  <2>3. \A k \in 1 .. n : H[h + k] = G[k]
    BY <1>3, <1>4
  <2> QED BY <2>1, <2>2, <2>3 DEF Joined
<1>6. H = F \o G
  BY <1>5, ConcatIs, Zenon
<1>7. Bytes(1, h) = F /\ Bytes(1, h + n) = H
  BY <1>2, <1>4, BytesOf
<1>8. G \in Seq(Int)
  BY <1>3
<1> QED BY <1>1, <1>3, <1>6, <1>7, <1>8, Zenon

\* The blocks of one call are those.
LEMMA OneShotBlocks ==
  ASSUME NEW n \in Nat
  PROVE  OneShotMac(n) = MacBlocks(Bytes(1, n))
<1>1. PICK s : s = Bytes(1, n)
  OBVIOUS
<1>2. s \in Seq(Int) /\ Len(s) = n
  BY <1>1, BytesOf, Zenon
<1>s. PICK m \in Nat \ {0} : m = MacBlock
  BY StreamAssumption
<1>3. PICK q \in Nat, l \in 0 .. m - 1 : Splits(n, m, q, l) /\ n = m * q + l
  BY SplitsSomehow
<1>4. Len(s) \div MacBlock = q /\ Len(s) % MacBlock = l
  BY <1>2, <1>3, <1>s, SplitsOnce
<1>5. Cuts(s, m, q, l)
  BY <1>2, <1>3 DEF Cuts
<1>6. PICK bs : bs = Cut(s, m)
  OBVIOUS
<1>7. PICK N \in Nat : N = IF l = 0 THEN q ELSE q + 1
  OBVIOUS
<1>8. Indexed(bs, N)
  BY <1>5, <1>6, <1>7, CutBlocks
<1>9. Len(bs) = N
  <2>1. bs = [k \in 1 .. N |-> bs[k]]
    BY <1>8 DEF Indexed
  <2> QED BY <2>1
<1>10. ASSUME NEW k \in 1 .. q PROVE Len(bs[k]) = MacBlock /\ bs[k] = FullBlock(s, k)
  <2>1. bs[k] = BlockOf(s, m, k)
    BY <1>5, <1>6, CutBlock, Zenon
  <2>2. Len(BlockOf(s, m, k)) = m
    BY DEF BlockOf
  <2> QED BY <2>1, <2>2, <1>s DEF FullBlock
<1> DEFINE last == [i \in 1 .. m |-> IF i <= l THEN s[m * q + i] ELSE IF i = l + 1 THEN 1 ELSE 0]
           Of(i) == IF Len(bs[i]) = MacBlock THEN Block(bs[i], 1)
                    ELSE Block(bs[i] \o <<1>> \o Zeros(MacBlock - 1 - Len(bs[i])), 0)
<1>11. OneShotMac(n) = [i \in 1 .. N |-> Of(i)]
  BY <1>1, <1>6, <1>9, <1>s, Zenon DEF OneShotMac
<1>12. ASSUME NEW k \in 1 .. q PROVE Of(k) = Block(FullBlock(s, k), 1)
  BY <1>10, Zenon
<1>13. FullBlocks(s) = [k \in 1 .. q |-> Of(k)]
  <2> HIDE DEF Of
  <2> QED BY <1>4, <1>12, Zenon DEF FullBlocks
<1>14. ASSUME l > 0 PROVE Of(q + 1) = Block(last, 0)
  <2>1. PICK a : a = bs[q + 1]
    OBVIOUS
  <2>2. a = [i \in 1 .. l |-> s[m * q + i]]
    BY <1>5, <1>6, <1>14, <2>1, CutBlocks
  <2>3. \A i \in 1 .. l : s[m * q + i] \in Int
    <3> SUFFICES ASSUME NEW i \in 1 .. l PROVE s[m * q + i] \in Int
      OBVIOUS
    <3>1. PICK p \in Nat : p = m * q
      OBVIOUS
    <3>2. p + i \in 1 .. Len(s)
      BY <1>2, <1>3, <3>1
    <3> QED BY <3>1, <3>2, <1>2, ElementOfSeq
  <2>4. a \in Seq(Int) /\ Len(a) = l
    BY <2>2, <2>3
  <2>5. a \o <<1>> \o Zeros(m - 1 - l) = [i \in 1 .. m |-> IF i <= l THEN a[i] ELSE IF i = l + 1 THEN 1 ELSE 0]
    BY <2>4, Padded
  <2>6. \A i \in 1 .. l : a[i] = s[m * q + i]
    BY <2>2
  <2>7. [i \in 1 .. m |-> IF i <= l THEN a[i] ELSE IF i = l + 1 THEN 1 ELSE 0] = last
    <3>1. ASSUME NEW i \in 1 .. m, i <= l PROVE a[i] = s[m * q + i]
      BY <2>6, <3>1
    <3> QED BY <3>1, Zenon
  <2>8. Len(a) # MacBlock
    BY <2>4, <1>s
  <2> HIDE DEF last
  <2> QED BY <2>1, <2>4, <2>5, <2>7, <2>8, <1>s, Zenon
<1>15. MacBlocks(s) = IF l = 0 THEN FullBlocks(s) ELSE Append(FullBlocks(s), Block(last, 0))
  BY <1>4, <1>s, Zenon DEF MacBlocks
<1> HIDE DEF Of, last
<1>16. CASE l = 0
  BY <1>1, <1>7, <1>11, <1>13, <1>15, <1>16
<1>17. CASE l # 0
  <2>1. N = q + 1 /\ l > 0
    BY <1>7, <1>17
  <2>2. PICK F : F = [i \in 1 .. q + 1 |-> Of(i)]
    OBVIOUS
  <2>3. PICK c : c = Block(last, 0)
    OBVIOUS
  <2>4. F = [i \in 1 .. q + 1 |-> F[i]] /\ F[q + 1] = c /\ FullBlocks(s) = [k \in 1 .. q |-> F[k]]
    BY <1>13, <1>14, <2>1, <2>2, <2>3
  <2>5. F = Append([k \in 1 .. q |-> F[k]], F[q + 1])
    BY <2>4
  <2> QED BY <1>1, <1>11, <1>15, <1>17, <2>1, <2>2, <2>3, <2>4, <2>5
<1> QED BY <1>16, <1>17

(***************************************************************************)
(* BLAKE2s.                                                                *)
(***************************************************************************)

\* The parts of a state.
IsHash(x, key, h, t, b, c) == x = [key |-> key, h |-> h, t |-> t, b |-> b, c |-> c]

\* The steps of the hash on the parts of its state.
LEMMA HashSteps ==
  ASSUME NEW x, NEW key, NEW h, NEW t, NEW b, NEW c, IsHash(x, key, h, t, b, c)
  PROVE  /\ x.key = key /\ x.h = h /\ x.t = t /\ x.b = b /\ x.c = c
         /\ \A byte : IsHash(Put(x, byte), key, h, t, [b EXCEPT ![c + 1] = byte], c + 1)
         /\ \A last : IsHash(Compress(x, last), key,
                             Append(h, [block |-> b, t |-> t, last |-> last]), t, b, c)
         /\ \A n : IsHash([x EXCEPT !.c = n], key, h, t, b, n)
         /\ \A a : IsHash([x EXCEPT !.b = a], key, h, t, a, c)
         /\ \A a : IsHash([x EXCEPT !.t = a], key, h, a, b, c)
<1>1. x = [key |-> key, h |-> h, t |-> t, b |-> b, c |-> c]
  BY DEF IsHash
<1>2. x.key = key /\ x.h = h /\ x.t = t /\ x.b = b /\ x.c = c
  BY <1>1
<1> DEFINE D == {"key", "h", "t", "b", "c"}
<1>3. ASSUME NEW y, NEW ke, NEW he, NEW te, NEW be, NEW ce,
             y = [i \in D |-> y[i]], y.key = ke, y.h = he, y.t = te, y.b = be, y.c = ce
      PROVE  IsHash(y, ke, he, te, be, ce)
  <2>1. PICK w : w = [key |-> ke, h |-> he, t |-> te, b |-> be, c |-> ce]
    OBVIOUS
  <2>2. w = [i \in D |-> w[i]] /\ w.key = ke /\ w.h = he /\ w.t = te /\ w.b = be /\ w.c = ce
    BY <2>1
  <2>3. \A i \in D : y[i] = w[i]
    BY <1>3, <2>2
  <2>4. y = w
    <3> HIDE DEF D
    <3> QED BY <1>3, <2>2, <2>3
  <2> QED BY <2>1, <2>4 DEF IsHash
<1>4. ASSUME NEW byte PROVE IsHash(Put(x, byte), key, h, t, [b EXCEPT ![c + 1] = byte], c + 1)
  <2>1. PICK y : y = Put(x, byte)
    OBVIOUS
  <2>2. PICK d, e : d = [b EXCEPT ![c + 1] = byte] /\ e = c + 1
    OBVIOUS
  <2>3. y = [x EXCEPT !.b = d, !.c = e]
    BY <1>2, <2>1, <2>2, Zenon DEF Put
  <2>4. y = [i \in D |-> y[i]] /\ y.key = key /\ y.h = h /\ y.t = t /\ y.b = d /\ y.c = e
    BY <1>1, <2>3
  <2> QED BY <1>3, <2>1, <2>2, <2>4, Zenon
<1>5. ASSUME NEW last PROVE IsHash(Compress(x, last), key,
                               Append(h, [block |-> b, t |-> t, last |-> last]), t, b, c)
  <2>1. PICK y : y = Compress(x, last)
    OBVIOUS
  <2>2. PICK d : d = Append(h, [block |-> b, t |-> t, last |-> last])
    OBVIOUS
  <2>3. y = [x EXCEPT !.h = d]
    BY <1>2, <2>1, <2>2, Zenon DEF Compress
  <2>4. y = [i \in D |-> y[i]] /\ y.key = key /\ y.h = d /\ y.t = t /\ y.b = b /\ y.c = c
    BY <1>1, <2>3
  <2> QED BY <1>3, <2>1, <2>2, <2>4, Zenon
<1>6. ASSUME NEW n PROVE IsHash([x EXCEPT !.c = n], key, h, t, b, n)
  <2>1. PICK y : y = [x EXCEPT !.c = n]
    OBVIOUS
  <2>2. y = [i \in D |-> y[i]] /\ y.key = key /\ y.h = h /\ y.t = t /\ y.b = b /\ y.c = n
    BY <1>1, <2>1
  <2> QED BY <1>3, <2>1, <2>2, Zenon
<1>7. ASSUME NEW a PROVE IsHash([x EXCEPT !.b = a], key, h, t, a, c)
  <2>1. PICK y : y = [x EXCEPT !.b = a]
    OBVIOUS
  <2>2. y = [i \in D |-> y[i]] /\ y.key = key /\ y.h = h /\ y.t = t /\ y.b = a /\ y.c = c
    BY <1>1, <2>1
  <2> QED BY <1>3, <2>1, <2>2, Zenon
<1>8. ASSUME NEW a PROVE IsHash([x EXCEPT !.t = a], key, h, a, b, c)
  <2>1. PICK y : y = [x EXCEPT !.t = a]
    OBVIOUS
  <2>2. y = [i \in D |-> y[i]] /\ y.key = key /\ y.h = h /\ y.t = a /\ y.b = b /\ y.c = c
    BY <1>1, <2>1
  <2> QED BY <1>3, <2>1, <2>2, Zenon
<1> QED BY <1>2, <1>4, <1>5, <1>6, <1>7, <1>8, Zenon

\* The parts.
LEMMA HashParts ==
  ASSUME NEW x, NEW key, NEW h, NEW t, NEW b, NEW c, IsHash(x, key, h, t, b, c)
  PROVE  x.key = key /\ x.h = h /\ x.t = t /\ x.b = b /\ x.c = c
BY HashSteps

\* One of the steps each.
LEMMA PutParts ==
  ASSUME NEW x, NEW key, NEW h, NEW t, NEW b, NEW c, IsHash(x, key, h, t, b, c), NEW byte
  PROVE  IsHash(Put(x, byte), key, h, t, [b EXCEPT ![c + 1] = byte], c + 1)
<1>1. \A e : IsHash(Put(x, e), key, h, t, [b EXCEPT ![c + 1] = e], c + 1)
  BY HashSteps, Zenon
<1> QED BY <1>1, Zenon

\* A block is compressed.
LEMMA CompressParts ==
  ASSUME NEW x, NEW key, NEW h, NEW t, NEW b, NEW c, IsHash(x, key, h, t, b, c), NEW last
  PROVE  IsHash(Compress(x, last), key, Append(h, [block |-> b, t |-> t, last |-> last]), t, b, c)
<1>1. \A e : IsHash(Compress(x, e), key, Append(h, [block |-> b, t |-> t, last |-> e]), t, b, c)
  BY HashSteps, Zenon
<1> QED BY <1>1, Zenon

\* Another number of bytes waits.
LEMMA OtherCount ==
  ASSUME NEW x, NEW key, NEW h, NEW t, NEW b, NEW c, IsHash(x, key, h, t, b, c), NEW n
  PROVE  IsHash([x EXCEPT !.c = n], key, h, t, b, n)
<1>1. \A e : IsHash([x EXCEPT !.c = e], key, h, t, b, e)
  BY HashSteps, Zenon
<1> QED BY <1>1, Zenon

\* Other bytes wait.
LEMMA OtherBuffer ==
  ASSUME NEW x, NEW key, NEW h, NEW t, NEW b, NEW c, IsHash(x, key, h, t, b, c), NEW a
  PROVE  IsHash([x EXCEPT !.b = a], key, h, t, a, c)
<1>1. \A e : IsHash([x EXCEPT !.b = e], key, h, t, e, c)
  BY HashSteps, Zenon
<1> QED BY <1>1, Zenon

\* The byte counter at n bytes.
Ticks(n) == <<n % WordMod, n \div WordMod>>

\* ctx->t[0] < ctx->c is the carry.
LEMMA CountTicks ==
  ASSUME NEW x, NEW key, NEW h, NEW b, NEW c \in 0 .. HashBlock, NEW n \in Nat,
         IsHash(x, key, h, Ticks(n), b, c)
  PROVE  IsHash(Count(x), key, h, Ticks(n + c), b, c)
<1>1. PICK w \in Nat \ {0} : w = WordMod /\ c < w
  BY StreamAssumption
<1>2. PICK d \in Nat, a \in 0 .. w - 1 : Splits(n, w, d, a) /\ n = w * d + a
  BY SplitsSomehow
<1>3. n \div w = d /\ n % w = a
  BY <1>2, SplitsOnce
<1>4. x.t[1] = a /\ x.t[2] = d /\ x.c = c
  BY <1>1, <1>3, HashSteps DEF Ticks
<1>5. PICK low : low = (a + c) % w
  OBVIOUS
<1>6. Ticks(n + c) = <<low, IF low < c THEN d + 1 ELSE d>>
  <2>1. PICK p \in Nat : p = w * d
    OBVIOUS
  <2>2. CASE a + c < w
    <3>1. Splits(n + c, w, d, a + c)
      BY <1>2, <2>1, <2>2 DEF Splits
    <3>2. (n + c) \div w = d /\ (n + c) % w = a + c
      BY <3>1, SplitsOnce, Zenon
    <3>3. low = a + c
      <4>1. a + c \in 0 .. w - 1
        BY <2>2
      <4> QED BY <4>1, <1>5, SmallRemainder
    <3>4. ~(low < c)
      BY <3>3
    <3> QED BY <1>1, <3>2, <3>3, <3>4 DEF Ticks
  <2>3. CASE a + c >= w
    <3>0. w * (d + 1) = p + w
      BY <2>1
    <3>1. Splits(n + c, w, d + 1, a + c - w)
      BY <1>1, <1>2, <2>1, <2>3, <3>0 DEF Splits
    <3>2. (n + c) \div w = d + 1 /\ (n + c) % w = a + c - w
      BY <3>1, SplitsOnce, Zenon
    <3>3. low = a + c - w
      <4>1. Splits(a + c, w, 1, a + c - w)
        BY <1>1, <2>3 DEF Splits
      <4> QED BY <4>1, <1>5, SplitsOnce
    <3>4. low < c
      BY <3>3
    <3> QED BY <1>1, <3>2, <3>3, <3>4 DEF Ticks
  <2> QED BY <2>2, <2>3
<1>7. Count(x) = [x EXCEPT !.t = Ticks(n + c)]
  BY <1>1, <1>4, <1>5, <1>6, Zenon DEF Count
<1>8. \A u : IsHash([x EXCEPT !.t = u], key, h, u, b, c)
  BY HashSteps, Zenon
<1>9. IsHash([x EXCEPT !.t = Ticks(n + c)], key, h, Ticks(n + c), b, c)
  BY <1>8, Zenon
<1> QED BY <1>7, <1>9, Zenon

\* A block of the chaining value, compressed when n bytes are counted.
HashStep(block, n, last) == [block |-> block, t |-> Ticks(n), last |-> last]

\* The first k blocks of s.
HashSteppedBlocks(s, k) == [j \in 1 .. k |-> HashStep(BlockOf(s, HashBlock, j), HashBlock * j, FALSE)]

\* b holds the c bytes of s behind k blocks.
Buffered(b, s, k, c) ==
  /\ b \in [1 .. HashBlock -> Int]
  /\ \A j \in 1 .. c : b[j] = s[HashBlock * k + j]
  /\ k = 0 => \A j \in c + 1 .. HashBlock : b[j] = 0

\* s is k blocks that are compressed and c bytes that wait; none wait only if
\* there was none at all.
Waiting(s, k, c) ==
  /\ s \in Seq(Int) /\ k \in Nat /\ c \in 0 .. HashBlock /\ Len(s) = HashBlock * k + c
  /\ c = 0 => k = 0

\* The state of a hash with this key that was fed s.
HashFed(x, key, s) ==
  \E k, c, b : /\ Waiting(s, k, c) /\ Buffered(b, s, k, c)
               /\ IsHash(x, key, HashSteppedBlocks(s, k), Ticks(HashBlock * k), b, c)

\* An element behind a sequence.
LEMMA OneMore ==
  ASSUME NEW s \in Seq(Int), NEW e \in Int
  PROVE  /\ Append(s, e) \in Seq(Int) /\ Len(Append(s, e)) = Len(s) + 1
         /\ \A i \in 1 .. Len(s) : Append(s, e)[i] = s[i]
         /\ Append(s, e)[Len(s) + 1] = e
OBVIOUS

\* Another byte behind s does not change the blocks before it.
LEMMA SameSteps ==
  ASSUME NEW s \in Seq(Int), NEW e \in Int, NEW k \in Nat, HashBlock * k <= Len(s)
  PROVE  HashSteppedBlocks(Append(s, e), k) = HashSteppedBlocks(s, k)
<1>s. PICK m \in Nat \ {0} : m = HashBlock
  BY StreamAssumption
<1>1. ASSUME NEW j \in 1 .. k PROVE BlockOf(Append(s, e), m, j) = BlockOf(s, m, j)
  <2>1. ASSUME NEW i \in 1 .. m PROVE Append(s, e)[m * (j - 1) + i] = s[m * (j - 1) + i]
    <3>1. m * (j - 1) + i \in 1 .. m * k
      BY BlockPlace
    <3>2. PICK p \in Int, c \in Int : p = m * (j - 1) + i /\ c = m * k
      BY <3>1
    <3>3. p \in 1 .. Len(s)
      BY <3>1, <3>2, <1>s, LenProperties
    <3> QED BY <3>2, <3>3, OneMore, Zenon
  <2> QED BY <2>1, Zenon DEF BlockOf
<1> QED BY <1>1, <1>s, Zenon DEF HashSteppedBlocks

\* A byte is put behind those that wait while there is room.
LEMMA PutFed ==
  ASSUME NEW x, NEW key, NEW s, NEW k, NEW c, NEW b, NEW e \in Int,
         Waiting(s, k, c), Buffered(b, s, k, c), c < HashBlock,
         IsHash(x, key, HashSteppedBlocks(s, k), Ticks(HashBlock * k), b, c)
  PROVE  HashFed(Put(x, e), key, Append(s, e))
<1>0. PICK m \in Nat \ {0} : m = HashBlock
  BY StreamAssumption
<1>1. s \in Seq(Int) /\ k \in Nat /\ c \in 0 .. m /\ Len(s) = HashBlock * k + c /\ c < m /\ (c = 0 => k = 0)
  BY <1>0 DEF Waiting
<1>2. b \in [1 .. m -> Int] /\ (\A j \in 1 .. c : b[j] = s[HashBlock * k + j])
      /\ (k = 0 => \A j \in c + 1 .. m : b[j] = 0)
  BY <1>0 DEF Buffered
<1>3. PICK p \in Nat : p = HashBlock * k
  BY <1>0, <1>1
<1>4. PICK a : a = Append(s, e)
  OBVIOUS
<1>5. a \in Seq(Int) /\ Len(a) = p + c + 1 /\ (\A i \in 1 .. p + c : a[i] = s[i]) /\ a[p + c + 1] = e
  <2>1. Len(s) = p + c
    BY <1>1, <1>3
  <2>2. a \in Seq(Int) /\ Len(a) = Len(s) + 1 /\ (\A i \in 1 .. Len(s) : a[i] = s[i]) /\ a[Len(s) + 1] = e
    BY <1>1, <1>4, OneMore, Zenon
  <2> QED BY <2>1, <2>2
<1>6. Waiting(a, k, c + 1)
  BY <1>0, <1>1, <1>3, <1>5 DEF Waiting
<1>7. PICK d : d = [b EXCEPT ![c + 1] = e]
  OBVIOUS
<1>8. Buffered(d, a, k, c + 1)
  <2>1. d \in [1 .. m -> Int] /\ d[c + 1] = e /\ \A j \in 1 .. m : j # c + 1 => d[j] = b[j]
    BY <1>1, <1>2, <1>7
  <2>2. ASSUME NEW j \in 1 .. c + 1 PROVE d[j] = a[p + j]
    <3>1. CASE j = c + 1
      <4>1. p + j = p + c + 1
        BY <3>1, <1>1
      <4> QED BY <3>1, <4>1, <2>1, <1>5
    <3>2. CASE j # c + 1
      <4>1. j \in 1 .. c /\ j \in 1 .. m /\ p + j \in 1 .. p + c
        BY <3>2, <1>1
      <4>2. d[j] = b[j] /\ b[j] = s[p + j] /\ a[p + j] = s[p + j]
        BY <3>2, <4>1, <2>1, <1>2, <1>3, <1>5
      <4> QED BY <4>2
    <3> QED BY <3>1, <3>2
  <2>3. ASSUME k = 0, NEW j \in (c + 1) + 1 .. m PROVE d[j] = 0
    <3>1. j \in c + 1 .. m /\ j \in 1 .. m /\ j # c + 1
      BY <1>1
    <3> QED BY <3>1, <2>1, <2>3, <1>2
  <2> QED BY <2>1, <2>2, <2>3, <1>0, <1>3 DEF Buffered
<1>9. HashSteppedBlocks(a, k) = HashSteppedBlocks(s, k)
  <2>1. HashBlock * k <= Len(s)
    BY <1>1, <1>3
  <2> QED BY <1>1, <1>4, <2>1, SameSteps
<1>10. IsHash(Put(x, e), key, HashSteppedBlocks(s, k), Ticks(HashBlock * k), d, c + 1)
  <2>1. \A byte : IsHash(Put(x, byte), key, HashSteppedBlocks(s, k), Ticks(HashBlock * k),
                         [b EXCEPT ![c + 1] = byte], c + 1)
    BY HashSteps, Zenon
  <2> QED BY <2>1, <1>7, Zenon
<1> QED BY <1>4, <1>6, <1>8, <1>9, <1>10, Zenon DEF HashFed

\* A round of the loop absorbs its byte.
LEMMA HashByteFed ==
  ASSUME NEW x, NEW key, NEW s, NEW e \in Int, HashFed(x, key, s)
  PROVE  HashFed(HashByte(x, e), key, Append(s, e))
<1>0. PICK m \in Nat \ {0} : m = HashBlock
  BY StreamAssumption
<1>1. PICK k, c, b : /\ Waiting(s, k, c) /\ Buffered(b, s, k, c)
                     /\ IsHash(x, key, HashSteppedBlocks(s, k), Ticks(HashBlock * k), b, c)
  BY Zenon DEF HashFed
<1>2. s \in Seq(Int) /\ k \in Nat /\ c \in 0 .. HashBlock /\ Len(s) = HashBlock * k + c
  BY <1>1 DEF Waiting
<1>3. x.c = c
  BY <1>1, HashSteps, Zenon
<1>4. CASE c # HashBlock
  <2>1. c < HashBlock
    BY <1>0, <1>2, <1>4
  <2>2. HashFed(Put(x, e), key, Append(s, e))
    BY <1>1, <2>1, PutFed, Zenon
  <2>3. HashByte(x, e) = Put(x, e)
    BY <1>3, <1>4, Zenon DEF HashByte
  <2> QED BY <2>2, <2>3, Zenon
<1>5. CASE c = HashBlock
  <2>1. PICK y : y = [Compress(Count(x), FALSE) EXCEPT !.c = 0]
    OBVIOUS
  <2>2. HashByte(x, e) = Put(y, e)
    BY <1>3, <1>5, <2>1, Zenon DEF HashByte
  <2>3. HashBlock * k \in Nat
    BY <1>0, <1>2
  <2>4. IsHash(Count(x), key, HashSteppedBlocks(s, k), Ticks(HashBlock * k + c), b, c)
    BY <1>1, <1>2, <2>3, CountTicks, Zenon
  <2>5. HashBlock * k + c = HashBlock * (k + 1)
    <3>1. m * (k + 1) = m * k + m
      BY <1>2
    <3> QED BY <3>1, <1>0, <1>5
  <2>6. PICK g : g = HashStep(b, HashBlock * (k + 1), FALSE)
    OBVIOUS
  <2>7. IsHash(Compress(Count(x), FALSE), key, Append(HashSteppedBlocks(s, k), g), Ticks(HashBlock * (k + 1)), b, c)
    <3>1. IsHash(Count(x), key, HashSteppedBlocks(s, k), Ticks(HashBlock * (k + 1)), b, c)
      BY <2>4, <2>5, Zenon
    <3>2. IsHash(Compress(Count(x), FALSE), key, Append(HashSteppedBlocks(s, k),
             [block |-> b, t |-> Ticks(HashBlock * (k + 1)), last |-> FALSE]), Ticks(HashBlock * (k + 1)), b, c)
      BY <3>1, CompressParts, Zenon
    <3> QED BY <3>2, <2>6, Zenon DEF HashStep
  <2>8. IsHash(y, key, Append(HashSteppedBlocks(s, k), g), Ticks(HashBlock * (k + 1)), b, 0)
    <3>1. IsHash([Compress(Count(x), FALSE) EXCEPT !.c = 0], key, Append(HashSteppedBlocks(s, k), g),
                 Ticks(HashBlock * (k + 1)), b, 0)
      BY <2>7, OtherCount, Zenon
    <3> QED BY <2>1, <3>1, Zenon
  <2>9. b = BlockOf(s, HashBlock, k + 1)
    <3>1. b \in [1 .. HashBlock -> Int] /\ \A j \in 1 .. HashBlock : b[j] = s[HashBlock * k + j]
      BY <1>1, <1>5, Zenon DEF Buffered
    <3>2. (k + 1) - 1 = k
      BY <1>2
    <3>3. b = [j \in 1 .. HashBlock |-> s[HashBlock * k + j]]
      BY <3>1
    <3> QED BY <3>2, <3>3, Zenon DEF BlockOf
  <2>10. Append(HashSteppedBlocks(s, k), g) = HashSteppedBlocks(s, k + 1)
    <3>1. PICK F : F = HashSteppedBlocks(s, k + 1)
      OBVIOUS
    <3>2. F[k + 1] = g
      <4>1. k + 1 \in 1 .. k + 1
        BY <1>2
      <4> QED BY <4>1, <3>1, <2>6, <2>9, Zenon DEF HashSteppedBlocks
    <3>3. HashSteppedBlocks(s, k) = [j \in 1 .. k |-> F[j]]
      <4>1. \A j \in 1 .. k : j \in 1 .. k + 1
        BY <1>2
      <4>2. \A j \in 1 .. k : F[j] = HashStep(BlockOf(s, HashBlock, j), HashBlock * j, FALSE)
        BY <4>1, <3>1, Zenon DEF HashSteppedBlocks
      <4> QED BY <4>2, Zenon DEF HashSteppedBlocks
    <3>4. F = [j \in 1 .. k + 1 |-> F[j]]
      BY <3>1, Zenon DEF HashSteppedBlocks
    <3>5. F = Append([j \in 1 .. k |-> F[j]], F[k + 1])
      BY <3>4, <1>2
    <3> QED BY <3>1, <3>2, <3>3, <3>5
  <2>11. PICK p \in Nat : p = HashBlock * (k + 1)
    BY <2>3, <2>5, <1>2, <1>0
  <2>12. PICK a : a = Append(s, e)
    OBVIOUS
  <2>13. a \in Seq(Int) /\ Len(a) = p + 1 /\ a[p + 1] = e
    <3>1. Len(s) = p
      BY <1>2, <2>5, <2>11
    <3> QED BY <3>1, <1>2, <2>12, OneMore
  <2>14. PICK d : d = [b EXCEPT ![0 + 1] = e]
    OBVIOUS
  <2>15. Waiting(a, k + 1, 0 + 1)
    BY <1>0, <1>2, <2>11, <2>13 DEF Waiting
  <2>16. Buffered(d, a, k + 1, 0 + 1)
    <3>1. b \in [1 .. m -> Int]
      BY <1>0, <1>1 DEF Buffered
    <3>2. d \in [1 .. m -> Int] /\ d[1] = e
      BY <3>1, <2>14
    <3>3. \A j \in 1 .. 0 + 1 : d[j] = a[p + j]
      BY <3>2, <2>13
    <3> QED BY <3>2, <3>3, <2>11, <1>0, <1>2 DEF Buffered
  <2>17. HashSteppedBlocks(a, k + 1) = HashSteppedBlocks(s, k + 1)
    <3>1. HashBlock * (k + 1) <= Len(s) /\ k + 1 \in Nat
      BY <1>2, <2>5, <2>11
    <3> QED BY <1>2, <2>12, <3>1, SameSteps, Zenon
  <2>18. IsHash(Put(y, e), key, HashSteppedBlocks(a, k + 1), Ticks(HashBlock * (k + 1)), d, 0 + 1)
    <3>1. \A byte : IsHash(Put(y, byte), key, Append(HashSteppedBlocks(s, k), g), Ticks(HashBlock * (k + 1)),
                           [b EXCEPT ![0 + 1] = byte], 0 + 1)
      BY <2>8, PutParts, Zenon
    <3> QED BY <3>1, <2>10, <2>14, <2>17, Zenon
  <2> QED BY <2>2, <2>12, <2>15, <2>16, <2>18, Zenon DEF HashFed
<1> QED BY <1>4, <1>5

\* The states of a hash with this key.
ChainSteps == [block : [1 .. HashBlock -> Int], t : Int \X Int, last : BOOLEAN]
HashStates(key) ==
  [key : {key}, h : Seq(ChainSteps), t : Int \X Int, b : [1 .. HashBlock -> Int], c : 0 .. HashBlock]

\* Parts of a state, typed.
Typed(h, t, b, c) ==
  h \in Seq(ChainSteps) /\ t \in Int \X Int /\ b \in [1 .. HashBlock -> Int] /\ c \in 0 .. HashBlock

\* A state by its parts.
LEMMA HashStateParts ==
  ASSUME NEW x, NEW key, NEW h, NEW t, NEW b, NEW c, IsHash(x, key, h, t, b, c), Typed(h, t, b, c)
  PROVE  x \in HashStates(key)
<1>1. x = [key |-> key, h |-> h, t |-> t, b |-> b, c |-> c]
  BY DEF IsHash
<1>2. PICK S, B, T, C : S = Seq(ChainSteps) /\ B = [1 .. HashBlock -> Int] /\ T = Int \X Int /\ C = 0 .. HashBlock
  OBVIOUS
<1>3. HashStates(key) = [key : {key}, h : S, t : T, b : B, c : C]
  BY <1>2 DEF HashStates
<1>4. h \in S /\ t \in T /\ b \in B /\ c \in C
  BY <1>2 DEF Typed
<1> QED BY <1>1, <1>3, <1>4

\* Every state has parts.
LEMMA HashStateHasParts ==
  ASSUME NEW key, NEW x \in HashStates(key)
  PROVE  \E h, t, b, c : IsHash(x, key, h, t, b, c) /\ Typed(h, t, b, c)
<1>2. PICK S, B, T, C : S = Seq(ChainSteps) /\ B = [1 .. HashBlock -> Int] /\ T = Int \X Int /\ C = 0 .. HashBlock
  OBVIOUS
<1>3. x \in [key : {key}, h : S, t : T, b : B, c : C]
  BY <1>2 DEF HashStates
<1>4. x = [key |-> key, h |-> x.h, t |-> x.t, b |-> x.b, c |-> x.c]
      /\ x.h \in S /\ x.t \in T /\ x.b \in B /\ x.c \in C
  BY <1>3
<1>5. IsHash(x, key, x.h, x.t, x.b, x.c) /\ Typed(x.h, x.t, x.b, x.c)
  BY <1>2, <1>4, Zenon DEF IsHash, Typed
<1> QED BY <1>5, Zenon

\* A round of the loop keeps the type.
LEMMA HashByteTyped ==
  ASSUME NEW key, NEW x \in HashStates(key), NEW e \in Int
  PROVE  HashByte(x, e) \in HashStates(key)
<1>0. PICK m \in Nat \ {0} : m = HashBlock
  BY StreamAssumption
<1>1. PICK h, t, b, c : IsHash(x, key, h, t, b, c) /\ Typed(h, t, b, c)
  BY HashStateHasParts, Zenon
<1>2. h \in Seq(ChainSteps) /\ t \in Int \X Int /\ b \in [1 .. m -> Int] /\ c \in 0 .. m
  BY <1>0, <1>1 DEF Typed
<1>3. x.c = c /\ x.t = t
  BY <1>1, HashSteps, Zenon
<1>4. CASE c # HashBlock
  <2>1. HashByte(x, e) = Put(x, e)
    BY <1>3, <1>4, Zenon DEF HashByte
  <2>2. IsHash(Put(x, e), key, h, t, [b EXCEPT ![c + 1] = e], c + 1)
    BY <1>1, PutParts, Zenon
  <2>3. Typed(h, t, [b EXCEPT ![c + 1] = e], c + 1)
    BY <1>0, <1>2, <1>4 DEF Typed
  <2> QED BY <2>1, <2>2, <2>3, HashStateParts, Zenon
<1>5. CASE c = HashBlock
  <2>1. PICK y : y = [Compress(Count(x), FALSE) EXCEPT !.c = 0]
    OBVIOUS
  <2>2. HashByte(x, e) = Put(y, e)
    BY <1>3, <1>5, <2>1, Zenon DEF HashByte
  <2>3. PICK u : u = <<(t[1] + c) % WordMod, IF (t[1] + c) % WordMod < c THEN t[2] + 1 ELSE t[2]>>
    OBVIOUS
  <2>4. u \in Int \X Int
    <3>1. t[1] \in Int /\ t[2] \in Int /\ WordMod \in Nat \ {0}
      BY <1>2, StreamAssumption
    <3>2. (t[1] + c) % WordMod \in Int
      BY <1>2, <3>1
    <3> QED BY <2>3, <3>1, <3>2
  <2>5. Count(x) = [x EXCEPT !.t = u]
    BY <1>3, <2>3, Zenon DEF Count
  <2>6. IsHash(Count(x), key, h, u, b, c)
    <3>1. \A a : IsHash([x EXCEPT !.t = a], key, h, a, b, c)
      BY <1>1, HashSteps, Zenon
    <3> QED BY <2>5, <3>1, Zenon
  <2>7. PICK g : g = [block |-> b, t |-> u, last |-> FALSE]
    OBVIOUS
  <2>8. IsHash(Compress(Count(x), FALSE), key, Append(h, g), u, b, c)
    BY <2>6, <2>7, CompressParts, Zenon
  <2>9. IsHash(y, key, Append(h, g), u, b, 0)
    BY <2>1, <2>8, OtherCount, Zenon
  <2>10. IsHash(Put(y, e), key, Append(h, g), u, [b EXCEPT ![0 + 1] = e], 0 + 1)
    BY <2>9, PutParts, Zenon
  <2>11. g \in ChainSteps
    BY <1>0, <1>2, <2>4, <2>7 DEF ChainSteps
  <2>12. Typed(Append(h, g), u, [b EXCEPT ![0 + 1] = e], 0 + 1)
    <3>1. Append(h, g) \in Seq(ChainSteps)
      BY <1>2, <2>11
    <3>2. [b EXCEPT ![0 + 1] = e] \in [1 .. m -> Int] /\ 0 + 1 \in 0 .. m
      BY <1>2
    <3> QED BY <1>0, <2>4, <3>1, <3>2 DEF Typed
  <2> QED BY <2>2, <2>10, <2>12, HashStateParts, Zenon
<1> QED BY <1>4, <1>5

\* f is the states that the loop of blake2s_update passes.
HashRun(f, key, x, u, n) ==
  /\ f \in [0 .. n -> HashStates(key)]
  /\ f[0] = x
  /\ \A i \in 1 .. n : f[i] = HashByte(f[i - 1], u[i])
  /\ f[n] = HashUpdate(x, u)

\* blake2s_update is its loop.
LEMMA HashUpdateRuns ==
  ASSUME NEW key, NEW x \in HashStates(key), NEW u \in Seq(Int), NEW n \in Nat, n = Len(u)
  PROVE  \E f : HashRun(f, key, x, u, n)
<1>1. PICK S : S = HashStates(key)
  OBVIOUS
<1>2. DOMAIN u = 1 .. n /\ \A i \in 1 .. n : u[i] \in Int
  BY LenProperties, ElementOfSeq
<1>3. PICK G : G = [i \in 1 .. n |-> [y \in S |-> HashByte(y, u[i])]]
  OBVIOUS
<1>4. \A i \in 1 .. n : \A y \in S : G[i][y] = HashByte(y, u[i])
  BY <1>3, Zenon
<1>5. G \in [1 .. n -> [S -> S]]
  <2>1. \A i \in 1 .. n : \A y \in S : HashByte(y, u[i]) \in S
    BY <1>1, <1>2, HashByteTyped, Zenon
  <2> QED BY <1>3, <2>1, Zenon
<1> DEFINE Runs(it) == it = [t \in SUBSET (DOMAIN u) |->
                               IF t = {} THEN x ELSE HashByte(it[t \ {Max(t)}], u[Max(t)])]
<1>x. x \in S
  BY <1>1
<1>e. PICK j : FoldTable(j, S, x, n, G)
  BY <1>x, <1>5, FoldExists, Zenon
<1>6. /\ j \in [SUBSET (1 .. n) -> S]
      /\ \A t \in SUBSET (1 .. n) : j[t] = IF t = {} THEN x ELSE G[Max(t)][j[t \ {Max(t)}]]
  BY <1>e, Zenon DEF FoldTable
<1>7. ASSUME NEW t \in SUBSET (1 .. n), t # {} PROVE Max(t) \in 1 .. n /\ t \ {Max(t)} \in SUBSET (1 .. n)
  BY <1>7, MaxOfIndices
<1>8. Runs(j)
  <2>1. ASSUME NEW t \in SUBSET (1 .. n)
        PROVE  j[t] = IF t = {} THEN x ELSE HashByte(j[t \ {Max(t)}], u[Max(t)])
    <3>1. CASE t = {}
      BY <1>6, <3>1, Zenon
    <3>2. CASE t # {}
      <4>1. j[t \ {Max(t)}] \in S
        BY <1>6, <1>7, <3>2, Zenon
      <4> QED BY <1>4, <1>6, <1>7, <3>2, <4>1, Zenon
    <3> QED BY <3>1, <3>2, Zenon
  <2>2. j = [t \in SUBSET (1 .. n) |-> j[t]]
    BY <1>6, Zenon
  <2> QED BY <1>2, <2>1, <2>2, Zenon
<1>9. PICK it : Runs(it) /\ HashUpdate(x, u) = it[DOMAIN u]
  <2>1. HashUpdate(x, u) = (CHOOSE it : Runs(it))[DOMAIN u]
    BY Zenon DEF HashUpdate, FoldLeft, MapThenFoldSet
  <2>2. Runs(CHOOSE it : Runs(it))
    BY <1>8, Zenon
  <2> QED BY <2>1, <2>2, Zenon
<1>10. it[{}] = x
  BY <1>9, Zenon
<1>11. \A t \in SUBSET (1 .. n) : t # {} /\ it[t \ {Max(t)}] \in S => it[t] = G[Max(t)][it[t \ {Max(t)}]]
  <2> SUFFICES ASSUME NEW t \in SUBSET (1 .. n), t # {}, it[t \ {Max(t)}] \in S
               PROVE  it[t] = G[Max(t)][it[t \ {Max(t)}]]
    BY Zenon
  <2>1. it[t] = HashByte(it[t \ {Max(t)}], u[Max(t)])
    <3>1. it = [r \in SUBSET (DOMAIN u) |-> IF r = {} THEN x ELSE HashByte(it[r \ {Max(r)}], u[Max(r)])]
      BY <1>9, Zenon
    <3>2. t \in SUBSET (DOMAIN u)
      BY <1>2, Zenon
    <3> QED BY <3>1, <3>2, Zenon
  <2>2. Max(t) \in 1 .. n
    BY <1>7, Zenon
  <2> QED BY <1>4, <2>1, <2>2, Zenon
<1>12. PICK f : FoldRun(f, it, S, x, n, G)
  <2>1. FoldsBy(it, S, x, n, G)
    BY <1>x, <1>5, <1>10, <1>11, Zenon DEF FoldsBy
  <2> QED BY <2>1, FoldRuns, Zenon
<1>13. /\ f \in [0 .. n -> S]
       /\ f[0] = x
       /\ \A i \in 1 .. n : f[i] = G[i][f[i - 1]]
       /\ f[n] = it[1 .. n]
  BY <1>12, Zenon DEF FoldRun
<1>14. \A i \in 1 .. n : f[i] = HashByte(f[i - 1], u[i])
  <2> SUFFICES ASSUME NEW i \in 1 .. n PROVE f[i] = HashByte(f[i - 1], u[i])
    OBVIOUS
  <2>1. i - 1 \in 0 .. n
    OBVIOUS
  <2> QED BY <2>1, <1>4, <1>13, Zenon
<1>15. f[n] = HashUpdate(x, u)
  BY <1>2, <1>9, <1>13, Zenon
<1> QED BY <1>1, <1>13, <1>14, <1>15, Zenon DEF HashRun

\* What is fed is typed.
LEMMA FedTyped ==
  ASSUME NEW x, NEW key, NEW s, HashFed(x, key, s)
  PROVE  x \in HashStates(key) /\ s \in Seq(Int)
<1>0. PICK m \in Nat \ {0}, w \in Nat \ {0} : m = HashBlock /\ w = WordMod
  BY StreamAssumption
<1>1. PICK k, c, b : /\ Waiting(s, k, c) /\ Buffered(b, s, k, c)
                     /\ IsHash(x, key, HashSteppedBlocks(s, k), Ticks(HashBlock * k), b, c)
  BY Zenon DEF HashFed
<1>2. s \in Seq(Int) /\ k \in Nat /\ c \in 0 .. m /\ Len(s) = m * k + c
  BY <1>0, <1>1 DEF Waiting
<1>3. b \in [1 .. HashBlock -> Int]
  BY <1>1 DEF Buffered
<1>4. ASSUME NEW n \in Nat PROVE Ticks(n) \in Int \X Int
  <2>1. n % w \in Int /\ n \div w \in Int
    BY Division
  <2> QED BY <2>1, <1>0 DEF Ticks
<1>5. HashSteppedBlocks(s, k) \in Seq(ChainSteps)
  <2>1. ASSUME NEW j \in 1 .. k PROVE HashStep(BlockOf(s, HashBlock, j), HashBlock * j, FALSE) \in ChainSteps
    <3>1. HashBlock * j \in Nat
      BY <1>0, <1>2
    <3>2. Ticks(HashBlock * j) \in Int \X Int
      BY <3>1, <1>4
    <3>3. ASSUME NEW i \in 1 .. m PROVE s[m * (j - 1) + i] \in Int
      <4>1. m * (j - 1) + i \in 1 .. m * k
        BY <1>2, BlockPlace
      <4>2. PICK p \in Int, q \in Nat : p = m * (j - 1) + i /\ q = m * k
        BY <1>2, <4>1
      <4>3. p \in 1 .. Len(s)
        BY <1>2, <4>1, <4>2
      <4> QED BY <1>2, <4>2, <4>3, ElementOfSeq
    <3>4. BlockOf(s, HashBlock, j) \in [1 .. HashBlock -> Int]
      BY <1>0, <3>3 DEF BlockOf
    <3> QED BY <3>2, <3>4 DEF HashStep, ChainSteps
  <2>2. PICK F : F = HashSteppedBlocks(s, k)
    OBVIOUS
  <2>3. Indexed(F, k) /\ \A j \in 1 .. k : F[j] \in ChainSteps
    BY <2>1, <2>2, Zenon DEF HashSteppedBlocks, Indexed
  <2> QED BY <1>2, <2>2, <2>3, IndexedSeq, Zenon
<1>6. Ticks(HashBlock * k) \in Int \X Int
  <2>1. HashBlock * k \in Nat
    BY <1>0, <1>2
  <2> QED BY <2>1, <1>4
<1>7. Typed(HashSteppedBlocks(s, k), Ticks(HashBlock * k), b, c)
  BY <1>0, <1>2, <1>3, <1>5, <1>6 DEF Typed
<1> QED BY <1>1, <1>2, <1>7, HashStateParts, Zenon

\* The first i + 1 bytes of u are the first i and one more.
LEMMA PrefixGrows ==
  ASSUME NEW s \in Seq(Int), NEW u \in Seq(Int), NEW i \in Nat, i + 1 <= Len(u)
  PROVE  s \o SubSeq(u, 1, i + 1) = Append(s \o SubSeq(u, 1, i), u[i + 1])
<1>1. SubSeq(u, 1, i + 1) = SubSeq(u, 1, i) \o <<u[i + 1]>>
  <2>1. 1 \in 1 .. Len(u) /\ i + 1 \in 1 .. Len(u) /\ (i + 1) - 1 = i
    BY LenProperties
  <2> QED BY <2>1, SubSeqRecursiveSecond
<1>2. SubSeq(u, 1, i) \in Seq(Int) /\ u[i + 1] \in Int
  <2>1. 0 <= i /\ i <= Len(u) /\ 0 + 1 = 1
    BY LenProperties
  <2>2. SubSeq(u, 0 + 1, i) \in Seq(Int)
    BY <2>1, Piece
  <2>3. i + 1 \in 1 .. Len(u)
    BY LenProperties
  <2> QED BY <2>1, <2>2, <2>3, ElementOfSeq
<1>3. PICK a \in Seq(Int), e \in Int : a = SubSeq(u, 1, i) /\ e = u[i + 1]
  BY <1>2
<1>4. s \o (a \o <<e>>) = (s \o a) \o <<e>>
  <2>1. <<e>> \in Seq(Int)
    OBVIOUS
  <2> QED BY <2>1, Associates, Zenon
<1>5. (s \o a) \o <<e>> = Append(s \o a, e)
  <2>1. s \o a \in Seq(Int)
    BY IntConcat, Zenon
  <2> QED BY <2>1
<1> QED BY <1>1, <1>3, <1>4, <1>5, Zenon

\* However many bytes come, what is fed is all that came.
LEMMA HashUpdateFeeds ==
  ASSUME NEW x, NEW key, NEW s, HashFed(x, key, s), NEW u \in Seq(Int)
  PROVE  HashFed(HashUpdate(x, u), key, s \o u)
<1>1. x \in HashStates(key) /\ s \in Seq(Int)
  BY FedTyped, Zenon
<1>2. PICK n \in Nat : n = Len(u)
  BY LenProperties
<1>r. PICK f : HashRun(f, key, x, u, n)
  BY <1>1, <1>2, HashUpdateRuns, Zenon
<1>3. /\ f[0] = x
      /\ \A i \in 1 .. n : f[i] = HashByte(f[i - 1], u[i])
      /\ f[n] = HashUpdate(x, u)
  BY <1>r, Zenon DEF HashRun
<1> DEFINE Has == {i \in Nat : i <= n => HashFed(f[i], key, s \o SubSeq(u, 1, i))}
<1>4. 0 \in Has
  <2>1. SubSeq(u, 1, 0) = <<>> /\ s \o <<>> = s
    BY <1>1, SubSeqEmpty, ConcatEmptySeq
  <2> QED BY <1>3, <2>1
<1>5. ASSUME NEW i \in Nat, i \in Has PROVE i + 1 \in Has
  <2> SUFFICES ASSUME i + 1 <= n PROVE HashFed(f[i + 1], key, s \o SubSeq(u, 1, i + 1))
    <3>1. i + 1 \in Nat
      OBVIOUS
    <3> QED BY <3>1, Zenon
  <2>1. HashFed(f[i], key, s \o SubSeq(u, 1, i))
    BY <1>5
  <2>2. i + 1 \in 1 .. n /\ (i + 1) - 1 = i /\ i + 1 <= Len(u)
    BY <1>2
  <2>3. f[i + 1] = HashByte(f[i], u[i + 1])
    BY <1>3, <2>2
  <2>4. u[i + 1] \in Int
    BY <1>2, <2>2, ElementOfSeq
  <2>5. s \o SubSeq(u, 1, i + 1) = Append(s \o SubSeq(u, 1, i), u[i + 1])
    BY <1>1, <2>2, PrefixGrows, Zenon
  <2> QED BY <2>1, <2>3, <2>4, <2>5, HashByteFed, Zenon
<1>6. n \in Has
  <2> HIDE DEF Has
  <2> QED BY <1>4, <1>5, SetInduction
<1>7. HashFed(f[n], key, s \o SubSeq(u, 1, n))
  BY <1>6
<1>8. SubSeq(u, 1, n) = u
  BY <1>2, SubSeqFull
<1> QED BY <1>3, <1>7, <1>8, Zenon

\* The bytes of s behind k blocks, and zeros up to a whole block.
LastBlock(s, k, c) == [i \in 1 .. HashBlock |-> IF i <= c THEN s[HashBlock * k + i] ELSE 0]

\* blake2s_final compresses what waits.
LEMMA HashFinalSteps ==
  ASSUME NEW x, NEW key, NEW s, HashFed(x, key, s)
  PROVE  \E k, c : /\ Waiting(s, k, c)
                   /\ HashFinal(x) = Append(HashSteppedBlocks(s, k),
                                            HashStep(LastBlock(s, k, c), HashBlock * k + c, TRUE))
<1>0. PICK m \in Nat \ {0} : m = HashBlock
  BY StreamAssumption
<1>1. PICK k, c, b : /\ Waiting(s, k, c) /\ Buffered(b, s, k, c)
                     /\ IsHash(x, key, HashSteppedBlocks(s, k), Ticks(HashBlock * k), b, c)
  BY Zenon DEF HashFed
<1>2. k \in Nat /\ c \in 0 .. HashBlock /\ HashBlock * k \in Nat
  BY <1>0, <1>1 DEF Waiting
<1>3. x.b = b /\ x.c = c
  BY <1>1, HashSteps, Zenon
<1>4. IsHash(Count(x), key, HashSteppedBlocks(s, k), Ticks(HashBlock * k + c), b, c)
  BY <1>1, <1>2, CountTicks, Zenon
<1>5. PICK a : a = [i \in 1 .. HashBlock |-> IF i <= x.c THEN x.b[i] ELSE 0]
  OBVIOUS
<1>6. a = LastBlock(s, k, c)
  <2>1. \A j \in 1 .. c : b[j] = s[HashBlock * k + j]
    BY <1>1, Zenon DEF Buffered
  <2>2. ASSUME NEW i \in 1 .. HashBlock, i <= c PROVE b[i] = s[HashBlock * k + i]
    <3>1. i \in 1 .. c
      BY <1>0, <1>2, <2>2
    <3> QED BY <3>1, <2>1, Zenon
  <2> QED BY <1>3, <1>5, <2>2, Zenon DEF LastBlock
<1>7. IsHash([Count(x) EXCEPT !.b = a], key, HashSteppedBlocks(s, k), Ticks(HashBlock * k + c), a, c)
  BY <1>4, OtherBuffer, Zenon
<1>8. PICK y : y = Compress([Count(x) EXCEPT !.b = a], TRUE)
  OBVIOUS
<1>9. PICK h : h = Append(HashSteppedBlocks(s, k), HashStep(a, HashBlock * k + c, TRUE))
  OBVIOUS
<1>10. IsHash(y, key, h, Ticks(HashBlock * k + c), a, c)
  <2>1. IsHash(y, key, Append(HashSteppedBlocks(s, k),
                 [block |-> a, t |-> Ticks(HashBlock * k + c), last |-> TRUE]), Ticks(HashBlock * k + c), a, c)
    BY <1>7, <1>8, CompressParts, Zenon
  <2> QED BY <1>9, <2>1, Zenon DEF HashStep
<1>11. y.h = h
  BY <1>10, HashParts, Zenon
<1>12. HashFinal(x) = y.h
  BY <1>5, <1>8, Zenon DEF HashFinal
<1> QED BY <1>1, <1>6, <1>9, <1>11, <1>12, Zenon

\* The blocks that RFC 7693 compresses for s.
DigestOf(s) ==
  LET bs == IF s = <<>> THEN <<<<>>>> ELSE Cut(s, HashBlock)
      end(i) == IF i = Len(bs) THEN Len(s) ELSE HashBlock * i
  IN  [i \in 1 .. Len(bs) |->
        [ block |-> bs[i] \o Zeros(HashBlock - Len(bs[i])),
          t |-> <<end(i) % WordMod, end(i) \div WordMod>>, last |-> i = Len(bs) ]]

\* A piece with zeros behind it.
LEMMA ZeroPadded ==
  ASSUME NEW m \in Nat \ {0}, NEW a \in Seq(Int), Len(a) <= m
  PROVE  a \o Zeros(m - Len(a)) = [i \in 1 .. m |-> IF i <= Len(a) THEN a[i] ELSE 0]
<1>l. PICK l \in 0 .. m : l = Len(a)
  BY LenProperties
<1>3. PICK z : z = Zeros(m - l)
  OBVIOUS
<1>4. z \in Seq(Int) /\ Len(z) = m - l /\ \A i \in 1 .. m - l : z[i] = 0
  <2>1. PICK n \in Nat : n = m - l
    OBVIOUS
  <2>2. z = [i \in 1 .. n |-> 0]
    BY <1>3, <2>1 DEF Zeros
  <2>3. z \in Seq(Int) /\ Len(z) = n /\ \A i \in 1 .. n : z[i] = 0
    BY <2>2
  <2> QED BY <2>1, <2>3
<1>7. PICK d : d = a \o z
  OBVIOUS
<1>8. d \in Seq(Int) /\ Len(d) = m /\ \A i \in 1 .. m : d[i] = IF i <= l THEN a[i] ELSE z[i - l]
  <2>1. /\ d \in Seq(Int) /\ Len(d) = Len(a) + Len(z)
        /\ \A i \in 1 .. Len(a) + Len(z) : d[i] = IF i <= Len(a) THEN a[i] ELSE z[i - Len(a)]
    BY <1>4, <1>7, IntConcat, Zenon
  <2>2. Len(a) + Len(z) = m
    BY <1>l, <1>4
  <2> QED BY <1>l, <2>1, <2>2, Zenon
<1>9. ASSUME NEW i \in 1 .. m PROVE d[i] = IF i <= l THEN a[i] ELSE 0
  <2>1. CASE i <= l
    BY <2>1, <1>8
  <2>3. CASE i > l
    <3>1. i - l \in 1 .. m - l /\ ~(i <= l)
      BY <2>3
    <3> QED BY <3>1, <1>4, <1>8
  <2> QED BY <2>1, <2>3
<1>10. d = [i \in 1 .. m |-> IF i <= l THEN a[i] ELSE 0]
  <2>1. d = [i \in 1 .. m |-> d[i]]
    BY <1>8, LenProperties
  <2> QED BY <2>1, <1>9, Zenon
<1> QED BY <1>l, <1>3, <1>7, <1>10, Zenon

\* The digest when what waits is nothing: the hash of nothing is one block of zeros.
LEMMA DigestOfNothing ==
  DigestOf(<<>>) = Append(HashSteppedBlocks(<<>>, 0), HashStep(LastBlock(<<>>, 0, 0), HashBlock * 0 + 0, TRUE))
<1>0. PICK m \in Nat \ {0} : m = HashBlock
  BY StreamAssumption
<1>1. PICK bs : bs = <<<<>>>>
  OBVIOUS
<1>2. Len(bs) = 1 /\ bs[1] = <<>> /\ Len(<<>>) = 0 /\ <<>> \in Seq(Int)
  BY <1>1
<1>3. PICK g : g = HashStep(LastBlock(<<>>, 0, 0), 0, TRUE)
  OBVIOUS
<1>4. bs[1] \o Zeros(HashBlock - Len(bs[1])) = LastBlock(<<>>, 0, 0)
  <2>0. PICK e : e = <<>>
    OBVIOUS
  <2>1. e \in Seq(Int) /\ Len(e) = 0
    BY <2>0
  <2>2. e \o Zeros(m - 0) = [i \in 1 .. m |-> IF i <= 0 THEN e[i] ELSE 0]
    <3>1. Len(e) <= m
      BY <2>1
    <3>2. e \o Zeros(m - Len(e)) = [i \in 1 .. m |-> IF i <= Len(e) THEN e[i] ELSE 0]
      BY <2>1, <3>1, ZeroPadded, Zenon
    <3> QED BY <2>1, <3>2, Zenon
  <2>3. \A i \in 1 .. m : ~(i <= 0)
    OBVIOUS
  <2>4. [i \in 1 .. m |-> IF i <= 0 THEN e[i] ELSE 0] = [i \in 1 .. m |-> 0]
    BY <2>3, Zenon
  <2>5. LastBlock(<<>>, 0, 0) = [i \in 1 .. m |-> 0]
    BY <1>0, <2>3, Zenon DEF LastBlock
  <2>6. m - 0 = m /\ bs[1] = e /\ Len(bs[1]) = 0
    BY <1>2, <2>0
  <2> QED BY <1>0, <2>2, <2>4, <2>5, <2>6
<1>5. DigestOf(<<>>) = [i \in 1 .. 1 |-> g]
  <2>1. \A i \in 1 .. 1 : i = 1
    OBVIOUS
  <2>2. PICK D : D = DigestOf(<<>>)
    OBVIOUS
  <2>3. D = [i \in 1 .. Len(bs) |->
        [ block |-> bs[i] \o Zeros(HashBlock - Len(bs[i])),
          t |-> <<(IF i = Len(bs) THEN Len(<<>>) ELSE HashBlock * i) % WordMod,
                  (IF i = Len(bs) THEN Len(<<>>) ELSE HashBlock * i) \div WordMod>>,
          last |-> i = Len(bs) ]]
    BY <1>1, <2>2, Zenon DEF DigestOf
  <2>4. ASSUME NEW i \in 1 .. 1
        PROVE  [ block |-> bs[i] \o Zeros(HashBlock - Len(bs[i])),
                 t |-> <<(IF i = Len(bs) THEN Len(<<>>) ELSE HashBlock * i) % WordMod,
                         (IF i = Len(bs) THEN Len(<<>>) ELSE HashBlock * i) \div WordMod>>,
                 last |-> i = Len(bs) ] = g
    <3>1. i = 1
      BY <2>1
    <3>2. g = [block |-> LastBlock(<<>>, 0, 0), t |-> <<0 % WordMod, 0 \div WordMod>>, last |-> TRUE]
      BY <1>3, Zenon DEF HashStep, Ticks
    <3>3. (i = Len(bs)) = TRUE
      BY <1>2, <3>1
    <3>4. (IF i = Len(bs) THEN Len(<<>>) ELSE HashBlock * i) = 0
      BY <1>2, <3>1
    <3> QED BY <1>4, <3>1, <3>2, <3>3, <3>4, Zenon
  <2>5. D = [i \in 1 .. 1 |-> g]
    BY <1>2, <2>3, <2>4, Zenon
  <2> QED BY <2>2, <2>5, Zenon
<1>6. HashSteppedBlocks(<<>>, 0) = <<>>
  BY DEF HashSteppedBlocks
<1>7. HashBlock * 0 + 0 = 0
  BY <1>0
<1>8. Append(<<>>, g) = [i \in 1 .. 1 |-> g]
  OBVIOUS
<1> QED BY <1>3, <1>5, <1>6, <1>7, <1>8

\* The digest otherwise: the last block is as long as what waits.
LEMMA DigestOfSome ==
  ASSUME NEW s, NEW k, NEW c, Waiting(s, k, c), c # 0
  PROVE  DigestOf(s) = Append(HashSteppedBlocks(s, k), HashStep(LastBlock(s, k, c), HashBlock * k + c, TRUE))
<1>0. PICK m \in Nat \ {0} : m = HashBlock
  BY StreamAssumption
<1>1. s \in Seq(Int) /\ k \in Nat /\ c \in 1 .. m /\ Len(s) = m * k + c
  BY <1>0 DEF Waiting
<1>2. PICK p \in Nat : p = m * k
  BY <1>1
<1>3. \A j \in 1 .. p + c : s[j] \in Int
  <2>1. Len(s) = p + c
    BY <1>1, <1>2
  <2> QED BY <1>1, <2>1, ElementOfSeq
<1>4. PICK bs : bs = Cut(s, m)
  OBVIOUS
<1>5. /\ Len(bs) = k + 1
      /\ \A j \in 1 .. k : bs[j] = BlockOf(s, m, j)
      /\ bs[k + 1] = [i \in 1 .. c |-> s[p + i]]
  <2>1. CASE c # m
    <3>1. Cuts(s, m, k, c)
      BY <1>1, <2>1 DEF Cuts, Splits
    <3>2. Indexed(bs, k + 1) /\ bs[k + 1] = [i \in 1 .. c |-> s[m * k + i]]
      <4>1. ~(c = 0) /\ c > 0
        BY <1>1
      <4> QED BY <1>4, <3>1, <4>1, CutBlocks
    <3>3. Len(bs) = k + 1
      BY <1>1, <3>2 DEF Indexed
    <3>4. \A j \in 1 .. k : bs[j] = BlockOf(s, m, j)
      BY <1>4, <3>1, CutBlock, Zenon
    <3> QED BY <1>2, <3>2, <3>3, <3>4
  <2>2. CASE c = m
    <3>0. m * (k + 1) = p + m
      BY <1>1, <1>2
    <3>1. Cuts(s, m, k + 1, 0)
      BY <1>1, <1>2, <2>2, <3>0 DEF Cuts, Splits
    <3>2. Indexed(bs, k + 1)
      BY <1>4, <3>1, CutBlocks
    <3>3. Len(bs) = k + 1
      BY <1>1, <3>2 DEF Indexed
    <3>4. \A j \in 1 .. k + 1 : bs[j] = BlockOf(s, m, j)
      BY <1>4, <3>1, CutBlock, Zenon
    <3>5. \A j \in 1 .. k : j \in 1 .. k + 1
      BY <1>1
    <3>6. BlockOf(s, m, k + 1) = [i \in 1 .. c |-> s[p + i]]
      <4>1. m * ((k + 1) - 1) = p
        BY <1>1, <1>2
      <4> QED BY <2>2, <4>1, Zenon DEF BlockOf
    <3>7. k + 1 \in 1 .. k + 1
      BY <1>1
    <3> QED BY <3>3, <3>4, <3>5, <3>6, <3>7, Zenon
  <2> QED BY <2>1, <2>2
<1>6. ASSUME NEW j \in 1 .. k PROVE bs[j] \o Zeros(HashBlock - Len(bs[j])) = BlockOf(s, HashBlock, j)
  <2>1. PICK a : a = BlockOf(s, m, j)
    OBVIOUS
  <2>2. ASSUME NEW i \in 1 .. m PROVE s[m * (j - 1) + i] \in Int
    <3>1. m * (j - 1) + i \in 1 .. m * k
      BY <1>1, BlockPlace
    <3>2. PICK r \in Int : r = m * (j - 1) + i
      BY <3>1
    <3>3. r \in 1 .. p + c
      BY <1>1, <1>2, <3>1, <3>2
    <3> QED BY <1>3, <3>2, <3>3, Zenon
  <2>3. a \in Seq(Int) /\ Len(a) = m /\ a = [i \in 1 .. m |-> a[i]]
    BY <2>1, <2>2 DEF BlockOf
  <2>4. a \o Zeros(m - Len(a)) = [i \in 1 .. m |-> IF i <= Len(a) THEN a[i] ELSE 0]
    <3>1. Len(a) <= m
      BY <2>3
    <3> QED BY <2>3, <3>1, ZeroPadded, Zenon
  <2>5. [i \in 1 .. m |-> IF i <= Len(a) THEN a[i] ELSE 0] = [i \in 1 .. m |-> a[i]]
    <3>1. \A i \in 1 .. m : i <= Len(a)
      BY <2>3
    <3> QED BY <3>1, Zenon
  <2> QED BY <1>0, <1>5, <2>1, <2>3, <2>4, <2>5, Zenon
<1>7. bs[k + 1] \o Zeros(HashBlock - Len(bs[k + 1])) = LastBlock(s, k, c)
  <2>1. PICK a : a = [i \in 1 .. c |-> s[p + i]]
    OBVIOUS
  <2>2. \A i \in 1 .. c : s[p + i] \in Int
    BY <1>1, <1>3
  <2>3. a \in Seq(Int) /\ Len(a) = c
    BY <1>1, <2>1, <2>2
  <2>4. a \o Zeros(m - Len(a)) = [i \in 1 .. m |-> IF i <= c THEN a[i] ELSE 0]
    <3>1. Len(a) <= m
      BY <1>1, <2>3
    <3>2. a \o Zeros(m - Len(a)) = [i \in 1 .. m |-> IF i <= Len(a) THEN a[i] ELSE 0]
      BY <2>3, <3>1, ZeroPadded, Zenon
    <3> QED BY <2>3, <3>2, Zenon
  <2>5. [i \in 1 .. m |-> IF i <= c THEN a[i] ELSE 0] = LastBlock(s, k, c)
    <3>1. ASSUME NEW i \in 1 .. m, i <= c PROVE a[i] = s[p + i]
      BY <2>1, <3>1
    <3> QED BY <3>1, <1>0, <1>2, Zenon DEF LastBlock
  <2>6. bs[k + 1] = a
    BY <1>5, <2>1, Zenon
  <2> QED BY <1>0, <2>4, <2>5, <2>6, Zenon
<1> DEFINE Of(i) == [ block |-> bs[i] \o Zeros(HashBlock - Len(bs[i])),
                      t |-> <<(IF i = Len(bs) THEN Len(s) ELSE HashBlock * i) % WordMod,
                              (IF i = Len(bs) THEN Len(s) ELSE HashBlock * i) \div WordMod>>,
                      last |-> i = Len(bs) ]
<1>8. DigestOf(s) = [i \in 1 .. Len(bs) |-> Of(i)]
  <2>1. s # <<>>
    BY <1>1, <1>2, EmptySeq
  <2>2. bs = IF s = <<>> THEN <<<<>>>> ELSE Cut(s, HashBlock)
    BY <1>0, <1>4, <2>1, Zenon
  <2> QED BY <2>2, Zenon DEF DigestOf
<1>9. ASSUME NEW j \in 1 .. k
      PROVE  Of(j) = HashStep(BlockOf(s, HashBlock, j), HashBlock * j, FALSE)
  <2>1. (j = Len(bs)) = FALSE
    BY <1>1, <1>5
  <2>2. (IF j = Len(bs) THEN Len(s) ELSE HashBlock * j) = HashBlock * j
    BY <2>1
  <2> QED BY <1>6, <2>1, <2>2, Zenon DEF HashStep, Ticks
<1>10. Of(k + 1) = HashStep(LastBlock(s, k, c), HashBlock * k + c, TRUE)
  <2>1. (k + 1 = Len(bs)) = TRUE
    BY <1>1, <1>5
  <2>2. (IF k + 1 = Len(bs) THEN Len(s) ELSE HashBlock * (k + 1)) = HashBlock * k + c
    BY <2>1, <1>0, <1>1
  <2> QED BY <1>7, <2>1, <2>2, Zenon DEF HashStep, Ticks
<1> HIDE DEF Of
<1>11. PICK F : F = [i \in 1 .. k + 1 |-> Of(i)]
  OBVIOUS
<1>12. HashSteppedBlocks(s, k) = [j \in 1 .. k |-> F[j]]
  <2>1. \A j \in 1 .. k : j \in 1 .. k + 1
    BY <1>1
  <2>2. \A j \in 1 .. k : F[j] = HashStep(BlockOf(s, HashBlock, j), HashBlock * j, FALSE)
    BY <1>9, <1>11, <2>1, Zenon
  <2> QED BY <2>2, Zenon DEF HashSteppedBlocks
<1>13. F[k + 1] = HashStep(LastBlock(s, k, c), HashBlock * k + c, TRUE)
  <2>1. k + 1 \in 1 .. k + 1
    BY <1>1
  <2> QED BY <1>10, <1>11, <2>1, Zenon
<1>14. F = [i \in 1 .. k + 1 |-> F[i]]
  BY <1>11, Zenon
<1>15. F = Append([j \in 1 .. k |-> F[j]], F[k + 1])
  BY <1>1, <1>14
<1> QED BY <1>5, <1>8, <1>11, <1>12, <1>13, <1>15, Zenon

\* blake2s_final makes the digest of what was fed.
LEMMA HashFinalDigest ==
  ASSUME NEW x, NEW key, NEW s, HashFed(x, key, s)
  PROVE  HashFinal(x) = DigestOf(s)
<1>1. PICK k, c : /\ Waiting(s, k, c)
                  /\ HashFinal(x) = Append(HashSteppedBlocks(s, k),
                                           HashStep(LastBlock(s, k, c), HashBlock * k + c, TRUE))
  BY HashFinalSteps, Zenon
<1>2. CASE c # 0
  BY <1>1, <1>2, DigestOfSome, Zenon
<1>3. CASE c = 0
  <2>1. k = 0
    BY <1>1, <1>3 DEF Waiting
  <2>2. s = <<>>
    <3>1. s \in Seq(Int) /\ Len(s) = 0
      BY <1>1, <1>3, <2>1, StreamAssumption DEF Waiting
    <3> QED BY <3>1, EmptySeq
  <2> QED BY <1>1, <1>3, <2>1, <2>2, DigestOfNothing, Zenon
<1> QED BY <1>2, <1>3

\* blake2s_init with a key feeds its block; without one, nothing.
LEMMA HashInitFed ==
  ASSUME NEW key \in 0 .. HashBlock
  PROVE  HashFed(HashInit(key), key, HashInput(key, 0)) /\ HashInput(key, 0) \in Seq(Int)
<1>0. PICK m \in Nat \ {0} : m = HashBlock
  BY StreamAssumption
<1>1. PICK x : x = [key |-> key, h |-> <<>>, t |-> <<0, 0>>, b |-> Zeros(HashBlock), c |-> 0]
  OBVIOUS
<1>2. IsHash(x, key, <<>>, <<0, 0>>, Zeros(HashBlock), 0)
  BY <1>1, Zenon DEF IsHash
<1>3. HashFed(x, key, <<>>)
  <2>1. Waiting(<<>>, 0, 0)
    BY <1>0 DEF Waiting
  <2>2. Buffered(Zeros(HashBlock), <<>>, 0, 0)
    BY <1>0 DEF Buffered, Zeros
  <2>3. HashSteppedBlocks(<<>>, 0) = <<>>
    BY DEF HashSteppedBlocks
  <2>4. Ticks(HashBlock * 0) = <<0, 0>>
    <3>1. PICK w \in Nat \ {0} : w = WordMod
      BY StreamAssumption
    <3>2. 0 % w = 0 /\ 0 \div w = 0
      <4>1. 0 \in 0 .. w - 1
        OBVIOUS
      <4> QED BY <4>1, SmallRemainder
    <3>3. HashBlock * 0 = 0
      BY <1>0
    <3> QED BY <3>1, <3>2, <3>3 DEF Ticks
  <2> QED BY <1>2, <2>1, <2>2, <2>3, <2>4, Zenon DEF HashFed
<1>4. Bytes(1, 0) = <<>>
  <2>1. Bytes(1, 0) = [i \in 1 .. 0 |-> i]
    BY BytesOf
  <2> QED BY <2>1
<1>5. CASE key = 0
  <2>1. HashInit(key) = x /\ HashInput(key, 0) = <<>>
    BY <1>1, <1>4, <1>5, Zenon DEF HashInit, HashInput
  <2>2. <<>> \in Seq(Int)
    OBVIOUS
  <2> QED BY <1>3, <2>1, <2>2, Zenon
<1>6. CASE key # 0
  <2>1. PICK kb : kb = [i \in 1 .. key |-> -i]
    OBVIOUS
  <2>2. key \in 1 .. m /\ kb \in Seq(Int) /\ Len(kb) = key /\ \A i \in 1 .. key : kb[i] = -i
    BY <1>0, <1>6, <2>1
  <2>3. PICK y : y = HashUpdate(x, kb)
    OBVIOUS
  <2>4. HashFed(y, key, kb)
    <3>1. HashFed(y, key, <<>> \o kb)
      BY <1>3, <2>2, <2>3, HashUpdateFeeds, Zenon
    <3>2. <<>> \o kb = kb
      BY <2>2, ConcatEmptySeq
    <3> QED BY <3>1, <3>2, Zenon
  <2>5. PICK k, c, b : /\ Waiting(kb, k, c) /\ Buffered(b, kb, k, c)
                       /\ IsHash(y, key, HashSteppedBlocks(kb, k), Ticks(HashBlock * k), b, c)
    BY <2>4, Zenon DEF HashFed
  <2>6. k = 0 /\ c = key
    <3>1. k \in Nat /\ c \in 0 .. m /\ key = m * k + c /\ (c = 0 => k = 0)
      BY <1>0, <2>2, <2>5 DEF Waiting
    <3>2. ASSUME k # 0 PROVE FALSE
      <4>1. m * k >= m
        BY <3>1, <3>2
      <4>2. PICK p \in Int : p = m * k
        BY <3>1
      <4> QED BY <2>2, <3>1, <3>2, <4>1, <4>2
    <3> QED BY <3>1, <3>2
  <2>7. PICK pad : pad = [i \in 1 .. HashBlock |-> IF i <= key THEN -i ELSE 0]
    OBVIOUS
  <2>8. pad \in Seq(Int) /\ Len(pad) = m
    BY <1>0, <2>7
  <2>9. HashInput(key, 0) = pad
    <3>1. pad \o <<>> = pad
      BY <2>8, ConcatEmptySeq
    <3> QED BY <1>4, <1>6, <2>7, <3>1, Zenon DEF HashInput
  <2>10. Waiting(pad, 0, HashBlock)
    BY <1>0, <2>8 DEF Waiting
  <2>11. Buffered(b, pad, 0, HashBlock)
    <3>1. b \in [1 .. m -> Int] /\ (\A j \in 1 .. key : b[j] = kb[m * 0 + j]) /\ \A j \in key + 1 .. m : b[j] = 0
      BY <1>0, <2>5, <2>6 DEF Buffered
    <3>2. ASSUME NEW j \in 1 .. m PROVE b[j] = pad[m * 0 + j]
      <4>0. m * 0 + j = j
        OBVIOUS
      <4>1. CASE j <= key
        <5>1. j \in 1 .. key
          BY <2>2, <4>1
        <5> QED BY <1>0, <2>2, <2>7, <3>1, <4>0, <4>1, <5>1
      <4>2. CASE j > key
        <5>1. j \in key + 1 .. m
          BY <2>2, <4>2
        <5> QED BY <1>0, <2>2, <2>7, <3>1, <4>0, <4>2, <5>1
      <4> QED BY <2>2, <4>1, <4>2
    <3>3. \A j \in m + 1 .. m : FALSE
      OBVIOUS
    <3> QED BY <1>0, <3>1, <3>2, <3>3 DEF Buffered
  <2>12. IsHash([y EXCEPT !.c = HashBlock], key, HashSteppedBlocks(pad, 0), Ticks(HashBlock * 0), b, HashBlock)
    <3>1. HashSteppedBlocks(pad, 0) = HashSteppedBlocks(kb, 0)
      <4>1. 1 .. 0 = {}
        OBVIOUS
      <4> QED BY <4>1, Zenon DEF HashSteppedBlocks
    <3>2. IsHash(y, key, HashSteppedBlocks(pad, 0), Ticks(HashBlock * 0), b, c)
      BY <2>5, <2>6, <3>1, Zenon
    <3> QED BY <3>2, OtherCount, Zenon
  <2>13. HashInit(key) = [y EXCEPT !.c = HashBlock]
    BY <1>1, <1>6, <2>1, <2>3, Zenon DEF HashInit
  <2> QED BY <2>8, <2>9, <2>10, <2>11, <2>12, <2>13, Zenon DEF HashFed
<1> QED BY <1>5, <1>6

\* More of the message is more of what is hashed.
LEMMA MoreInput ==
  ASSUME NEW key \in 0 .. HashBlock, NEW h \in Nat, NEW n \in Nat
  PROVE  HashInput(key, h) \o Bytes(h + 1, h + n) = HashInput(key, h + n)
<1>1. /\ Bytes(1, h) \o Bytes(h + 1, h + n) = Bytes(1, h + n)
      /\ Bytes(1, h) \in Seq(Int) /\ Bytes(h + 1, h + n) \in Seq(Int)
  BY MoreBytes, BytesOf
<1>2. CASE key = 0
  BY <1>1, <1>2, Zenon DEF HashInput
<1>3. CASE key # 0
  <2>1. PICK pad : pad = [i \in 1 .. HashBlock |-> IF i <= key THEN -i ELSE 0]
    OBVIOUS
  <2>2. pad \in Seq(Int)
    BY <2>1, StreamAssumption
  <2>3. (pad \o Bytes(1, h)) \o Bytes(h + 1, h + n) = pad \o (Bytes(1, h) \o Bytes(h + 1, h + n))
    BY <1>1, <2>2, Associates, Zenon
  <2>4. \A i : HashInput(key, i) = pad \o Bytes(1, i)
    BY <1>3, <2>1, Zenon DEF HashInput
  <2> QED BY <1>1, <2>3, <2>4, Zenon
<1> QED BY <1>2, <1>3

(***************************************************************************)
(* However a message is cut into calls.                                    *)
(***************************************************************************)

\* What has been fed to both.
Fed ==
  /\ hashed \in Nat /\ maced \in Nat
  /\ hash = NoHash => hashed = 0
  /\ hash # NoHash => /\ hash.key \in 0 .. HashBlock
                      /\ HashFed(hash, hash.key, HashInput(hash.key, hashed))
                      /\ HashInput(hash.key, hashed) \in Seq(Int)
  /\ mac = NoMac => maced = 0
  /\ mac # NoMac => Absorbed(mac, Bytes(1, maced))

\* A fresh authenticator has absorbed nothing.
LEMMA MacInitAbsorbed == Absorbed(MacInit, Bytes(1, 0))
<1>0. PICK m \in Nat \ {0} : m = MacBlock
  BY StreamAssumption
<1>1. PICK s : s = Bytes(1, 0)
  OBVIOUS
<1>2. s \in Seq(Int) /\ Len(s) = 0
  BY <1>1, BytesOf
<1>3. 0 % m = 0 /\ 0 \div m = 0
  <2>1. 0 \in 0 .. m - 1
    OBVIOUS
  <2> QED BY <2>1, SmallRemainder
<1>4. FullBlocks(s) = <<>>
  BY <1>0, <1>2, <1>3 DEF FullBlocks
<1>5. Parts(s, 0, 0, Zeros(MacBlock))
  BY <1>0, <1>2, <1>3 DEF Parts, Zeros
<1> QED BY <1>1, <1>4, <1>5, IsAbsorbed, Zenon DEF MacInit

\* What has been fed stays so.
LEMMA FedInductive == Fed /\ [StreamNext]_streamVars => Fed'
<1> SUFFICES ASSUME Fed, [StreamNext]_streamVars PROVE Fed'
  OBVIOUS
<1>1. ASSUME Hash, UNCHANGED <<mac, maced>> PROVE Fed'
  <2>1. ASSUME hash = NoHash, NEW k \in KeyLens, hash' = HashInit(k), hashed' = hashed PROVE Fed'
    <3>1. k \in 0 .. HashBlock /\ hashed' = 0
      BY <2>1, StreamAssumption DEF Fed
    <3>2. HashFed(hash', k, HashInput(k, 0)) /\ HashInput(k, 0) \in Seq(Int)
      BY <2>1, <3>1, HashInitFed, Zenon
    <3>3. hash'.key = k
      BY <3>2, HashParts, Zenon DEF HashFed
    <3> QED BY <1>1, <2>1, <3>1, <3>2, <3>3, Zenon DEF Fed
  <2>2. ASSUME hash # NoHash, NEW n \in 1 .. MaxFed - hashed,
               hash' = HashUpdate(hash, Bytes(hashed + 1, hashed + n)), hashed' = hashed + n
        PROVE  Fed'
    <3>1. hash.key \in 0 .. HashBlock /\ HashFed(hash, hash.key, HashInput(hash.key, hashed))
          /\ hashed \in Nat /\ n \in Nat
      BY <2>2, StreamAssumption DEF Fed
    <3>2. Bytes(hashed + 1, hashed + n) \in Seq(Int)
      BY <3>1, MoreBytes, Zenon
    <3>3. HashFed(hash', hash.key, HashInput(hash.key, hashed) \o Bytes(hashed + 1, hashed + n))
      BY <2>2, <3>1, <3>2, HashUpdateFeeds, Zenon
    <3>4. HashInput(hash.key, hashed) \o Bytes(hashed + 1, hashed + n) = HashInput(hash.key, hashed')
      BY <2>2, <3>1, MoreInput, Zenon
    <3>5. HashFed(hash', hash.key, HashInput(hash.key, hashed'))
      BY <3>3, <3>4, Zenon
    <3>6. hash'.key = hash.key
      BY <3>5, HashParts, Zenon DEF HashFed
    <3>7. HashInput(hash.key, hashed') \in Seq(Int)
      BY <3>5, FedTyped, Zenon
    <3>8. hashed' \in Nat /\ hashed' # 0
      BY <2>2, <3>1
    <3>9. hash' # NoHash
      <4>1. hash'.key # -1
        BY <3>1, <3>6
      <4> QED BY <4>1 DEF NoHash
    <3> QED BY <1>1, <3>1, <3>5, <3>6, <3>7, <3>8, <3>9, Zenon DEF Fed
  <2> QED BY <1>1, <2>1, <2>2, Zenon DEF Hash
<1>2. ASSUME Mac, UNCHANGED <<hash, hashed>> PROVE Fed'
  <2>1. ASSUME mac = NoMac, mac' = MacInit, maced' = maced PROVE Fed'
    <3>1. maced' = 0
      BY <2>1 DEF Fed
    <3>2. Absorbed(mac', Bytes(1, maced'))
      BY <2>1, <3>1, MacInitAbsorbed, Zenon
    <3> QED BY <1>2, <2>1, <3>1, <3>2, Zenon DEF Fed
  <2>2. ASSUME mac # NoMac, NEW n \in 1 .. MaxFed - maced,
               mac' = MacUpdate(mac, Bytes(maced + 1, maced + n)), maced' = maced + n
        PROVE  Fed'
    <3>1. Absorbed(mac, Bytes(1, maced)) /\ maced \in Nat /\ n \in Nat
      BY <2>2, StreamAssumption DEF Fed
    <3>2. /\ Bytes(maced + 1, maced + n) \in Seq(Int) /\ Bytes(1, maced) \in Seq(Int)
          /\ Bytes(1, maced) \o Bytes(maced + 1, maced + n) = Bytes(1, maced')
      BY <2>2, <3>1, MoreBytes, BytesOf, Zenon
    <3>3. Absorbed(mac', Bytes(1, maced) \o Bytes(maced + 1, maced + n))
      BY <2>2, <3>1, <3>2, MacUpdateAbsorbs, Zenon
    <3>4. Absorbed(mac', Bytes(1, maced'))
      BY <3>2, <3>3, Zenon
    <3>5. maced' \in Nat
      BY <2>2, <3>1
    <3>6. mac' # NoMac
      <4>1. mac'.leftover \in Nat
        <5>1. PICK m \in Nat \ {0} : m = MacBlock
          BY StreamAssumption
        <5>2. Len(Bytes(1, maced')) \in Nat
          BY <3>5, BytesOf
        <5>3. mac'.leftover = Len(Bytes(1, maced')) % m
          BY <3>4, <5>1 DEF Absorbed
        <5> QED BY <5>2, <5>3, Division
      <4> QED BY <4>1 DEF NoMac
    <3> QED BY <1>2, <3>4, <3>5, <3>6, Zenon DEF Fed
  <2> QED BY <1>2, <2>1, <2>2, Zenon DEF Mac
<1>3. ASSUME UNCHANGED <<hash, hashed, mac, maced>> PROVE Fed'
  BY <1>3 DEF Fed
<1> QED BY <1>1, <1>2, <1>3, Zenon DEF StreamNext, streamVars

\* Fed to the hash and to the authenticator is what they were given, in order.
THEOREM WhatIsFed == StreamSpec => []Fed
<1>1. StreamInit => Fed
  BY DEF StreamInit, Fed, NoHash, NoMac
<1> QED BY <1>1, FedInductive, PTL DEF StreamSpec

\* However a message is cut into calls of blake2s_update and poly1305_update, for
\* blocks of any size, keys and messages of any length, the result is that of the
\* whole message.
THEOREM OneShot == StreamSpec => []SameAsOneShot
<1>1. Fed => SameAsOneShot
  <2> SUFFICES ASSUME Fed PROVE SameAsOneShot
    OBVIOUS
  <2>1. ASSUME hash # NoHash PROVE HashFinal(hash) = OneShotDigest(hash.key, hashed)
    <3>1. HashFinal(hash) = DigestOf(HashInput(hash.key, hashed))
      BY <2>1, HashFinalDigest, Zenon DEF Fed
    <3>2. OneShotDigest(hash.key, hashed) = DigestOf(HashInput(hash.key, hashed))
      BY Zenon DEF OneShotDigest, DigestOf
    <3> QED BY <3>1, <3>2, Zenon
  <2>2. ASSUME mac # NoMac PROVE MacFinish(mac) = OneShotMac(maced)
    <3>1. Absorbed(mac, Bytes(1, maced)) /\ maced \in Nat
      BY <2>2, Zenon DEF Fed
    <3>2. Bytes(1, maced) \in Seq(Int)
      BY <3>1, BytesOf, Zenon
    <3>3. MacFinish(mac) = MacBlocks(Bytes(1, maced))
      BY <3>1, <3>2, MacFinishBlocks, Zenon
    <3> QED BY <3>1, <3>3, OneShotBlocks, Zenon
  <2> QED BY <2>1, <2>2, Zenon DEF SameAsOneShot
<1> QED BY <1>1, WhatIsFed, PTL

(***************************************************************************)
(* ChaCha20.                                                               *)
(***************************************************************************)

\* The keystream bytes that n bytes of a packet take.
Pads(n) == [i \in 1 .. n |-> <<1 + ((i - 1) \div PadBlock), (i - 1) % PadBlock>>]

\* The key of the authenticator takes some of block 0, and the packet starts at
\* block 1.
LEMMA AfterMacKeyIs ==
  \E h \in Nat : /\ h > 0 /\ PadBlock \div 2 = h
                 /\ AfterMacKey = [counter |-> 1, used |-> [i \in 1 .. h |-> <<0, i - 1>>]]
<1>s. PICK p \in Nat \ {0, 1} : p = PadBlock
  BY StreamAssumption
<1>1. PICK h \in Nat, r \in 0 .. 1 : Splits(p, 2, h, r) /\ p = 2 * h + r
  <2>1. PICK m \in Nat \ {0} : m = 2
    OBVIOUS
  <2>2. \E h \in Nat, r \in 0 .. m - 1 : Splits(p, m, h, r) /\ p = m * h + r
    BY SplitsSomehow
  <2> QED BY <2>1, <2>2
<1>2. p \div 2 = h
  BY <1>1, SplitsOnce
<1>3. h > 0 /\ h <= p
  <2>1. p >= 2
    BY <1>s
  <2> QED BY <1>1, <2>1
<1>4. (h + p - 1) \div p = 1
  <2>1. Splits(h + p - 1, p, 1, h - 1)
    BY <1>3 DEF Splits
  <2> QED BY <2>1, SplitsOnce
<1>5. ASSUME NEW i \in 1 .. h PROVE (i - 1) \div p = 0 /\ (i - 1) % p = i - 1
  <2>1. i - 1 \in 0 .. p - 1
    BY <1>3
  <2> QED BY <2>1, SmallRemainder
<1>6. PICK t : t = [i \in 1 .. h |-> <<0, i - 1>>]
  OBVIOUS
<1>7. t \in Seq(Int \X Int)
  BY <1>6
<1>8. PICK x : x = [counter |-> 0, used |-> <<>>]
  OBVIOUS
<1>9. x.counter = 0 /\ x.used = <<>>
  BY <1>8
<1>10. Taken(x, h) = t
  <2>1. \A i \in 1 .. h : <<x.counter + ((i - 1) \div p), (i - 1) % p>> = <<0, i - 1>>
    BY <1>5, <1>9
  <2> QED BY <2>1, <1>6, <1>s, Zenon DEF Taken
<1>11. AfterMacKey = [counter |-> 0 + 1, used |-> <<>> \o t]
  BY <1>2, <1>4, <1>8, <1>9, <1>10, <1>s, Zenon DEF AfterMacKey, ChaCha
<1>12. <<>> \o t = t
  BY <1>7, ConcatEmptySeq
<1>13. AfterMacKey = [counter |-> 1, used |-> t]
  BY <1>11, <1>12
<1> QED BY <1>2, <1>3, <1>6, <1>13, <1>s, Zenon

\* U is the h bytes of the key of the authenticator and n of the packet.
UsedBy(U, h, n) ==
  /\ h \in Nat /\ h > 0 /\ PadBlock \div 2 = h
  /\ Len(AfterMacKey.used) = h /\ Len(U) = h + n
  /\ DOMAIN U = 1 .. h + n
  /\ \A i \in 1 .. h : U[i] = <<0, i - 1>>
  /\ \A i \in 1 .. n : U[h + i] = Pads(n)[i]
  /\ SubSeq(U, h + 1, h + n) = Pads(n)

\* What chacha20 has used in the end.
LEMMA UsedIs ==
  ASSUME NEW n \in Nat
  PROVE  \E h : UsedBy(ChaCha(AfterMacKey, n).used, h, n)
<1>s. PICK p \in Nat \ {0} : p = PadBlock
  BY StreamAssumption
<1>1. PICK h \in Nat : /\ h > 0 /\ PadBlock \div 2 = h
                       /\ AfterMacKey = [counter |-> 1, used |-> [i \in 1 .. h |-> <<0, i - 1>>]]
  BY AfterMacKeyIs
<1>2. PICK a : a = [i \in 1 .. h |-> <<0, i - 1>>]
  OBVIOUS
<1>3. AfterMacKey.counter = 1 /\ AfterMacKey.used = a
  BY <1>1, <1>2
<1>4. Taken(AfterMacKey, n) = Pads(n)
  BY <1>3, Zenon DEF Taken, Pads
<1>5. PICK U : U = ChaCha(AfterMacKey, n).used
  OBVIOUS
<1>6. U = a \o Pads(n)
  <2>1. PICK c, u : c = AfterMacKey.counter + ((n + PadBlock - 1) \div PadBlock) /\ u = a \o Pads(n)
    OBVIOUS
  <2>2. ChaCha(AfterMacKey, n) = [counter |-> c, used |-> u]
    BY <1>3, <1>4, <2>1, Zenon DEF ChaCha
  <2> QED BY <1>5, <2>1, <2>2
<1>7. PICK b : b = Pads(n)
  OBVIOUS
<1>8. a \in Seq(Int \X Int) /\ Len(a) = h /\ \A i \in 1 .. h : a[i] = <<0, i - 1>>
  BY <1>2
<1>9. b \in Seq(Int \X Int) /\ Len(b) = n
  <2>1. \A i \in 1 .. n : <<1 + ((i - 1) \div p), (i - 1) % p>> \in Int \X Int
    BY Division
  <2>2. b = [i \in 1 .. n |-> <<1 + ((i - 1) \div p), (i - 1) % p>>]
    BY <1>7, <1>s, Zenon DEF Pads
  <2>3. Indexed(b, n) /\ \A i \in 1 .. n : b[i] \in Int \X Int
    BY <2>1, <2>2, Zenon DEF Indexed
  <2> QED BY <2>3, IndexedSeq, Zenon
<1>10. /\ U \in Seq(Int \X Int) /\ Len(U) = h + n
       /\ \A i \in 1 .. h + n : U[i] = IF i <= h THEN a[i] ELSE b[i - h]
  BY <1>6, <1>7, <1>8, <1>9, ConcatProperties
<1>11. DOMAIN U = 1 .. h + n
  BY <1>10, LenProperties
<1>12. \A i \in 1 .. h : U[i] = <<0, i - 1>>
  BY <1>8, <1>10
<1>13. \A i \in 1 .. n : U[h + i] = b[i]
  <2> SUFFICES ASSUME NEW i \in 1 .. n PROVE U[h + i] = b[i]
    OBVIOUS
  <2>1. h + i \in 1 .. h + n /\ ~(h + i <= h) /\ (h + i) - h = i
    OBVIOUS
  <2> QED BY <2>1, <1>10
<1>14. SubSeq(U, h + 1, h + n) = b
  <2>1. PICK w : w = SubSeq(U, h + 1, h + n)
    OBVIOUS
  <2>2. w \in Seq(Int \X Int) /\ Len(w) = n /\ \A i \in 1 .. n : w[i] = U[(h + 1) + i - 1]
    <3>1. \A i \in h + 1 .. h + n : U[i] \in Int \X Int
      BY <1>10, ElementOfSeq, LenProperties
    <3>2. (IF h + 1 <= h + n THEN (h + n) - (h + 1) + 1 ELSE 0) = n /\ (h + n) - (h + 1) + 1 = n
      OBVIOUS
    <3> QED BY <2>1, <3>1, <3>2, SubSeqProperties
  <2>3. \A i \in 1 .. n : w[i] = b[i]
    <3> SUFFICES ASSUME NEW i \in 1 .. n PROVE w[i] = b[i]
      OBVIOUS
    <3>1. (h + 1) + i - 1 = h + i
      OBVIOUS
    <3> QED BY <2>2, <3>1, <1>13
  <2> QED BY <2>1, <2>2, <2>3, <1>9, SeqEqual
<1>15. UsedBy(U, h, n)
  BY <1>1, <1>3, <1>7, <1>8, <1>10, <1>11, <1>12, <1>13, <1>14, Zenon DEF UsedBy
<1> QED BY <1>5, <1>15, Zenon

\* No place of the keystream is taken twice, and none of block 0 by the packet.
LEMMA PlacesDistinct ==
  ASSUME NEW n \in Nat, NEW h, NEW U, UsedBy(U, h, n)
  PROVE  /\ \A i, j \in DOMAIN U : U[i] = U[j] => i = j
         /\ \A i \in DOMAIN U : i > PadBlock \div 2 => U[i][1] > 0
<1>s. PICK p \in Nat \ {0} : p = PadBlock
  BY StreamAssumption
<1>0. /\ h \in Nat /\ h > 0 /\ PadBlock \div 2 = h
      /\ DOMAIN U = 1 .. h + n
      /\ \A i \in 1 .. h : U[i] = <<0, i - 1>>
      /\ \A i \in 1 .. n : U[h + i] = Pads(n)[i]
  BY DEF UsedBy
<1>1. ASSUME NEW i \in 1 .. h PROVE U[i] = <<0, i - 1>>
  BY <1>0
<1>2. ASSUME NEW i \in h + 1 .. h + n
      PROVE  \E q \in Nat, r \in 0 .. p - 1 : U[i] = <<1 + q, r>> /\ i - h - 1 = p * q + r
  <2>1. PICK k \in 1 .. n : k = i - h
    BY <1>0
  <2>2. PICK q \in Nat, r \in 0 .. p - 1 : Splits(k - 1, p, q, r) /\ k - 1 = p * q + r
    <3>1. k - 1 \in Nat
      OBVIOUS
    <3> QED BY <3>1, SplitsSomehow
  <2>3. (k - 1) \div p = q /\ (k - 1) % p = r
    BY <2>2, SplitsOnce
  <2>4. U[h + k] = <<1 + ((k - 1) \div p), (k - 1) % p>>
    BY <1>0, <1>s DEF Pads
  <2>5. h + k = i /\ k - 1 = i - h - 1
    BY <1>0, <2>1
  <2> QED BY <2>2, <2>3, <2>4, <2>5
<1>3. ASSUME NEW i \in 1 .. h + n, ~(i \in 1 .. h) PROVE i \in h + 1 .. h + n
  BY <1>0, <1>3
<1>4. ASSUME NEW i \in DOMAIN U, NEW j \in DOMAIN U, U[i] = U[j] PROVE i = j
  <2>0. i \in 1 .. h + n /\ j \in 1 .. h + n
    BY <1>0, Zenon
  <2>1. CASE i \in 1 .. h /\ j \in 1 .. h
    <3>1. <<0, i - 1>> = <<0, j - 1>>
      BY <1>1, <1>4, <2>1, Zenon
    <3>2. i - 1 = j - 1
      BY <3>1
    <3> QED BY <3>2, <2>1
  <2>2. CASE i \in 1 .. h /\ j \in h + 1 .. h + n
    <3>1. PICK q \in Nat, r \in 0 .. p - 1 : U[j] = <<1 + q, r>>
      BY <1>2, <2>2, Zenon
    <3>2. <<0, i - 1>> = <<1 + q, r>>
      BY <1>1, <1>4, <2>2, <3>1, Zenon
    <3>3. 0 = 1 + q
      BY <3>2
    <3> QED BY <3>3
  <2>3. CASE j \in 1 .. h /\ i \in h + 1 .. h + n
    <3>1. PICK q \in Nat, r \in 0 .. p - 1 : U[i] = <<1 + q, r>>
      BY <1>2, <2>3, Zenon
    <3>2. <<0, j - 1>> = <<1 + q, r>>
      BY <1>1, <1>4, <2>3, <3>1, Zenon
    <3>3. 0 = 1 + q
      BY <3>2
    <3> QED BY <3>3
  <2>4. CASE i \in h + 1 .. h + n /\ j \in h + 1 .. h + n
    <3>1. PICK q \in Nat, r \in 0 .. p - 1 : U[i] = <<1 + q, r>> /\ i - h - 1 = p * q + r
      BY <1>2, <2>4, Zenon
    <3>2. PICK a \in Nat, b \in 0 .. p - 1 : U[j] = <<1 + a, b>> /\ j - h - 1 = p * a + b
      BY <1>2, <2>4, Zenon
    <3>3. <<1 + q, r>> = <<1 + a, b>>
      BY <1>4, <3>1, <3>2, Zenon
    <3>4. q = a /\ r = b
      <4>1. 1 + q = 1 + a /\ r = b
        BY <3>3
      <4> QED BY <4>1
    <3>5. i - h - 1 = j - h - 1
      BY <3>1, <3>2, <3>4, Zenon
    <3> QED BY <3>5, <1>0, <2>4
  <2> QED BY <1>3, <2>0, <2>1, <2>2, <2>3, <2>4, Zenon
<1>5. ASSUME NEW i \in DOMAIN U, i > PadBlock \div 2 PROVE U[i][1] > 0
  <2>1. i \in h + 1 .. h + n
    BY <1>0, <1>5
  <2>2. PICK q \in Nat, r \in 0 .. p - 1 : U[i] = <<1 + q, r>>
    BY <1>2, <2>1, Zenon
  <2>3. U[i][1] = 1 + q
    BY <2>2
  <2> QED BY <2>3
<1> QED BY <1>4, <1>5, Zenon

\* s is a string of n bits.
IsBits(s, n) == n \in Nat /\ s \in [1 .. n -> {0, 1}]

\* A string of bits.
LEMMA BitsAre ==
  ASSUME NEW s, NEW n, IsBits(s, n)
  PROVE  s \in Seq(Int) /\ Len(s) = n /\ n \in Nat
<1>1. n \in Nat /\ s \in [1 .. n -> {0, 1}]
  BY DEF IsBits
<1> QED BY <1>1

\* All of them.
LEMMA BitStringsAre ==
  ASSUME NEW m \in Int, NEW s \in BitStrings(m)
  PROVE  IsBits(s, Len(s))
<1>1. PICK k \in 0 .. m : s \in [1 .. k -> {0, 1}]
  BY DEF BitStrings
<1>2. k \in Nat
  OBVIOUS
<1>3. Len(s) = k
  BY <1>1, <1>2
<1> QED BY <1>1, <1>2, <1>3 DEF IsBits

\* Taking the pad away again.
LEMMA XorTwice ==
  ASSUME NEW s, NEW n, IsBits(s, n)
  PROVE  /\ IsBits(Xor(s, Pads(n)), n)
         /\ Xor(Xor(s, Pads(n)), Pads(n)) = s
<1>s. PICK p \in Nat \ {0} : p = PadBlock
  BY StreamAssumption
<1>0. n \in Nat /\ s \in [1 .. n -> {0, 1}] /\ Len(s) = n
  BY BitsAre DEF IsBits
<1>1. ASSUME NEW x \in Int, NEW y \in Int PROVE Keystream(<<x, y>>) \in {0, 1}
  <2>1. PICK z \in Int : z = x + x * y + (y \div 2)
    <3>1. y \div 2 \in Int
      OBVIOUS
    <3> QED BY <3>1
  <2>2. <<x, y>>[1] = x /\ <<x, y>>[2] = y
    OBVIOUS
  <2>3. Keystream(<<x, y>>) = z % 2
    BY <2>1, <2>2, Zenon DEF Keystream
  <2> QED BY <2>3
<1> DEFINE K(i) == Keystream(Pads(n)[i])
<1>2. ASSUME NEW i \in 1 .. n PROVE K(i) \in {0, 1}
  <2>1. Pads(n)[i] = <<1 + ((i - 1) \div p), (i - 1) % p>>
    BY <1>s DEF Pads
  <2>2. 1 + ((i - 1) \div p) \in Int /\ (i - 1) % p \in Int
    BY Division
  <2> QED BY <1>1, <2>1, <2>2, Zenon
<1> HIDE DEF K
<1>3. ASSUME NEW b \in {0, 1}, NEW k \in {0, 1}
      PROVE  (b + k) % 2 \in {0, 1} /\ (((b + k) % 2) + k) % 2 = b
  OBVIOUS
<1>4. PICK c : c = Xor(s, Pads(n))
  OBVIOUS
<1>5. c = [i \in 1 .. n |-> (s[i] + K(i)) % 2]
  BY <1>0, <1>4, Zenon DEF Xor, K
<1>6. c \in [1 .. n -> {0, 1}]
  <2>1. \A i \in 1 .. n : (s[i] + K(i)) % 2 \in {0, 1}
    BY <1>0, <1>2, <1>3
  <2> QED BY <1>5, <2>1, Zenon
<1>7. Len(c) = n
  BY <1>0, <1>6
<1>8. Xor(c, Pads(n)) = [i \in 1 .. n |-> (c[i] + K(i)) % 2]
  BY <1>7, Zenon DEF Xor, K
<1>9. ASSUME NEW i \in 1 .. n PROVE (c[i] + K(i)) % 2 = s[i]
  <2>1. s[i] \in {0, 1} /\ K(i) \in {0, 1}
    BY <1>0, <1>2
  <2>2. c[i] = (s[i] + K(i)) % 2
    BY <1>5, Zenon
  <2>3. (((s[i] + K(i)) % 2) + K(i)) % 2 = s[i]
    BY <2>1, <1>3, Zenon
  <2> QED BY <2>2, <2>3, Zenon
<1>10. Xor(c, Pads(n)) = s
  <2>1. s = [i \in 1 .. n |-> s[i]]
    BY <1>0, Zenon
  <2> QED BY <1>8, <1>9, <2>1, Zenon
<1> QED BY <1>0, <1>4, <1>6, <1>10, Zenon DEF IsBits

(***************************************************************************)
(* What the authenticator of a packet is fed.                              *)
(***************************************************************************)

\* The states of an authenticator that has been fed something.
MacTypes == [h : {FullBlocks(s) : s \in Seq(Int)}, leftover : Int, buffer : [1 .. MacBlock -> Int]]
MacStates == {x \in MacTypes : \E s \in Seq(Int) : Absorbed(x, s)}

\* They are those that have absorbed something.
LEMMA MacStatesAre ==
  ASSUME NEW x, NEW s \in Seq(Int), Absorbed(x, s)
  PROVE  x \in MacStates
<1>1. x = [h |-> FullBlocks(s), leftover |-> Len(s) % MacBlock, buffer |-> x.buffer]
      /\ x.buffer \in [1 .. MacBlock -> Int]
  BY Zenon DEF Absorbed
<1>2. Len(s) % MacBlock \in Int
  BY StreamAssumption, LenProperties, Division
<1>3. PICK H, B, h, l, b : /\ H = {FullBlocks(t) : t \in Seq(Int)} /\ B = [1 .. MacBlock -> Int]
                           /\ h = FullBlocks(s) /\ l = Len(s) % MacBlock /\ b = x.buffer
  BY Zenon
<1>4. h \in H
  BY <1>3, Zenon
<1>5. x \in [h : H, leftover : Int, buffer : B]
  <2>1. x = [h |-> h, leftover |-> l, buffer |-> b] /\ l \in Int /\ b \in B
    BY <1>1, <1>2, <1>3, Zenon
  <2> QED BY <2>1, <1>4
<1>6. x \in MacTypes
  BY <1>3, <1>5, Zenon DEF MacTypes
<1> QED BY <1>6, Zenon DEF MacStates

\* poly1305_update goes from such a state to another.
LEMMA MacUpdateTyped ==
  ASSUME NEW x \in MacStates, NEW u \in Seq(Int)
  PROVE  MacUpdate(x, u) \in MacStates
<1>1. PICK s \in Seq(Int) : Absorbed(x, s)
  BY DEF MacStates
<1>2. Absorbed(MacUpdate(x, u), s \o u)
  BY <1>1, MacUpdateAbsorbs, Zenon
<1>3. s \o u \in Seq(Int)
  BY IntConcat, Zenon
<1> QED BY <1>2, <1>3, MacStatesAre, Zenon

\* f is the states that calls of poly1305_update pass.
MacRun(f, x, u, n) ==
  /\ f \in [0 .. n -> MacStates]
  /\ f[0] = x
  /\ \A i \in 1 .. n : f[i] = MacUpdate(f[i - 1], u[i])
  /\ f[n] = FoldLeft(MacUpdate, x, u)

\* One call after the other.
LEMMA MacUpdateRuns ==
  ASSUME NEW x \in MacStates, NEW u \in Seq(Seq(Int)), NEW n \in Nat, n = Len(u)
  PROVE  \E f : MacRun(f, x, u, n)
<1>1. PICK S : S = MacStates
  OBVIOUS
<1>2. DOMAIN u = 1 .. n /\ \A i \in 1 .. n : u[i] \in Seq(Int)
  BY LenProperties, ElementOfSeq
<1>3. PICK G : G = [i \in 1 .. n |-> [y \in S |-> MacUpdate(y, u[i])]]
  OBVIOUS
<1>4. \A i \in 1 .. n : \A y \in S : G[i][y] = MacUpdate(y, u[i])
  BY <1>3, Zenon
<1>5. G \in [1 .. n -> [S -> S]]
  <2>1. \A i \in 1 .. n : \A y \in S : MacUpdate(y, u[i]) \in S
    BY <1>1, <1>2, MacUpdateTyped, Zenon
  <2> QED BY <1>3, <2>1, Zenon
<1> DEFINE Runs(it) == it = [t \in SUBSET (DOMAIN u) |->
                               IF t = {} THEN x ELSE MacUpdate(it[t \ {Max(t)}], u[Max(t)])]
<1>x. x \in S
  BY <1>1
<1>e. PICK j : FoldTable(j, S, x, n, G)
  BY <1>x, <1>5, FoldExists, Zenon
<1>6. /\ j \in [SUBSET (1 .. n) -> S]
      /\ \A t \in SUBSET (1 .. n) : j[t] = IF t = {} THEN x ELSE G[Max(t)][j[t \ {Max(t)}]]
  BY <1>e, Zenon DEF FoldTable
<1>7. ASSUME NEW t \in SUBSET (1 .. n), t # {} PROVE Max(t) \in 1 .. n /\ t \ {Max(t)} \in SUBSET (1 .. n)
  BY <1>7, MaxOfIndices
<1>8. Runs(j)
  <2>1. ASSUME NEW t \in SUBSET (1 .. n)
        PROVE  j[t] = IF t = {} THEN x ELSE MacUpdate(j[t \ {Max(t)}], u[Max(t)])
    <3>1. CASE t = {}
      BY <1>6, <3>1, Zenon
    <3>2. CASE t # {}
      <4>1. j[t \ {Max(t)}] \in S
        BY <1>6, <1>7, <3>2, Zenon
      <4> QED BY <1>4, <1>6, <1>7, <3>2, <4>1, Zenon
    <3> QED BY <3>1, <3>2, Zenon
  <2>2. j = [t \in SUBSET (1 .. n) |-> j[t]]
    BY <1>6, Zenon
  <2> QED BY <1>2, <2>1, <2>2, Zenon
<1>9. PICK it : Runs(it) /\ FoldLeft(MacUpdate, x, u) = it[DOMAIN u]
  <2>1. FoldLeft(MacUpdate, x, u) = (CHOOSE it : Runs(it))[DOMAIN u]
    BY Zenon DEF FoldLeft, MapThenFoldSet
  <2>2. Runs(CHOOSE it : Runs(it))
    BY <1>8, Zenon
  <2> QED BY <2>1, <2>2, Zenon
<1>10. it[{}] = x
  BY <1>9, Zenon
<1>11. \A t \in SUBSET (1 .. n) : t # {} /\ it[t \ {Max(t)}] \in S => it[t] = G[Max(t)][it[t \ {Max(t)}]]
  <2> SUFFICES ASSUME NEW t \in SUBSET (1 .. n), t # {}, it[t \ {Max(t)}] \in S
               PROVE  it[t] = G[Max(t)][it[t \ {Max(t)}]]
    BY Zenon
  <2>1. it[t] = MacUpdate(it[t \ {Max(t)}], u[Max(t)])
    <3>1. it = [r \in SUBSET (DOMAIN u) |-> IF r = {} THEN x ELSE MacUpdate(it[r \ {Max(r)}], u[Max(r)])]
      BY <1>9, Zenon
    <3>2. t \in SUBSET (DOMAIN u)
      BY <1>2, Zenon
    <3> QED BY <3>1, <3>2, Zenon
  <2>2. Max(t) \in 1 .. n
    BY <1>7, Zenon
  <2> QED BY <1>4, <2>1, <2>2, Zenon
<1>12. PICK f : FoldRun(f, it, S, x, n, G)
  <2>1. FoldsBy(it, S, x, n, G)
    BY <1>x, <1>5, <1>10, <1>11, Zenon DEF FoldsBy
  <2> QED BY <2>1, FoldRuns, Zenon
<1>13. /\ f \in [0 .. n -> S]
       /\ f[0] = x
       /\ \A i \in 1 .. n : f[i] = G[i][f[i - 1]]
       /\ f[n] = it[1 .. n]
  BY <1>12, Zenon DEF FoldRun
<1>14. \A i \in 1 .. n : f[i] = MacUpdate(f[i - 1], u[i])
  <2> SUFFICES ASSUME NEW i \in 1 .. n PROVE f[i] = MacUpdate(f[i - 1], u[i])
    OBVIOUS
  <2>1. i - 1 \in 0 .. n
    OBVIOUS
  <2> QED BY <2>1, <1>4, <1>13, Zenon
<1>15. f[n] = FoldLeft(MacUpdate, x, u)
  BY <1>2, <1>9, <1>13, Zenon
<1> QED BY <1>1, <1>13, <1>14, <1>15, Zenon DEF MacRun

\* Six calls absorb six pieces.
LEMMA SixPieces ==
  ASSUME NEW a \in Seq(Int), NEW b \in Seq(Int), NEW c \in Seq(Int),
         NEW d \in Seq(Int), NEW e \in Seq(Int), NEW g \in Seq(Int)
  PROVE  Absorbed(FoldLeft(MacUpdate, MacInit, <<a, b, c, d, e, g>>), ((((a \o b) \o c) \o d) \o e) \o g)
<1>1. PICK u : u = <<a, b, c, d, e, g>>
  OBVIOUS
<1>2. /\ u \in Seq(Seq(Int)) /\ Len(u) = 6
      /\ u[1] = a /\ u[2] = b /\ u[3] = c /\ u[4] = d /\ u[5] = e /\ u[6] = g
  <2>1. PICK T : T = Seq(Int)
    OBVIOUS
  <2>2. a \in T /\ b \in T /\ c \in T /\ d \in T /\ e \in T /\ g \in T
    BY <2>1
  <2> QED BY <1>1, <2>1, <2>2
<1>3. Bytes(1, 0) \in Seq(Int) /\ Len(Bytes(1, 0)) = 0
  BY BytesOf
<1>4. Bytes(1, 0) = <<>>
  BY <1>3, EmptySeq
<1>5. Absorbed(MacInit, <<>>) /\ <<>> \in Seq(Int) /\ <<>> \o a = a
  BY <1>3, <1>4, MacInitAbsorbed, ConcatEmptySeq
<1>6. PICK n \in Nat : n = 6
  OBVIOUS
<1>7. PICK f : MacRun(f, MacInit, u, n)
  <2>1. MacInit \in MacStates
    BY <1>5, MacStatesAre, Zenon
  <2> QED BY <1>2, <1>6, <2>1, MacUpdateRuns, Zenon
<1>8. f[0] = MacInit /\ \A i \in 1 .. n : f[i] = MacUpdate(f[i - 1], u[i])
  BY <1>7, Zenon DEF MacRun
<1>9. /\ f[1] = MacUpdate(f[0], a) /\ f[2] = MacUpdate(f[1], b) /\ f[3] = MacUpdate(f[2], c)
      /\ f[4] = MacUpdate(f[3], d) /\ f[5] = MacUpdate(f[4], e) /\ f[6] = MacUpdate(f[5], g)
  BY <1>2, <1>6, <1>8
<1>10. Absorbed(f[1], a)
  <2>1. Absorbed(f[1], <<>> \o a)
    BY <1>5, <1>8, <1>9, MacUpdateAbsorbs, Zenon
  <2> QED BY <2>1, <1>5, Zenon
<1>11. Absorbed(f[2], a \o b) /\ a \o b \in Seq(Int)
  <2>1. Absorbed(f[2], a \o b)
    BY <1>9, <1>10, MacUpdateAbsorbs, Zenon
  <2>2. a \o b \in Seq(Int)
    BY <1>10, IntConcat, Zenon
  <2> QED BY <2>1, <2>2, Zenon
<1>12. Absorbed(f[3], (a \o b) \o c) /\ (a \o b) \o c \in Seq(Int)
  <2>1. Absorbed(f[3], (a \o b) \o c)
    BY <1>9, <1>11, MacUpdateAbsorbs, Zenon
  <2>2. (a \o b) \o c \in Seq(Int)
    BY <1>11, IntConcat, Zenon
  <2> QED BY <2>1, <2>2, Zenon
<1>13. Absorbed(f[4], ((a \o b) \o c) \o d) /\ ((a \o b) \o c) \o d \in Seq(Int)
  <2>1. Absorbed(f[4], ((a \o b) \o c) \o d)
    BY <1>9, <1>12, MacUpdateAbsorbs, Zenon
  <2>2. ((a \o b) \o c) \o d \in Seq(Int)
    BY <1>12, IntConcat, Zenon
  <2> QED BY <2>1, <2>2, Zenon
<1>14. Absorbed(f[5], (((a \o b) \o c) \o d) \o e) /\ (((a \o b) \o c) \o d) \o e \in Seq(Int)
  <2>1. Absorbed(f[5], (((a \o b) \o c) \o d) \o e)
    BY <1>9, <1>13, MacUpdateAbsorbs, Zenon
  <2>2. (((a \o b) \o c) \o d) \o e \in Seq(Int)
    BY <1>13, IntConcat, Zenon
  <2> QED BY <2>1, <2>2, Zenon
<1>15. Absorbed(f[6], ((((a \o b) \o c) \o d) \o e) \o g)
  BY <1>9, <1>14, MacUpdateAbsorbs, Zenon
<1>16. f[6] = FoldLeft(MacUpdate, MacInit, u)
  BY <1>6, <1>7, Zenon DEF MacRun
<1> QED BY <1>1, <1>15, <1>16, Zenon

\* n bytes with the zeros behind them.
Up(n) == n + ((MacBlock - (n % MacBlock)) % MacBlock)

\* They are whole blocks.
LEMMA UpIs ==
  ASSUME NEW n \in Nat
  PROVE  \E q \in Nat : /\ Up(n) = MacBlock * q /\ Up(n) \in Nat /\ Up(n) >= n
                        /\ (MacBlock - (n % MacBlock)) % MacBlock \in Nat
<1>s. PICK m \in Nat \ {0} : m = MacBlock
  BY StreamAssumption
<1>1. PICK q \in Nat, r \in 0 .. m - 1 : Splits(n, m, q, r) /\ n = m * q + r
  BY SplitsSomehow
<1>2. n % m = r
  BY <1>1, SplitsOnce
<1>3. CASE r = 0
  <2>1. Splits(m - r, m, 1, 0)
    BY <1>3 DEF Splits
  <2>2. (m - r) % m = 0
    BY <2>1, SplitsOnce
  <2>3. Up(n) = n
    BY <1>2, <2>2, <1>s DEF Up
  <2>4. n = m * q
    BY <1>1, <1>3
  <2> QED BY <2>2, <2>3, <2>4, <1>s, <1>2
<1>4. CASE r > 0
  <2>1. m - r \in 0 .. m - 1
    BY <1>4
  <2>2. (m - r) % m = m - r
    BY <2>1, SmallRemainder
  <2>3. Up(n) = n + (m - r)
    BY <1>2, <2>2, <1>s DEF Up
  <2>4. m * (q + 1) = m * q + m
    OBVIOUS
  <2>5. Up(n) = m * (q + 1) /\ q + 1 \in Nat
    <3>1. PICK a \in Int : a = m * q
      OBVIOUS
    <3> QED BY <1>1, <2>3, <2>4, <3>1
  <2>6. n + (m - r) >= n /\ n + (m - r) \in Nat /\ m - r \in Nat
    BY <2>1
  <2>7. PICK k \in Nat : k = q + 1
    OBVIOUS
  <2>8. (MacBlock - (n % MacBlock)) % MacBlock = m - r
    BY <1>2, <2>2, <1>s
  <2> QED BY ONLY <2>3, <2>5, <2>6, <2>7, <2>8, <1>s
<1> QED BY <1>3, <1>4

\* The zeros.
LEMMA FillIs ==
  ASSUME NEW n \in Nat
  PROVE  Fill(n) \in Seq(Int) /\ n + Len(Fill(n)) = Up(n)
<1>1. PICK k \in Nat : k = (MacBlock - (n % MacBlock)) % MacBlock
  BY UpIs
<1>2. Fill(n) = [i \in 1 .. k |-> 0]
  BY <1>1, Zenon DEF Fill, Zeros
<1> QED BY <1>1, <1>2 DEF Up

\* A length is half a block.
LEMMA WordIs ==
  ASSUME NEW n \in Nat
  PROVE  \E h \in Nat \ {0} : /\ MacBlock = 2 * h /\ MacBlock \div 2 = h
                              /\ Word(n) \in Seq(Int) /\ Len(Word(n)) = h /\ Word(n)[1] = n
<1>1. PICK m \in Nat \ {0} : m = MacBlock /\ m % 2 = 0
  BY StreamAssumption
<1>2. PICK h \in Int : h = m \div 2 /\ m = 2 * h
  BY <1>1
<1>3. h \in Nat \ {0}
  BY <1>2
<1>4. Word(n) = [i \in 1 .. h |-> IF i = 1 THEN n ELSE 0]
  BY <1>1, <1>2, Zenon DEF Word
<1>5. Word(n) \in Seq(Int) /\ Len(Word(n)) = h /\ Word(n)[1] = n
  BY <1>3, <1>4
<1> QED BY <1>1, <1>2, <1>3, <1>5

\* W is what the authenticator is fed of a packet.
InputOf(W, ad, c) ==
  /\ W \in Seq(Int) /\ Len(W) = Up(Len(ad)) + Up(Len(c)) + MacBlock
  /\ \A i \in 1 .. Len(ad) : W[i] = ad[i]
  /\ \A i \in 1 .. Len(c) : W[Up(Len(ad)) + i] = c[i]
  /\ W[Up(Len(ad)) + Up(Len(c)) + 1] = Len(ad)
  /\ W[Up(Len(ad)) + Up(Len(c)) + (MacBlock \div 2) + 1] = Len(c)

\* A tag is the blocks of that.
LEMMA TagIs ==
  ASSUME NEW ad \in Seq(Int), NEW c \in Seq(Int)
  PROVE  \E W : InputOf(W, ad, c) /\ Tag(ad, c) = MacBlocks(W)
<1>1. PICK a \in Nat, n \in Nat : a = Len(ad) /\ n = Len(c)
  BY LenProperties
<1>2. PICK A \in Nat, N \in Nat : A = Up(a) /\ N = Up(n) /\ A >= a /\ N >= n
  BY UpIs
<1>3. PICK f, g, p, q : f = Fill(a) /\ g = Fill(n) /\ p = Word(a) /\ q = Word(n)
  OBVIOUS
<1>4. PICK h \in Nat \ {0} : /\ MacBlock = 2 * h /\ MacBlock \div 2 = h
                             /\ p \in Seq(Int) /\ Len(p) = h /\ p[1] = a
  BY <1>3, WordIs
<1>5. q \in Seq(Int) /\ Len(q) = h /\ q[1] = n
  BY <1>3, <1>4, WordIs
<1>6. f \in Seq(Int) /\ g \in Seq(Int) /\ Len(f) = A - a /\ Len(g) = N - n
  <2>1. f \in Seq(Int) /\ g \in Seq(Int) /\ a + Len(f) = A /\ n + Len(g) = N
    BY <1>2, <1>3, FillIs
  <2> QED BY <2>1, LenProperties
<1>7. PICK s : s = ad \o f
  OBVIOUS
<1>8. /\ s \in Seq(Int) /\ Len(s) = A
      /\ \A i \in 1 .. A : s[i] = IF i <= a THEN ad[i] ELSE f[i - a]
  BY <1>1, <1>6, <1>7, ConcatProperties
<1>9. PICK t : t = s \o c
  OBVIOUS
<1>10. /\ t \in Seq(Int) /\ Len(t) = A + n
       /\ \A i \in 1 .. A + n : t[i] = IF i <= A THEN s[i] ELSE c[i - A]
  BY <1>1, <1>8, <1>9, ConcatProperties
<1>11. PICK u : u = t \o g
  OBVIOUS
<1>12. /\ u \in Seq(Int) /\ Len(u) = A + N
       /\ \A i \in 1 .. A + N : u[i] = IF i <= A + n THEN t[i] ELSE g[i - (A + n)]
  <2>1. /\ u \in Seq(Int) /\ Len(u) = Len(t) + Len(g)
        /\ \A i \in 1 .. Len(t) + Len(g) : u[i] = IF i <= Len(t) THEN t[i] ELSE g[i - Len(t)]
    BY <1>6, <1>10, <1>11, IntConcat, Zenon
  <2>2. Len(t) = A + n /\ Len(t) + Len(g) = A + N
    BY <1>6, <1>10
  <2> QED BY <2>1, <2>2, Zenon
<1>13. PICK v : v = u \o p
  OBVIOUS
<1>14. /\ v \in Seq(Int) /\ Len(v) = A + N + h
       /\ \A i \in 1 .. A + N + h : v[i] = IF i <= A + N THEN u[i] ELSE p[i - (A + N)]
  <2>1. /\ v \in Seq(Int) /\ Len(v) = Len(u) + Len(p)
        /\ \A i \in 1 .. Len(u) + Len(p) : v[i] = IF i <= Len(u) THEN u[i] ELSE p[i - Len(u)]
    BY <1>4, <1>12, <1>13, IntConcat, Zenon
  <2>2. Len(u) = A + N /\ Len(u) + Len(p) = A + N + h
    BY <1>4, <1>12
  <2> QED BY <2>1, <2>2, Zenon
<1>15. PICK W : W = v \o q
  OBVIOUS
<1>16. /\ W \in Seq(Int) /\ Len(W) = A + N + 2 * h
       /\ \A i \in 1 .. A + N + 2 * h : W[i] = IF i <= A + N + h THEN v[i] ELSE q[i - (A + N + h)]
  <2>1. /\ W \in Seq(Int) /\ Len(W) = Len(v) + Len(q)
        /\ \A i \in 1 .. Len(v) + Len(q) : W[i] = IF i <= Len(v) THEN v[i] ELSE q[i - Len(v)]
    BY <1>5, <1>14, <1>15, IntConcat, Zenon
  <2>2. Len(v) = A + N + h /\ Len(v) + Len(q) = A + N + 2 * h
    BY <1>5, <1>14
  <2> QED BY <2>1, <2>2, Zenon
<1>17. \A i \in 1 .. A + N : W[i] = u[i]
  <2> SUFFICES ASSUME NEW i \in 1 .. A + N PROVE W[i] = u[i]
    OBVIOUS
  <2>1. i \in 1 .. A + N + h /\ i \in 1 .. A + N + 2 * h /\ i <= A + N + h /\ i <= A + N
    OBVIOUS
  <2> QED BY <2>1, <1>14, <1>16
<1>18. \A i \in 1 .. a : W[i] = ad[i]
  <2> SUFFICES ASSUME NEW i \in 1 .. a PROVE W[i] = ad[i]
    OBVIOUS
  <2>1. /\ i \in 1 .. A + N /\ i <= A + n /\ i \in 1 .. A + n /\ i <= A /\ i \in 1 .. A /\ i <= a
    BY <1>2
  <2> QED BY <2>1, <1>8, <1>10, <1>12, <1>17
<1>19. \A i \in 1 .. n : W[A + i] = c[i]
  <2> SUFFICES ASSUME NEW i \in 1 .. n PROVE W[A + i] = c[i]
    OBVIOUS
  <2>1. /\ A + i \in 1 .. A + N /\ A + i <= A + n /\ A + i \in 1 .. A + n /\ ~(A + i <= A)
        /\ (A + i) - A = i
    BY <1>2
  <2> QED BY <2>1, <1>10, <1>12, <1>17
<1>20. W[A + N + 1] = a
  <2>1. /\ A + N + 1 \in 1 .. A + N + 2 * h /\ A + N + 1 <= A + N + h /\ A + N + 1 \in 1 .. A + N + h
        /\ ~(A + N + 1 <= A + N) /\ (A + N + 1) - (A + N) = 1
    OBVIOUS
  <2> QED BY <2>1, <1>4, <1>14, <1>16
<1>21. W[A + N + h + 1] = n
  <2>1. /\ A + N + h + 1 \in 1 .. A + N + 2 * h /\ ~(A + N + h + 1 <= A + N + h)
        /\ (A + N + h + 1) - (A + N + h) = 1
    OBVIOUS
  <2> QED BY <2>1, <1>5, <1>16
<1>22. InputOf(W, ad, c)
  <2>1. Len(W) = A + N + MacBlock
    BY <1>4, <1>16
  <2> QED BY <1>1, <1>2, <1>4, <1>16, <1>18, <1>19, <1>20, <1>21, <2>1, Zenon DEF InputOf
<1>23. Tag(ad, c) = MacBlocks(W)
  <2>1. PICK y : y = FoldLeft(MacUpdate, MacInit, <<ad, f, c, g, p, q>>)
    OBVIOUS
  <2>2. Absorbed(y, ((((ad \o f) \o c) \o g) \o p) \o q)
    BY <1>4, <1>5, <1>6, <2>1, SixPieces, Zenon
  <2>3. Absorbed(y, W)
    BY <2>2, <1>7, <1>9, <1>11, <1>13, <1>15, Zenon
  <2>4. Tag(ad, c) = MacFinish(y)
    BY <1>1, <1>3, <2>1, Zenon DEF Tag
  <2> QED BY <2>3, <2>4, <1>16, MacFinishBlocks, Zenon
<1> QED BY <1>22, <1>23, Zenon

\* The blocks of whole blocks determine the bytes.
LEMMA BlocksDetermine ==
  ASSUME NEW s, NEW w, NEW q, NEW p, Whole(s, q), Whole(w, p), FullBlocks(s) = FullBlocks(w)
  PROVE  s = w
<1>s. PICK m \in Nat \ {0} : m = MacBlock
  BY StreamAssumption
<1>0. s \in Seq(Int) /\ q \in Nat /\ Len(s) = m * q /\ w \in Seq(Int) /\ p \in Nat /\ Len(w) = m * p
  BY <1>s DEF Whole
<1>1. Len(s) \div m = q /\ Len(w) \div m = p
  <2>1. Splits(Len(s), m, q, 0) /\ Splits(Len(w), m, p, 0)
    BY <1>0, LenProperties DEF Splits
  <2> QED BY <2>1, SplitsOnce
<1>2. PICK F : F = FullBlocks(s)
  OBVIOUS
<1>3. F = [k \in 1 .. q |-> Block(FullBlock(s, k), 1)] /\ F = [k \in 1 .. p |-> Block(FullBlock(w, k), 1)]
  BY <1>1, <1>2, <1>s, Zenon DEF FullBlocks
<1>4. q = p
  <2>1. 1 .. q = 1 .. p
    <3>1. DOMAIN F = 1 .. q /\ DOMAIN F = 1 .. p
      BY <1>3, Zenon
    <3> QED BY <3>1, Zenon
  <2> QED BY <1>0, <2>1
<1>5. ASSUME NEW k \in 1 .. q PROVE FullBlock(s, k) = FullBlock(w, k)
  <2>1. F[k] = Block(FullBlock(s, k), 1) /\ F[k] = Block(FullBlock(w, k), 1)
    BY <1>3, <1>4, Zenon
  <2>2. PICK a, b : a = FullBlock(s, k) /\ b = FullBlock(w, k)
    OBVIOUS
  <2>3. Block(a, 1).bytes = a /\ Block(b, 1).bytes = b
    BY DEF Block
  <2> QED BY <2>1, <2>2, <2>3, Zenon
<1>6. ASSUME NEW i \in 1 .. m * q PROVE s[i] = w[i]
  <2>1. PICK c \in Int : c = m * q
    BY <1>0
  <2>2. i - 1 \in Nat /\ i \in Int /\ i <= c
    BY <2>1
  <2>3. PICK k \in Nat, r \in 0 .. m - 1 : Splits(i - 1, m, k, r) /\ i - 1 = m * k + r
    BY <2>2, SplitsSomehow
  <2>4. k + 1 \in 1 .. q
    <3> SUFFICES ASSUME k >= q PROVE FALSE
      BY <1>0
    <3>1. m * k >= m * q
      BY <1>0
    <3>2. PICK d \in Int : d = m * k
      OBVIOUS
    <3> QED BY <2>1, <2>2, <2>3, <3>1, <3>2
  <2>5. r + 1 \in 1 .. m /\ (k + 1) - 1 = k
    OBVIOUS
  <2>6. FullBlock(s, k + 1)[r + 1] = s[m * k + (r + 1)] /\ FullBlock(w, k + 1)[r + 1] = w[m * k + (r + 1)]
    BY <2>5, <1>s, Zenon DEF FullBlock, BlockOf
  <2>7. m * k + (r + 1) = i
    <3>1. PICK d \in Int : d = m * k
      OBVIOUS
    <3> QED BY <2>2, <2>3, <3>1
  <2> QED BY <1>5, <2>4, <2>6, <2>7, Zenon
<1>7. Len(s) = Len(w) /\ \A i \in 1 .. Len(s) : s[i] = w[i]
  BY <1>0, <1>4, <1>6
<1> QED BY <1>0, <1>7, SeqEqual

\* What is fed is whole blocks, at least one.
LEMMA InputWhole ==
  ASSUME NEW W, NEW ad \in Seq(Int), NEW c \in Seq(Int), InputOf(W, ad, c)
  PROVE  \E q \in Nat : Whole(W, q) /\ MacBlocks(W) = FullBlocks(W) /\ MacBlocks(W) # <<>>
<1>s. PICK m \in Nat \ {0} : m = MacBlock
  BY StreamAssumption
<1>1. PICK a \in Nat, n \in Nat : a = Len(ad) /\ n = Len(c)
  BY LenProperties
<1>2. PICK i \in Nat : Up(a) = m * i
  BY <1>s, UpIs
<1>3. PICK j \in Nat : Up(n) = m * j
  BY <1>s, UpIs
<1>4. PICK q \in Nat : q = i + j + 1
  OBVIOUS
<1>5. W \in Seq(Int) /\ Len(W) = m * q
  <2>1. m * q = m * i + m * j + m
    BY <1>4
  <2> QED BY <1>1, <1>2, <1>3, <1>s, <2>1 DEF InputOf
<1>6. Len(W) \div m = q /\ Len(W) % m = 0
  <2>1. Splits(Len(W), m, q, 0)
    BY <1>5, LenProperties DEF Splits
  <2> QED BY <2>1, SplitsOnce
<1>7. MacBlocks(W) = FullBlocks(W)
  BY <1>6, <1>s, Zenon DEF MacBlocks
<1>8. PICK F : F = [k \in 1 .. q |-> Block(FullBlock(W, k), 1)]
  OBVIOUS
<1>9. FullBlocks(W) = F
  BY <1>6, <1>8, <1>s, Zenon DEF FullBlocks
<1>10. F # <<>>
  <2>1. 1 \in DOMAIN F /\ DOMAIN <<>> = {}
    BY <1>4, <1>8
  <2> QED BY <2>1
<1> QED BY <1>5, <1>7, <1>9, <1>10, <1>s, Zenon DEF Whole

\* From it data and text can be read.
LEMMA InputDetermines ==
  ASSUME NEW W, NEW ad \in Seq(Int), NEW c \in Seq(Int), NEW bd \in Seq(Int), NEW d \in Seq(Int),
         InputOf(W, ad, c), InputOf(W, bd, d)
  PROVE  ad = bd /\ c = d
<1>1. PICK a \in Nat, n \in Nat, b \in Nat, k \in Nat : a = Len(ad) /\ n = Len(c) /\ b = Len(bd) /\ k = Len(d)
  BY LenProperties
<1>2. PICK L \in Int, m \in Int, A \in Int, N \in Int, B \in Int, K \in Int, h \in Int :
        /\ L = Len(W) /\ m = MacBlock /\ A = Up(a) /\ N = Up(n) /\ B = Up(b) /\ K = Up(k)
        /\ h = MacBlock \div 2
  <2>1. Len(W) \in Int
    BY LenProperties DEF InputOf
  <2>2. MacBlock \in Int /\ MacBlock \div 2 \in Int
    BY StreamAssumption
  <2>3. Up(a) \in Int /\ Up(n) \in Int /\ Up(b) \in Int /\ Up(k) \in Int
    <3>1. \A i \in Nat : Up(i) \in Int
      BY UpIs
    <3> QED BY <3>1
  <2> QED BY <2>1, <2>2, <2>3
<1>3. L = A + N + m /\ W[A + N + 1] = a /\ W[A + N + h + 1] = n
  BY <1>1, <1>2, Zenon DEF InputOf
<1>4. L = B + K + m /\ W[B + K + 1] = b /\ W[B + K + h + 1] = k
  BY <1>1, <1>2, Zenon DEF InputOf
<1>5. A + N = B + K
  BY <1>3, <1>4
<1>6. a = b /\ n = k
  BY <1>3, <1>4, <1>5, Zenon
<1>7. \A i \in 1 .. a : ad[i] = bd[i]
  BY <1>1, <1>6, Zenon DEF InputOf
<1>8. \A i \in 1 .. n : c[i] = d[i]
  BY <1>1, <1>6, Zenon DEF InputOf
<1> QED BY <1>1, <1>6, <1>7, <1>8, SeqEqual

\* A tag is of one text with one data only.
LEMMA TagDetermines ==
  ASSUME NEW ad \in Seq(Int), NEW c \in Seq(Int), NEW bd \in Seq(Int), NEW d \in Seq(Int)
  PROVE  Tag(ad, c) # <<>> /\ (Tag(ad, c) = Tag(bd, d) => ad = bd /\ c = d)
<1>1. PICK W : InputOf(W, ad, c) /\ Tag(ad, c) = MacBlocks(W)
  BY TagIs, Zenon
<1>2. PICK V : InputOf(V, bd, d) /\ Tag(bd, d) = MacBlocks(V)
  BY TagIs, Zenon
<1>3. PICK q \in Nat : Whole(W, q) /\ MacBlocks(W) = FullBlocks(W) /\ MacBlocks(W) # <<>>
  BY <1>1, InputWhole, Zenon
<1>4. PICK p \in Nat : Whole(V, p) /\ MacBlocks(V) = FullBlocks(V)
  BY <1>2, InputWhole, Zenon
<1>5. ASSUME Tag(ad, c) = Tag(bd, d) PROVE ad = bd /\ c = d
  <2>1. FullBlocks(W) = FullBlocks(V)
    BY <1>1, <1>2, <1>3, <1>4, <1>5, Zenon
  <2>2. W = V
    BY <1>3, <1>4, <2>1, BlocksDetermine, Zenon
  <2> QED BY <1>1, <1>2, <2>2, InputDetermines, Zenon
<1> QED BY <1>1, <1>3, <1>5, Zenon

(***************************************************************************)
(* A packet.                                                               *)
(***************************************************************************)

\* A packet is of bits.
PacketInv ==
  packet # NoPacket => packet \in [data : BitStrings(MaxPacket), text : BitStrings(MaxPacket)]

\* It stays so.
THEOREM PacketTyped == StreamSpec => []PacketInv
<1>1. StreamInit => PacketInv
  BY DEF StreamInit, PacketInv
<1>2. PacketInv /\ [StreamNext]_streamVars => PacketInv'
  <2> SUFFICES ASSUME PacketInv, [StreamNext]_streamVars PROVE PacketInv'
    OBVIOUS
  <2>1. CASE Packet
    <3>1. PICK ad \in BitStrings(MaxPacket) : \E text \in BitStrings(MaxPacket - Len(ad)) :
            packet' = [data |-> ad, text |-> text]
      BY <2>1, Zenon DEF Packet
    <3>2. PICK text \in BitStrings(MaxPacket - Len(ad)) : packet' = [data |-> ad, text |-> text]
      BY <3>1, Zenon
    <3>3. Len(ad) \in Nat
      BY <3>1, StreamAssumption, BitStringsAre DEF IsBits
    <3>4. PICK k \in 0 .. MaxPacket - Len(ad) : text \in [1 .. k -> {0, 1}]
      BY DEF BitStrings
    <3>5. k \in 0 .. MaxPacket
      BY <3>3, StreamAssumption
    <3>6. text \in BitStrings(MaxPacket)
      BY <3>4, <3>5 DEF BitStrings
    <3>7. PICK B : B = BitStrings(MaxPacket)
      OBVIOUS
    <3>8. packet' \in [data : B, text : B]
      BY <3>1, <3>2, <3>6, <3>7
    <3> QED BY <3>7, <3>8, Zenon DEF PacketInv
  <2>2. CASE UNCHANGED packet
    BY <2>2, Zenon DEF PacketInv
  <2> QED BY <2>1, <2>2, Zenon DEF StreamNext, streamVars
<1> QED BY <1>1, <1>2, PTL DEF StreamSpec

\* A packet of any size uses no byte of the keystream twice nor any of the block
\* that the key of the authenticator comes from, opens to what was sealed, and its
\* tag opens nothing else.
THEOREM PacketOpensOnlyItself == StreamSpec => []OpensOnlyItself
<1>1. PacketInv => OpensOnlyItself
  <2> SUFFICES ASSUME PacketInv, packet # NoPacket,
                      NEW e, e = Encrypt(packet.text, packet.data)
               PROVE  /\ \A i, j \in DOMAIN e.used : e.used[i] = e.used[j] => i = j
                      /\ \A i \in DOMAIN e.used : i > PadBlock \div 2 => e.used[i][1] > 0
                      /\ Decrypt(e.text, e.tag, packet.data) = [ok |-> TRUE, text |-> packet.text]
                      /\ \A ad \in BitStrings(MaxPacket) : \A c \in BitStrings(MaxPacket - Len(ad)) :
                           Decrypt(c, e.tag, ad).ok => ad = packet.data /\ c = e.text
    BY Zenon DEF OpensOnlyItself
  <2>1. packet.data \in BitStrings(MaxPacket) /\ packet.text \in BitStrings(MaxPacket)
    <3>1. PICK B : B = BitStrings(MaxPacket)
      OBVIOUS
    <3>2. packet \in [data : B, text : B]
      BY <3>1, Zenon DEF PacketInv
    <3> QED BY <3>1, <3>2
  <2>2. PICK ad, t : ad = packet.data /\ t = packet.text
    OBVIOUS
  <2>3. PICK n : n = Len(t)
    OBVIOUS
  <2>4. IsBits(ad, Len(ad)) /\ IsBits(t, n)
    BY <2>1, <2>2, <2>3, StreamAssumption, BitStringsAre
  <2>5. ad \in Seq(Int) /\ n \in Nat
    BY <2>4, BitsAre, Zenon
  <2>6. PICK h : UsedBy(ChaCha(AfterMacKey, n).used, h, n)
    BY <2>5, UsedIs, Zenon
  <2>7. PICK U : U = ChaCha(AfterMacKey, n).used
    OBVIOUS
  <2>8. SubSeq(U, Len(AfterMacKey.used) + 1, Len(U)) = Pads(n)
    BY <2>6, <2>7, Zenon DEF UsedBy
  <2>9. PICK c : c = Xor(t, Pads(n))
    OBVIOUS
  <2>10. IsBits(c, n) /\ Xor(c, Pads(n)) = t
    BY <2>4, <2>9, XorTwice, Zenon
  <2>11. c \in Seq(Int) /\ Len(c) = n
    BY <2>10, BitsAre, Zenon
  <2>12. PICK tag : tag = Tag(ad, c)
    OBVIOUS
  <2>13. e = [text |-> c, tag |-> tag, used |-> U]
    BY <2>2, <2>3, <2>7, <2>8, <2>9, <2>12, Zenon DEF Encrypt
  <2>14. e.text = c /\ e.tag = tag /\ e.used = U
    BY <2>13
  <2>15. tag # <<>>
    BY <2>5, <2>11, <2>12, TagDetermines, Zenon
  <2>16. Decrypt(c, tag, ad) = [ok |-> TRUE, text |-> t]
    BY <2>7, <2>8, <2>10, <2>11, <2>12, <2>15, Zenon DEF Decrypt
  <2>17. ASSUME NEW bd \in BitStrings(MaxPacket), NEW d \in BitStrings(MaxPacket - Len(bd)),
                Decrypt(d, tag, bd).ok
         PROVE  bd = ad /\ d = c
    <3>1. IsBits(bd, Len(bd))
      BY StreamAssumption, BitStringsAre
    <3>2. bd \in Seq(Int) /\ Len(bd) \in Nat
      BY <3>1, BitsAre, Zenon
    <3>3. IsBits(d, Len(d))
      BY <3>2, StreamAssumption, BitStringsAre
    <3>4. d \in Seq(Int)
      BY <3>3, BitsAre, Zenon
    <3>5. tag = Tag(bd, d)
      <4>1. ASSUME tag # Tag(bd, d) PROVE FALSE
        <5>1. Decrypt(d, tag, bd) = [ok |-> FALSE, text |-> <<>>]
          BY <4>1, Zenon DEF Decrypt
        <5>2. Decrypt(d, tag, bd).ok = FALSE
          BY <5>1
        <5> QED BY <2>17, <5>2
      <4> QED BY <4>1
    <3>6. Tag(ad, c) = Tag(bd, d)
      BY <2>12, <3>5, Zenon
    <3>7. ad = bd /\ c = d
      <4>1. Tag(ad, c) = Tag(bd, d) => ad = bd /\ c = d
        BY <2>5, <2>11, <3>2, <3>4, TagDetermines, Zenon
      <4> QED BY <4>1, <3>6, Zenon
    <3> QED BY <3>7, Zenon
  <2>18. /\ \A i, j \in DOMAIN U : U[i] = U[j] => i = j
         /\ \A i \in DOMAIN U : i > PadBlock \div 2 => U[i][1] > 0
    BY <2>5, <2>6, <2>7, PlacesDistinct, Zenon
  <2> QED BY <2>2, <2>14, <2>16, <2>17, <2>18, Zenon
<1> QED BY <1>1, PacketTyped, PTL
==============================================================================
