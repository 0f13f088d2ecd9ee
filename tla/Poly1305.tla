------------------------------- MODULE Poly1305 -------------------------------
(***************************************************************************)
(* The arithmetic of Poly1305 (poly1305-donna-32.h): poly1305_blocks and   *)
(* poly1305_finish over limbs, with as few and as short limbs as keep the  *)
(* algorithm whole.  The code has 5 limbs of 26 bits, the prime 2^130 - 5, *)
(* 128-bit blocks and a pad of four 32-bit words; here there are Limbs     *)
(* limbs below Base, the prime Base^Limbs - 5, blocks of two bits less and *)
(* a pad of four words below PadWord.                                      *)
(*                                                                         *)
(* A limb is a natural number: the bound on it is a property.  The reading *)
(* of bytes as limbs is the taking of the digits of a number.              *)
(***************************************************************************)
EXTENDS Integers, Sequences, SequencesExt

CONSTANTS
  Limbs,        (* 5.  At least 3.                                          *)
  Base,         (* Values of a limb: 2^26.  Enough for the carries to fit.  *)
  Multipliers,  (* Keys r to try.                                           *)
  Messages,     (* Blocks to try.                                           *)
  PadWord,      (* Values of a word of the pad: 2^32.                       *)
  Pads,         (* Second halves of keys to try.                            *)
  MaxBlocks     (* Blocks of a message.  Bounds the model.                  *)

\* What a limb counts for.
Power[n \in Nat] == IF n = 0 THEN 1 ELSE Base * Power[n - 1]

Prime  == Power[Limbs] - 5
MacMod == Power[Limbs] \div 4

ASSUME PolyAssumption ==
  /\ Limbs \in Nat /\ Limbs >= 3 /\ MaxBlocks \in Nat
  /\ Base \in Nat /\ Base >= 16 * Limbs /\ Base % 4 = 0
  /\ Multipliers \subseteq 0 .. MacMod - 1 /\ Messages \subseteq 0 .. MacMod - 1

\* A tag has four words.
ASSUME WordAssumption ==
  /\ PadWord \in Nat /\ PadWord * PadWord * PadWord * PadWord = MacMod
  /\ Pads \subseteq 0 .. MacMod - 1

VARIABLES
  r,        (* st->r                                                        *)
  h,        (* st->h                                                        *)
  added     (* history: what was added, each with its hibit                 *)

polyVars == <<r, h, added>>

Places == 0 .. Limbs - 1

\* The limbs of a number, and the number of limbs.
Total(s) == FoldLeft(+, 0, s)
Split(n) == [i \in Places |-> (n \div Power[i]) % Base]
Value(a) == Total([i \in 1 .. Limbs |-> a[i - 1] * Power[i - 1]])

\* Carries what a limb has no room for from limb i to the next, which for the last
\* one is the first, five times.
Carry(a, i) ==
  LET c == a[i] \div Base
      k == (i + 1) % Limbs
  IN  [[a EXCEPT ![i] = @ % Base] EXCEPT ![k] = @ + (IF k = 0 THEN 5 * c ELSE c)]

\* h * r, a column for each limb: what passes the top comes back five times.
Columns(a, b) ==
  [i \in Places |->
    Total([j \in 1 .. Limbs |->
      a[j - 1] * (IF j - 1 <= i THEN b[i - (j - 1)] ELSE 5 * b[Limbs + i - (j - 1)])])]

\* Every limb carries in turn, beginning with the given one.
Carried(a, first) == FoldLeft(Carry, a, [k \in 1 .. Limbs |-> (first + k - 1) % Limbs])

\* (partial) h %= p: every limb carries in turn, then the first once more.
Reduced(d) == Carry(Carried(d, 0), 0)

\* One round of the loop of poly1305_blocks, over the block m with hibit: h += m, h *= r
\* and the partial h %= p.
Product(a, m, hibit) ==
  LET x == Split(m + hibit * MacMod)
  IN  Columns([i \in Places |-> a[i] + x[i]], r)
AddBlock(a, m, hibit) == Reduced(Product(a, m, hibit))

(***************************************************************************)
(* poly1305_finish.                                                        *)
(***************************************************************************)
\* fully carry h: from the second limb round to the second.
FullCarry(a) == Carried(a, 1)

\* h + -p, where the top limb may be negative.
CarryUp(g, i) == IF i = Limbs - 1 THEN [g EXCEPT ![i] = @ - Base] ELSE Carry(g, i)
MinusP(a) == FoldLeft(CarryUp, [a EXCEPT ![0] = @ + 5], [k \in 1 .. Limbs |-> k - 1])

\* Mutant: h is taken as it is, although it may not be below p.
SelectedNever(a) == a

\* select h if h < p, or h + -p if h >= p.
Selected(a) == IF MinusP(a)[Limbs - 1] < 0 THEN a ELSE MinusP(a)

\* h % (2^128): the limbs are shifted together and or'ed, so each must fit.
Tag128(a) == Value(Selected(FullCarry(a))) % MacMod

\* The words of a number, and the number of words.
WordsOf(n) ==
  LET q == n \div PadWord  s == q \div PadWord  t == s \div PadWord
  IN  <<n % PadWord, q % PadWord, s % PadWord, t % PadWord>>
FromWords(w) == w[1] + PadWord * (w[2] + PadWord * (w[3] + PadWord * w[4]))

\* mac = (h + pad) % (2^128): f is a word of each and the carry f >> 32 of the one before.
AddPad(n, pad) ==
  LET x  == WordsOf(n)
      y  == WordsOf(pad)
      f0 == x[1] + y[1]
      f1 == x[2] + y[2] + f0 \div PadWord
      f2 == x[3] + y[3] + f1 \div PadWord
      f3 == x[4] + y[4] + f2 \div PadWord
  IN  FromWords(<<f0 % PadWord, f1 % PadWord, f2 % PadWord, f3 % PadWord>>)

\* The tag, with the pad that poly1305_init has saved.
MacTag(a, pad) == AddPad(Tag128(a), pad)

(***************************************************************************)
(* A key and a message, block by block.                                    *)
(***************************************************************************)
PolyInit ==
  /\ r = Split(0)
  /\ h = Split(0)
  /\ added = <<>>

\* poly1305_init: r.
TakeKey ==
  /\ r = Split(0) /\ added = <<>>
  /\ \E n \in Multipliers : r' = Split(n)
  /\ UNCHANGED <<h, added>>

\* poly1305_blocks.  Only the last block, from poly1305_finish, has no hibit.
Blocks ==
  /\ Len(added) < MaxBlocks
  /\ \A i \in DOMAIN added : added[i].hibit = 1
  /\ \E m \in Messages, b \in {0, 1} :
       h' = AddBlock(h, m, b) /\ added' = Append(added, [m |-> m, hibit |-> b])
  /\ UNCHANGED r

PolyNext == TakeKey \/ Blocks

PolySpec == PolyInit /\ [][PolyNext]_polyVars

(***************************************************************************)
(* Properties.                                                             *)
(***************************************************************************)

\* The sums of the next product stay so low, whatever its block, that 64 bits hold
\* d0 to d4: with five limbs below 2^26 they are at most 47 * 2^52.
ColumnsFit ==
  \A m \in Messages, b \in {0, 1}, i \in Places :
    Product(h, m, b)[i] <= (10 * Limbs - 3) * Base * Base

\* The polynomial of the message, modulo p.
Evaluated(s, k) ==
  FoldLeft(LAMBDA acc, x : ((acc + x.m + x.hibit * MacMod) * k) % Prime, 0, s)

Polynomial == Evaluated(added, Value(r))

\* The limbs stand for the polynomial, and between blocks every limb but the
\* second is within its width.  What that one carries over is so little that it is
\* below its limit by one when poly1305_finish has masked it, where the last carry
\* of all goes.
LimbsStandForSum ==
  /\ Value(h) % Prime = Polynomial
  /\ \A i \in Places : h[i] < (IF i = 1 THEN 2 * Base - 1 ELSE Base)

\* Between blocks the limbs stand for the polynomial of the message, and the next
\* product fits; in the end no limb overlaps the next when they are or'ed, and the tag
\* is the polynomial and the pad, whichever pad was saved.
TagExact ==
  added # <<>> =>
    /\ LimbsStandForSum
    /\ ColumnsFit
    /\ \A i \in Places : Selected(FullCarry(h))[i] \in 0 .. Base - 1
    /\ \A pad \in Pads : MacTag(h, pad) = (Polynomial + pad) % MacMod
==============================================================================
