-------------------------------- MODULE X25519 --------------------------------
(***************************************************************************)
(* The arithmetic of x25519.c, on a field and a curve small enough to try  *)
(* them out.  The code computes modulo 2^255 - 19 in 256 bits, with words  *)
(* of 32; here it is 2^(FieldBits - 1) - Gap, with words of WordBits.  A   *)
(* field element is the number its limbs make up, since the loops over     *)
(* limbs (adc, adc0, umaal) do arithmetic on that number; what they carry  *)
(* out of the last limb is kept.                                           *)
(*                                                                         *)
(* The chain of multiplications that inverts is for 2^255 - 19 alone.  It  *)
(* is followed over exponents, each the set of its one bits.               *)
(***************************************************************************)
EXTENDS Integers, Sequences, SequencesExt

CONSTANTS
  FieldBits,    (* 256.                                                     *)
  Gap,          (* 19.                                                      *)
  WordBits,     (* 32.                                                      *)
  A24,          (* 121665.                                                  *)
  Scalars,      (* Private keys to try.                                     *)
  Points        (* Public keys to try.                                      *)

Size == 2 ^ FieldBits
Half == 2 ^ (FieldBits - 1)
WordSize == 2 ^ WordBits
Field == Half - Gap

ASSUME X25519Assumption ==
  /\ FieldBits \in Nat /\ FieldBits > 4 /\ Gap \in Nat \ {0} /\ A24 \in Nat \ {0}
  /\ WordBits \in Nat /\ WordBits < FieldBits
  /\ Scalars \subseteq 0 .. Size - 1 /\ Points \subseteq 0 .. Size - 1

\* What is folded back in fits a word, as it does many times over in the code.  The
\* rest is arithmetic of powers.
ASSUME RoomAssumption ==
  /\ Gap * (2 * Gap + 3) < WordSize /\ (Gap + 1) * WordSize <= Half
  /\ Size = 2 * Half /\ Half \in Nat /\ WordSize \in Nat

VARIABLES
  element,      (* any 256 bits to try, or -1                               *)
  keys,         (* two private keys and a public key, any 256 bits, to try  *)
  run,          (* x25519 on them: the locals of x25519_core                *)
  outs,         (* what it has returned so far                              *)
  chain         (* the exponents in xs[1 .. 4], which of them prev is, and  *)
                (* the steps done                                           *)

xVars == <<element, keys, run, outs, chain>>

(***************************************************************************)
(* The field.                                                              *)
(***************************************************************************)
\* Mutant: only the carry is folded back in, not the top bit of x.
PropagateCarry(x, over) == (x + 2 * Gap * over) % Size

\* propagate: everything from the top bit up comes back, 19 times, as a carry in a word.
Propagate(x, over) ==
  LET o == ((x \div Half) + 2 * over) % WordSize
  IN  ((x % Half) + ((Gap * o) % WordSize)) % Size

Add(a, b) == Propagate((a + b) % Size, (a + b) \div Size)

Sub(a, b) ==
  LET d == a - b - 2 * Gap
  IN  Propagate(d % Size, 1 + (d \div Size))

Mul(a, b) ==
  LET folded == ((a * b) % Size) + 2 * Gap * ((a * b) \div Size)
  IN  Propagate(folded % Size, folded \div Size)

Sqr(a) == Mul(a, a)

\* canon: the number, and the result for zero or not.
Canon(x) ==
  LET y == Propagate((x + Gap) % Size, (x + Gap) \div Size)
  IN  [x |-> (y - Gap) % Size, ret |-> IF (y - Gap) % Size = 0 THEN -1 ELSE 0]

(***************************************************************************)
(* The ladder.                                                             *)
(***************************************************************************)
\* The bits of a scalar that x25519_core uses with clamp: a multiple of eight,
\* with the bit below the top one set.
Bit(scalar, i) ==
  IF i < 3 \/ i = FieldBits - 1 THEN 0 ELSE IF i = FieldBits - 2 THEN 1 ELSE (scalar \div (2 ^ i)) % 2

\* condswap.
Swapped(l) == [x2 |-> l.x3, z2 |-> l.z3, x3 |-> l.x2, z3 |-> l.z2]

\* Mutant: the terms of z2 are not added.
RungWrong(l, x1) ==
  LET a  == Add(l.x2, l.z2)  b == Sub(l.x2, l.z2)
      da == Mul(a, Sub(l.x3, l.z3))
      cb == Mul(b, Add(l.x3, l.z3))
      aa == Sqr(a)  bb == Sqr(b)
      e  == Sub(aa, bb)
  IN  [x2 |-> Mul(Sub(aa, e), aa), z2 |-> Mul(Mul(e, A24), e),
       x3 |-> Sqr(Add(da, cb)), z3 |-> Mul(x1, Sqr(Sub(da, cb)))]

\* ladder_part1 and ladder_part2.
Rung(l, x1) ==
  LET a  == Add(l.x2, l.z2)  b == Sub(l.x2, l.z2)
      da == Mul(a, Sub(l.x3, l.z3))
      cb == Mul(b, Add(l.x3, l.z3))
      aa == Sqr(a)  bb == Sqr(b)
      e  == Sub(aa, bb)
  IN  [x2 |-> Mul(Sub(aa, e), aa), z2 |-> Mul(Add(Mul(e, A24), aa), e),
       x3 |-> Sqr(Add(da, cb)), z3 |-> Mul(x1, Sqr(Sub(da, cb)))]

\* z to the power Field - 2; see ChainStep for how the code computes it.
Inverted(z) ==
  IF z % Field = 0 THEN 0 ELSE CHOOSE y \in 1 .. Field - 1 : (y * z) % Field = 1

\* The four calls of an exchange: both ends multiply the point, then each the
\* number the other got.
Call(results) ==
  LET n == Len(results) + 1
  IN  [ scalar |-> IF n \in {1, 3} THEN keys.ours ELSE keys.theirs,
        x1 |-> IF n <= 2 THEN keys.point ELSE results[5 - n] ]

Start(x1) == [i |-> FieldBits - 1, swap |-> 0, l |-> [x2 |-> 1, z2 |-> 0, x3 |-> x1, z3 |-> 1]]

NoKeys == [ours |-> 0, theirs |-> 0, point |-> 0]

\* One round of the loop of x25519_core: the points are swapped when a bit differs
\* from the one before it.
LadderRound ==
  LET bit == Bit(Call(outs).scalar, run.i)
  IN  /\ keys # NoKeys /\ Len(outs) < 4 /\ run.i >= 0
      /\ run' = [ i |-> run.i - 1, swap |-> bit,
                  l |-> Rung(IF bit = run.swap THEN run.l ELSE Swapped(run.l), Call(outs).x1) ]
      /\ UNCHANGED <<element, keys, outs, chain>>

\* The rest of x25519, with clamp: the last swap, x2 / z2, and canon.
Return ==
  LET l == IF run.swap = 1 THEN Swapped(run.l) ELSE run.l
  IN  /\ keys # NoKeys /\ Len(outs) < 4 /\ run.i < 0
      /\ outs' = Append(outs, Canon(Mul(l.x2, Inverted(l.z2))).x)
      /\ run' = IF Len(outs') < 4 THEN Start(Call(outs').x1) ELSE run
      /\ UNCHANGED <<element, keys, chain>>

(***************************************************************************)
(* The inversion of x25519.                                                *)
(***************************************************************************)
\* Mutant: a step squares once too often.
StepsMore == << <<2,1,1>>, <<2,1,1>>, <<4,2,3>>, <<2,4,6>>, <<3,1,1>>, <<3,2,12>>, <<4,3,25>>,
            <<2,3,25>>, <<2,4,50>>, <<3,2,125>>, <<3,1,2>>, <<3,1,2>>, <<3,1,2>> >>

Steps == << <<2,1,1>>, <<2,1,1>>, <<4,2,3>>, <<2,4,6>>, <<3,1,1>>, <<3,2,12>>, <<4,3,25>>,
            <<2,3,25>>, <<2,4,50>>, <<3,2,125>>, <<3,1,2>>, <<3,1,2>>, <<3,1,1>> >>

\* A step squares prev n times and multiplies it by xs[c] into xs[a].
ChainStep(s, n) ==
  LET raised == {b + Steps[n][3] : b \in s.exps[s.prev]}
      factor == s.exps[Steps[n][2]]
  IN  [ exps |-> [s.exps EXCEPT ![Steps[n][1]] = raised \union factor],
        prev |-> Steps[n][1], done |-> n, clean |-> s.clean /\ raised \intersect factor = {} ]

(***************************************************************************)
(* Inputs to try.                                                          *)
(***************************************************************************)
XInit ==
  /\ element = -1
  /\ keys = NoKeys /\ run = Start(0) /\ outs = <<>>
  /\ chain = [exps |-> <<{0}, {}, {}, {}>>, prev |-> 1, done |-> 0, clean |-> TRUE]

TryElement ==
  /\ element = -1 /\ keys = NoKeys /\ chain.done = 0
  /\ element' \in 0 .. Size - 1
  /\ UNCHANGED <<keys, run, outs, chain>>

TryKeys ==
  /\ element = -1 /\ chain.done = 0 /\ keys = NoKeys
  /\ keys' \in [ours : Scalars, theirs : Scalars, point : Points]
  /\ run' = Start(keys'.point)
  /\ UNCHANGED <<element, outs, chain>>

Invert ==
  /\ element = -1 /\ keys = NoKeys /\ chain.done < Len(Steps)
  /\ chain' = ChainStep(chain, chain.done + 1)
  /\ UNCHANGED <<element, keys, run, outs>>

XNext == TryElement \/ TryKeys \/ LadderRound \/ Return \/ Invert

XSpec == XInit /\ [][XNext]_xVars

(***************************************************************************)
(* Properties.                                                             *)
(***************************************************************************)

\* "result of propagate is < 2^255 + 1 word" (x25519.c:80): numbers below that
\* bound are added, subtracted and multiplied into such numbers, the same modulo
\* the prime as the exact result; so is any 256-bit public key, with a number below
\* the bound on its right.  Of numbers below the bound, canon gives the one that is
\* below the prime, and tells zero.
FieldExact ==
  LET agree(x, exact) == x < Half + WordSize /\ x % Field = exact % Field
  IN  element >= 0 =>
        /\ \A v \in 0 .. Half + WordSize - 1 :
             /\ agree(Add(element, v), element + v)
             /\ agree(Sub(element, v), element - v)
             /\ agree(Mul(element, v), element * v)
        /\ element < Half + WordSize =>
             Canon(element) = [x |-> element % Field, ret |-> IF element % Field = 0 THEN -1 ELSE 0]

\* The two ends of an exchange come to the same secret, from any public key at
\* all, of the curve, of its twist or of small order.
SecretsAgree == Len(outs) = 4 => outs[3] = outs[4]

\* The chain of multiplications raises to 2^255 - 21, two below the prime.
ChainInverts ==
  chain.done = Len(Steps) =>
    /\ chain.clean
    /\ chain.exps[chain.prev] = (0 .. 254) \ {2, 4}
==============================================================================
