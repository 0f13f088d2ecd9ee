-------------------------------- MODULE Base64 --------------------------------
(***************************************************************************)
(* The two Base64 codecs of the program: wireguard_base64_decode and       *)
(* wireguard_base64_encode (wireguard.c), through which wireguardif.c gets *)
(* its keys, and Base64Decode and Base64Encode (utils/base64.cpp), through *)
(* which StartVpn gets them.                                               *)
(*                                                                         *)
(* A character is the six bits it stands for, Pad ('=') or Bad (one that   *)
(* is not of the alphabet).  Each decoder is a fold over the text, with    *)
(* failed for its early exits; out is what it has written by then, which a *)
(* failed decoder leaves in the caller's buffer.                           *)
(***************************************************************************)
EXTENDS Integers, Sequences, SequencesExt

CONSTANTS
  Symbols,      (* Characters tried: six-bit values, Pad and Bad.           *)
  MaxChars,     (* Characters in a text.  Bounds the model.                 *)
  SampleBytes,  (* Bytes tried.                                             *)
  MaxBytes,     (* Bytes to encode.  Bounds the model.                      *)
  KeyLength     (* The buffer the callers give: 32.  As there, two more     *)
                (* than a multiple of three.                                *)

ASSUME Base64Assumption ==
  /\ Symbols \subseteq 0 .. 65 /\ SampleBytes \subseteq 0 .. 255
  /\ MaxChars \in Nat /\ MaxBytes \in Nat
  /\ KeyLength \in Nat /\ KeyLength % 3 = 2

VARIABLES
  text,         (* a text to decode                                         *)
  bytes         (* bytes to encode                                          *)

b64Vars == <<text, bytes>>

Pad == 64
Bad == 65

B64Init == text = <<>> /\ bytes = <<>>

B64Next ==
  \/ /\ bytes = <<>> /\ Len(text) < MaxChars
     /\ \E c \in Symbols : text' = Append(text, c)
     /\ UNCHANGED bytes
  \/ /\ text = <<>> /\ Len(bytes) < MaxBytes
     /\ \E b \in SampleBytes : bytes' = Append(bytes, b)
     /\ UNCHANGED text

B64Spec == B64Init /\ [][B64Next]_b64Vars

(***************************************************************************)
(* wireguard_base64_decode.  count characters of the current block are in  *)
(* accum; expect bytes are due at its end.                                 *)
(***************************************************************************)
\* The bytes of accum that a block with expect bytes writes: at least one.
BlockBytes(accum, expect) ==
  LET all == << accum \div 65536, (accum \div 256) % 256, accum % 256 >>
  IN  SubSeq(all, 1, IF expect < 1 THEN 1 ELSE expect)

\* Mutant: padding may be followed by more characters.
DecodeCharLax(d, c, capacity) ==
  LET expect == IF c = Pad THEN d.expect - 1 ELSE d.expect
      accum  == d.accum * 64 + (IF c = Pad THEN 0 ELSE c)
  IN  IF d.failed \/ c = Bad \/ expect < 0 THEN [d EXCEPT !.failed = TRUE]
      ELSE IF d.count < 3 THEN [d EXCEPT !.expect = expect, !.accum = accum, !.count = @ + 1]
      ELSE IF Len(d.out) + expect > capacity THEN [d EXCEPT !.failed = TRUE]
      ELSE [d EXCEPT !.expect = expect, !.out = @ \o BlockBytes(accum, expect),
                     !.count = 0, !.accum = 0]

DecodeChar(d, c, capacity) ==
  LET expect == IF c = Pad THEN d.expect - 1 ELSE d.expect
      accum  == d.accum * 64 + (IF c = Pad THEN 0 ELSE c)
      wrong  == c = Bad \/ expect < 0 \/ (c # Pad /\ d.expect # 3)
  IN  IF d.failed \/ wrong THEN [d EXCEPT !.failed = TRUE]
      ELSE IF d.count < 3 THEN [d EXCEPT !.expect = expect, !.accum = accum, !.count = @ + 1]
      ELSE IF Len(d.out) + expect > capacity THEN [d EXCEPT !.failed = TRUE]
      ELSE [d EXCEPT !.expect = expect, !.out = @ \o BlockBytes(accum, expect),
                     !.count = 0, !.accum = 0]

WgDecode(t, capacity) ==
  LET start == [accum |-> 0, count |-> 0, expect |-> 3, out |-> <<>>, failed |-> FALSE]
      d == FoldLeft(LAMBDA s, c : DecodeChar(s, c, capacity), start, t)
  IN  [ok |-> ~d.failed /\ d.count = 0, out |-> d.out]

(***************************************************************************)
(* Base64Decode.  Of val only the 14 bits below its newest 6 are ever      *)
(* read; done is its break.  val is an int that a text of more than five   *)
(* characters shifts past its width (base64.cpp:25), which the language    *)
(* leaves undefined; modelled is what compilers make of it, a shift that   *)
(* drops the top bits.                                                     *)
(***************************************************************************)
\* Once the six bits of a character are in val: the byte that they complete.
Complete(d, val, valb) ==
  IF valb < 0 THEN [d EXCEPT !.val = val, !.valb = valb]
  ELSE [d EXCEPT !.val = val, !.valb = valb - 8,
                 !.out = Append(@, (val \div (2^valb)) % 256)]

ReadChar(d, c) ==
  IF d.done \/ d.failed THEN d
  ELSE IF c = Pad THEN [d EXCEPT !.done = TRUE]
  ELSE IF c = Bad THEN [d EXCEPT !.failed = TRUE]
  ELSE Complete(d, (d.val * 64 + c) % 16384, d.valb + 6)

\* The length Base64Decode expects of a text whose length is a multiple of four.
Expected(t) ==
  (Len(t) \div 4) * 3 - (IF t[Len(t)] = Pad THEN 1 ELSE 0) - (IF t[Len(t) - 1] = Pad THEN 1 ELSE 0)

UtilDecode(t, capacity) ==
  LET start == [val |-> 0, valb |-> -8, out |-> <<>>, done |-> FALSE, failed |-> FALSE]
      d == FoldLeft(ReadChar, start, t)
  IN  IF t = <<>> \/ Len(t) % 4 # 0 \/ capacity < Expected(t) THEN [ok |-> FALSE, out |-> <<>>]
      ELSE [ok |-> ~d.failed, out |-> d.out]

(***************************************************************************)
(* The encoders, given a buffer that is long enough.                       *)
(***************************************************************************)
Byte(b, i) == IF i <= Len(b) THEN b[i] ELSE 0

Triple(b, k) == Byte(b, 3 * k + 1) * 65536 + Byte(b, 3 * k + 2) * 256 + Byte(b, 3 * k + 3)

\* Character i, from 0, of the encoding before padding.
SixBits(b, i) == (Triple(b, i \div 4) \div (64 ^ (3 - (i % 4)))) % 64

EncodedLength(b) == 4 * ((Len(b) + 2) \div 3)

\* Mutant: three characters of padding for whole blocks.
PaddingWhole(b) == 3 - (Len(b) % 3)

Padding(b) == IF Len(b) % 3 = 0 THEN 0 ELSE 3 - (Len(b) % 3)

\* wireguard_base64_encode: padding takes the last two characters at most.
WgEncode(b) ==
  [i \in 1 .. EncodedLength(b) |->
    IF i > EncodedLength(b) - Padding(b) THEN Pad ELSE SixBits(b, i - 1)]

\* Base64Encode: i never gets past inputLen, so no padding is ever written.
UtilEncode(b) == [i \in 1 .. EncodedLength(b) |-> SixBits(b, i - 1)]

(***************************************************************************)
(* Properties.                                                             *)
(***************************************************************************)

\* The two decoders accept the same keys: texts that fill the buffer to its last
\* byte are accepted by both or by none, and give the same bytes.  Neither decoder
\* ever writes past the end of the buffer, whatever it thinks of the text in the end.
SameKeys ==
  LET w == WgDecode(text, KeyLength)
      u == UtilDecode(text, KeyLength)
  IN  /\ (w.ok /\ Len(w.out) = KeyLength) \/ (u.ok /\ Len(u.out) = KeyLength) => w = u
      /\ Len(w.out) <= KeyLength /\ Len(u.out) <= KeyLength

\* What wireguard_base64_encode encodes, both decoders decode.  What Base64Encode
\* encodes, Base64Decode decodes followed by a zero byte for each padding character
\* that is missing: a key would not decode into the buffer it came from.
EncodingDecodes ==
  bytes # <<>> =>
    /\ WgDecode(WgEncode(bytes), Len(bytes)) = [ok |-> TRUE, out |-> bytes]
    /\ UtilDecode(WgEncode(bytes), Len(bytes)) = [ok |-> TRUE, out |-> bytes]
    /\ UtilDecode(UtilEncode(bytes), MaxBytes + 2)
         = [ok |-> TRUE, out |-> bytes \o [i \in 1 .. Padding(bytes) |-> 0]]
==============================================================================
