---------------------------- MODULE CryptoStreams ----------------------------
(***************************************************************************)
(* How the stream interfaces of the cryptography cut bytes into blocks:    *)
(* blake2s_update (blake2s.c), poly1305_update (poly1305-donna.c), the     *)
(* block counter of chacha20 (chacha20.c), and the order in which          *)
(* chacha20poly1305.c calls the last two for a packet.                     *)
(*                                                                         *)
(* A compression function is free: a chaining value is the sequence of the *)
(* blocks that went into it.  The message bytes of the hash and of the     *)
(* authenticator are numbered from 1, the key bytes from -1 down, and 0 is *)
(* a zero byte.  A byte of a packet is a bit, and so is one of the         *)
(* keystream.                                                              *)
(***************************************************************************)
EXTENDS Integers, Sequences, SequencesExt

CONSTANTS
  HashBlock,    (* Bytes in a block of BLAKE2s: 64.                         *)
  WordMod,      (* Values of a word of its byte counter: 2^32.              *)
  MacBlock,     (* Bytes in a block of Poly1305: 16.  Even.                 *)
  PadBlock,     (* Bytes in a block of ChaCha20: 64.                        *)
  KeyLens,      (* Lengths of keys to hash with, 0 for none.                *)
  MaxFed,       (* Bytes hashed or authenticated.  Bounds the model.      *)
  MaxPacket     (* Bytes of a packet and its data.  Bounds the model.       *)

ASSUME StreamAssumption ==
  /\ HashBlock \in Nat \ {0} /\ PadBlock \in Nat /\ PadBlock > 1 /\ MaxFed \in Nat /\ MaxPacket \in Nat
  /\ WordMod \in Nat /\ WordMod > HashBlock
  /\ MacBlock \in Nat \ {0} /\ MacBlock % 2 = 0
  /\ KeyLens \in SUBSET (0 .. HashBlock)

VARIABLES
  hash,     (* blake2s_ctx and the length of its key, or NoHash             *)
  hashed,   (* message bytes given to it                                    *)
  mac,      (* poly1305_state_internal_t, or NoMac                          *)
  maced,    (* bytes given to it                                            *)
  packet    (* additional data and a text to seal, or NoPacket              *)

streamVars == <<hash, hashed, mac, maced, packet>>

NoHash == [key |-> -1]
NoMac  == [leftover |-> -1]
NoPacket == [sealed |-> FALSE]

Zeros(n) == [i \in 1 .. n |-> 0]

\* Bytes first .. last of a message.
Bytes(first, last) == [i \in 1 .. last - first + 1 |-> first + i - 1]

\* s cut into blocks of size n, the last one as long as the rest.
Cut(s, n) ==
  [k \in 1 .. (Len(s) + n - 1) \div n |-> SubSeq(s, n * (k - 1) + 1, IF n * k < Len(s) THEN n * k ELSE Len(s))]

(***************************************************************************)
(* BLAKE2s: h is the chaining value, t the two words of the byte counter,  *)
(* b and c the buffer and the bytes in it.                                 *)
(***************************************************************************)
\* ctx->t[0] += ctx->c, and the carry.
Count(x) ==
  LET low == (x.t[1] + x.c) % WordMod
  IN  [x EXCEPT !.t = <<low, IF low < x.c THEN x.t[2] + 1 ELSE x.t[2]>>]

\* blake2s_compress.
Compress(x, last) == [x EXCEPT !.h = Append(@, [block |-> x.b, t |-> x.t, last |-> last])]

Put(x, byte) == [x EXCEPT !.b = [@ EXCEPT ![x.c + 1] = byte], !.c = @ + 1]

\* Mutant: a block is compressed as soon as it is full.
HashByteEager(x, byte) ==
  LET y == Put(x, byte)
  IN  IF y.c = HashBlock THEN [Compress(Count(y), FALSE) EXCEPT !.c = 0] ELSE y

\* One round of the loop of blake2s_update: a full buffer is compressed only
\* when another byte follows it.
HashByte(x, byte) ==
  Put(IF x.c = HashBlock THEN [Compress(Count(x), FALSE) EXCEPT !.c = 0] ELSE x, byte)

HashUpdate(x, s) == FoldLeft(HashByte, x, s)

\* blake2s_init: a key fills a block of its own.
HashInit(keylen) ==
  LET x == [key |-> keylen, h |-> <<>>, t |-> <<0, 0>>, b |-> Zeros(HashBlock), c |-> 0]
  IN  IF keylen = 0 THEN x
      ELSE [HashUpdate(x, [i \in 1 .. keylen |-> -i]) EXCEPT !.c = HashBlock]

\* blake2s_final: the digest.
HashFinal(x) ==
  LET filled == [i \in 1 .. HashBlock |-> IF i <= x.c THEN x.b[i] ELSE 0]
  IN  Compress([Count(x) EXCEPT !.b = filled], TRUE).h

(***************************************************************************)
(* Poly1305: h holds the blocks added so far, hibit being the bit that     *)
(* follows a whole one.                                                    *)
(***************************************************************************)
MacInit == [h |-> <<>>, leftover |-> 0, buffer |-> Zeros(MacBlock)]

Block(bytes, hibit) == [bytes |-> bytes, hibit |-> hibit]

Least(a, b) == IF a < b THEN a ELSE b

\* s goes into the buffer behind the bytes left over.
Keep(x, s) ==
  [x EXCEPT !.buffer = [i \in 1 .. MacBlock |->
                IF i \in x.leftover + 1 .. x.leftover + Len(s) THEN s[i - x.leftover] ELSE @[i]],
            !.leftover = @ + Len(s)]

\* poly1305_update.
MacUpdate(x, s) ==
  LET want == IF x.leftover = 0 THEN 0 ELSE Least(MacBlock - x.leftover, Len(s))
      y    == Keep(x, SubSeq(s, 1, want))
      rest == SubSeq(s, want + 1, Len(s))
      full == (Len(rest) \div MacBlock) * MacBlock
      z    == IF x.leftover = 0 THEN x ELSE [y EXCEPT !.h = Append(@, Block(y.buffer, 1)), !.leftover = 0]
  IN  IF x.leftover # 0 /\ y.leftover < MacBlock THEN y
      ELSE Keep([z EXCEPT !.h = @ \o [k \in 1 .. full \div MacBlock |-> Block(Cut(rest, MacBlock)[k], 1)]],
                SubSeq(rest, full + 1, Len(rest)))

\* poly1305_finish: a block that is not whole ends in a 1 instead of the hibit.
MacFinish(x) ==
  IF x.leftover = 0 THEN x.h
  ELSE Append(x.h, Block([i \in 1 .. MacBlock |->
         IF i <= x.leftover THEN x.buffer[i] ELSE IF i = x.leftover + 1 THEN 1 ELSE 0], 0))

(***************************************************************************)
(* ChaCha20 and the AEAD.  counter is word 12 of the state; used lists the *)
(* keystream bytes taken, each named by its block and its place there.     *)
(***************************************************************************)
\* Some keystream: chacha20_block.
Keystream(p) == (p[1] + p[1] * p[2] + (p[2] \div 2)) % 2

Taken(x, n) == [i \in 1 .. n |-> <<x.counter + ((i - 1) \div PadBlock), (i - 1) % PadBlock>>]

\* chacha20, over n bytes.
ChaCha(x, n) ==
  [counter |-> x.counter + ((n + PadBlock - 1) \div PadBlock), used |-> x.used \o Taken(x, n)]

\* generate_poly1305_key takes half a block.
AfterMacKey == ChaCha([counter |-> 0, used |-> <<>>], PadBlock \div 2)

Xor(s, pads) == [i \in 1 .. Len(s) |-> (s[i] + Keystream(pads[i])) % 2]

\* Zeros up to the next whole block.
Fill(n) == Zeros((MacBlock - (n % MacBlock)) % MacBlock)

\* A length as a 64-bit word, half a block of Poly1305.
Word(n) == [i \in 1 .. MacBlock \div 2 |-> IF i = 1 THEN n ELSE 0]

\* Mutant: what is authenticated ends before the lengths.
TagNoLengths(ad, text) ==
  MacFinish(FoldLeft(MacUpdate, MacInit, <<ad, Fill(Len(ad)), text, Fill(Len(text))>>))

\* The calls of poly1305_update for a packet, and poly1305_finish.
Tag(ad, text) ==
  MacFinish(FoldLeft(MacUpdate, MacInit,
    <<ad, Fill(Len(ad)), text, Fill(Len(text)), Word(Len(ad)), Word(Len(text))>>))

\* chacha20poly1305_encrypt, and the keystream bytes it has used.
Encrypt(text, ad) ==
  LET x == ChaCha(AfterMacKey, Len(text))
      c == Xor(text, SubSeq(x.used, Len(AfterMacKey.used) + 1, Len(x.used)))
  IN  [text |-> c, tag |-> Tag(ad, c), used |-> x.used]

\* chacha20poly1305_decrypt; a packet shorter than a tag has the tag <<>>.
Decrypt(text, tag, ad) ==
  LET x == ChaCha(AfterMacKey, Len(text))
  IN  IF tag # <<>> /\ tag = Tag(ad, text)
      THEN [ok |-> TRUE, text |-> Xor(text, SubSeq(x.used, Len(AfterMacKey.used) + 1, Len(x.used)))]
      ELSE [ok |-> FALSE, text |-> <<>>]

(***************************************************************************)
(* A hash and an authenticator are fed in pieces of any size; a packet is  *)
(* any one.                                                                *)
(***************************************************************************)
StreamInit ==
  /\ hash = NoHash /\ hashed = 0
  /\ mac = NoMac /\ maced = 0
  /\ packet = NoPacket

Hash ==
  \/ /\ hash = NoHash
     /\ \E k \in KeyLens : hash' = HashInit(k)
     /\ UNCHANGED hashed
  \/ /\ hash # NoHash
     /\ \E n \in 1 .. MaxFed - hashed :
          /\ hash' = HashUpdate(hash, Bytes(hashed + 1, hashed + n))
          /\ hashed' = hashed + n

Mac ==
  \/ /\ mac = NoMac /\ mac' = MacInit
     /\ UNCHANGED maced
  \/ /\ mac # NoMac
     /\ \E n \in 1 .. MaxFed - maced :
          /\ mac' = MacUpdate(mac, Bytes(maced + 1, maced + n))
          /\ maced' = maced + n

BitStrings(n) == UNION {[1 .. k -> {0, 1}] : k \in 0 .. n}

Packet ==
  /\ packet = NoPacket
  /\ \E ad \in BitStrings(MaxPacket) : \E text \in BitStrings(MaxPacket - Len(ad)) :
       packet' = [data |-> ad, text |-> text]

StreamNext ==
  \/ mac = NoMac /\ packet = NoPacket /\ Hash /\ UNCHANGED <<mac, maced, packet>>
  \/ hash = NoHash /\ packet = NoPacket /\ Mac /\ UNCHANGED <<hash, hashed, packet>>
  \/ hash = NoHash /\ mac = NoMac /\ Packet /\ UNCHANGED <<hash, hashed, mac, maced>>

StreamSpec == StreamInit /\ [][StreamNext]_streamVars

(***************************************************************************)
(* Properties.                                                             *)
(***************************************************************************)

\* The bytes BLAKE2s is defined over: the key in a block of its own, then the
\* message; and at least one block.
HashInput(keylen, n) ==
  IF keylen = 0 THEN Bytes(1, n)
  ELSE [i \in 1 .. HashBlock |-> IF i <= keylen THEN -i ELSE 0] \o Bytes(1, n)

\* However a message is cut into calls, its result is that of the whole message.
\* For blake2s_update that is RFC 7693, section 3.3: block i is compressed with the
\* number of bytes up to its end, the last block, and no other, is padded and
\* flagged.  For poly1305_update it is the blocks of the whole message that are
\* added, only the last of which may end in a 1.
OneShotDigest(keylen, n) ==
  LET s  == HashInput(keylen, n)
      bs == IF s = <<>> THEN <<<<>>>> ELSE Cut(s, HashBlock)
      end(i) == IF i = Len(bs) THEN Len(s) ELSE HashBlock * i
  IN  [i \in 1 .. Len(bs) |->
        [ block |-> bs[i] \o Zeros(HashBlock - Len(bs[i])),
          t |-> <<end(i) % WordMod, end(i) \div WordMod>>, last |-> i = Len(bs) ]]

OneShotMac(n) ==
  LET bs == Cut(Bytes(1, n), MacBlock)
  IN  [i \in 1 .. Len(bs) |->
        IF Len(bs[i]) = MacBlock THEN Block(bs[i], 1)
        ELSE Block(bs[i] \o <<1>> \o Zeros(MacBlock - 1 - Len(bs[i])), 0)]

SameAsOneShot ==
  /\ hash # NoHash => HashFinal(hash) = OneShotDigest(hash.key, hashed)
  /\ mac # NoMac => MacFinish(mac) = OneShotMac(maced)

\* Within a packet no byte of the keystream is used twice, and none of the block
\* that the key of the authenticator comes from.  A packet opens to what was
\* sealed; with other data or another text its tag does not open, whatever the
\* zeros between them.
OpensOnlyItself ==
  packet # NoPacket =>
    LET e == Encrypt(packet.text, packet.data)
    IN  /\ \A i, j \in DOMAIN e.used : e.used[i] = e.used[j] => i = j
        /\ \A i \in DOMAIN e.used : i > PadBlock \div 2 => e.used[i][1] > 0
        /\ Decrypt(e.text, e.tag, packet.data) = [ok |-> TRUE, text |-> packet.text]
        /\ \A ad \in BitStrings(MaxPacket) : \A c \in BitStrings(MaxPacket - Len(ad)) :
             Decrypt(c, e.tag, ad).ok => ad = packet.data /\ c = e.text
==============================================================================
