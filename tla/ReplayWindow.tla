----------------------------- MODULE ReplayWindow -----------------------------
(***************************************************************************)
(* wireguard_check_replay (wireguard.c): the sliding window over the       *)
(* counters of the packets one keypair decrypted.                          *)
(*                                                                         *)
(* replay_bitmap is the set of its one bits: bit d stands for the packet d *)
(* before replay_counter.  The function numbers packets from 1 (seq++), so *)
(* replay_counter = 0 means that none has been accepted.                   *)
(*                                                                         *)
(* Counters are 64 bits wide, but their difference is kept in a uint32_t:  *)
(* it is taken modulo DiffMod.  The wrap of seq itself at 2^64 is out of   *)
(* range: REJECT_AFTER_MESSAGES ends the session first.                    *)
(***************************************************************************)
EXTENDS Integers

CONSTANTS
  Window,     (* bits of replay_bitmap: 32                                  *)
  DiffMod,    (* values of diff: 2^32                                       *)
  MaxSeq      (* The largest counter a packet carries.  Bounds the model.   *)

ASSUME WindowAssumption ==
  /\ Window \in Nat \ {0} /\ DiffMod \in Nat \ {0} /\ MaxSeq \in Nat
  /\ Window <= DiffMod

VARIABLES
  counter,    (* keypair->replay_counter                                    *)
  bitmap,     (* keypair->replay_bitmap                                     *)
  copies,     (* history: how often each packet was accepted                *)
  verdict     (* the packet last checked, and the function's result         *)

vars == <<counter, bitmap, copies, verdict>>

Seqs == 0 .. MaxSeq
Bits == 0 .. Window - 1

Init ==
  /\ counter = 0
  /\ bitmap = {}
  /\ copies = [q \in Seqs |-> 0]
  /\ verdict = [seq |-> 0, ok |-> FALSE]

\* uint32_t diff = later - earlier.
Diff(later, earlier) == (later - earlier) % DiffMod

\* Mutant: a jump of the counter leaves the bitmap where it was.
ShiftNever(d) == bitmap \union {0}

\* bitmap <<= d, bits shifted out are lost; then bit 0 for the new packet.
Shift(d) == {b \in Bits : b >= d /\ b - d \in bitmap} \union {0}

Record(q, ok) ==
  /\ verdict' = [seq |-> q, ok |-> ok]
  /\ copies' = IF ok THEN [copies EXCEPT ![q] = @ + 1] ELSE copies

\* A new larger sequence number.
Advance(q) ==
  LET seq == q + 1
      d   == Diff(seq, counter)
  IN  /\ seq > counter
      /\ bitmap' = IF d < Window THEN Shift(d) ELSE {0}
      /\ counter' = seq
      /\ Record(q, TRUE)

\* Mutants: late packets are accepted and not marked; the last bit of the
\* bitmap is never used.
LateUnmarked(q) ==
  LET d == Diff(counter, q + 1)
  IN  /\ q + 1 <= counter
      /\ Record(q, d < Window /\ d \notin bitmap)
      /\ UNCHANGED <<bitmap, counter>>

LateNarrow(q) ==
  LET d    == Diff(counter, q + 1)
      good == d < Window - 1 /\ d \notin bitmap
  IN  /\ q + 1 <= counter
      /\ Record(q, good)
      /\ bitmap' = IF good THEN bitmap \union {d} ELSE bitmap
      /\ UNCHANGED counter

\* Out of order: good if in the window and not seen, else seen or too old.
Late(q) ==
  LET d    == Diff(counter, q + 1)
      good == d < Window /\ d \notin bitmap
  IN  /\ q + 1 <= counter
      /\ Record(q, good)
      /\ bitmap' = IF good THEN bitmap \union {d} ELSE bitmap
      /\ UNCHANGED counter

\* wireguard_check_replay(keypair, q).
CheckReplay(q) == Advance(q) \/ Late(q)

Next == \E q \in Seqs : CheckReplay(q)

Spec == Init /\ [][Next]_vars

(***************************************************************************)
(* Properties.                                                             *)
(***************************************************************************)

TypeOK ==
  /\ counter \in Nat
  /\ bitmap \in SUBSET Bits
  /\ copies \in [Seqs -> Nat]
  /\ verdict \in [seq : Seqs, ok : BOOLEAN]

\* No packet is accepted twice, whatever the order the packets and their
\* copies arrive in.
AcceptedOnce == \A q \in Seqs : copies[q] <= 1

\* The bitmap and the counter remember exactly the accepted packets of the
\* window: a bit is set if and only if the packet it stands for was accepted.
WindowExact ==
  /\ \A q \in Seqs : copies[q] > 0 => q < counter
  /\ \A d \in Bits :
       d \in bitmap <=> counter - 1 - d \in Seqs /\ copies[counter - 1 - d] > 0

\* wireguard_check_replay implements the promise of a replay window.
Promise == INSTANCE AntiReplay

Implements == Promise!Spec
==============================================================================
