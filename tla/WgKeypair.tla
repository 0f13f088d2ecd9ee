------------------------------ MODULE WgKeypair ------------------------------
(***************************************************************************)
(* The three keypair slots of a peer (wireguard.c): a session installs its *)
(* keypair with AddNewKeypair; a keypair waiting in next becomes curr with *)
(* Promote.                                                                *)
(*                                                                         *)
(* A keypair is a record with at least the fields valid and initiator, and *)
(* for AfterEncrypt used (last_tx # 0).  Erased is the all-zero keypair    *)
(* keypair_destroy leaves.                                                 *)
(***************************************************************************)
CONSTANT Erased

\* add_new_keypair.  The initiator may use its keypair at once and keeps the
\* one it replaces; the responder must wait for the initiator's first packet.
AddNewKeypair(slots, k) ==
  IF k.initiator
    THEN [ curr |-> k,
           next |-> IF slots.next.valid THEN Erased ELSE slots.next,
           prev |-> IF slots.next.valid THEN slots.next ELSE slots.curr ]
    ELSE [slots EXCEPT !.next = k, !.prev = Erased]

\* Mutant: next is not erased.
PromoteKept(slots) == [slots EXCEPT !.curr = slots.next, !.prev = slots.curr]

\* keypair_update and the promotion in wg_encrypt_packet: next becomes curr.
Promote(slots) == [curr |-> slots.next, next |-> Erased, prev |-> slots.curr]

\* What wg_encrypt_packet does to the slots: it takes the first usable one of
\* curr, next and prev, and promotes next once it has been used.
AfterEncrypt(slots) ==
  IF slots.curr.valid THEN [slots EXCEPT !.curr.used = TRUE]
  ELSE IF slots.next.valid THEN Promote([slots EXCEPT !.next.used = TRUE])
  ELSE [slots EXCEPT !.prev.used = TRUE]

\* The gate of SendHandshakeForPeer, TunToUdpThread and wg_timer_tick: prev
\* does not count as a session.
HasSession(slots) == slots.curr.valid \/ slots.next.valid
==============================================================================
