---------------------------- MODULE LwipPeer_proofs ----------------------------
(***************************************************************************)
(* Proofs about LwipPeer, for every timeout, limit and budget, whatever    *)
(* the network does with the messages and whatever the application calls.  *)
(***************************************************************************)
EXTENDS LwipPeer, SequenceTheorems, TLAPS

(***************************************************************************)
(* The inductive invariant.                                                *)
(***************************************************************************)

\* A keypair has given a packet to lwIP at most once for each of: the packet is
\* marked, and the packet made the keypair current.
KeypairOK(k) ==
  /\ k \in Keypair
  /\ \A c \in Counters :
       k.taken[c] <= (IF c \in k.seen THEN 1 ELSE 0) + (IF c = k.opener THEN 1 ELSE 0)
  /\ k.valid => k.keys # NoId

\* The one in next is a responder's and has not been used.
NextOK(k) == k.opener = NoPacket /\ k.counter = 0 /\ ~k.initiator

\* After an initiation of the last REKEY_TIMEOUT that is no longer outstanding, a
\* keypair in next is no older than it, nor is a responder's in curr with none in
\* next.
AskedOK(s) ==
  s.initAge < RekeyTimeout /\ ~s.handshake.valid =>
    /\ s.slots.next.valid => s.slots.next.age <= s.initAge
    /\ s.slots.curr.valid /\ ~s.slots.curr.initiator /\ ~s.slots.next.valid =>
         s.slots.curr.age <= s.initAge

\* What holds of a node by itself.
NodeOK(s) ==
  /\ s \in Node
  /\ \A slot \in Slots : KeypairOK(s.slots[slot])
  /\ NextOK(s.slots.next)
  /\ ~s.valid => \A slot \in Slots : ~s.slots[slot].valid
  /\ \A a, b \in Slots : a # b /\ s.slots[a].valid /\ s.slots[b].valid =>
                           s.slots[a].keys # s.slots[b].keys
  /\ \A slot \in Slots : s.handshake.valid /\ s.slots[slot].valid =>
                           s.slots[slot].keys # s.handshake.id
  /\ AskedOK(s)

LinkOK(s) == s.slots.curr.valid \/ s.slots.prev.valid => s.link

\* Handshakes are numbered downwards: what is left has not been used.
Used(id) == id > left.handshakes

Outstanding(s) == IF s.handshake.valid THEN {s.handshake.id} \ {NoId} ELSE {}
Sessions(s)    == {s.slots[slot].keys : slot \in {a \in Slots : s.slots[a].valid}}
Elements(q)    == {q[i] : i \in DOMAIN q}
Sent(n)        == Elements(initiations[n])

\* What is to be drawn is nowhere yet.
UsedInv ==
  /\ \A n \in Nodes : \A id \in Outstanding(node[n]) \union Sessions(node[n]) \union Sent(n)
                                  \union responses[n] : Used(id)
  /\ \A id \in agreed : Used(id)

Falling(q) == \A i, j \in DOMAIN q : i < j => q[i] > q[j]

\* The ids of a node's own handshakes are not its peer's, and an id goes from
\* initiation to response to agreed.
OrderInv ==
  \A n \in Nodes :
    /\ Falling(initiations[n])
    /\ Sent(n) \intersect (agreed \union responses[n]) = {}
    /\ Sent(n) \intersect (Outstanding(node[Peer(n)]) \union Sessions(node[Peer(n)])) = {}
    /\ Outstanding(node[n]) \intersect (agreed \union Outstanding(node[Peer(n)])) = {}

\* A keypair that may send, and a packet that was sent, has keys both ends have.
AgreedInv ==
  \A n \in Nodes :
    /\ \A slot \in Slots : Sendable(node[n].slots[slot]) => node[n].slots[slot].keys \in agreed
    /\ \A p \in packets[n] : p.id \in agreed

\* A packet's counter is spent in the keypair that sent it, and names one packet.
NonceInv ==
  \A n \in Nodes : \A p \in packets[n] :
    /\ \A slot \in Slots :
         LET k == node[Peer(n)].slots[slot]
         IN  k.valid /\ k.keys = p.id => p.counter < k.counter
    /\ \A q \in packets[n] : p.id = q.id /\ p.counter = q.counter => p = q

LwipTypes ==
  /\ node \in [Nodes -> Node]
  /\ initiations \in [Nodes -> Seq(Ids)]
  /\ responses \in [Nodes -> SUBSET Ids]
  /\ packets \in [Nodes -> SUBSET Packet]
  /\ left \in [handshakes : Nat, time : Nat, calls : Nat]
  /\ agreed \subseteq Ids

\* What holds of each node by itself holds of both.
NodesInv == \A n \in Nodes : NodeOK(node[n]) /\ LinkOK(node[n])

LwipInv == LwipTypes /\ NodesInv /\ UsedInv /\ OrderInv /\ AgreedInv /\ NonceInv

(***************************************************************************)
(* The operators on keypairs and slots.                                    *)
(***************************************************************************)

\* The constants.
LEMMA Limits ==
  /\ RekeyTimeout \in Nat /\ RekeyTimeout > 0 /\ Keepalive \in Nat
  /\ RekeyAfterTime \in Nat /\ RejectAfterTime \in Nat /\ RekeyTimeout <= RejectAfterTime
  /\ RejectAfterTime > 0 /\ RejectAfterMessages \in Nat /\ RejectAfterMessages > 0
  /\ RekeyAfterMessages \in Nat /\ MaxInFlight \in Nat /\ MaxInFlight > 0
BY LimitsAssumption

\* The empty keypair is one.
LEMMA NoKeypairOK == KeypairOK(NoKeypair) /\ NextOK(NoKeypair) /\ ~NoKeypair.valid
<1>1. NoKeypair \in Keypair
  BY Limits DEF NoKeypair, Keypair, IdOrNone, NoId, Ages, Counters
<1> QED BY <1>1 DEF KeypairOK, NextOK, NoKeypair

\* A new keypair is one.
LEMMA NewKeypairOK ==
  ASSUME NEW id \in Ids, NEW initiator \in BOOLEAN
  PROVE  /\ KeypairOK(NewKeypair(id, initiator))
         /\ ~initiator => NextOK(NewKeypair(id, initiator))
         /\ NewKeypair(id, initiator).keys = id /\ NewKeypair(id, initiator).valid
         /\ NewKeypair(id, initiator).age = 0 /\ NewKeypair(id, initiator).counter = 0
         /\ NewKeypair(id, initiator).initiator = initiator
         /\ ~NewKeypair(id, initiator).heard
<1> DEFINE k == NewKeypair(id, initiator)
<1>1. k \in Keypair
  BY NoKeypairOK DEF NewKeypair, KeypairOK, Keypair, Ids, IdOrNone
<1>2. /\ k.valid /\ k.keys = id /\ k.age = 0 /\ k.counter = 0 /\ k.initiator = initiator
      /\ ~k.heard /\ k.seen = {} /\ k.opener = NoPacket
      /\ k.taken = [c \in Counters |-> 0]
  BY DEF NewKeypair, NoKeypair
<1> HIDE DEF k
<1>3. KeypairOK(k) /\ (~initiator => NextOK(k))
  BY <1>1, <1>2 DEF KeypairOK, NextOK, NoId, Ids
<1> QED BY <1>2, <1>3 DEF k

\* What each slot holds after add_new_keypair.
LEMMA AddNewKeypairSlots ==
  ASSUME NEW slots \in [Slots -> Keypair], NEW k \in Keypair
  PROVE  /\ AddNewKeypair(slots, k) \in [Slots -> Keypair]
         /\ k.initiator =>
              /\ AddNewKeypair(slots, k).curr = k
              /\ AddNewKeypair(slots, k).next = IF slots.next.valid THEN NoKeypair ELSE slots.next
              /\ AddNewKeypair(slots, k).prev = IF slots.next.valid THEN slots.next ELSE slots.curr
         /\ ~k.initiator =>
              /\ AddNewKeypair(slots, k).curr = slots.curr
              /\ AddNewKeypair(slots, k).next = k
              /\ AddNewKeypair(slots, k).prev = NoKeypair
<1>1. NoKeypair \in Keypair
  BY NoKeypairOK DEF KeypairOK
<1>2. slots.curr \in Keypair /\ slots.next \in Keypair /\ slots.prev \in Keypair
  BY DEF Slots
<1>3. CASE k.initiator
  <2> DEFINE next == IF slots.next.valid THEN NoKeypair ELSE slots.next
             prev == IF slots.next.valid THEN slots.next ELSE slots.curr
  <2>1. next \in Keypair /\ prev \in Keypair
    BY <1>1, <1>2
  <2>2. AddNewKeypair(slots, k) = [curr |-> k, next |-> next, prev |-> prev]
    BY <1>3 DEF AddNewKeypair
  <2> HIDE DEF next, prev
  <2>3. [curr |-> k, next |-> next, prev |-> prev] \in [Slots -> Keypair]
    BY <2>1 DEF Slots
  <2>4. /\ AddNewKeypair(slots, k).curr = k /\ AddNewKeypair(slots, k).next = next
        /\ AddNewKeypair(slots, k).prev = prev
    BY <2>2
  <2> QED BY <1>3, <2>2, <2>3, <2>4 DEF next, prev
<1>4. CASE ~k.initiator
  <2>1. AddNewKeypair(slots, k) = [slots EXCEPT !.next = k, !.prev = NoKeypair]
    BY <1>4 DEF AddNewKeypair
  <2> QED BY <1>1, <1>4, <2>1 DEF Slots
<1> QED BY <1>3, <1>4

\* And after the next keypair becomes current.
LEMMA PromoteSlots ==
  ASSUME NEW slots \in [Slots -> Keypair]
  PROVE  /\ Promote(slots) \in [Slots -> Keypair]
         /\ Promote(slots).curr = slots.next
         /\ Promote(slots).next = NoKeypair
         /\ Promote(slots).prev = slots.curr
BY NoKeypairOK DEF Promote, Slots, KeypairOK

(***************************************************************************)
(* What the handlers do to a node.                                         *)
(***************************************************************************)

\* k is what has become of the keypair j, unless it has been destroyed.
Kin(k, j) == k.valid => j.valid /\ k.keys = j.keys /\ j.counter <= k.counter

\* The session keys of t are those of s, or new.
Grown(s, t, new) ==
  \A slot \in Slots : t.slots[slot].valid =>
    \/ t.slots[slot].keys \in new
    \/ \E a \in Slots : Kin(t.slots[slot], s.slots[a])

\* Keypairs used for sending have keys in ids.
SendableIn(t, ids) == \A slot \in Slots : Sendable(t.slots[slot]) => t.slots[slot].keys \in ids

\* A packet sent on the way from s to t has the keys and the counter of a keypair
\* of s, or new keys, and its counter is spent in t.
SentOK(s, t, sent, new, ids) ==
  /\ sent \subseteq Packet
  /\ \A p, q \in sent : p = q
  /\ \A p \in sent :
       /\ p.id \in ids
       /\ \/ p.id \in new
          \/ \E a \in Slots : /\ s.slots[a].valid /\ s.slots[a].keys = p.id
                              /\ s.slots[a].counter = p.counter
       /\ \A slot \in Slots : t.slots[slot].valid /\ t.slots[slot].keys = p.id =>
                                p.counter < t.slots[slot].counter

\* The parts of a node.
LEMMA NodeParts ==
  ASSUME NEW s \in Node
  PROVE  /\ s.valid \in BOOLEAN /\ s.active \in BOOLEAN /\ s.link \in BOOLEAN
         /\ s.sendHandshake \in BOOLEAN /\ s.initAge \in 0 .. RekeyTimeout
         /\ s.txAge \in 0 .. Keepalive
         /\ s.handshake \in [valid : BOOLEAN, initiator : BOOLEAN, id : IdOrNone]
         /\ s.slots \in [Slots -> Keypair]
         /\ s.slots.curr \in Keypair /\ s.slots.next \in Keypair /\ s.slots.prev \in Keypair
         /\ Slots = {"curr", "next", "prev"}
<1>1. s.slots \in [Slots -> Keypair]
  BY DEF Node
<1>2. s.slots.curr \in Keypair /\ s.slots.next \in Keypair /\ s.slots.prev \in Keypair
  BY <1>1 DEF Slots
<1> QED BY <1>1, <1>2 DEF Node, Slots

\* The parts of a keypair.
LEMMA KeypairParts ==
  ASSUME NEW k \in Keypair
  PROVE  /\ k.valid \in BOOLEAN /\ k.initiator \in BOOLEAN /\ k.heard \in BOOLEAN
         /\ k.keys \in Nat /\ k.age \in Nat /\ k.age <= RejectAfterTime
         /\ k.counter \in Nat /\ k.counter <= RejectAfterMessages
         /\ k.seen \subseteq Counters /\ k.taken \in [Counters -> 0 .. 2]
         /\ k.opener \in Counters \union {NoPacket}
BY Limits DEF Keypair, IdOrNone, Ages

\* The record made of its parts is a node.
LEMMA NodeMade ==
  ASSUME NEW s \in Node, NEW slots \in [Slots -> Keypair],
         NEW sendHandshake \in BOOLEAN, NEW link \in BOOLEAN
  PROVE  /\ [s EXCEPT !.slots = slots] \in Node
         /\ [s EXCEPT !.sendHandshake = sendHandshake] \in Node
         /\ [s EXCEPT !.link = link] \in Node
BY DEF Node

\* A node whose slots are as before but for what became of their keypairs.
LEMMA Narrowed ==
  ASSUME NEW s, NodeOK(s), NEW t \in Node, t.valid = s.valid, t.handshake = s.handshake,
         \A slot \in Slots : KeypairOK(t.slots[slot]) /\ Kin(t.slots[slot], s.slots[slot]),
         NextOK(t.slots.next), AskedOK(t)
  PROVE  NodeOK(t) /\ Grown(s, t, {})
<1>1. ~t.valid => \A slot \in Slots : ~t.slots[slot].valid
  BY DEF NodeOK, Kin
<1>2. \A a, b \in Slots : a # b /\ t.slots[a].valid /\ t.slots[b].valid =>
                           t.slots[a].keys # t.slots[b].keys
  BY DEF NodeOK, Kin
<1>3. \A slot \in Slots : t.handshake.valid /\ t.slots[slot].valid =>
                           t.slots[slot].keys # t.handshake.id
  BY DEF NodeOK, Kin
<1> QED BY <1>1, <1>2, <1>3 DEF NodeOK, Grown

\* One keypair in use changes, or is destroyed.
LEMMA SlotChanged ==
  ASSUME NEW s, NodeOK(s), NEW t \in Node, NEW slot \in {"curr", "prev"}, NEW k,
         KeypairOK(k), Kin(k, s.slots[slot]),
         k.valid => k.initiator = s.slots[slot].initiator /\ k.age = s.slots[slot].age,
         \A a \in Slots : t.slots[a] = IF a = slot THEN k ELSE s.slots[a],
         t.valid = s.valid, t.handshake = s.handshake, t.initAge = s.initAge
  PROVE  /\ NodeOK(t) /\ Grown(s, t, {})
         /\ LinkOK(s) /\ t.link = s.link => LinkOK(t)
         /\ t.link => LinkOK(t)
<1> s \in Node /\ slot \in Slots
  BY DEF NodeOK, Slots
<1>1. \A a \in Slots : t.slots[a] = IF a = slot THEN k ELSE s.slots[a]
  OBVIOUS
<1>2. \A a \in Slots : KeypairOK(t.slots[a]) /\ KeypairOK(s.slots[a])
  BY <1>1 DEF NodeOK
<1>3. \A a \in Slots : Kin(t.slots[a], s.slots[a])
  <2> SUFFICES ASSUME NEW a \in Slots PROVE Kin(t.slots[a], s.slots[a])
    OBVIOUS
  <2>1. CASE a = slot
    BY <1>1, <2>1
  <2>2. CASE a # slot
    <3>1. t.slots[a] = s.slots[a] /\ s.slots[a] \in Keypair
      BY <1>1, <1>2, <2>2 DEF KeypairOK
    <3> QED BY <3>1, KeypairParts DEF Kin
  <2> QED BY <2>1, <2>2
<1>4. t.slots.next = s.slots.next
  BY <1>1 DEF Slots
<1>5. NextOK(t.slots.next)
  BY <1>4 DEF NodeOK
<1>6. AskedOK(t)
  <2>1. t.slots.curr.valid =>
          /\ s.slots.curr.valid /\ t.slots.curr.age = s.slots.curr.age
          /\ t.slots.curr.initiator = s.slots.curr.initiator
    BY <1>1 DEF Slots, Kin
  <2> QED BY <1>4, <2>1 DEF NodeOK, AskedOK
<1>7. NodeOK(t) /\ Grown(s, t, {})
  BY <1>2, <1>3, <1>5, <1>6, Narrowed
<1>8. (t.slots.curr.valid => s.slots.curr.valid) /\ (t.slots.prev.valid => s.slots.prev.valid)
  BY <1>3 DEF Kin, Slots
<1> QED BY <1>1, <1>7, <1>8 DEF LinkOK

\* wireguardif_output_to_peer seals at most one packet, with a keypair in use
\* that may be sent with, and spends its counter.
LEMMA OutputOK ==
  ASSUME NEW s, NodeOK(s), NEW data \in BOOLEAN, NEW ids, ids \subseteq Ids, SendableIn(s, ids),
         NEW o, o = Output(s, data)
  PROVE  /\ NodeOK(o.state) /\ (LinkOK(s) => LinkOK(o.state))
         /\ Grown(s, o.state, {}) /\ SendableIn(o.state, ids)
         /\ SentOK(s, o.state, o.sent, {}, ids)
         /\ o.state.valid = s.valid /\ o.state.handshake = s.handshake
         /\ o.state.link = s.link
<1> DEFINE slot == SendSlot(s)
           k == s.slots[slot]
<1>1. s \in Node /\ slot \in {"curr", "prev"} /\ slot \in Slots
  BY DEF NodeOK, SendSlot, Slots
<1>2. KeypairOK(k) /\ k \in Keypair
  BY <1>1 DEF NodeOK, KeypairOK
<1> HIDE DEF slot, k
<1>3. Grown(s, s, {})
  <2>1. \A a \in Slots : Kin(s.slots[a], s.slots[a])
    BY <1>1, KeypairParts, NodeParts DEF Kin
  <2> QED BY <2>1 DEF Grown
<1>4. CASE ~Sendable(k)
  <2>1. o = [state |-> s, sent |-> {}]
    BY <1>4 DEF Output, slot, k
  <2> QED BY <1>3, <2>1 DEF SentOK
<1>5. CASE Sendable(k) /\ Spent(k)
  <2> DEFINE t == [s EXCEPT !.slots[slot] = NoKeypair]
  <2>1. o = [state |-> t, sent |-> {}]
    BY <1>5 DEF Output, slot, k
  <2>2. /\ t = [s EXCEPT !.slots = [s.slots EXCEPT ![slot] = NoKeypair]]
        /\ [s.slots EXCEPT ![slot] = NoKeypair] \in [Slots -> Keypair]
    BY <1>1, NodeParts, NoKeypairOK DEF Node, KeypairOK
  <2>3. /\ t \in Node /\ t.slots = [s.slots EXCEPT ![slot] = NoKeypair]
        /\ t.valid = s.valid /\ t.handshake = s.handshake /\ t.initAge = s.initAge
        /\ t.link = s.link
    BY <1>1, <2>2 DEF Node
  <2> HIDE DEF t
  <2>4. /\ KeypairOK(NoKeypair) /\ Kin(NoKeypair, s.slots[slot])
        /\ NoKeypair.valid => /\ NoKeypair.initiator = s.slots[slot].initiator
                               /\ NoKeypair.age = s.slots[slot].age
    BY NoKeypairOK DEF Kin
  <2>9. \A a \in Slots : t.slots[a] = IF a = slot THEN NoKeypair ELSE s.slots[a]
    BY <1>1, <2>3, NodeParts
  <2>5. NodeOK(t) /\ Grown(s, t, {}) /\ (LinkOK(s) => LinkOK(t))
    BY <1>1, <2>3, <2>4, <2>9, SlotChanged
  <2>6. SendableIn(t, ids)
    BY <2>9, NoKeypairOK DEF SendableIn, Sendable
  <2>7. SentOK(s, t, {}, {}, ids)
    BY DEF SentOK
  <2>8. o.state = t /\ o.sent = {}
    BY <2>1
  <2> QED BY <2>3, <2>5, <2>6, <2>7, <2>8
<1>6. CASE Sendable(k) /\ ~Spent(k)
  <2> DEFINE c == k.counter + 1
             j == [k EXCEPT !.counter = c]
             ask == \/ s.sendHandshake
                    \/ k.counter + 1 >= RekeyAfterMessages
                    \/ k.initiator /\ k.age >= RekeyAfterTime
             p == [id |-> k.keys, counter |-> k.counter, data |-> data]
             slots == [s.slots EXCEPT ![slot] = j]
             t == [s EXCEPT !.slots = slots, !.txAge = 0, !.sendHandshake = ask]
  <2>1. /\ k.valid /\ k.counter \in Nat /\ k.counter < RejectAfterMessages
        /\ k.keys \in ids /\ k.keys \in Ids
    BY <1>1, <1>2, <1>6, KeypairParts, Limits DEF Sendable, Spent, SendableIn, k
  <2>15. c \in 0 .. RejectAfterMessages
    BY <2>1, Limits
  <2> HIDE DEF c
  <2>2. /\ j \in Keypair /\ j.valid = k.valid /\ j.keys = k.keys /\ j.initiator = k.initiator
        /\ j.age = k.age /\ j.counter = c /\ j.heard = k.heard
        /\ j.taken = k.taken /\ j.seen = k.seen /\ j.opener = k.opener
    BY <1>2, <2>15 DEF Keypair
  <2>3. KeypairOK(j)
    BY <1>2, <2>2 DEF KeypairOK
  <2>4. o = [state |-> t, sent |-> {p}]
    <3>1. [s EXCEPT !.slots[slot].counter = @ + 1, !.txAge = 0,
                    !.sendHandshake = \/ @
                                      \/ k.counter + 1 >= RekeyAfterMessages
                                      \/ k.initiator /\ k.age >= RekeyAfterTime] = t
      BY <1>1 DEF Node, k, c, j, slots
    <3> QED BY <1>6, <3>1 DEF Output, slot, k
  <2>5. p \in Packet
    BY <2>1, Limits DEF Packet, Counters
  <2>6. ask \in BOOLEAN
    BY <1>1, <1>2, NodeParts, KeypairParts
  <2> HIDE DEF ask, j
  <2>7. slots \in [Slots -> Keypair]
    BY <1>1, <2>2, NodeParts
  <2> HIDE DEF slots
  <2>16. 0 \in 0 .. Keepalive
    BY Limits
  <2>8. /\ t \in Node /\ t.slots = slots
        /\ t.valid = s.valid /\ t.handshake = s.handshake /\ t.initAge = s.initAge
        /\ t.link = s.link
    BY <1>1, <2>6, <2>7, <2>16 DEF Node
  <2> HIDE DEF t
  <2>9. /\ KeypairOK(j) /\ Kin(j, s.slots[slot])
        /\ j.valid => j.initiator = s.slots[slot].initiator /\ j.age = s.slots[slot].age
    BY <2>1, <2>2, <2>3 DEF Kin, k, c
  <2>10. \A a \in Slots : t.slots[a] = IF a = slot THEN j ELSE s.slots[a]
    BY <1>1, <2>8, NodeParts DEF slots
  <2>14. NodeOK(t) /\ Grown(s, t, {}) /\ (LinkOK(s) => LinkOK(t))
    BY <1>1, <2>8, <2>9, <2>10, SlotChanged
  <2>11. SendableIn(t, ids)
    <3> SUFFICES ASSUME NEW a \in Slots, Sendable(t.slots[a]) PROVE t.slots[a].keys \in ids
      BY DEF SendableIn
    <3>1. CASE a = slot
      BY <2>1, <2>2, <2>10, <3>1
    <3>2. CASE a # slot
      BY <2>10, <3>2 DEF SendableIn
    <3> QED BY <3>1, <3>2
  <2>12. SentOK(s, t, {p}, {}, ids)
    <3>1. p.id = k.keys /\ p.counter = k.counter
      OBVIOUS
    <3>2. \A a \in Slots : t.slots[a].valid /\ t.slots[a].keys = p.id => p.counter < t.slots[a].counter
      <4> SUFFICES ASSUME NEW a \in Slots, t.slots[a].valid, t.slots[a].keys = p.id
                   PROVE  p.counter < t.slots[a].counter
        OBVIOUS
      <4>1. a = slot
        BY <1>1, <2>1, <2>10, <3>1 DEF NodeOK, k
      <4> QED BY <2>1, <2>2, <2>10, <3>1, <4>1 DEF c
    <3> HIDE DEF p
    <3> QED BY <1>1, <2>1, <2>5, <3>1, <3>2 DEF SentOK, k
  <2>13. o.state = t /\ o.sent = {p}
    BY <2>4
  <2> HIDE DEF p
  <2> QED BY <2>8, <2>14, <2>11, <2>12, <2>13
<1> QED BY <1>4, <1>5, <1>6

\* k is the keypair j still.
Same(k, j) == k.valid => j.valid /\ k.keys = j.keys /\ k.counter = j.counter

\* The session keys of t are those of s, with the same counters, or new.
Renewed(s, t, new) ==
  \A slot \in Slots : t.slots[slot].valid =>
    \/ t.slots[slot].keys \in new
    \/ \E a \in Slots : Same(t.slots[slot], s.slots[a])

\* What is sent after new sessions started, or old ones ended.
LEMMA Composed ==
  ASSUME NEW s, NEW u, NEW t, NEW sent, NEW new, NEW ids,
         Renewed(s, u, new), Grown(u, t, {}), SentOK(u, t, sent, {}, ids)
  PROVE  Grown(s, t, new) /\ SentOK(s, t, sent, new, ids)
<1>1. Grown(s, t, new)
  BY DEF Renewed, Grown, Kin, Same
<1>2. ASSUME NEW p \in sent
      PROVE  \/ p.id \in new
             \/ \E a \in Slots : /\ s.slots[a].valid /\ s.slots[a].keys = p.id
                                 /\ s.slots[a].counter = p.counter
  <2>1. PICK a \in Slots : /\ u.slots[a].valid /\ u.slots[a].keys = p.id
                           /\ u.slots[a].counter = p.counter
    BY DEF SentOK
  <2> QED BY <2>1 DEF Renewed, Same
<1> QED BY <1>1, <1>2 DEF SentOK

\* wireguard_start_session with an id that no keypair of the node has yet.
LEMMA StartSessionOK ==
  ASSUME NEW s, NodeOK(s), s.valid, NEW id \in Ids, NEW initiator \in BOOLEAN,
         \A slot \in Slots : s.slots[slot].valid => s.slots[slot].keys # id,
         NEW ids, SendableIn(s, ids),
         NEW u, u = StartSession(s, id, initiator)
  PROVE  /\ NodeOK(u) /\ Renewed(s, u, {id})
         /\ u.valid = s.valid /\ ~u.handshake.valid /\ u.link = s.link
         /\ ~initiator => (LinkOK(s) => LinkOK(u)) /\ SendableIn(u, ids)
         /\ SendableIn(u, ids \union {id})
<1> DEFINE k == NewKeypair(id, initiator)
           slots == AddNewKeypair(s.slots, k)
<1>1. s \in Node /\ s.slots \in [Slots -> Keypair]
  BY NodeParts DEF NodeOK
<1>2. /\ KeypairOK(k) /\ k \in Keypair /\ (~initiator => NextOK(k))
      /\ k.keys = id /\ k.valid /\ k.age = 0 /\ k.counter = 0 /\ k.initiator = initiator
      /\ ~k.heard
  BY NewKeypairOK DEF KeypairOK
<1>3. u = [s EXCEPT !.slots = slots, !.handshake = NoHandshake]
  BY <1>1 DEF StartSession, Node
<1> HIDE DEF k
<1>4. /\ slots \in [Slots -> Keypair]
      /\ initiator =>
           /\ slots.curr = k
           /\ slots.next = IF s.slots.next.valid THEN NoKeypair ELSE s.slots.next
           /\ slots.prev = IF s.slots.next.valid THEN s.slots.next ELSE s.slots.curr
      /\ ~initiator => slots.curr = s.slots.curr /\ slots.next = k /\ slots.prev = NoKeypair
  BY <1>1, <1>2, AddNewKeypairSlots
<1> HIDE DEF slots
<1>5. /\ u \in Node /\ u.slots = slots /\ u.handshake = NoHandshake
      /\ u.valid = s.valid /\ u.link = s.link /\ u.initAge = s.initAge
  <2>1. NoHandshake \in [valid : BOOLEAN, initiator : BOOLEAN, id : IdOrNone]
    BY DEF NoHandshake, NoId, IdOrNone
  <2> QED BY <1>1, <1>3, <1>4, <2>1 DEF Node
<1>6. \A a \in Slots : slots[a] \in {k, NoKeypair, s.slots.curr, s.slots.next}
  BY <1>4, NodeParts DEF Slots
<1>7. \A a \in Slots : KeypairOK(slots[a])
  BY <1>2, <1>6, NoKeypairOK DEF NodeOK, Slots
<1>8. NextOK(slots.next)
  <2>1. initiator => slots.next \in {NoKeypair, s.slots.next}
    BY <1>4
  <2> QED BY <1>2, <1>4, <2>1, NoKeypairOK DEF NodeOK
<1>9. ~NoKeypair.valid /\ s.slots.curr \in Keypair /\ s.slots.next \in Keypair
  BY <1>1, NoKeypairOK DEF Slots
<1>10. s.slots.curr.valid /\ s.slots.next.valid => s.slots.curr.keys # s.slots.next.keys
  BY DEF NodeOK, Slots
<1>11. \A j \in {s.slots.curr, s.slots.next} : j.valid => j.keys # id
  BY DEF Slots
<1>12. \A a, b \in Slots : a # b /\ slots[a].valid /\ slots[b].valid => slots[a].keys # slots[b].keys
  <2>1. CASE initiator
    <3>1. slots.next.valid => ~s.slots.next.valid
      BY <1>4, <1>9, <2>1
    <3> QED BY <1>2, <1>4, <1>9, <1>10, <1>11, <2>1, <3>1 DEF Slots
  <2>2. CASE ~initiator
    BY <1>2, <1>4, <1>9, <1>10, <1>11, <2>2 DEF Slots
  <2> QED BY <2>1, <2>2
<1>13. AskedOK(u)
  <2>1. CASE initiator
    <3>1. u.slots.curr.initiator /\ ~u.slots.next.valid
      BY <1>2, <1>4, <1>5, <1>9, <2>1
    <3> QED BY <3>1 DEF AskedOK
  <2>2. CASE ~initiator
    <3>1. u.slots.next.valid /\ u.slots.next.age = 0 /\ u.initAge \in Nat
      BY <1>1, <1>2, <1>4, <1>5, <2>2, NodeParts, Limits
    <3> QED BY <3>1 DEF AskedOK
  <2> QED BY <2>1, <2>2
<1>14. ~u.handshake.valid
  BY <1>5 DEF NoHandshake
<1>15. NodeOK(u)
  BY <1>5, <1>7, <1>8, <1>12, <1>13, <1>14 DEF NodeOK
<1>16. Renewed(s, u, {id})
  <2> SUFFICES ASSUME NEW a \in Slots, slots[a].valid, slots[a].keys # id
               PROVE  \E b \in Slots : Same(slots[a], s.slots[b])
    BY <1>5 DEF Renewed
  <2>1. slots[a] \in {s.slots.curr, s.slots.next}
    BY <1>2, <1>6, <1>9
  <2>2. \A j \in Keypair : Same(j, j)
    BY KeypairParts DEF Same
  <2>3. Same(slots[a], slots[a]) /\ "curr" \in Slots /\ "next" \in Slots
    BY <1>4, <2>2 DEF Slots
  <2> QED BY <2>1, <2>3
<1>17. ~initiator => (LinkOK(s) => LinkOK(u))
  BY <1>4, <1>5, <1>9 DEF LinkOK
<1>18. ASSUME NEW a \in Slots, Sendable(slots[a])
       PROVE  slots[a].keys \in ids \/ (initiator /\ slots[a].keys = id)
  <2>1. CASE slots[a] = k
    BY <1>2, <1>18, <2>1 DEF Sendable
  <2>2. CASE slots[a] # k
    BY <1>6, <1>9, <1>18, <2>2 DEF Sendable, SendableIn, Slots
  <2> QED BY <2>1, <2>2
<1>19. SendableIn(u, ids \union {id}) /\ (~initiator => SendableIn(u, ids))
  BY <1>5, <1>18 DEF SendableIn
<1> QED BY <1>5, <1>14, <1>15, <1>16, <1>17, <1>19

\* A packet received with curr or prev.
LEMMA DecryptInUseOK ==
  ASSUME NEW s, NodeOK(s), NEW slot \in {"curr", "prev"}, NEW p \in Packet,
         s.slots[slot].valid, NEW ids, SendableIn(s, ids), s.slots[slot].keys \in ids,
         NEW t, t = DecryptInUse(s, slot, p)
  PROVE  /\ NodeOK(t) /\ LinkOK(t) /\ Grown(s, t, {}) /\ SendableIn(t, ids)
         /\ t.handshake = s.handshake
<1> DEFINE k == s.slots[slot]
           ask == k.initiator /\ Expired(k.age, RejectAfterTime - Keepalive - RekeyTimeout)
           c == p.counter
           fresh == p.data /\ c \notin k.seen
           j == [k EXCEPT !.heard = TRUE]
           seen == k.seen \union {c}
           taken == [k.taken EXCEPT ![c] = @ + 1]
           m == [j EXCEPT !.seen = seen, !.taken = taken]
<1>1. /\ s \in Node /\ slot \in Slots /\ KeypairOK(k) /\ k \in Keypair /\ k.valid
      /\ s.slots \in [Slots -> Keypair] /\ c \in Counters /\ p.data \in BOOLEAN
  BY NodeParts DEF NodeOK, Slots, KeypairOK, Packet
<1> HIDE DEF c
<1>2. k.taken \in [Counters -> 0 .. 2] /\ k.seen \subseteq Counters
  BY <1>1, KeypairParts
<1>3. fresh => k.taken[c] \in 0 .. 1
  BY <1>1, <1>2 DEF KeypairOK
<1>4. fresh => taken \in [Counters -> 0 .. 2]
  <2>1. SUFFICES ASSUME fresh PROVE taken \in [Counters -> 0 .. 2]
    OBVIOUS
  <2> DEFINE next == k.taken[c] + 1
  <2>2. next \in 0 .. 2
    BY <1>3, <2>1
  <2>3. taken = [k.taken EXCEPT ![c] = next]
    OBVIOUS
  <2> HIDE DEF next
  <2> QED BY <1>1, <1>2, <2>2, <2>3
<1>5. fresh => \A d \in Counters : taken[d] = k.taken[d] + (IF d = c THEN 1 ELSE 0)
  <2>1. \A d \in Counters : k.taken[d] \in 0 .. 2
    BY <1>2
  <2> QED BY <1>1, <1>2, <2>1
<1>6. seen \subseteq Counters
  BY <1>1, <1>2
<1> HIDE DEF k, seen, taken
<1>7. /\ j \in Keypair /\ j.seen = k.seen /\ j.taken = k.taken /\ j.opener = k.opener
      /\ j.valid = k.valid /\ j.keys = k.keys /\ j.initiator = k.initiator
      /\ j.age = k.age /\ j.counter = k.counter
  BY <1>1 DEF Keypair
<1>8. KeypairOK(j)
  BY <1>1, <1>7 DEF KeypairOK
<1> HIDE DEF j
<1>9. fresh => /\ m \in Keypair /\ m.seen = seen /\ m.taken = taken /\ m.opener = k.opener
               /\ m.valid = k.valid /\ m.keys = k.keys /\ m.initiator = k.initiator
               /\ m.age = k.age /\ m.counter = k.counter
  BY <1>4, <1>6, <1>7 DEF Keypair
<1> HIDE DEF m
<1>10. fresh => KeypairOK(m)
  <2>1. SUFFICES ASSUME fresh, NEW d \in Counters
                 PROVE  taken[d] <= (IF d \in seen THEN 1 ELSE 0) + (IF d = k.opener THEN 1 ELSE 0)
    BY <1>1, <1>9 DEF KeypairOK
  <2>2. k.taken[d] \in 0 .. 2
    BY <1>2
  <2>3. k.taken[d] <= (IF d \in k.seen THEN 1 ELSE 0) + (IF d = k.opener THEN 1 ELSE 0)
    BY <1>1 DEF KeypairOK
  <2>4. CASE d = c
    BY <1>5, <2>1, <2>2, <2>3, <2>4 DEF seen
  <2>5. CASE d # c
    BY <1>5, <2>1, <2>2, <2>3, <2>5 DEF seen
  <2> QED BY <2>4, <2>5
<1> DEFINE e == IF fresh THEN m ELSE j
           slots == [s.slots EXCEPT ![slot] = e]
           send == s.sendHandshake \/ ask
<1>11. /\ KeypairOK(e) /\ e \in Keypair /\ e.valid = k.valid /\ e.keys = k.keys
       /\ e.initiator = k.initiator /\ e.age = k.age /\ e.counter = k.counter
  BY <1>7, <1>8, <1>9, <1>10
<1>12. t = [s EXCEPT !.slots = slots, !.link = TRUE, !.sendHandshake = send]
  <2> DEFINE h == [s EXCEPT !.slots = [s.slots EXCEPT ![slot] = j], !.link = TRUE,
                            !.sendHandshake = send]
  <2>1. h = [s EXCEPT !.slots[slot].heard = TRUE, !.link = TRUE, !.sendHandshake = @ \/ ask]
    BY <1>1 DEF Node, j, k
  <2>2. t = IF p.data THEN Taken(h, slot, c) ELSE h
    BY <2>1 DEF DecryptInUse, c, k
  <2>3. h.slots[slot] = j
    BY <1>1, <1>7 DEF Node
  <2>4. CASE fresh
    <3>1. t = [h EXCEPT !.slots[slot].seen = @ \union {c}, !.slots[slot].taken[c] = @ + 1]
      BY <1>7, <2>2, <2>3, <2>4 DEF Taken
    <3> DEFINE g == [h EXCEPT !.slots = [h.slots EXCEPT ![slot] = [j EXCEPT !.seen = seen]]]
    <3>2. h \in Node /\ h.slots = [s.slots EXCEPT ![slot] = j]
      <4>1. [s.slots EXCEPT ![slot] = j] \in [Slots -> Keypair] /\ send \in BOOLEAN
        BY <1>1, <1>7, NodeParts
      <4> HIDE DEF send
      <4> QED BY <1>1, <4>1 DEF Node
    <3> HIDE DEF h
    <3>3. [h EXCEPT !.slots[slot].seen = @ \union {c}] = g
      BY <1>1, <1>7, <2>3, <3>2 DEF seen, Node
    <3>4. g.slots = [h.slots EXCEPT ![slot] = [j EXCEPT !.seen = seen]]
      BY <3>2 DEF Node
    <3>5. g.slots[slot] = [j EXCEPT !.seen = seen] /\ g.slots[slot].taken = k.taken
      BY <1>1, <1>7, <3>2, <3>4 DEF Keypair
    <3>6. t = [g EXCEPT !.slots[slot].taken[c] = h.slots[slot].taken[c] + 1]
      BY <3>1, <3>3
    <3>7. t = [g EXCEPT !.slots = [g.slots EXCEPT ![slot] = [g.slots[slot] EXCEPT !.taken = taken]]]
      BY <1>1, <1>7, <2>3, <3>2, <3>4, <3>5, <3>6 DEF taken, Node
    <3>8. [g.slots[slot] EXCEPT !.taken = taken] = m
      BY <1>7, <3>5 DEF m, Keypair
    <3>9. [g.slots EXCEPT ![slot] = m] = [s.slots EXCEPT ![slot] = m]
      BY <1>1, <3>2, <3>4
    <3>10. t = [g EXCEPT !.slots = slots]
      BY <2>4, <3>7, <3>8, <3>9
    <3> HIDE DEF slots
    <3>11. t = [h EXCEPT !.slots = slots]
      BY <3>2, <3>10 DEF Node
    <3> HIDE DEF g, send
    <3> QED BY <1>1, <3>11 DEF Node, h
  <2>5. CASE ~fresh
    <3>1. t = h
      BY <1>1, <1>7, <2>2, <2>3, <2>5 DEF Taken
    <3> QED BY <2>5, <3>1
  <2> QED BY <2>4, <2>5
<1> HIDE DEF e
<1>13. slots \in [Slots -> Keypair]
  BY <1>1, <1>11
<1>14. send \in BOOLEAN
  BY <1>1, NodeParts
<1> HIDE DEF slots, send
<1>15. /\ t \in Node /\ t.slots = slots /\ t.link = TRUE
       /\ t.valid = s.valid /\ t.handshake = s.handshake /\ t.initAge = s.initAge
  BY <1>1, <1>12, <1>13, <1>14 DEF Node
<1>16. \A a \in Slots : t.slots[a] = IF a = slot THEN e ELSE s.slots[a]
  BY <1>1, <1>15 DEF slots
<1>17. /\ Kin(e, s.slots[slot])
       /\ e.valid => e.initiator = s.slots[slot].initiator /\ e.age = s.slots[slot].age
  BY <1>1, <1>11, KeypairParts DEF Kin, k
<1>18. NodeOK(t) /\ Grown(s, t, {}) /\ LinkOK(t)
  BY <1>11, <1>15, <1>16, <1>17, SlotChanged
<1>19. SendableIn(t, ids)
  <2> SUFFICES ASSUME NEW a \in Slots, Sendable(t.slots[a]) PROVE t.slots[a].keys \in ids
    BY DEF SendableIn
  <2>1. CASE a = slot
    BY <1>11, <1>16, <2>1 DEF k
  <2>2. CASE a # slot
    BY <1>16, <2>2 DEF SendableIn
  <2> QED BY <2>1, <2>2
<1> QED BY <1>15, <1>18, <1>19

\* A packet received with next.
LEMMA DecryptNextOK ==
  ASSUME NEW s, NodeOK(s), NEW p \in Packet,
         s.slots.next.valid, NEW ids, SendableIn(s, ids), s.slots.next.keys \in ids,
         NEW t, t = DecryptNext(s, p)
  PROVE  /\ NodeOK(t) /\ LinkOK(t) /\ Grown(s, t, {}) /\ SendableIn(t, ids)
         /\ t.handshake = s.handshake
<1> DEFINE j == s.slots.next
           c == p.counter
           once == IF p.data THEN 1 ELSE 0
           taken == [j.taken EXCEPT ![c] = once]
           k == [j EXCEPT !.heard = TRUE, !.opener = c, !.taken = taken]
           before == [s.slots EXCEPT !.next = k]
           slots == Promote(before)
<1>1. /\ s \in Node /\ s.slots \in [Slots -> Keypair] /\ c \in Counters /\ once \in 0 .. 1
      /\ KeypairOK(j) /\ j \in Keypair /\ NextOK(j) /\ s.slots.curr \in Keypair
      /\ KeypairOK(s.slots.curr)
  BY NodeParts DEF NodeOK, Slots, KeypairOK, Packet
<1>2. t = [s EXCEPT !.slots = slots, !.link = TRUE]
  <2>1. [j EXCEPT !.heard = TRUE, !.opener = c, !.taken[c] = once] = k
    BY <1>1 DEF Keypair
  <2>2. t = [s EXCEPT !.slots = Promote([s.slots EXCEPT !.next =
               [j EXCEPT !.heard = TRUE, !.opener = c, !.taken[c] = once]]), !.link = TRUE]
    BY <1>1 DEF DecryptNext, Node
  <2> HIDE DEF k
  <2> QED BY <2>1, <2>2
<1> HIDE DEF c, once
<1>3. j.taken \in [Counters -> 0 .. 2] /\ j.opener = NoPacket
  BY <1>1, KeypairParts DEF NextOK
<1>4. /\ taken \in [Counters -> 0 .. 2]
      /\ \A d \in Counters : taken[d] = IF d = c THEN once ELSE j.taken[d]
  BY <1>1, <1>3
<1> HIDE DEF j, taken
<1>5. /\ k \in Keypair /\ k.valid = j.valid /\ k.keys = j.keys /\ k.age = j.age
      /\ k.counter = j.counter /\ k.initiator = j.initiator /\ k.seen = j.seen
      /\ k.taken = taken /\ k.opener = c
  BY <1>1, <1>4 DEF Keypair
<1> HIDE DEF k
<1>6. KeypairOK(k)
  <2> SUFFICES ASSUME NEW d \in Counters
               PROVE  taken[d] <= (IF d \in k.seen THEN 1 ELSE 0) + (IF d = c THEN 1 ELSE 0)
    BY <1>1, <1>5 DEF KeypairOK
  <2>1. CASE d = c
    BY <1>1, <1>4, <2>1
  <2>2. CASE d # c
    <3>1. d # NoPacket
      BY Limits DEF Counters, NoPacket
    <3>2. j.taken[d] <= (IF d \in j.seen THEN 1 ELSE 0) + (IF d = j.opener THEN 1 ELSE 0)
      BY <1>1 DEF KeypairOK
    <3> QED BY <1>3, <1>4, <1>5, <2>2, <3>1, <3>2
  <2> QED BY <2>1, <2>2
<1>7. before \in [Slots -> Keypair] /\ before.next = k /\ before.curr = s.slots.curr
  BY <1>1, <1>5 DEF Slots
<1> HIDE DEF before
<1>8. /\ slots \in [Slots -> Keypair]
      /\ slots.curr = k /\ slots.next = NoKeypair /\ slots.prev = s.slots.curr
  BY <1>7, PromoteSlots
<1> HIDE DEF slots
<1>9. /\ t \in Node /\ t.slots = slots /\ t.link = TRUE
      /\ t.valid = s.valid /\ t.handshake = s.handshake /\ t.initAge = s.initAge
  BY <1>1, <1>2, <1>8 DEF Node
<1>10. ~NoKeypair.valid /\ KeypairOK(NoKeypair) /\ NextOK(NoKeypair)
  BY NoKeypairOK
<1>11. \A a \in Slots : KeypairOK(t.slots[a])
  BY <1>1, <1>6, <1>8, <1>9, <1>10 DEF Slots
<1>12. \A a \in Slots : ~t.valid => ~t.slots[a].valid
  BY <1>5, <1>8, <1>9, <1>10 DEF NodeOK, Slots, j
<1>13. k.valid /\ s.slots.curr.valid => k.keys # s.slots.curr.keys
  BY <1>5 DEF NodeOK, Slots, j
<1>14. \A a, b \in Slots : a # b /\ t.slots[a].valid /\ t.slots[b].valid =>
                             t.slots[a].keys # t.slots[b].keys
  BY <1>8, <1>9, <1>10, <1>13 DEF Slots
<1>15. \A a \in Slots : t.handshake.valid /\ t.slots[a].valid =>
                          t.slots[a].keys # t.handshake.id
  BY <1>5, <1>8, <1>9, <1>10 DEF NodeOK, Slots, j
<1>16. AskedOK(t)
  <2>1. t.slots.curr.valid = j.valid /\ t.slots.curr.age = j.age /\ ~t.slots.next.valid
    BY <1>5, <1>8, <1>9, <1>10
  <2> QED BY <1>9, <2>1 DEF NodeOK, AskedOK, j
<1>17. NodeOK(t) /\ LinkOK(t)
  BY <1>8, <1>9, <1>10, <1>11, <1>12, <1>14, <1>15, <1>16 DEF NodeOK, LinkOK
<1>18. Kin(k, j) /\ Kin(s.slots.curr, s.slots.curr) /\ Kin(NoKeypair, s.slots.curr)
  BY <1>1, <1>5, <1>10, KeypairParts DEF Kin
<1>19. Grown(s, t, {})
  <2> SUFFICES ASSUME NEW a \in Slots PROVE \E b \in Slots : Kin(t.slots[a], s.slots[b])
    BY DEF Grown
  <2>1. t.slots[a] = k \/ Kin(t.slots[a], s.slots.curr)
    BY <1>8, <1>9, <1>18 DEF Slots
  <2>2. "curr" \in Slots /\ "next" \in Slots
    BY DEF Slots
  <2> QED BY <1>18, <2>1, <2>2 DEF j
<1>20. SendableIn(t, ids)
  <2> SUFFICES ASSUME NEW a \in Slots, Sendable(t.slots[a]) PROVE t.slots[a].keys \in ids
    BY DEF SendableIn
  <2>1. a = "curr" \/ t.slots[a] = s.slots.curr
    BY <1>8, <1>9, <1>10 DEF Slots, Sendable
  <2>2. a = "curr" => t.slots[a].keys \in ids
    BY <1>5, <1>8, <1>9 DEF j
  <2> QED BY <2>1, <2>2 DEF SendableIn, Slots
<1> QED BY <1>9, <1>17, <1>19, <1>20

\* A keypair is destroyed: next only if it is spent.
LEMMA DestroyedOK ==
  ASSUME NEW s, NodeOK(s), NEW slot \in Slots, slot = "next" => Spent(s.slots[slot]),
         NEW ids, SendableIn(s, ids),
         NEW t, t = [s EXCEPT !.slots[slot] = NoKeypair]
  PROVE  /\ NodeOK(t) /\ (LinkOK(s) => LinkOK(t)) /\ Renewed(s, t, {}) /\ Grown(s, t, {})
         /\ SendableIn(t, ids) /\ t.handshake = s.handshake /\ t.valid = s.valid
<1> DEFINE slots == [s.slots EXCEPT ![slot] = NoKeypair]
<1>1. s \in Node /\ s.slots \in [Slots -> Keypair]
  BY NodeParts DEF NodeOK
<1>2. ~NoKeypair.valid /\ KeypairOK(NoKeypair) /\ NextOK(NoKeypair) /\ NoKeypair \in Keypair
  BY NoKeypairOK DEF KeypairOK
<1>3. t = [s EXCEPT !.slots = slots]
  BY <1>1 DEF Node
<1>4. /\ slots \in [Slots -> Keypair]
      /\ \A a \in Slots : slots[a] = IF a = slot THEN NoKeypair ELSE s.slots[a]
  BY <1>1, <1>2
<1> HIDE DEF slots
<1>5. /\ t \in Node /\ t.slots = slots /\ t.link = s.link
      /\ t.valid = s.valid /\ t.handshake = s.handshake /\ t.initAge = s.initAge
  BY <1>1, <1>3, <1>4 DEF Node
<1>6. \A a \in Slots : ~t.slots[a].valid \/ t.slots[a] = s.slots[a]
  BY <1>2, <1>4, <1>5
<1>7. \A a \in Slots : KeypairOK(t.slots[a])
  BY <1>2, <1>4, <1>5 DEF NodeOK
<1>8. \A a \in Slots : Kin(t.slots[a], s.slots[a]) /\ Same(t.slots[a], s.slots[a])
  BY <1>1, <1>6, KeypairParts DEF Kin, Same
<1>9. NextOK(t.slots.next)
  BY <1>2, <1>4, <1>5 DEF NodeOK, Slots
<1>10. AskedOK(t)
  <2>1. CASE slot = "next"
    <3>1. /\ s.slots.next.counter < RejectAfterMessages
          /\ s.slots.next.age \in Nat /\ s.slots.next.valid \in BOOLEAN /\ s.initAge \in Nat
      BY <1>1, Limits, KeypairParts, NodeParts DEF NodeOK, NextOK, Slots
    <3>2. s.slots.next.age >= RejectAfterTime
      BY <2>1, <3>1, KeypairParts, Limits, <1>1 DEF Spent, Slots
    <3>3. s.initAge < RekeyTimeout /\ ~s.handshake.valid => ~s.slots.next.valid
      BY <3>1, <3>2, Limits DEF NodeOK, AskedOK
    <3>4. t.slots.curr = s.slots.curr /\ ~t.slots.next.valid
      BY <1>2, <1>4, <1>5, <2>1 DEF Slots
    <3> QED BY <1>5, <3>3, <3>4 DEF NodeOK, AskedOK
  <2>2. CASE slot # "next"
    <3>1. t.slots.next = s.slots.next
      BY <1>4, <1>5, <2>2 DEF Slots
    <3>2. ~t.slots.curr.valid \/ t.slots.curr = s.slots.curr
      BY <1>6 DEF Slots
    <3> QED BY <1>5, <3>1, <3>2 DEF NodeOK, AskedOK
  <2> QED BY <2>1, <2>2
<1>11. NodeOK(t) /\ Grown(s, t, {})
  BY <1>5, <1>7, <1>8, <1>9, <1>10, Narrowed
<1>12. LinkOK(s) => LinkOK(t)
  BY <1>5, <1>6 DEF LinkOK, Slots
<1>13. Renewed(s, t, {})
  BY <1>8 DEF Renewed
<1>14. SendableIn(t, ids)
  BY <1>6 DEF SendableIn, Sendable
<1> QED BY <1>5, <1>11, <1>12, <1>13, <1>14

\* A node without keypairs.
LEMMA NoSlotsOK ==
  ASSUME NEW s, NEW ids, NEW t \in Node, t.slots = NoSlots
  PROVE  /\ NodeOK(t) /\ LinkOK(t) /\ Renewed(s, t, {}) /\ Grown(s, t, {})
         /\ SendableIn(t, ids)
<1>1. \A a \in Slots : t.slots[a] = NoKeypair
  BY DEF NoSlots
<1>2. t.slots.curr = NoKeypair /\ t.slots.next = NoKeypair /\ t.slots.prev = NoKeypair
  BY <1>1 DEF Slots
<1> QED BY <1>1, <1>2, NoKeypairOK
        DEF NodeOK, LinkOK, AskedOK, Renewed, Grown, SendableIn, Sendable

\* Only the handshake, the link and the timestamps change.
LEMMA SlotsKept ==
  ASSUME NEW s, NodeOK(s), NEW t \in Node, t.slots = s.slots, t.valid = s.valid,
         \/ t.handshake = s.handshake /\ t.initAge = s.initAge
         \/ /\ t.handshake.valid
            /\ \A slot \in Slots : s.slots[slot].valid => s.slots[slot].keys # t.handshake.id
  PROVE  NodeOK(t) /\ Renewed(s, t, {})
<1>1. Renewed(s, t, {})
  <2>1. \A slot \in Slots : Same(t.slots[slot], s.slots[slot])
    BY NodeParts, KeypairParts DEF NodeOK, Same
  <2> QED BY <2>1 DEF Renewed
<1>2. CASE t.handshake = s.handshake /\ t.initAge = s.initAge
  BY <1>1, <1>2 DEF NodeOK, AskedOK
<1>3. CASE t.handshake.valid /\ \A slot \in Slots : s.slots[slot].valid =>
                                  s.slots[slot].keys # t.handshake.id
  BY <1>1, <1>3 DEF NodeOK, AskedOK
<1> QED BY <1>2, <1>3

\* What the timer does before it looks at the handshake.
LEMMA MaintainedOK ==
  ASSUME NEW s, NodeOK(s), LinkOK(s), NEW ids, ids \subseteq Ids, SendableIn(s, ids),
         NEW o, o = Maintained(s)
  PROVE  /\ NodeOK(o.state) /\ LinkOK(o.state)
         /\ Grown(s, o.state, {}) /\ SendableIn(o.state, ids)
         /\ SentOK(s, o.state, o.sent, {}, ids)
         /\ o.state.valid = s.valid /\ o.state.handshake = s.handshake
<1> DEFINE r == IF ShouldReset(s) THEN [s EXCEPT !.slots = NoSlots] ELSE s
           d == IF r.slots.curr.valid /\ Spent(r.slots.curr)
                  THEN [r EXCEPT !.slots.curr = NoKeypair] ELSE r
<1>1. s \in Node
  BY DEF NodeOK
<1>2. Renewed(s, s, {})
  BY <1>1, SlotsKept
<1>3. /\ NodeOK(r) /\ LinkOK(r) /\ Renewed(s, r, {}) /\ SendableIn(r, ids)
      /\ r.valid = s.valid /\ r.handshake = s.handshake
  <2>1. CASE ShouldReset(s)
    <3>1. NoSlots \in [Slots -> Keypair]
      BY NoKeypairOK DEF NoSlots, KeypairOK
    <3>2. /\ r \in Node /\ r.slots = NoSlots /\ r.valid = s.valid
          /\ r.handshake = s.handshake
      BY <1>1, <2>1, <3>1 DEF Node
    <3> HIDE DEF r
    <3> QED BY <3>2, NoSlotsOK
  <2>2. CASE ~ShouldReset(s)
    <3>1. r = s
      BY <2>2
    <3> HIDE DEF r
    <3> QED BY <1>2, <3>1
  <2> QED BY <2>1, <2>2
<1> HIDE DEF r
<1>4. /\ NodeOK(d) /\ LinkOK(d) /\ Renewed(r, d, {}) /\ SendableIn(d, ids)
      /\ d.valid = s.valid /\ d.handshake = s.handshake
  <2>1. CASE r.slots.curr.valid /\ Spent(r.slots.curr)
    <3>1. d = [r EXCEPT !.slots["curr"] = NoKeypair]
      BY <2>1
    <3> HIDE DEF d
    <3>2. "curr" \in Slots /\ "curr" # "next"
      BY DEF Slots
    <3> QED BY <1>3, <3>1, <3>2, DestroyedOK
  <2>2. CASE ~(r.slots.curr.valid /\ Spent(r.slots.curr))
    <3>1. d = r
      BY <2>2
    <3>2. r \in Node
      BY <1>3 DEF NodeOK
    <3>3. Renewed(r, r, {})
      BY <1>3, <3>2, SlotsKept
    <3> HIDE DEF d
    <3> QED BY <1>3, <3>1, <3>3
  <2> QED BY <2>1, <2>2
<1>5. o = IF ShouldSendKeepalive(d) THEN Output(d, FALSE) ELSE [state |-> d, sent |-> {}]
  BY DEF Maintained, r
<1> HIDE DEF d
<1>6. Renewed(s, d, {})
  BY <1>3, <1>4 DEF Renewed, Same
<1>7. CASE ShouldSendKeepalive(d)
  <2>1. o = Output(d, FALSE)
    BY <1>5, <1>7
  <2>2. /\ NodeOK(o.state) /\ (LinkOK(d) => LinkOK(o.state))
        /\ Grown(d, o.state, {}) /\ SendableIn(o.state, ids)
        /\ SentOK(d, o.state, o.sent, {}, ids)
        /\ o.state.valid = d.valid /\ o.state.handshake = d.handshake
    BY <1>4, <2>1, OutputOK
  <2>3. Grown(s, o.state, {}) /\ SentOK(s, o.state, o.sent, {}, ids)
    BY <1>6, <2>2, Composed
  <2> QED BY <1>4, <2>2, <2>3
<1>8. CASE ~ShouldSendKeepalive(d)
  <2>1. o = [state |-> d, sent |-> {}]
    BY <1>5, <1>8
  <2>2. o.state = d /\ o.sent = {}
    BY <2>1
  <2>3. Grown(s, d, {})
    <3>1. \A a, b \in Slots : Same(d.slots[a], s.slots[b]) => Kin(d.slots[a], s.slots[b])
      BY <1>1, NodeParts, KeypairParts DEF Same, Kin
    <3> QED BY <1>6, <3>1 DEF Renewed, Grown
  <2>4. SentOK(s, d, {}, {}, ids)
    BY DEF SentOK
  <2> QED BY <1>4, <2>2, <2>3, <2>4
<1> QED BY <1>7, <1>8

\* Where the timer leaves the link.
LEMMA LinkedOK ==
  ASSUME NEW s, NodeOK(s), LinkOK(s), NEW t, t = Linked(s)
  PROVE  /\ NodeOK(t) /\ LinkOK(t) /\ t \in Node /\ t.slots = s.slots /\ t.valid = s.valid
         /\ t.handshake = s.handshake /\ t.initAge = s.initAge
         /\ t.sendHandshake = s.sendHandshake /\ t.active = s.active
<1> DEFINE link == s.link /\ (s.slots.curr.valid \/ s.slots.prev.valid)
<1>1. s \in Node
  BY DEF NodeOK
<1>2. link \in BOOLEAN
  BY <1>1, NodeParts
<1>3. t = [s EXCEPT !.link = link]
  BY DEF Linked
<1>5. s.slots.curr.valid \/ s.slots.prev.valid => link
  BY DEF LinkOK
<1> HIDE DEF link
<1>6. /\ t \in Node /\ t.slots = s.slots /\ t.valid = s.valid /\ t.link = link
      /\ t.handshake = s.handshake /\ t.initAge = s.initAge
      /\ t.sendHandshake = s.sendHandshake /\ t.active = s.active
  BY <1>1, <1>2, <1>3 DEF Node
<1>7. NodeOK(t)
  BY <1>6, SlotsKept
<1> QED BY <1>5, <1>6, <1>7 DEF LinkOK

\* All of it, for a node whose handshake the timer may have overwritten.
LEMMA TimerOK ==
  ASSUME NEW s, NodeOK(s), LinkOK(s), NEW ids, ids \subseteq Ids, SendableIn(s, ids),
         NEW o, o = Maintained(s),
         NEW h \in Node, h.slots = o.state.slots, h.valid = o.state.valid,
         h.link = o.state.link,
         \/ h.handshake = o.state.handshake /\ h.initAge = o.state.initAge
         \/ /\ h.handshake.valid
            /\ \A slot \in Slots : s.slots[slot].valid => s.slots[slot].keys # h.handshake.id,
         NEW t, t = Linked(h)
  PROVE  /\ NodeOK(t) /\ LinkOK(t) /\ Grown(s, t, {}) /\ SendableIn(t, ids)
         /\ SentOK(s, t, o.sent, {}, ids)
         /\ t.valid = s.valid /\ t.handshake = h.handshake
<1>1. /\ NodeOK(o.state) /\ LinkOK(o.state)
      /\ Grown(s, o.state, {}) /\ SendableIn(o.state, ids)
      /\ SentOK(s, o.state, o.sent, {}, ids)
      /\ o.state.valid = s.valid /\ o.state.handshake = s.handshake
  BY MaintainedOK
<1>2. \/ h.handshake = o.state.handshake /\ h.initAge = o.state.initAge
      \/ /\ h.handshake.valid
         /\ \A slot \in Slots : o.state.slots[slot].valid =>
                                  o.state.slots[slot].keys # h.handshake.id
  BY <1>1 DEF Grown, Kin
<1>3. NodeOK(h) /\ LinkOK(h)
  BY <1>1, <1>2, SlotsKept DEF LinkOK
<1>4. /\ NodeOK(t) /\ LinkOK(t) /\ t.slots = o.state.slots /\ t.valid = s.valid
      /\ t.handshake = h.handshake
  BY <1>1, <1>3, LinkedOK
<1>5. Grown(s, t, {}) /\ SendableIn(t, ids) /\ SentOK(s, t, o.sent, {}, ids)
  BY <1>1, <1>4 DEF Grown, SendableIn, SentOK
<1> QED BY <1>4, <1>5

\* Time passes.
LEMMA OlderOK ==
  ASSUME NEW n, NodeOK(node[n]), NEW t, t = Older(n)
  PROVE  /\ NodeOK(t) /\ (LinkOK(node[n]) => LinkOK(t))
         /\ t.handshake = node[n].handshake
         /\ \A slot \in Slots :
              LET k == t.slots[slot]
                  j == node[n].slots[slot]
              IN  /\ k.valid = j.valid /\ k.keys = j.keys /\ k.counter = j.counter
                  /\ k.initiator = j.initiator /\ k.heard = j.heard
<1> DEFINE Up(age, limit) == IF age < limit THEN age + 1 ELSE age
           Aged(k) == IF k.valid THEN [k EXCEPT !.age = Up(@, RejectAfterTime)] ELSE k
<1> PICK s : s = node[n]
  OBVIOUS
<1> DEFINE slots == [slot \in Slots |-> Aged(s.slots[slot])]
           initAge == Up(s.initAge, RekeyTimeout)
           txAge == Up(s.txAge, Keepalive)
<1>1. NodeOK(s) /\ s \in Node /\ s.slots \in [Slots -> Keypair]
  BY NodeParts DEF NodeOK
<1>2. ASSUME NEW k, KeypairOK(k)
      PROVE  /\ KeypairOK(Aged(k)) /\ Aged(k).valid = k.valid /\ Aged(k).keys = k.keys
             /\ Aged(k).counter = k.counter /\ Aged(k).initiator = k.initiator
             /\ Aged(k).heard = k.heard /\ Aged(k).opener = k.opener
             /\ k.valid => Aged(k).age = Up(k.age, RejectAfterTime)
  <2> DEFINE age == Up(k.age, RejectAfterTime)
  <2>1. k \in Keypair /\ age \in Ages
    BY <1>2, KeypairParts, Limits DEF KeypairOK, Ages
  <2>2. CASE k.valid
    <3> DEFINE j == [k EXCEPT !.age = age]
    <3>1. Aged(k) = j
      BY <2>2
    <3> HIDE DEF age
    <3>2. /\ j \in Keypair /\ j.valid = k.valid /\ j.keys = k.keys /\ j.age = age
          /\ j.counter = k.counter /\ j.initiator = k.initiator /\ j.heard = k.heard
          /\ j.opener = k.opener /\ j.seen = k.seen /\ j.taken = k.taken
      BY <2>1 DEF Keypair
    <3> HIDE DEF j
    <3>3. KeypairOK(j)
      BY <1>2, <3>2 DEF KeypairOK
    <3> HIDE DEF Aged
    <3> QED BY <3>1, <3>2, <3>3 DEF age
  <2>3. CASE ~k.valid
    <3>1. Aged(k) = k
      BY <2>3
    <3> HIDE DEF Aged
    <3> QED BY <1>2, <2>3, <3>1
  <2> QED BY <2>2, <2>3
<1>3. t = [s EXCEPT !.slots = slots, !.initAge = initAge, !.txAge = txAge]
  BY <1>1 DEF Older, Node
<1>4. \A slot \in Slots : slots[slot] = Aged(s.slots[slot])
  OBVIOUS
<1> HIDE DEF Aged
<1>5. \A slot \in Slots : KeypairOK(slots[slot]) /\ slots[slot] \in Keypair
  BY <1>1, <1>2, <1>4 DEF NodeOK, KeypairOK
<1>6. slots \in [Slots -> Keypair]
  BY <1>5
<1>7. initAge \in 0 .. RekeyTimeout /\ txAge \in 0 .. Keepalive
  BY <1>1, NodeParts, Limits
<1> HIDE DEF slots
<1>8. /\ t \in Node /\ t.slots = slots /\ t.handshake = s.handshake /\ t.valid = s.valid
      /\ t.initAge = initAge /\ t.link = s.link
  <2> HIDE DEF initAge, txAge
  <2> QED BY <1>1, <1>3, <1>6, <1>7 DEF Node
<1>9. \A slot \in Slots :
        LET k == slots[slot]
            j == s.slots[slot]
        IN  /\ k.valid = j.valid /\ k.keys = j.keys /\ k.counter = j.counter
            /\ k.initiator = j.initiator /\ k.heard = j.heard /\ k.opener = j.opener
            /\ j.valid => k.age = Up(j.age, RejectAfterTime)
  BY <1>1, <1>2, <1>4 DEF NodeOK
<1>10. NextOK(slots.next)
  BY <1>1, <1>9 DEF NodeOK, NextOK, Slots
<1>11. AskedOK(t)
  <2> SUFFICES ASSUME t.initAge < RekeyTimeout, ~t.handshake.valid
               PROVE  /\ slots.next.valid => slots.next.age <= t.initAge
                      /\ slots.curr.valid /\ ~slots.curr.initiator /\ ~slots.next.valid =>
                           slots.curr.age <= t.initAge
    BY <1>8 DEF AskedOK
  <2>1. s.initAge \in Nat /\ s.initAge + 1 = t.initAge /\ s.initAge < RekeyTimeout
    BY <1>1, <1>8, NodeParts, Limits
  <2>2. /\ s.slots.next.valid => s.slots.next.age <= s.initAge
        /\ s.slots.curr.valid /\ ~s.slots.curr.initiator /\ ~s.slots.next.valid =>
             s.slots.curr.age <= s.initAge
    BY <1>1, <1>8, <2>1 DEF NodeOK, AskedOK
  <2>3. s.slots.next.age \in Nat /\ s.slots.curr.age \in Nat
    BY <1>1, KeypairParts DEF Slots
  <2>4. /\ slots.next.valid = s.slots.next.valid /\ slots.curr.valid = s.slots.curr.valid
        /\ slots.curr.initiator = s.slots.curr.initiator
        /\ s.slots.next.valid => slots.next.age = Up(s.slots.next.age, RejectAfterTime)
        /\ s.slots.curr.valid => slots.curr.age = Up(s.slots.curr.age, RejectAfterTime)
    BY <1>9 DEF Slots
  <2> QED BY <2>1, <2>2, <2>3, <2>4, Limits
<1>12. NodeOK(t)
  BY <1>1, <1>5, <1>8, <1>9, <1>10, <1>11 DEF NodeOK
<1>13. LinkOK(s) => LinkOK(t)
  BY <1>8, <1>9 DEF LinkOK, Slots
<1> QED BY <1>8, <1>9, <1>12, <1>13

(***************************************************************************)
(* The steps.                                                              *)
(***************************************************************************)

\* The other node's other node is the node.
LEMMA Two ==
  ASSUME NEW n \in Nodes
  PROVE  /\ Peer(n) \in Nodes /\ Peer(n) # n /\ Peer(Peer(n)) = n
         /\ Nodes = {n, Peer(n)}
<1>1. PICK a \in Nodes, b \in Nodes : a # b /\ Nodes = {a, b}
  BY NodesAssumption
<1>2. Peer(n) \in Nodes /\ Peer(n) # n
  BY <1>1 DEF Peer
<1>3. Peer(Peer(n)) \in Nodes /\ Peer(Peer(n)) # Peer(n)
  BY <1>1, <1>2 DEF Peer
<1> QED BY <1>1, <1>2, <1>3

\* What a step of node n leaves of the network.
LEMMA BecomesOK ==
  ASSUME LwipTypes, NEW n \in Nodes, NEW t \in Node, NEW sent \in SUBSET Packet,
         NEW answers \in SUBSET Ids, Becomes(n, t, sent, answers)
  PROVE  /\ node' \in [Nodes -> Node] /\ node'[n] = t /\ node'[Peer(n)] = node[Peer(n)]
         /\ packets' \in [Nodes -> SUBSET Packet]
         /\ packets'[n] \subseteq packets[n]
         /\ packets'[Peer(n)] \subseteq packets[Peer(n)] \union sent
         /\ responses' \in [Nodes -> SUBSET Ids]
         /\ responses'[n] \subseteq responses[n]
         /\ responses'[Peer(n)] \subseteq responses[Peer(n)] \union answers
<1> PICK m : m = Peer(n)
  OBVIOUS
<1>1. m \in Nodes /\ m # n /\ Nodes = {n, m}
  BY Two
<1>2. node' = [node EXCEPT ![n] = t]
  BY DEF Becomes
<1> DEFINE P == Kept(t, packets[n])
           Q == Kept(node[m], packets[m] \union sent)
           R == Answering(t, responses[n])
           S == Answering(node[m], responses[m] \union answers)
<1>3. packets' = [packets EXCEPT ![n] = P, ![m] = Q]
  BY <1>1 DEF Becomes, LwipTypes
<1>4. responses' = [responses EXCEPT ![n] = R, ![m] = S]
  BY <1>1 DEF Becomes, LwipTypes
<1>5. P \subseteq packets[n] /\ Q \subseteq packets[m] \union sent
  BY DEF Kept
<1>6. R \subseteq responses[n] /\ S \subseteq responses[m] \union answers
  BY DEF Answering
<1>7. /\ packets[n] \subseteq Packet /\ packets[m] \subseteq Packet
      /\ responses[n] \subseteq Ids /\ responses[m] \subseteq Ids
  BY <1>1 DEF LwipTypes
<1> HIDE DEF P, Q, R, S
<1>8. P \in SUBSET Packet /\ Q \in SUBSET Packet /\ R \in SUBSET Ids /\ S \in SUBSET Ids
  BY <1>5, <1>6, <1>7
<1>9. node' \in [Nodes -> Node] /\ node'[n] = t /\ node'[m] = node[m]
  BY <1>1, <1>2 DEF LwipTypes
<1>10. packets' \in [Nodes -> SUBSET Packet] /\ packets'[n] = P /\ packets'[m] = Q
  BY <1>1, <1>3, <1>8 DEF LwipTypes
<1>11. responses' \in [Nodes -> SUBSET Ids] /\ responses'[n] = R /\ responses'[m] = S
  BY <1>1, <1>4, <1>8 DEF LwipTypes
<1> QED BY <1>5, <1>6, <1>9, <1>10, <1>11

\* A step of node n that starts the sessions new, if any, and sends packets as
\* SentOK says: keys stay distinct, packets are under agreed keys, and no counter
\* is used twice.
LEMMA StepOK ==
  ASSUME LwipInv, NEW n \in Nodes, NEW t, NEW sent, NEW answers \in SUBSET Ids, NEW new,
         Becomes(n, t, sent, answers),
         NodeOK(t), LinkOK(t), Grown(node[n], t, new), SendableIn(t, agreed'),
         SentOK(node[n], t, sent, new, agreed'),
         agreed \subseteq agreed', new \intersect agreed = {}
  PROVE  NodesInv' /\ AgreedInv' /\ NonceInv'
<1> PICK m : m = Peer(n)
  OBVIOUS
<1>1. m \in Nodes /\ m # n /\ Nodes = {n, m} /\ Peer(m) = n
  BY Two
<1>2. t \in Node /\ sent \in SUBSET Packet
  BY DEF NodeOK, SentOK
<1>3. /\ node'[n] = t /\ node'[m] = node[m]
      /\ packets'[n] \subseteq packets[n] /\ packets'[m] \subseteq packets[m] \union sent
  BY <1>2, BecomesOK DEF LwipInv
<1>4. NodesInv'
  BY <1>1, <1>3 DEF LwipInv, NodesInv
<1>5. AgreedInv'
  <2>1. \A slot \in Slots : /\ Sendable(t.slots[slot]) => t.slots[slot].keys \in agreed'
                            /\ Sendable(node[m].slots[slot]) => node[m].slots[slot].keys \in agreed'
    BY <1>1 DEF SendableIn, LwipInv, AgreedInv
  <2>2. \A p \in packets[n] \union packets[m] : p.id \in agreed'
    BY <1>1 DEF LwipInv, AgreedInv
  <2>3. \A p \in sent : p.id \in agreed'
    BY DEF SentOK
  <2> QED BY <1>1, <1>3, <2>1, <2>2, <2>3 DEF AgreedInv
<1>6. NonceInv'
  <2>1. ASSUME NEW p \in packets'[n]
        PROVE  /\ \A slot \in Slots :
                    LET k == node'[m].slots[slot]
                    IN  k.valid /\ k.keys = p.id => p.counter < k.counter
               /\ \A q \in packets'[n] : p.id = q.id /\ p.counter = q.counter => p = q
    BY <1>1, <1>3, <2>1 DEF LwipInv, NonceInv
  <2>2. ASSUME NEW p \in packets[m], NEW a \in Slots,
               node[n].slots[a].valid, node[n].slots[a].keys = p.id
        PROVE  p.counter < node[n].slots[a].counter
    BY <1>1, <2>2 DEF LwipInv, NonceInv
  <2>3. \A p \in packets[m] : p.id \notin new /\ p.counter \in Nat
    BY <1>1, Limits DEF LwipInv, LwipTypes, AgreedInv, Packet, Counters
  <2>4. ASSUME NEW p \in packets'[m], NEW slot \in Slots,
               t.slots[slot].valid, t.slots[slot].keys = p.id
        PROVE  p.counter < t.slots[slot].counter
    <3>1. CASE p \in sent
      BY <2>4, <3>1 DEF SentOK
    <3>2. CASE p \in packets[m]
      <4>1. PICK a \in Slots : Kin(t.slots[slot], node[n].slots[a])
        BY <2>3, <2>4, <3>2 DEF Grown
      <4>2. /\ p.counter < node[n].slots[a].counter
            /\ node[n].slots[a].counter <= t.slots[slot].counter
        BY <2>2, <2>4, <3>2, <4>1 DEF Kin
      <4>3. node[n].slots[a].counter \in Nat /\ t.slots[slot].counter \in Nat
        BY <1>2, NodeParts, KeypairParts DEF LwipInv, LwipTypes
      <4> QED BY <2>3, <3>2, <4>2, <4>3
    <3> QED BY <1>3, <3>1, <3>2
  <2>5. ASSUME NEW p \in packets[m], NEW q \in sent, p.id = q.id, p.counter = q.counter
        PROVE  FALSE
    <3>1. PICK a \in Slots : /\ node[n].slots[a].valid /\ node[n].slots[a].keys = q.id
                             /\ node[n].slots[a].counter = q.counter
      BY <2>3, <2>5 DEF SentOK
    <3> QED BY <2>2, <2>3, <2>5, <3>1
  <2>6. ASSUME NEW p \in packets'[m], NEW q \in packets'[m],
               p.id = q.id, p.counter = q.counter
        PROVE  p = q
    <3>1. CASE p \in packets[m] /\ q \in packets[m]
      BY <1>1, <2>6, <3>1 DEF LwipInv, NonceInv
    <3>2. CASE p \in sent /\ q \in sent
      BY <3>2 DEF SentOK
    <3> QED BY <1>3, <2>5, <2>6, <3>1, <3>2
  <2> QED BY <1>1, <1>3, <2>1, <2>4, <2>6 DEF NonceInv
<1> QED BY <1>4, <1>5, <1>6

\* The sessions of a node are those it had, and the new ones.
LEMMA GrownSessions ==
  ASSUME NEW s, NEW t, NEW new, Grown(s, t, new)
  PROVE  Sessions(t) \subseteq Sessions(s) \union new
<1> SUFFICES ASSUME NEW slot \in Slots, t.slots[slot].valid, t.slots[slot].keys \notin new
             PROVE  \E a \in Slots : s.slots[a].valid /\ s.slots[a].keys = t.slots[slot].keys
  BY DEF Sessions
<1> QED BY DEF Grown, Kin

\* A step that starts no handshake and no session.
LEMMA QuietOK ==
  ASSUME LwipInv, NEW n \in Nodes, NEW t, NEW sent,
         Becomes(n, t, sent, {}),
         NodeOK(t), LinkOK(t), Grown(node[n], t, {}), SendableIn(t, agreed),
         SentOK(node[n], t, sent, {}, agreed),
         Outstanding(t) \subseteq Outstanding(node[n]),
         UNCHANGED <<initiations, agreed>>,
         left' \in [handshakes : Nat, time : Nat, calls : Nat],
         left'.handshakes = left.handshakes
  PROVE  LwipInv'
<1> PICK m : m = Peer(n)
  OBVIOUS
<1>1. m \in Nodes /\ m # n /\ Nodes = {n, m} /\ Peer(m) = n
  BY Two
<1>2. t \in Node /\ sent \in SUBSET Packet /\ {} \in SUBSET Ids
  BY DEF NodeOK, SentOK
<1>3. /\ node' \in [Nodes -> Node] /\ node'[n] = t /\ node'[m] = node[m]
      /\ packets' \in [Nodes -> SUBSET Packet]
      /\ responses' \in [Nodes -> SUBSET Ids]
      /\ responses'[n] \subseteq responses[n]
      /\ responses'[m] \subseteq responses[m] \union {}
  BY <1>2, BecomesOK DEF LwipInv
<1>4. LwipTypes'
  BY <1>3 DEF LwipInv, LwipTypes
<1>5. NodesInv' /\ AgreedInv' /\ NonceInv'
  <2>1. SendableIn(t, agreed') /\ SentOK(node[n], t, sent, {}, agreed') /\ agreed \subseteq agreed'
    OBVIOUS
  <2>2. {} \intersect agreed = {}
    OBVIOUS
  <2> QED BY <1>2, <2>1, <2>2, StepOK
<1>6. Sessions(t) \subseteq Sessions(node[n])
  BY GrownSessions
<1>7. \A a \in Nodes : /\ Outstanding(node'[a]) \subseteq Outstanding(node[a])
                       /\ Sessions(node'[a]) \subseteq Sessions(node[a])
                       /\ responses'[a] \subseteq responses[a]
  BY <1>1, <1>3, <1>6
<1>8. \A a \in Nodes : (Sent(a))' = Sent(a)
  BY DEF Sent, Elements
<1>9. \A id : (Used(id))' <=> Used(id)
  BY DEF Used
<1>10. UsedInv'
  BY <1>7, <1>8, <1>9 DEF LwipInv, UsedInv
<1>11. OrderInv'
  <2> SUFFICES ASSUME NEW a \in Nodes
               PROVE  /\ Falling(initiations[a])
                      /\ Sent(a) \intersect (agreed \union responses'[a]) = {}
                      /\ Sent(a) \intersect (Outstanding(node'[Peer(a)]) \union Sessions(node'[Peer(a)])) = {}
                      /\ Outstanding(node'[a]) \intersect (agreed \union Outstanding(node'[Peer(a)])) = {}
    BY <1>8 DEF OrderInv
  <2>1. Peer(a) \in Nodes
    BY Two
  <2> QED BY <1>7, <2>1 DEF LwipInv, OrderInv
<1> QED BY <1>4, <1>5, <1>10, <1>11 DEF LwipInv

\* No handshake started, as far as anybody can see.
LEMMA NoneStarted ==
  ASSUME NEW s, NEW t,
         t.handshake = s.handshake \/ ~t.handshake.valid \/ t.handshake.id = NoId
  PROVE  Outstanding(t) \subseteq Outstanding(s)
BY DEF Outstanding

\* A node of the invariant.
LEMMA NodeInv ==
  ASSUME LwipInv, NEW n \in Nodes
  PROVE  /\ NodeOK(node[n]) /\ LinkOK(node[n]) /\ node[n] \in Node
         /\ SendableIn(node[n], agreed) /\ agreed \subseteq Ids
         /\ Grown(node[n], node[n], {})
<1>1. NodeOK(node[n]) /\ LinkOK(node[n]) /\ node[n] \in Node /\ agreed \subseteq Ids
  BY DEF LwipInv, NodesInv, LwipTypes
<1>2. \A a \in Slots : Kin(node[n].slots[a], node[n].slots[a])
  BY <1>1, NodeParts, KeypairParts DEF Kin
<1> QED BY <1>1, <1>2 DEF LwipInv, AgreedInv, SendableIn, Grown

\* The peer wireguardif_add_peer leaves.
LEMMA NewPeerOK ==
  ASSUME NEW link \in BOOLEAN, NEW p, p = NewPeer(link)
  PROVE  p \in Node /\ p.slots = NoSlots /\ ~p.handshake.valid
<1>1. NoSlots \in [Slots -> Keypair]
  BY NoKeypairOK DEF NoSlots, KeypairOK
<1>2. NoHandshake \in [valid : BOOLEAN, initiator : BOOLEAN, id : IdOrNone] /\ ~NoHandshake.valid
  BY DEF NoHandshake, NoId, IdOrNone
<1>3. RekeyTimeout \in 0 .. RekeyTimeout /\ Keepalive \in 0 .. Keepalive
  BY Limits
<1>4. p \in Node /\ p.slots = NoSlots /\ p.handshake = NoHandshake
  BY <1>1, <1>2, <1>3 DEF NewPeer, Node
<1> QED BY <1>2, <1>4

\* The initial states.
LEMMA LwipInit == Init => LwipInv
<1> SUFFICES ASSUME Init PROVE LwipInv
  OBVIOUS
<1>1. ASSUME NEW n \in Nodes
      PROVE  /\ node[n] \in Node /\ node[n].slots = NoSlots /\ ~node[n].handshake.valid
  <2> DEFINE p == NewPeer(FALSE)
             active == n \in Configured
  <2>1. p \in Node /\ p.slots = NoSlots /\ ~p.handshake.valid
    BY NewPeerOK
  <2>2. node[n] = [p EXCEPT !.active = active] /\ active \in BOOLEAN
    BY <1>1 DEF Init
  <2> HIDE DEF p, active
  <2> QED BY <2>1, <2>2 DEF Node
<1>2. NodesInv
  BY <1>1, NoSlotsOK DEF NodesInv
<1>3. \A n \in Nodes, slot \in Slots : ~node[n].slots[slot].valid
  BY <1>1, NoKeypairOK DEF NoSlots
<1>4. LwipTypes
  <2>1. node \in [Nodes -> Node]
    BY <1>1 DEF Init
  <2>2. << >> \in Seq(Ids)
    BY EmptySeq
  <2>3. left \in [handshakes : Nat, time : Nat, calls : Nat]
    BY LimitsAssumption DEF Init
  <2> QED BY <2>1, <2>2, <2>3 DEF LwipTypes, Init
<1>5. ASSUME NEW n \in Nodes
      PROVE  /\ Outstanding(node[n]) = {} /\ Sessions(node[n]) = {}
             /\ Sent(n) = {} /\ DOMAIN initiations[n] = {}
  <2>1. initiations[n] = << >> /\ DOMAIN << >> = {}
    BY DEF Init
  <2>2. Outstanding(node[n]) = {}
    BY <1>1 DEF Outstanding
  <2>3. Sessions(node[n]) = {}
    BY <1>3 DEF Sessions
  <2> QED BY <2>1, <2>2, <2>3 DEF Sent, Elements
<1>8. agreed = {} /\ \A n \in Nodes : responses[n] = {}
  BY DEF Init
<1>6. UsedInv /\ OrderInv
  <2>1. UsedInv
    BY <1>5, <1>8 DEF UsedInv
  <2>2. OrderInv
    BY <1>5, <1>8 DEF OrderInv, Falling
  <2> QED BY <2>1, <2>2
<1>7. AgreedInv /\ NonceInv
  BY <1>3 DEF AgreedInv, NonceInv, Sendable, Init
<1> QED BY <1>2, <1>4, <1>6, <1>7 DEF LwipInv

\* lwIP sends an IP packet.
LEMMA SendDataInv ==
  ASSUME LwipInv, NEW n \in Nodes, SendData(n)
  PROVE  LwipInv'
<1> PICK o : o = Output(node[n], TRUE)
  OBVIOUS
<1>1. Becomes(n, o.state, o.sent, {}) /\ UNCHANGED <<initiations, left, agreed>>
  BY DEF SendData
<1>2. /\ NodeOK(o.state) /\ LinkOK(o.state)
      /\ Grown(node[n], o.state, {}) /\ SendableIn(o.state, agreed)
      /\ SentOK(node[n], o.state, o.sent, {}, agreed)
      /\ o.state.handshake = node[n].handshake
  BY NodeInv, OutputOK
<1>3. left' \in [handshakes : Nat, time : Nat, calls : Nat]
  BY <1>1 DEF LwipInv, LwipTypes
<1>4. Outstanding(o.state) \subseteq Outstanding(node[n])
  BY <1>2, NoneStarted
<1> QED BY <1>1, <1>2, <1>3, <1>4, QuietOK

\* A transport message is received.
LEMMA ReceivePacketInv ==
  ASSUME LwipInv, NEW n \in Nodes, NEW p, ReceivePacket(n, p)
  PROVE  LwipInv'
<1> PICK s : s = node[n]
  OBVIOUS
<1> DEFINE chosen == CHOOSE slot \in SlotsFor(s, p.id) : TRUE
<1> HIDE DEF chosen
<1> PICK slot : slot = chosen
  OBVIOUS
<1> DEFINE received == IF Spent(s.slots[slot]) THEN [s EXCEPT !.slots[slot] = NoKeypair]
                       ELSE IF slot = "next" THEN DecryptNext(s, p)
                       ELSE DecryptInUse(s, slot, p)
<1> HIDE DEF received
<1> PICK t : t = received
  OBVIOUS
<1>1. /\ p \in packets[n] /\ SlotsFor(s, p.id) # {}
      /\ Becomes(n, t, {}, {}) /\ UNCHANGED <<initiations, left, agreed>>
  BY DEF ReceivePacket, received, chosen
<1>2. /\ NodeOK(s) /\ LinkOK(s) /\ SendableIn(s, agreed) /\ agreed \subseteq Ids
  BY NodeInv
<1>3. slot \in Slots /\ s.slots[slot].valid /\ s.slots[slot].keys = p.id
  BY <1>1 DEF SlotsFor, chosen
<1>4. p \in Packet /\ s.slots[slot].keys \in agreed
  BY <1>1, <1>3 DEF LwipInv, LwipTypes, AgreedInv
<1>5. /\ NodeOK(t) /\ LinkOK(t) /\ Grown(s, t, {}) /\ SendableIn(t, agreed)
      /\ t.handshake = s.handshake
  <2>1. CASE Spent(s.slots[slot])
    <3>1. t = [s EXCEPT !.slots[slot] = NoKeypair]
      BY <2>1 DEF received
    <3> QED BY <1>2, <1>3, <2>1, <3>1, DestroyedOK
  <2>2. CASE ~Spent(s.slots[slot]) /\ slot = "next"
    <3>1. t = DecryptNext(s, p)
      BY <2>2 DEF received
    <3> QED BY <1>2, <1>3, <1>4, <2>2, <3>1, DecryptNextOK
  <2>3. CASE ~Spent(s.slots[slot]) /\ slot # "next"
    <3>1. t = DecryptInUse(s, slot, p) /\ slot \in {"curr", "prev"}
      BY <1>3, <2>3 DEF Slots, received
    <3> QED BY <1>2, <1>3, <1>4, <3>1, DecryptInUseOK
  <2> QED BY <2>1, <2>2, <2>3
<1>6. left' \in [handshakes : Nat, time : Nat, calls : Nat]
  BY <1>1 DEF LwipInv, LwipTypes
<1>7. Outstanding(t) \subseteq Outstanding(node[n])
  BY <1>5, NoneStarted
<1>8. SentOK(node[n], t, {}, {}, agreed)
  BY DEF SentOK
<1> QED BY <1>1, <1>5, <1>6, <1>7, <1>8, QuietOK

\* The timer starts no handshake.
LEMMA TmrIdleInv ==
  ASSUME LwipInv, NEW n \in Nodes, TmrIdle(n)
  PROVE  LwipInv'
<1> PICK s : s = node[n]
  OBVIOUS
<1>1. NodeOK(s) /\ LinkOK(s) /\ SendableIn(s, agreed) /\ agreed \subseteq Ids /\ s \in Node
  BY NodeInv
<1>2. UNCHANGED <<initiations, left, agreed>>
  BY DEF TmrIdle
<1>3. left' \in [handshakes : Nat, time : Nat, calls : Nat]
  BY <1>2 DEF LwipInv, LwipTypes
<1>4. CASE s.valid
  <2> PICK o : o = Maintained(s)
    OBVIOUS
  <2> PICK t : t = Linked(o.state)
    OBVIOUS
  <2>1. Becomes(n, t, o.sent, {})
    BY <1>4 DEF TmrIdle
  <2>2. o.state \in Node
    BY <1>1, MaintainedOK DEF NodeOK
  <2>3. /\ NodeOK(t) /\ LinkOK(t) /\ Grown(s, t, {}) /\ SendableIn(t, agreed)
        /\ SentOK(s, t, o.sent, {}, agreed) /\ t.handshake = o.state.handshake
    BY <1>1, <2>2, TimerOK
  <2>4. o.state.handshake = s.handshake
    BY <1>1, MaintainedOK
  <2>5. Outstanding(t) \subseteq Outstanding(node[n])
    BY <2>3, <2>4, NoneStarted
  <2> QED BY <1>2, <1>3, <2>1, <2>3, <2>5, QuietOK
<1>5. CASE ~s.valid
  <2> PICK t : t = [s EXCEPT !.link = FALSE]
    OBVIOUS
  <2>1. Becomes(n, t, {}, {})
    BY <1>5 DEF TmrIdle
  <2>2. /\ t \in Node /\ t.slots = s.slots /\ t.valid = s.valid /\ t.handshake = s.handshake
        /\ t.initAge = s.initAge
    BY <1>1 DEF Node
  <2>3. NodeOK(t)
    BY <1>1, <2>2, SlotsKept
  <2>4. \A slot \in Slots : ~t.slots[slot].valid
    BY <1>1, <1>5, <2>2 DEF NodeOK
  <2>5. LinkOK(t) /\ Grown(s, t, {}) /\ SendableIn(t, agreed) /\ SentOK(s, t, {}, {}, agreed)
    BY <2>4 DEF LinkOK, Grown, SendableIn, Sendable, SentOK, Slots
  <2>6. Outstanding(t) \subseteq Outstanding(node[n])
    BY <2>2, NoneStarted
  <2> QED BY <1>2, <1>3, <2>1, <2>3, <2>5, <2>6, QuietOK
<1> QED BY <1>4, <1>5

\* A handshake is the record it says.
LEMMA HandshakingOK ==
  ASSUME NEW s \in Node, NEW id \in IdOrNone, NEW t, t = Handshaking(s, id)
  PROVE  /\ t \in Node /\ t.slots = s.slots /\ t.valid = s.valid /\ t.link = s.link
         /\ t.handshake.valid /\ t.handshake.id = id
<1> DEFINE handshake == [valid |-> TRUE, initiator |-> TRUE, id |-> id]
<1>1. handshake \in [valid : BOOLEAN, initiator : BOOLEAN, id : IdOrNone]
  OBVIOUS
<1>2. handshake.valid /\ handshake.id = id
  OBVIOUS
<1>3. t = [s EXCEPT !.handshake = handshake]
  BY DEF Handshaking
<1> HIDE DEF handshake
<1>4. t \in Node /\ t.slots = s.slots /\ t.valid = s.valid /\ t.link = s.link
      /\ t.handshake = handshake
  BY <1>1, <1>3 DEF Node
<1> QED BY <1>2, <1>4

\* The timer finds no buffer.
LEMMA TmrNoBufferInv ==
  ASSUME LwipInv, NEW n \in Nodes, TmrNoBuffer(n)
  PROVE  LwipInv'
<1> PICK s : s = node[n]
  OBVIOUS
<1> PICK o : o = Maintained(s)
  OBVIOUS
<1> PICK h : h = Handshaking(o.state, NoId)
  OBVIOUS
<1> PICK t : t = Linked(h)
  OBVIOUS
<1>1. Becomes(n, t, o.sent, {}) /\ UNCHANGED <<initiations, left, agreed>>
  BY DEF TmrNoBuffer
<1>2. NodeOK(s) /\ LinkOK(s) /\ SendableIn(s, agreed) /\ agreed \subseteq Ids
  BY NodeInv
<1>3. o.state \in Node
  BY <1>2, MaintainedOK DEF NodeOK
<1>4. /\ h \in Node /\ h.slots = o.state.slots /\ h.valid = o.state.valid
      /\ h.link = o.state.link /\ h.handshake.valid /\ h.handshake.id = NoId
  <2>1. NoId \in IdOrNone
    BY DEF NoId, IdOrNone
  <2> QED BY <1>3, <2>1, HandshakingOK
<1>5. \A slot \in Slots : s.slots[slot].valid => s.slots[slot].keys # h.handshake.id
  BY <1>2, <1>4 DEF NodeOK, KeypairOK
<1>6. /\ NodeOK(t) /\ LinkOK(t) /\ Grown(s, t, {}) /\ SendableIn(t, agreed)
      /\ SentOK(s, t, o.sent, {}, agreed) /\ t.handshake = h.handshake
  BY <1>2, <1>4, <1>5, TimerOK
<1>7. Outstanding(t) \subseteq Outstanding(node[n])
  BY <1>4, <1>6, NoneStarted
<1>8. left' \in [handshakes : Nat, time : Nat, calls : Nat]
  BY <1>1 DEF LwipInv, LwipTypes
<1> QED BY <1>1, <1>6, <1>7, <1>8, QuietOK

\* A call of the application that leaves the node in state t.
LEMMA CalledInv ==
  ASSUME LwipInv, NEW n \in Nodes, NEW t, Called(n, t),
         NodeOK(t), LinkOK(t), Grown(node[n], t, {}), SendableIn(t, agreed),
         Outstanding(t) \subseteq Outstanding(node[n])
  PROVE  LwipInv'
<1> DEFINE calls == left.calls - 1
<1>1. Becomes(n, t, {}, {}) /\ UNCHANGED <<initiations, agreed>>
  BY DEF Called
<1>2. left' = [left EXCEPT !.calls = calls] /\ left.calls > 0
  BY DEF Called
<1>3. calls \in Nat
  BY <1>2 DEF LwipInv, LwipTypes
<1> HIDE DEF calls
<1>4. /\ left' \in [handshakes : Nat, time : Nat, calls : Nat]
      /\ left'.handshakes = left.handshakes
  BY <1>2, <1>3 DEF LwipInv, LwipTypes
<1>5. SentOK(node[n], t, {}, {}, agreed)
  BY DEF SentOK
<1> QED BY <1>1, <1>4, <1>5, QuietOK

\* A call that leaves no session and no handshake, or the handshake it found.
LEMMA EmptiedInv ==
  ASSUME LwipInv, NEW n \in Nodes, NEW t \in Node, Called(n, t), t.slots = NoSlots,
         t.handshake = node[n].handshake \/ ~t.handshake.valid
  PROVE  LwipInv'
<1>1. NodeOK(t) /\ LinkOK(t) /\ Grown(node[n], t, {}) /\ SendableIn(t, agreed)
  BY NoSlotsOK
<1>2. Outstanding(t) \subseteq Outstanding(node[n])
  BY NoneStarted
<1> QED BY <1>1, <1>2, CalledInv

\* wireguardif_connect only makes the peer active.
LEMMA ConnectInv ==
  ASSUME LwipInv, NEW n \in Nodes, Connect(n)
  PROVE  LwipInv'
<1> PICK s : s = node[n]
  OBVIOUS
<1> PICK t : t = [s EXCEPT !.active = TRUE]
  OBVIOUS
<1>1. Called(n, t)
  BY DEF Connect
<1>2. NodeOK(s) /\ LinkOK(s) /\ SendableIn(s, agreed) /\ Grown(s, s, {}) /\ s \in Node
  BY NodeInv
<1>3. /\ t \in Node /\ t.slots = s.slots /\ t.valid = s.valid /\ t.link = s.link
      /\ t.handshake = s.handshake /\ t.initAge = s.initAge
  BY <1>2 DEF Node
<1>4. NodeOK(t)
  BY <1>2, <1>3, SlotsKept
<1>5. LinkOK(t) /\ SendableIn(t, agreed) /\ Grown(s, t, {})
  BY <1>2, <1>3 DEF LinkOK, SendableIn, Grown
<1>6. Outstanding(t) \subseteq Outstanding(node[n])
  BY <1>3, NoneStarted
<1> QED BY <1>1, <1>4, <1>5, <1>6, CalledInv

\* wireguardif_disconnect drops the sessions and leaves the handshake.
LEMMA DisconnectInv ==
  ASSUME LwipInv, NEW n \in Nodes, Disconnect(n)
  PROVE  LwipInv'
<1> PICK s : s = node[n]
  OBVIOUS
<1> PICK t : t = [s EXCEPT !.active = FALSE, !.slots = NoSlots]
  OBVIOUS
<1>1. Called(n, t)
  BY DEF Disconnect
<1>2. s \in Node
  BY NodeInv
<1>3. NoSlots \in [Slots -> Keypair]
  BY NoKeypairOK DEF NoSlots, KeypairOK
<1>4. t \in Node /\ t.slots = NoSlots /\ t.handshake = s.handshake
  BY <1>2, <1>3 DEF Node
<1> QED BY <1>1, <1>4, EmptiedInv

\* wireguardif_remove_peer leaves nothing.
LEMMA RemovePeerInv ==
  ASSUME LwipInv, NEW n \in Nodes, RemovePeer(n)
  PROVE  LwipInv'
<1> PICK s : s = node[n]
  OBVIOUS
<1> PICK p : p = NewPeer(s.link)
  OBVIOUS
<1> PICK t : t = [p EXCEPT !.valid = FALSE]
  OBVIOUS
<1>1. Called(n, t)
  BY DEF RemovePeer
<1>2. s \in Node /\ s.link \in BOOLEAN
  BY NodeInv, NodeParts
<1>3. p \in Node /\ p.slots = NoSlots /\ ~p.handshake.valid
  BY <1>2, NewPeerOK
<1>4. t \in Node /\ t.slots = NoSlots /\ ~t.handshake.valid
  BY <1>3 DEF Node
<1> QED BY <1>1, <1>4, EmptiedInv

\* wireguardif_add_peer leaves a new peer.
LEMMA AddPeerInv ==
  ASSUME LwipInv, NEW n \in Nodes, AddPeer(n)
  PROVE  LwipInv'
<1> PICK s : s = node[n]
  OBVIOUS
<1> PICK t : t = NewPeer(s.link)
  OBVIOUS
<1>1. Called(n, t)
  BY DEF AddPeer
<1>2. s \in Node /\ s.link \in BOOLEAN
  BY NodeInv, NodeParts
<1>3. t \in Node /\ t.slots = NoSlots /\ ~t.handshake.valid
  BY <1>2, NewPeerOK
<1> QED BY <1>1, <1>3, EmptiedInv

\* Time passes at both nodes.
LEMMA TimePassesInv ==
  ASSUME LwipInv, TimePasses
  PROVE  LwipInv'
<1> DEFINE time == left.time - 1
<1>1. node' = [n \in Nodes |-> Older(n)] /\ UNCHANGED <<initiations, responses, packets, agreed>>
  BY DEF TimePasses
<1>2. left' = [left EXCEPT !.time = time] /\ left.time > 0
  BY DEF TimePasses
<1>3. time \in Nat
  BY <1>2 DEF LwipInv, LwipTypes
<1> HIDE DEF time
<1>4. /\ left' \in [handshakes : Nat, time : Nat, calls : Nat]
      /\ left'.handshakes = left.handshakes
  BY <1>2, <1>3 DEF LwipInv, LwipTypes
<1>5. ASSUME NEW n \in Nodes
      PROVE  /\ NodeOK(node'[n]) /\ LinkOK(node'[n])
             /\ node'[n].handshake = node[n].handshake
             /\ \A slot \in Slots :
                  LET k == node'[n].slots[slot]
                      j == node[n].slots[slot]
                  IN  /\ k.valid = j.valid /\ k.keys = j.keys /\ k.counter = j.counter
                      /\ k.initiator = j.initiator /\ k.heard = j.heard
  <2> PICK t : t = Older(n)
    OBVIOUS
  <2>1. node'[n] = t
    BY <1>1
  <2>2. NodeOK(node[n]) /\ LinkOK(node[n])
    BY NodeInv
  <2>3. /\ NodeOK(t) /\ LinkOK(t) /\ t.handshake = node[n].handshake
        /\ \A slot \in Slots :
              LET k == t.slots[slot]
                  j == node[n].slots[slot]
              IN  /\ k.valid = j.valid /\ k.keys = j.keys /\ k.counter = j.counter
                  /\ k.initiator = j.initiator /\ k.heard = j.heard
    BY <2>2, OlderOK
  <2> QED BY <2>1, <2>3
<1>6. LwipTypes'
  <2>1. \A n \in Nodes : node'[n] \in Node
    BY <1>5 DEF NodeOK
  <2>2. node' \in [Nodes -> Node]
    BY <1>1, <2>1
  <2> QED BY <1>1, <1>4, <2>2 DEF LwipInv, LwipTypes
<1>7. NodesInv'
  BY <1>5 DEF NodesInv
<1>8. \A n \in Nodes : /\ Outstanding(node'[n]) = Outstanding(node[n])
                       /\ Sessions(node'[n]) = Sessions(node[n])
  <2> SUFFICES ASSUME NEW n \in Nodes
               PROVE  /\ Outstanding(node'[n]) = Outstanding(node[n])
                      /\ Sessions(node'[n]) = Sessions(node[n])
    OBVIOUS
  <2>1. Outstanding(node'[n]) = Outstanding(node[n])
    BY <1>5 DEF Outstanding
  <2>2. \A slot \in Slots : /\ node'[n].slots[slot].valid = node[n].slots[slot].valid
                            /\ node'[n].slots[slot].keys = node[n].slots[slot].keys
    BY <1>5
  <2>3. Sessions(node'[n]) = Sessions(node[n])
    BY <2>2 DEF Sessions
  <2> QED BY <2>1, <2>3
<1>9. \A n \in Nodes : (Sent(n))' = Sent(n)
  BY <1>1 DEF Sent, Elements
<1>10. \A id : (Used(id))' <=> Used(id)
  BY <1>4 DEF Used
<1>11. UsedInv'
  BY <1>1, <1>8, <1>9, <1>10 DEF LwipInv, UsedInv
<1>12. OrderInv'
  <2> SUFFICES ASSUME NEW n \in Nodes
               PROVE  /\ Falling(initiations[n])
                      /\ Sent(n) \intersect (agreed \union responses[n]) = {}
                      /\ Sent(n) \intersect (Outstanding(node'[Peer(n)]) \union Sessions(node'[Peer(n)])) = {}
                      /\ Outstanding(node'[n]) \intersect (agreed \union Outstanding(node'[Peer(n)])) = {}
    BY <1>1, <1>9 DEF OrderInv
  <2>1. Peer(n) \in Nodes
    BY Two
  <2> QED BY <1>8, <2>1 DEF LwipInv, OrderInv
<1>13. AgreedInv'
  BY <1>1, <1>5 DEF LwipInv, AgreedInv, Sendable
<1>14. NonceInv'
  <2>1. \A n \in Nodes : Peer(n) \in Nodes
    BY Two
  <2> QED BY <1>1, <1>5, <2>1 DEF LwipInv, NonceInv
<1> QED BY <1>6, <1>7, <1>11, <1>12, <1>13, <1>14 DEF LwipInv

\* What is left of a decreasing sequence after its i-th element.
LEMMA LaterOnes ==
  ASSUME NEW q \in Seq(Ids), NEW i \in DOMAIN q,
         Falling(q),
         NEW r, r = SubSeq(q, i + 1, Len(q))
  PROVE  /\ r \in Seq(Ids) /\ q[i] \in Ids
         /\ Elements(r) \subseteq Elements(q) \ {q[i]}
         /\ Falling(r)
<1>1. /\ Len(q) \in Nat /\ DOMAIN q = 1 .. Len(q) /\ i \in 1 .. Len(q)
      /\ \A j \in 1 .. Len(q) : q[j] \in Ids
  BY LenProperties, ElementOfSeq
<1>2. /\ r \in Seq(Ids) /\ Len(r) = Len(q) - i
      /\ \A j \in 1 .. Len(q) - i : r[j] = q[i + j]
  <2>1. \A j \in i + 1 .. Len(q) : q[j] \in Ids
    BY <1>1
  <2>2. /\ r \in Seq(Ids)
        /\ Len(r) = IF i + 1 <= Len(q) THEN Len(q) - (i + 1) + 1 ELSE 0
        /\ \A j \in 1 .. Len(q) - (i + 1) + 1 : r[j] = q[(i + 1) + j - 1]
    BY <1>1, <2>1, SubSeqProperties
  <2> QED BY <1>1, <2>2
<1>3. DOMAIN r = 1 .. Len(q) - i
  BY <1>2, LenProperties
<1>4. ASSUME NEW j \in DOMAIN r
      PROVE  r[j] = q[i + j] /\ i + j \in DOMAIN q /\ i < i + j
  BY <1>1, <1>2, <1>3
<1>5. \A j \in DOMAIN r : r[j] # q[i] /\ \E k \in DOMAIN q : r[j] = q[k]
  <2> SUFFICES ASSUME NEW j \in DOMAIN r PROVE r[j] # q[i] /\ \E k \in DOMAIN q : r[j] = q[k]
    OBVIOUS
  <2>1. q[i] > q[i + j] /\ q[i] \in Nat /\ q[i + j] \in Nat
    BY <1>1, <1>4 DEF Ids, Falling
  <2> QED BY <1>4, <2>1
<1>6. ASSUME NEW j \in DOMAIN r, NEW k \in DOMAIN r, j < k PROVE r[j] > r[k]
  <2>1. i + j < i + k
    BY <1>1, <1>3, <1>6
  <2> QED BY <1>4, <2>1 DEF Falling
<1> QED BY <1>1, <1>2, <1>5, <1>6 DEF Falling, Elements

\* The responder answers an initiation.
LEMMA ReceiveInitiationInv ==
  ASSUME LwipInv, NEW n \in Nodes, NEW i, ReceiveInitiation(n, i)
  PROVE  LwipInv'
<1>m. PICK m : m = Peer(n)
  OBVIOUS
<1>s. PICK s : s = node[n]
  OBVIOUS
<1>q. PICK q : q = initiations[m]
  OBVIOUS
<1>id. PICK id : id = q[i]
  OBVIOUS
<1>t. PICK t : t = StartSession(s, id, FALSE)
  OBVIOUS
<1>r. PICK r : r = SubSeq(q, i + 1, Len(q))
  OBVIOUS
<1>1. m \in Nodes /\ m # n /\ Nodes = {n, m} /\ Peer(m) = n
  BY <1>m, Two
<1>2. /\ s.valid /\ i \in DOMAIN q /\ Becomes(n, t, {}, {id})
      /\ initiations' = [initiations EXCEPT ![m] = r] /\ UNCHANGED <<left, agreed>>
  BY <1>m, <1>s, <1>q, <1>id, <1>t, <1>r DEF ReceiveInitiation
<1>3. /\ r \in Seq(Ids) /\ id \in Ids
      /\ Elements(r) \subseteq Elements(q) \ {id}
      /\ Falling(r)
  <2>1. q \in Seq(Ids) /\ Falling(q)
    BY <1>1, <1>q DEF LwipInv, LwipTypes, OrderInv
  <2>2. i \in DOMAIN q
    BY <1>2
  <2>3. r \in Seq(Ids) /\ q[i] \in Ids
    BY <1>r, <2>1, <2>2, LaterOnes, Zenon
  <2>4. Elements(r) \subseteq Elements(q) \ {q[i]}
    BY <1>r, <2>1, <2>2, LaterOnes, Zenon
  <2>5. Falling(r)
    BY <1>r, <2>1, <2>2, LaterOnes, Zenon
  <2> QED BY <1>id, <2>3, <2>4, <2>5
<1>4. id \in Sent(m)
  BY <1>2, <1>q, <1>id DEF Sent, Elements
<1>5. id \notin agreed /\ id \notin Sessions(s)
  BY <1>1, <1>4, <1>s DEF LwipInv, OrderInv
<1>6. NodeOK(s) /\ LinkOK(s) /\ SendableIn(s, agreed) /\ agreed \subseteq Ids
  BY <1>s, NodeInv
<1>7. \A slot \in Slots : s.slots[slot].valid => s.slots[slot].keys # id
  BY <1>5 DEF Sessions
<1>8. /\ NodeOK(t) /\ Renewed(s, t, {id}) /\ ~t.handshake.valid
      /\ LinkOK(t) /\ SendableIn(t, agreed)
  <2>1. PICK b \in BOOLEAN : b = FALSE
    OBVIOUS
  <2>2. t = StartSession(s, id, b) /\ ~b
    BY <1>t, <2>1
  <2>3. s.valid /\ id \in Ids
    BY <1>2, <1>3
  <2>4. NodeOK(t)
    BY <1>6, <1>7, <2>2, <2>3, StartSessionOK, Zenon
  <2>5. Renewed(s, t, {id})
    BY <1>6, <1>7, <2>2, <2>3, StartSessionOK, Zenon
  <2>6. ~t.handshake.valid
    BY <1>6, <1>7, <2>2, <2>3, StartSessionOK, Zenon
  <2>7. LinkOK(t) /\ SendableIn(t, agreed)
    BY <1>6, <1>7, <2>2, <2>3, StartSessionOK, Zenon
  <2> QED BY <2>4, <2>5, <2>6, <2>7
<1>9. Grown(s, t, {id})
  <2>1. \A a, b \in Slots : Same(t.slots[a], s.slots[b]) => Kin(t.slots[a], s.slots[b])
    BY <1>6, NodeParts, KeypairParts DEF Same, Kin, NodeOK
  <2> QED BY <1>8, <2>1 DEF Renewed, Grown
<1>10. NodesInv' /\ AgreedInv' /\ NonceInv'
  <2>1. SendableIn(t, agreed') /\ agreed \subseteq agreed' /\ {id} \intersect agreed = {}
    BY <1>2, <1>5, <1>8
  <2>2. SentOK(node[n], t, {}, {id}, agreed')
    BY DEF SentOK
  <2>3. {id} \in SUBSET Ids
    BY <1>3
  <2> QED BY <1>2, <1>8, <1>9, <1>s, <2>1, <2>2, <2>3, StepOK
<1>11. /\ node' \in [Nodes -> Node] /\ node'[n] = t /\ node'[m] = node[m]
       /\ packets' \in [Nodes -> SUBSET Packet]
       /\ responses' \in [Nodes -> SUBSET Ids]
       /\ responses'[n] \subseteq responses[n]
       /\ responses'[m] \subseteq responses[m] \union {id}
  <2>1. t \in Node /\ {} \in SUBSET Packet /\ {id} \in SUBSET Ids
    BY <1>3, <1>8 DEF NodeOK
  <2> QED BY <1>2, <1>m, <2>1, BecomesOK DEF LwipInv
<1>12. /\ initiations' \in [Nodes -> Seq(Ids)]
       /\ initiations'[m] = r /\ initiations'[n] = initiations[n]
  BY <1>1, <1>2, <1>3 DEF LwipInv, LwipTypes
<1>13. LwipTypes'
  BY <1>2, <1>11, <1>12 DEF LwipInv, LwipTypes
<1>14. (Sent(n))' = Sent(n) /\ (Sent(m))' \subseteq Sent(m) /\ id \notin (Sent(m))'
  BY <1>3, <1>12, <1>q DEF Sent, Elements
<1>15. Outstanding(t) = {} /\ Sessions(t) \subseteq Sessions(s) \union {id}
  BY <1>8, <1>9, GrownSessions DEF Outstanding
<1>16. \A x : (Used(x))' <=> Used(x)
  BY <1>2 DEF Used
<1>17. Used(id)
  BY <1>1, <1>4 DEF LwipInv, UsedInv
<1>18. UsedInv'
  BY <1>1, <1>2, <1>11, <1>14, <1>15, <1>16, <1>17, <1>s DEF LwipInv, UsedInv
<1>19. OrderInv'
  <2>1. Falling(initiations'[n]) /\ Falling(initiations'[m])
    BY <1>3, <1>12 DEF LwipInv, OrderInv
  <2>2. /\ (Sent(n))' \intersect (agreed \union responses'[n]) = {}
        /\ (Sent(m))' \intersect (agreed \union responses'[m]) = {}
    BY <1>1, <1>11, <1>14 DEF LwipInv, OrderInv
  <2>3. /\ Sent(n) \intersect (Outstanding(node[m]) \union Sessions(node[m])) = {}
        /\ Sent(m) \intersect (Outstanding(s) \union Sessions(s)) = {}
    <3>1. \A a \in Nodes :
            Sent(a) \intersect (Outstanding(node[Peer(a)]) \union Sessions(node[Peer(a)])) = {}
      BY DEF LwipInv, OrderInv
    <3>2. Peer(n) = m
      BY <1>m
    <3> QED BY <1>1, <1>s, <3>1, <3>2
  <2>5. /\ (Sent(n))' \intersect (Outstanding(node[m]) \union Sessions(node[m])) = {}
        /\ (Sent(m))' \intersect (Outstanding(t) \union Sessions(t)) = {}
    BY <1>14, <1>15, <2>3
  <2>4. /\ Outstanding(node'[n]) \intersect (agreed \union Outstanding(node'[m])) = {}
        /\ Outstanding(node'[m]) \intersect (agreed \union Outstanding(node'[n])) = {}
    BY <1>1, <1>11, <1>15, <1>s DEF LwipInv, OrderInv
  <2> SUFFICES ASSUME NEW a \in Nodes
               PROVE  /\ Falling(initiations'[a])
                      /\ (Sent(a))' \intersect (agreed' \union responses'[a]) = {}
                      /\ (Sent(a))' \intersect (Outstanding(node'[Peer(a)]) \union Sessions(node'[Peer(a)])) = {}
                      /\ Outstanding(node'[a]) \intersect (agreed' \union Outstanding(node'[Peer(a)])) = {}
    BY DEF OrderInv
  <2>6. Peer(n) = m /\ (a = n \/ a = m)
    BY <1>1, <1>m
  <2>7. CASE a = n
    BY <1>2, <1>11, <2>1, <2>2, <2>4, <2>5, <2>6, <2>7
  <2>8. CASE a = m
    BY <1>1, <1>2, <1>11, <2>1, <2>2, <2>4, <2>5, <2>8
  <2> QED BY <2>6, <2>7, <2>8
<1> QED BY <1>10, <1>13, <1>18, <1>19 DEF LwipInv

\* The initiator takes the response, and confirms the session with a keepalive.
LEMMA ReceiveResponseInv ==
  ASSUME LwipInv, NEW n \in Nodes, NEW id, ReceiveResponse(n, id)
  PROVE  LwipInv'
<1>m. PICK m : m = Peer(n)
  OBVIOUS
<1>s. PICK s : s = node[n]
  OBVIOUS
<1>u. PICK u : u = StartSession(s, id, TRUE)
  OBVIOUS
<1>o. PICK o : o = Output(u, FALSE)
  OBVIOUS
<1>t. PICK t : t = [o.state EXCEPT !.link = TRUE]
  OBVIOUS
<1>ids. PICK ids : ids = agreed \union {id}
  OBVIOUS
<1>1. m \in Nodes /\ m # n /\ Nodes = {n, m} /\ Peer(m) = n
  BY <1>m, Two
<1>2. /\ id \in responses[n] /\ Awaits(s, id) /\ Becomes(n, t, o.sent, {})
      /\ UNCHANGED <<initiations, left>> /\ agreed' = ids
  BY <1>s, <1>u, <1>o, <1>t, <1>ids DEF ReceiveResponse
<1>3. NodeOK(s) /\ LinkOK(s) /\ SendableIn(s, agreed) /\ agreed \subseteq Ids
  BY <1>s, NodeInv
<1>4. id \in Ids /\ ids \subseteq Ids
  BY <1>2, <1>3, <1>ids DEF LwipInv, LwipTypes
<1>5. s.valid /\ s.handshake.valid /\ s.handshake.id = id
  BY <1>2 DEF Awaits
<1>6. id \in Outstanding(s)
  BY <1>4, <1>5 DEF Outstanding, NoId, Ids
<1>7. id \notin agreed /\ id \notin Sent(m) /\ id \notin Outstanding(node[m]) /\ Used(id)
      /\ id \notin Sent(n)
  BY <1>1, <1>2, <1>6, <1>s DEF LwipInv, OrderInv, UsedInv
<1>8. \A slot \in Slots : s.slots[slot].valid => s.slots[slot].keys # id
  BY <1>3, <1>5 DEF NodeOK
<1>9. /\ NodeOK(u) /\ Renewed(s, u, {id}) /\ ~u.handshake.valid
      /\ SendableIn(u, ids)
  <2>1. PICK b \in BOOLEAN : b = TRUE
    OBVIOUS
  <2>2. u = StartSession(s, id, b)
    BY <1>u, <2>1
  <2>3. s.valid /\ id \in Ids
    BY <1>4, <1>5
  <2>4. NodeOK(u)
    BY <1>3, <1>8, <2>2, <2>3, StartSessionOK, Zenon
  <2>5. Renewed(s, u, {id})
    BY <1>3, <1>8, <2>2, <2>3, StartSessionOK, Zenon
  <2>6. ~u.handshake.valid
    BY <1>3, <1>8, <2>2, <2>3, StartSessionOK, Zenon
  <2>7. SendableIn(u, agreed \union {id})
    BY <1>3, <1>8, <2>2, <2>3, StartSessionOK, Zenon
  <2> QED BY <1>ids, <2>4, <2>5, <2>6, <2>7
<1>10. /\ NodeOK(o.state) /\ Grown(u, o.state, {}) /\ SendableIn(o.state, ids)
       /\ SentOK(u, o.state, o.sent, {}, ids) /\ ~o.state.handshake.valid
  <2>1. FALSE \in BOOLEAN
    OBVIOUS
  <2> QED BY <1>4, <1>9, <1>o, <2>1, OutputOK
<1>11. Grown(s, o.state, {id}) /\ SentOK(s, o.state, o.sent, {id}, ids)
  BY <1>9, <1>10, Composed
<1>12. /\ t \in Node /\ t.slots = o.state.slots /\ t.valid = o.state.valid /\ t.link = TRUE
       /\ t.handshake = o.state.handshake /\ t.initAge = o.state.initAge
  <2>1. o.state \in Node
    BY <1>10 DEF NodeOK
  <2> QED BY <1>t, <2>1 DEF Node
<1>13. NodeOK(t) /\ LinkOK(t)
  BY <1>10, <1>12, SlotsKept DEF LinkOK
<1>14. Grown(s, t, {id}) /\ SentOK(s, t, o.sent, {id}, ids) /\ SendableIn(t, ids)
  BY <1>10, <1>11, <1>12 DEF Grown, SentOK, SendableIn
<1>15. NodesInv' /\ AgreedInv' /\ NonceInv'
  <2>1. /\ SendableIn(t, agreed') /\ agreed \subseteq agreed' /\ {id} \intersect agreed = {}
        /\ SentOK(node[n], t, o.sent, {id}, agreed') /\ {} \in SUBSET Ids
    BY <1>2, <1>7, <1>14, <1>s, <1>ids
  <2> QED BY <1>2, <1>13, <1>14, <1>s, <2>1, StepOK
<1>16. /\ node' \in [Nodes -> Node] /\ node'[n] = t /\ node'[m] = node[m]
       /\ packets' \in [Nodes -> SUBSET Packet]
       /\ responses' \in [Nodes -> SUBSET Ids]
       /\ responses'[n] \subseteq responses[n]
       /\ responses'[m] \subseteq responses[m] \union {}
  <2>1. o.sent \in SUBSET Packet /\ {} \in SUBSET Ids
    BY <1>10 DEF SentOK
  <2>2. t \in Node /\ Becomes(n, t, o.sent, {}) /\ LwipTypes
    BY <1>2, <1>12 DEF LwipInv
  <2> QED BY <1>m, <2>1, <2>2, BecomesOK
<1>17. LwipTypes'
  BY <1>2, <1>4, <1>16 DEF LwipInv, LwipTypes
<1>18. \A a \in Nodes : (Sent(a))' = Sent(a)
  BY <1>2 DEF Sent, Elements
<1>19. Outstanding(t) = {} /\ Sessions(t) \subseteq Sessions(s) \union {id}
  BY <1>10, <1>12, <1>14, GrownSessions DEF Outstanding
<1>20. \A x : (Used(x))' <=> Used(x)
  BY <1>2 DEF Used
<1>21. UsedInv'
  BY <1>1, <1>2, <1>7, <1>16, <1>18, <1>19, <1>20, <1>s, <1>ids DEF LwipInv, UsedInv
<1>22. OrderInv'
  <2>1. /\ Sent(n) \intersect (ids \union responses'[n]) = {}
        /\ Sent(m) \intersect (ids \union responses'[m]) = {}
    BY <1>1, <1>7, <1>16, <1>s, <1>ids DEF LwipInv, OrderInv
  <2>2. /\ Sent(n) \intersect (Outstanding(node[m]) \union Sessions(node[m])) = {}
        /\ Sent(m) \intersect (Outstanding(s) \union Sessions(s)) = {}
    <3>1. \A a \in Nodes :
            Sent(a) \intersect (Outstanding(node[Peer(a)]) \union Sessions(node[Peer(a)])) = {}
      BY DEF LwipInv, OrderInv
    <3>2. Peer(n) = m
      BY <1>m
    <3> QED BY <1>1, <1>s, <3>1, <3>2
  <2>5. Sent(m) \intersect (Outstanding(t) \union Sessions(t)) = {}
    BY <1>7, <1>19, <2>2
  <2>3. /\ Outstanding(node'[n]) \intersect (ids \union Outstanding(node'[m])) = {}
        /\ Outstanding(node'[m]) \intersect (ids \union Outstanding(node'[n])) = {}
    BY <1>1, <1>7, <1>16, <1>19, <1>s, <1>ids DEF LwipInv, OrderInv
  <2>4. \A a \in Nodes : Falling(initiations'[a])
    BY <1>2 DEF LwipInv, OrderInv
  <2> SUFFICES ASSUME NEW a \in Nodes
               PROVE  /\ Falling(initiations'[a])
                      /\ (Sent(a))' \intersect (agreed' \union responses'[a]) = {}
                      /\ (Sent(a))' \intersect (Outstanding(node'[Peer(a)]) \union Sessions(node'[Peer(a)])) = {}
                      /\ Outstanding(node'[a]) \intersect (agreed' \union Outstanding(node'[Peer(a)])) = {}
    BY DEF OrderInv
  <2>6. Peer(n) = m /\ (a = n \/ a = m)
    BY <1>1, <1>m
  <2>7. CASE a = n
    BY <1>2, <1>16, <1>18, <2>1, <2>2, <2>3, <2>4, <2>6, <2>7
  <2>8. CASE a = m
    BY <1>1, <1>2, <1>16, <1>18, <2>1, <2>3, <2>4, <2>5, <2>8
  <2> QED BY <2>6, <2>7, <2>8
<1> QED BY <1>15, <1>17, <1>21, <1>22 DEF LwipInv

\* The initiation sent, with none or one of the earlier ones forgotten.
LEMMA OneMore ==
  ASSUME NEW q \in Seq(Ids), Falling(q), NEW id \in Ids, \A x \in Elements(q) : x > id,
         NEW r, r = Append(q, id) \/ r = Tail(Append(q, id))
  PROVE  r \in Seq(Ids) /\ Falling(r) /\ Elements(r) \subseteq Elements(q) \union {id}
<1> DEFINE a == Append(q, id)
<1>1. /\ a \in Seq(Ids) /\ Len(a) = Len(q) + 1 /\ Len(q) \in Nat /\ a # << >>
      /\ DOMAIN a = 1 .. Len(q) + 1 /\ DOMAIN q = 1 .. Len(q)
      /\ \A j \in 1 .. Len(q) : a[j] = q[j]
      /\ a[Len(q) + 1] = id
  BY AppendProperties, LenProperties
<1> HIDE DEF a
<1>2. \A j \in DOMAIN a : a[j] \in Elements(q) \union {id}
  BY <1>1 DEF Elements
<1>3. Falling(a)
  <2> SUFFICES ASSUME NEW j \in DOMAIN a, NEW k \in DOMAIN a, j < k PROVE a[j] > a[k]
    BY DEF Falling
  <2>1. j \in DOMAIN q /\ a[j] = q[j]
    BY <1>1
  <2>2. CASE k \in DOMAIN q
    BY <1>1, <2>1, <2>2 DEF Falling
  <2>3. CASE k = Len(q) + 1
    BY <1>1, <2>1, <2>3 DEF Elements
  <2> QED BY <1>1, <2>2, <2>3
<1>4. CASE r = a
  BY <1>1, <1>2, <1>3, <1>4 DEF Elements
<1>5. CASE r = Tail(a)
  <2>1. r \in Seq(Ids) /\ Len(r) = Len(q) /\ \A j \in 1 .. Len(r) : r[j] = a[j + 1]
    BY <1>1, <1>5, HeadTailProperties
  <2>2. DOMAIN r = 1 .. Len(q)
    BY <2>1, LenProperties
  <2>3. ASSUME NEW j \in 1 .. Len(q) PROVE r[j] = a[j + 1] /\ j + 1 \in 1 .. Len(q) + 1
    BY <1>1, <2>1
  <2>4. Elements(r) \subseteq Elements(q) \union {id}
    <3> SUFFICES ASSUME NEW j \in 1 .. Len(q) PROVE r[j] \in Elements(q) \union {id}
      BY <2>2 DEF Elements
    <3> QED BY <1>1, <1>2, <2>3
  <2>5. Falling(r)
    <3> SUFFICES ASSUME NEW j \in DOMAIN r, NEW k \in DOMAIN r, j < k PROVE r[j] > r[k]
      BY DEF Falling
    <3>1. j \in 1 .. Len(q) /\ k \in 1 .. Len(q)
      BY <2>2
    <3>2. j + 1 < k + 1
      BY <1>1, <3>1
    <3> QED BY <1>1, <1>3, <2>3, <3>1, <3>2 DEF Falling
  <2> QED BY <2>1, <2>4, <2>5
<1> QED BY <1>4, <1>5 DEF a

\* The timer starts a handshake.
LEMMA TmrInitiatesInv ==
  ASSUME LwipInv, NEW n \in Nodes, TmrInitiates(n)
  PROVE  LwipInv'
<1>m. PICK m : m = Peer(n)
  OBVIOUS
<1>s. PICK s : s = node[n]
  OBVIOUS
<1>o. PICK o : o = Maintained(s)
  OBVIOUS
<1>id. PICK id : id = left.handshakes
  OBVIOUS
<1>g. PICK g : g = Handshaking(o.state, id)
  OBVIOUS
<1>h. PICK h : h = [g EXCEPT !.sendHandshake = FALSE, !.initAge = 0]
  OBVIOUS
<1>t. PICK t : t = Linked(h)
  OBVIOUS
<1>q. PICK q : q = initiations[n]
  OBVIOUS
<1>r. PICK r : r = IF Len(Append(q, id)) > MaxInFlight THEN Tail(Append(q, id)) ELSE Append(q, id)
  OBVIOUS
<1>1. m \in Nodes /\ m # n /\ Nodes = {n, m} /\ Peer(m) = n
  BY <1>m, Two
<1>2. /\ id > 0 /\ left' = [left EXCEPT !.handshakes = id - 1]
      /\ Becomes(n, t, o.sent, {}) /\ UNCHANGED agreed
      /\ initiations' = [initiations EXCEPT ![n] = r]
  BY <1>s, <1>o, <1>id, <1>g, <1>h, <1>t, <1>q, <1>r DEF TmrInitiates
<1>3. /\ id \in Ids /\ id \in Nat /\ left' \in [handshakes : Nat, time : Nat, calls : Nat]
      /\ left'.handshakes = id - 1
  <2>1. id \in Nat /\ id - 1 \in Nat
    BY <1>2, <1>id DEF LwipInv, LwipTypes
  <2> DEFINE j == id - 1
  <2> HIDE DEF j
  <2>2. left' = [left EXCEPT !.handshakes = j] /\ j \in Nat
    BY <1>2, <2>1 DEF j
  <2>3. left' \in [handshakes : Nat, time : Nat, calls : Nat] /\ left'.handshakes = j
    BY <2>2 DEF LwipInv, LwipTypes
  <2> QED BY <1>2, <2>1, <2>3 DEF j, Ids
<1>4. NodeOK(s) /\ LinkOK(s) /\ SendableIn(s, agreed) /\ agreed \subseteq Ids
  BY <1>s, NodeInv
<1>5. \A a \in Nodes : /\ id \notin Outstanding(node[a]) /\ id \notin Sessions(node[a])
                       /\ id \notin responses[a]
                       /\ \A x \in Sent(a) : x > id
  BY <1>3, <1>id DEF LwipInv, UsedInv, Used
<1>6. id \notin agreed
  BY <1>3, <1>id DEF LwipInv, UsedInv, Used
<1>7. r \in Seq(Ids) /\ Falling(r) /\ Elements(r) \subseteq Elements(q) \union {id}
  <2>1. q \in Seq(Ids) /\ Falling(q) /\ \A x \in Elements(q) : x > id
    BY <1>5, <1>q DEF LwipInv, LwipTypes, OrderInv, Sent
  <2>2. r = Append(q, id) \/ r = Tail(Append(q, id))
    BY <1>r
  <2>3. id \in Ids
    BY <1>3
  <2>4. r \in Seq(Ids)
    BY <2>1, <2>2, <2>3, OneMore, Zenon
  <2>5. Falling(r)
    BY <2>1, <2>2, <2>3, OneMore, Zenon
  <2>6. Elements(r) \subseteq Elements(q) \union {id}
    BY <2>1, <2>2, <2>3, OneMore, Zenon
  <2> QED BY <2>4, <2>5, <2>6
<1>8. /\ h \in Node /\ h.slots = o.state.slots /\ h.valid = o.state.valid
      /\ h.link = o.state.link /\ h.handshake.valid /\ h.handshake.id = id
  <2>1. o.state \in Node
    BY <1>4, <1>o, MaintainedOK DEF NodeOK
  <2>2. /\ g \in Node /\ g.slots = o.state.slots /\ g.valid = o.state.valid
        /\ g.link = o.state.link /\ g.handshake.valid /\ g.handshake.id = id
    <3>1. id \in IdOrNone
      BY <1>3 DEF IdOrNone
    <3> QED BY <1>g, <2>1, <3>1, HandshakingOK
  <2>3. 0 \in 0 .. RekeyTimeout
    BY Limits
  <2> QED BY <1>h, <2>2, <2>3 DEF Node
<1>9. \A slot \in Slots : s.slots[slot].valid => s.slots[slot].keys # h.handshake.id
  BY <1>5, <1>8, <1>s DEF Sessions
<1>10. /\ NodeOK(t) /\ LinkOK(t) /\ Grown(s, t, {}) /\ SendableIn(t, agreed)
       /\ SentOK(s, t, o.sent, {}, agreed) /\ t.handshake = h.handshake
  BY <1>4, <1>8, <1>9, <1>o, <1>t, TimerOK
<1>11. NodesInv' /\ AgreedInv' /\ NonceInv'
  <2>1. /\ SendableIn(t, agreed') /\ SentOK(node[n], t, o.sent, {}, agreed')
        /\ Grown(node[n], t, {}) /\ agreed \subseteq agreed' /\ {} \in SUBSET Ids
        /\ {} \intersect agreed = {}
    BY <1>2, <1>10, <1>s
  <2> QED BY <1>2, <1>10, <2>1, StepOK
<1>12. /\ node' \in [Nodes -> Node] /\ node'[n] = t /\ node'[m] = node[m]
       /\ packets' \in [Nodes -> SUBSET Packet]
       /\ responses' \in [Nodes -> SUBSET Ids]
       /\ responses'[n] \subseteq responses[n]
       /\ responses'[m] \subseteq responses[m] \union {}
  <2>1. o.sent \in SUBSET Packet /\ {} \in SUBSET Ids
    BY <1>10 DEF SentOK
  <2>2. t \in Node /\ Becomes(n, t, o.sent, {}) /\ LwipTypes
    BY <1>2, <1>10 DEF LwipInv, NodeOK
  <2> QED BY <1>m, <2>1, <2>2, BecomesOK
<1>13. /\ initiations' \in [Nodes -> Seq(Ids)]
       /\ initiations'[n] = r /\ initiations'[m] = initiations[m]
  BY <1>1, <1>2, <1>7 DEF LwipInv, LwipTypes
<1>14. LwipTypes'
  BY <1>2, <1>3, <1>12, <1>13 DEF LwipInv, LwipTypes
<1>15. (Sent(m))' = Sent(m) /\ (Sent(n))' \subseteq Sent(n) \union {id}
  BY <1>7, <1>13, <1>q DEF Sent
<1>16. Outstanding(t) \subseteq {id} /\ Sessions(t) \subseteq Sessions(s)
  <2>1. Sessions(t) \subseteq Sessions(s) \union {}
    BY <1>10, GrownSessions
  <2> QED BY <1>8, <1>10, <2>1 DEF Outstanding
<1>17. (\A x \in Ids : Used(x) => (Used(x))') /\ (Used(id))'
  BY <1>3, <1>id DEF Used, Ids
<1>18. UsedInv'
  <2>1. \A a \in Nodes : /\ Outstanding(node[a]) \subseteq Ids /\ Sessions(node[a]) \subseteq Ids
                         /\ Sent(a) \subseteq Ids /\ responses[a] \subseteq Ids
    <3> SUFFICES ASSUME NEW a \in Nodes
                 PROVE  /\ Outstanding(node[a]) \subseteq Ids /\ Sessions(node[a]) \subseteq Ids
                        /\ Sent(a) \subseteq Ids /\ responses[a] \subseteq Ids
      OBVIOUS
    <3>1. \A x \in Outstanding(node[a]) \union Sessions(node[a]) \union Sent(a) : Used(x)
      BY DEF LwipInv, UsedInv
    <3>2. node[a] \in Node /\ \A slot \in Slots : node[a].slots[slot].keys \in Nat
      BY NodeInv, NodeParts, KeypairParts
    <3>3. Outstanding(node[a]) \subseteq Nat
      BY <3>2, NodeParts DEF Outstanding, IdOrNone
    <3>4. Sessions(node[a]) \subseteq Nat
      BY <3>2 DEF Sessions
    <3>5. \A x \in Nat : Used(x) => x \in Ids
      BY <1>3, <1>id DEF Used, Ids
    <3>6. initiations[a] \in Seq(Ids) /\ responses[a] \subseteq Ids
      BY DEF LwipInv, LwipTypes
    <3>7. Sent(a) \subseteq Ids
      BY <3>6, ElementOfSeq, LenProperties DEF Sent, Elements
    <3> QED BY <3>1, <3>3, <3>4, <3>5, <3>6, <3>7
  <2>2. \A a \in Nodes : \A x \in Outstanding(node'[a]) \union Sessions(node'[a]) \union (Sent(a))'
                                  \union responses'[a] :
          \/ x = id
          \/ x \in Outstanding(node[a]) \union Sessions(node[a]) \union Sent(a) \union responses[a]
    BY <1>1, <1>12, <1>15, <1>16, <1>s
  <2>3. \A a \in Nodes : \A x \in Outstanding(node'[a]) \union Sessions(node'[a]) \union (Sent(a))'
                                  \union responses'[a] : (Used(x))'
    BY <1>17, <2>1, <2>2 DEF LwipInv, UsedInv
  <2>4. \A x \in agreed : (Used(x))'
    BY <1>4, <1>17 DEF LwipInv, UsedInv
  <2> QED BY <1>2, <2>3, <2>4 DEF UsedInv
<1>19. OrderInv'
  <2> DEFINE After(a) == Outstanding(node'[a]) \union Sessions(node'[a])
  <2>1. Falling(initiations'[n]) /\ Falling(initiations'[m])
    BY <1>1, <1>7, <1>13 DEF LwipInv, OrderInv
  <2>2. /\ (Sent(n))' \intersect (agreed \union responses'[n]) = {}
        /\ (Sent(m))' \intersect (agreed \union responses'[m]) = {}
    BY <1>1, <1>5, <1>6, <1>12, <1>15 DEF LwipInv, OrderInv
  <2>3. /\ Sent(n) \intersect (Outstanding(node[m]) \union Sessions(node[m])) = {}
        /\ Sent(m) \intersect (Outstanding(s) \union Sessions(s)) = {}
    <3>1. \A a \in Nodes :
            Sent(a) \intersect (Outstanding(node[Peer(a)]) \union Sessions(node[Peer(a)])) = {}
      BY DEF LwipInv, OrderInv
    <3>2. Peer(n) = m
      BY <1>m
    <3> QED BY <1>1, <1>s, <3>1, <3>2
  <2>4. id \notin Sent(m)
    BY <1>1, <1>3, <1>5
  <2>5. /\ (Sent(n))' \intersect (Outstanding(node[m]) \union Sessions(node[m])) = {}
        /\ (Sent(m))' \intersect (Outstanding(t) \union Sessions(t)) = {}
    BY <1>1, <1>5, <1>15, <1>16, <2>3, <2>4
  <2>6. /\ Outstanding(t) \intersect (agreed \union Outstanding(node[m])) = {}
        /\ Outstanding(node[m]) \intersect (agreed \union Outstanding(t)) = {}
    BY <1>1, <1>5, <1>6, <1>16 DEF LwipInv, OrderInv
  <2> SUFFICES ASSUME NEW a \in Nodes
               PROVE  /\ Falling(initiations'[a])
                      /\ (Sent(a))' \intersect (agreed' \union responses'[a]) = {}
                      /\ (Sent(a))' \intersect (Outstanding(node'[Peer(a)]) \union Sessions(node'[Peer(a)])) = {}
                      /\ Outstanding(node'[a]) \intersect (agreed' \union Outstanding(node'[Peer(a)])) = {}
    BY DEF OrderInv
  <2>7. Peer(n) = m /\ (a = n \/ a = m)
    BY <1>1, <1>m
  <2>8. CASE a = n
    BY <1>2, <1>12, <2>1, <2>2, <2>5, <2>6, <2>7, <2>8
  <2>9. CASE a = m
    BY <1>1, <1>2, <1>12, <2>1, <2>2, <2>5, <2>6, <2>9
  <2> QED BY <2>7, <2>8, <2>9
<1> QED BY <1>11, <1>14, <1>18, <1>19 DEF LwipInv

\* Every step keeps the invariant.
LEMMA LwipStep == LwipInv /\ [Next]_vars => LwipInv'
<1> SUFFICES ASSUME LwipInv, [Next]_vars PROVE LwipInv'
  OBVIOUS
<1>1. CASE TimePasses
  BY <1>1, TimePassesInv
<1>2. ASSUME NEW n \in Nodes, Step(n) PROVE LwipInv'
  <2>1. CASE SendData(n)
    BY <2>1, SendDataInv
  <2>2. ASSUME NEW i \in 1 .. MaxInFlight, ReceiveInitiation(n, i) PROVE LwipInv'
    BY <2>2, ReceiveInitiationInv
  <2>3. ASSUME NEW id \in responses[n], ReceiveResponse(n, id) PROVE LwipInv'
    BY <2>3, ReceiveResponseInv
  <2>4. ASSUME NEW p \in packets[n], ReceivePacket(n, p) PROVE LwipInv'
    BY <2>4, ReceivePacketInv
  <2>5. CASE Tmr(n)
    BY <2>5, TmrIdleInv, TmrNoBufferInv, TmrInitiatesInv DEF Tmr
  <2>6. CASE Connect(n) \/ Disconnect(n) \/ RemovePeer(n) \/ AddPeer(n)
    BY <2>6, ConnectInv, DisconnectInv, RemovePeerInv, AddPeerInv
  <2> QED BY <1>2, <2>1, <2>2, <2>3, <2>4, <2>5, <2>6 DEF Step
<1>3. CASE UNCHANGED vars
  <2>1. UNCHANGED <<node, initiations, responses, packets, left, agreed>>
    BY <1>3 DEF vars
  <2>2. LwipTypes' /\ NodesInv'
    BY <2>1 DEF LwipInv, LwipTypes, NodesInv
  <2>3. UsedInv' /\ OrderInv'
    BY <2>1 DEF LwipInv, UsedInv, OrderInv, Used, Sent
  <2>4. AgreedInv' /\ NonceInv'
    BY <2>1 DEF LwipInv, AgreedInv, NonceInv
  <2> QED BY <2>2, <2>3, <2>4 DEF LwipInv
<1> QED BY <1>1, <1>2, <1>3 DEF Next

\* And always.
LEMMA LwipInvariant == Spec => []LwipInv
BY LwipInit, LwipStep, PTL DEF Spec

(***************************************************************************)
(* What follows from it.                                                   *)
(***************************************************************************)

\* The variables keep their types: no counter passes REJECT_AFTER_MESSAGES and
\* no packet is given to lwIP more than twice, whichever slots its keypair has
\* been through.
THEOREM LwipTypesKept == Spec => []PeerTypeOK
<1>1. LwipInv => PeerTypeOK
  BY DEF LwipInv, LwipTypes, PeerTypeOK
<1> QED BY <1>1, LwipInvariant, PTL

\* Neither role seals a packet with keys that the other end has not derived.
THEOREM SilentUntilConfirmed == Spec => []UnconfirmedSilent
<1>1. LwipInv => UnconfirmedSilent
  BY DEF LwipInv, AgreedInv, UnconfirmedSilent
<1> QED BY <1>1, LwipInvariant, PTL

\* No two packets are sealed with the same key and counter, through every move of
\* a keypair between the slots and whatever handshakes cross.
THEOREM NoncesNeverRepeat == Spec => []NoncesDistinct
<1>1. LwipInv => NoncesDistinct
  BY DEF LwipInv, NonceInv, NoncesDistinct
<1> QED BY <1>1, LwipInvariant, PTL

\* The index a message carries is that of one keypair or of the handshake: what is
\* outstanding shares its keys with no session, and no two sessions share theirs.
THEOREM KeysStayDistinct == Spec => []KeysDistinct
<1>1. LwipInv => KeysDistinct
  BY DEF LwipInv, NodesInv, NodeOK, KeysDistinct
<1> QED BY <1>1, LwipInvariant, PTL

\* The link is up wherever a session is.
THEOREM LinkUpWithSession == Spec => []LinkFollowsSession
<1>1. LwipInv => LinkFollowsSession
  BY DEF LwipInv, NodesInv, LinkOK, LinkFollowsSession
<1> QED BY <1>1, LwipInvariant, PTL

\* Copies of a packet reach lwIP once, those of the one that confirmed the session
\* at most twice.
THEOREM DuplicatesBounded == Spec => []OnlyConfirmingTwice
<1>1. LwipInv => OnlyConfirmingTwice
  <2> SUFFICES ASSUME LwipInv, NEW n \in Nodes, NEW slot \in Slots, NEW c \in Counters,
                      NEW k, k = node[n].slots[slot]
               PROVE  k.taken[c] <= IF c = k.opener THEN 2 ELSE 1
    BY DEF OnlyConfirmingTwice
  <2>1. KeypairOK(k)
    BY DEF LwipInv, NodesInv, NodeOK
  <2>2. k.taken[c] \in 0 .. 2
    BY <2>1, KeypairParts DEF KeypairOK
  <2> QED BY <2>1, <2>2 DEF KeypairOK
<1> QED BY <1>1, LwipInvariant, PTL

\* A session that its responder is about to lose has its successor on the way,
\* as long as the timers leave room for it: the peer's keepalive_interval and
\* REKEY_TIMEOUT together are no longer than REJECT_AFTER_TIME.
THEOREM EndingAlwaysAsks ==
  ASSUME Keepalive + RekeyTimeout <= RejectAfterTime
  PROVE  Spec => []EndingAsks
<1>1. LwipInv => EndingAsks
  <2> SUFFICES ASSUME LwipInv, NEW n \in Nodes, NEW s, s = node[n],
                      s.slots.curr.valid, ~s.slots.curr.initiator,
                      s.slots.curr.age >= RejectAfterTime - Keepalive, TmrDone(n)
               PROVE  s.handshake.valid \/ s.slots.next.valid
    BY DEF EndingAsks
  <2>1. NodeOK(s) /\ LinkOK(s) /\ SendableIn(s, agreed) /\ agreed \subseteq Ids /\ s \in Node
    BY NodeInv
  <2>2. /\ s.initAge \in Nat /\ s.initAge <= RekeyTimeout
        /\ s.slots.curr.age \in Nat
    BY <2>1, NodeParts, KeypairParts, Limits
  <2>3. CASE s.initAge < RekeyTimeout
    BY <2>1, <2>2, <2>3, Limits DEF NodeOK, AskedOK
  <2>4. CASE s.initAge = RekeyTimeout
    <3> PICK o : o = Maintained(s)
      OBVIOUS
    <3>1. s.valid
      BY <2>1 DEF NodeOK, Slots
    <3>2. s = Linked(o.state) /\ (ShouldSendInitiation(o.state) => s = Handshaking(s, NoId))
      BY <3>1 DEF TmrDone
    <3>3. NodeOK(o.state) /\ LinkOK(o.state) /\ o.state \in Node
      BY <2>1, MaintainedOK DEF NodeOK
    <3>4. /\ s.slots = o.state.slots /\ s.initAge = o.state.initAge
      BY <3>2, <3>3, LinkedOK
    <3>5. ShouldSendInitiation(o.state)
      BY <2>2, <2>4, <3>4, Limits DEF ShouldSendInitiation, Expired
    <3>6. s = Handshaking(s, NoId) /\ NoId \in IdOrNone
      BY <3>2, <3>5 DEF NoId, IdOrNone
    <3>7. PICK h : h = Handshaking(s, NoId)
      OBVIOUS
    <3>8. h.handshake.valid
      BY <2>1, <3>6, <3>7, HandshakingOK
    <3>9. h.handshake.valid => s.handshake.valid
      BY <3>6, <3>7, Zenon
    <3> QED BY <3>8, <3>9, Zenon
  <2> QED BY <2>2, <2>3, <2>4, Limits
<1> QED BY <1>1, LwipInvariant, PTL
==============================================================================
