------------------------------- MODULE LwipPeer -------------------------------
(***************************************************************************)
(* The lwIP interface (wireguardif.c) over the protocol core (wireguard.c),*)
(* in both roles: every node runs this code, with one peer, the other      *)
(* node.  lwIP calls each handler from its one thread, so a handler is one *)
(* step; it is written as an operator from the node's state to its new     *)
(* state and the messages it sends.                                        *)
(*                                                                         *)
(* A number of Ids stands for one handshake: the ephemeral keys and the    *)
(* random indices of both ends.  A responder answers an initiation at most *)
(* once (its timestamp must grow), so the session keys that come of it are *)
(* named by the same Id; messages hold the Id whose keys sealed them.      *)
(*                                                                         *)
(* The network loses, copies and reorders messages.  One that its receiver *)
(* can only refuse, because it has forgotten the Id, is not kept.          *)
(***************************************************************************)
EXTENDS Integers, Sequences

CONSTANTS
  Nodes,                (* The two ends.                                     *)
  Configured,           (* Nodes that have called wireguardif_connect.       *)
  RekeyTimeout,         (* REKEY_TIMEOUT, in units of model time.            *)
  Keepalive,            (* keepalive_interval.                               *)
  RekeyAfterTime,       (* REKEY_AFTER_TIME.                                 *)
  RejectAfterTime,      (* REJECT_AFTER_TIME.                                *)
  RekeyAfterMessages,   (* REKEY_AFTER_MESSAGES: 2^60.                       *)
  RejectAfterMessages,  (* REJECT_AFTER_MESSAGES: 2^64 - 2^13 - 1.           *)
  MaxInFlight,          (* Initiations in flight each way.  Bounds the model.*)
  Budgets               (* How many handshakes, units of time and calls of   *)
                        (* the application a behaviour has.  Bounds the model.*)

ASSUME NodesAssumption ==
  (\E m, n \in Nodes : m # n /\ Nodes = {m, n}) /\ Configured \subseteq Nodes
ASSUME LimitsAssumption ==
  /\ RekeyTimeout \in Nat \ {0} /\ Keepalive \in Nat
  /\ RekeyAfterTime \in Nat \ {0} /\ RejectAfterTime \in Nat \ {0}
  /\ RekeyAfterTime <= RejectAfterTime
  /\ RekeyTimeout <= RejectAfterTime
  /\ RekeyAfterMessages \in Nat /\ RejectAfterMessages \in Nat \ {0}
  /\ RekeyAfterMessages <= RejectAfterMessages /\ MaxInFlight \in Nat \ {0}
  /\ Budgets \subseteq [handshakes : Nat, time : Nat, calls : Nat]

VARIABLES
  node,         (* node[n]: the peer record and the link flag of n           *)
  initiations,  (* initiations[n]: those n sent, oldest first, that its peer *)
                (* has answered no later one of                              *)
  responses,    (* responses[n]: those in flight to n                        *)
  packets,      (* packets[n]: transport messages in flight to n             *)
  left,         (* what is left of the behaviour's budget                    *)
  agreed        (* history: handshakes whose initiator has derived the keys  *)

vars == <<node, initiations, responses, packets, left, agreed>>

Ages     == 0 .. RejectAfterTime
Counters == 0 .. RejectAfterMessages - 1
Ids      == Nat \ {0}
NoId     == 0
IdOrNone == Nat
Slots    == {"curr", "next", "prev"}
Peer(n)  == CHOOSE m \in Nodes : m # n

(***************************************************************************)
(* A keypair.  keys stands for both keys and both indices; heard is        *)
(* last_rx # 0; seen is what replay_counter and replay_bitmap remember (see*)
(* ReplayWindow: so few counters never leave the window).  History: taken  *)
(* counts how often each packet was given to lwIP, opener is the packet    *)
(* that made the keypair current.                                          *)
(***************************************************************************)
NoPacket == -1

Keypair == [ valid : BOOLEAN, initiator : BOOLEAN, keys : IdOrNone, age : Ages,
             counter : 0 .. RejectAfterMessages, heard : BOOLEAN,
             seen : SUBSET Counters, taken : [Counters -> 0 .. 2],
             opener : Counters \union {NoPacket} ]

NoKeypair == [ valid |-> FALSE, initiator |-> FALSE, keys |-> NoId, age |-> 0,
               counter |-> 0, heard |-> FALSE, seen |-> {},
               taken |-> [c \in Counters |-> 0], opener |-> NoPacket ]

INSTANCE WgKeypair WITH Erased <- NoKeypair

NoHandshake == [valid |-> FALSE, initiator |-> FALSE, id |-> NoId]
NoSlots     == [slot \in Slots |-> NoKeypair]

(***************************************************************************)
(* A node.  The addresses are left out: an initiation sent to none counts  *)
(* as lost.  initAge counts from last_initiation_tx, where 0 means long    *)
(* ago, and txAge from last_tx; link is NETIF_FLAG_LINK_UP.                *)
(***************************************************************************)
Node == [ valid : BOOLEAN, active : BOOLEAN,
          slots : [Slots -> Keypair],
          handshake : [valid : BOOLEAN, initiator : BOOLEAN, id : IdOrNone],
          sendHandshake : BOOLEAN, initAge : 0 .. RekeyTimeout,
          txAge : 0 .. Keepalive, link : BOOLEAN ]

\* wireguardif_add_peer: the peer it leaves, given whether the interface's
\* link is up.
NewPeer(link) ==
  [ valid |-> TRUE, active |-> FALSE,
    slots |-> NoSlots, handshake |-> NoHandshake, sendHandshake |-> FALSE,
    initAge |-> RekeyTimeout, txAge |-> Keepalive, link |-> link ]

Init ==
  /\ node = [n \in Nodes |-> [NewPeer(FALSE) EXCEPT !.active = n \in Configured]]
  /\ initiations = [n \in Nodes |-> <<>>]
  /\ responses = [n \in Nodes |-> {}]
  /\ packets = [n \in Nodes |-> {}]
  /\ left \in Budgets
  /\ agreed = {}

(***************************************************************************)
(* Lookups.                                                                *)
(***************************************************************************)

\* get_peer_keypair_for_idx: the slot whose local index a packet carries.
SlotsFor(s, id) == {slot \in Slots : s.slots[slot].valid /\ s.slots[slot].keys = id}

\* peer_lookup_by_handshake.
Awaits(s, id) == s.valid /\ s.handshake = [valid |-> TRUE, initiator |-> TRUE, id |-> id]

(***************************************************************************)
(* A step of node n that leaves it in state s and sends transport messages *)
(* and handshake responses; those that can only be refused are not kept.   *)
(***************************************************************************)
Kept(s, ps) == {p \in ps : SlotsFor(s, p.id) # {}}

Answering(s, ids) == {id \in ids : Awaits(s, id)}

Becomes(n, s, sent, answers) ==
  LET m == Peer(n)
  IN  /\ node' = [node EXCEPT ![n] = s]
      /\ packets' = [packets EXCEPT ![n] = Kept(s, @), ![m] = Kept(node[m], @ \union sent)]
      /\ responses' = [responses EXCEPT ![n] = Answering(s, @),
                                        ![m] = Answering(node[m], @ \union answers)]

(***************************************************************************)
(* Sending.                                                                *)
(***************************************************************************)

\* Mutant: a responder uses its keypair before it has heard from the initiator.
SendableAtOnce(k) == k.valid

\* A responder may use a keypair once the initiator has.
Sendable(k) == k.valid /\ (k.initiator \/ k.heard)

\* Mutant: the last packet is one too many.
SpentLate(k) == k.age >= RejectAfterTime \/ k.counter > RejectAfterMessages

Spent(k) == k.age >= RejectAfterTime \/ k.counter >= RejectAfterMessages

SendSlot(s) == IF s.slots.curr.valid /\ ~Sendable(s.slots.curr) THEN "prev" ELSE "curr"

\* wireguardif_output_to_peer, of IP data or of a keepalive.  A packet no
\* buffer is found for, or that udp_sendto refuses, counts as lost.
Output(s, data) ==
  LET slot == SendSlot(s)
      k == s.slots[slot]
  IN  IF ~Sendable(k) THEN [state |-> s, sent |-> {}]
      ELSE IF Spent(k) THEN [state |-> [s EXCEPT !.slots[slot] = NoKeypair], sent |-> {}]
      ELSE [ state |-> [s EXCEPT
               !.slots[slot].counter = @ + 1,
               !.txAge = 0,
               !.sendHandshake = \/ @
                                 \/ k.counter + 1 >= RekeyAfterMessages
                                 \/ k.initiator /\ k.age >= RekeyAfterTime],
             sent |-> {[id |-> k.keys, counter |-> k.counter, data |-> data]} ]

\* wireguardif_output: lwIP routes an IP packet to the interface.
SendData(n) ==
  LET o == Output(node[n], TRUE)
  IN  /\ node[n].valid
      /\ o.state # node[n]
      /\ Becomes(n, o.state, o.sent, {})
      /\ UNCHANGED <<initiations, left, agreed>>

(***************************************************************************)
(* Receiving.                                                              *)
(***************************************************************************)

\* wireguard_start_session.
NewKeypair(id, initiator) ==
  [NoKeypair EXCEPT !.valid = TRUE, !.initiator = initiator, !.keys = id]

\* Mutant: the handshake stays after its session has started.
StartSessionAgain(s, id, initiator) ==
  [s EXCEPT !.slots = AddNewKeypair(@, NewKeypair(id, initiator))]

StartSession(s, id, initiator) ==
  [s EXCEPT !.slots = AddNewKeypair(@, NewKeypair(id, initiator)),
            !.handshake = NoHandshake]

\* wireguard_process_initiation_message, wireguardif_send_handshake_response:
\* the responder has the session before its response leaves, and whatever
\* handshake of its own was outstanding is overwritten.  A later initiation
\* has a later timestamp: the ones before it are refused from now on.
ReceiveInitiation(n, i) ==
  LET m == Peer(n)
      id == initiations[m][i]
      s == StartSession(node[n], id, FALSE)
  IN  /\ node[n].valid
      /\ i \in DOMAIN initiations[m]
      /\ Becomes(n, s, {}, {id})
      /\ initiations' = [initiations EXCEPT ![m] = SubSeq(@, i + 1, Len(@))]
      /\ UNCHANGED <<left, agreed>>

\* wireguardif_process_response_message.
ReceiveResponse(n, id) ==
  LET o == Output(StartSession(node[n], id, TRUE), FALSE)
  IN  /\ id \in responses[n]
      /\ Awaits(node[n], id)
      /\ Becomes(n, [o.state EXCEPT !.link = TRUE], o.sent, {})
      /\ UNCHANGED <<initiations, left>>
      /\ agreed' = agreed \union {id}

\* Mutant: a limit reached is not yet past.
ExpiredStrictly(age, limit) == limit >= 0 /\ age > limit

\* wireguard_expired of an age and a limit computed from keepalive_interval: a
\* negative limit becomes an unsigned number of about 49 days.
Expired(age, limit) == limit >= 0 /\ age >= limit

\* Mutant: accepted packets are not marked.
TakenUnmarked(s, slot, c) ==
  IF c \in s.slots[slot].seen \/ s.slots[slot].taken[c] = 2 THEN s
  ELSE [s EXCEPT !.slots[slot].taken[c] = @ + 1]

\* wireguard_check_replay and ip_input, of a packet received with slot.
Taken(s, slot, c) ==
  IF c \in s.slots[slot].seen THEN s
  ELSE [s EXCEPT !.slots[slot].seen = @ \union {c}, !.slots[slot].taken[c] = @ + 1]

\* A packet received with curr or prev.
DecryptInUse(s, slot, p) ==
  LET k == s.slots[slot]
      ask == /\ k.initiator
             /\ Expired(k.age, RejectAfterTime - Keepalive - RekeyTimeout)
      h == [s EXCEPT !.slots[slot].heard = TRUE, !.link = TRUE,
                     !.sendHandshake = @ \/ ask]
  IN  IF p.data THEN Taken(h, slot, p.counter) ELSE h

\* A packet received with next makes it current.  The code's pointer then
\* names the erased next slot: the keypair asks for no handshake, and the
\* replay check accepts the packet and marks it in that slot, which is not
\* valid and will be overwritten.
DecryptNext(s, p) ==
  LET k == [s.slots.next EXCEPT !.heard = TRUE, !.opener = p.counter,
                                !.taken[p.counter] = IF p.data THEN 1 ELSE 0]
  IN  [s EXCEPT !.slots = Promote([@ EXCEPT !.next = k]), !.link = TRUE]

\* wireguardif_process_data_message.
ReceivePacket(n, p) ==
  LET s == node[n]
      slot == CHOOSE slot \in SlotsFor(s, p.id) : TRUE
      t == IF Spent(s.slots[slot]) THEN [s EXCEPT !.slots[slot] = NoKeypair]
           ELSE IF slot = "next" THEN DecryptNext(s, p)
           ELSE DecryptInUse(s, slot, p)
  IN  /\ p \in packets[n]
      /\ s.valid /\ SlotsFor(s, p.id) # {}
      /\ Becomes(n, t, {}, {})
      /\ UNCHANGED <<initiations, left, agreed>>

(***************************************************************************)
(* The timer, every WIREGUARDIF_TIMER_MSECS.                               *)
(***************************************************************************)

\* Ages stop at RejectAfterTime, where the same pass of the timer that would find a
\* keypair old enough for this has destroyed it long before.
ShouldReset(s) == s.slots.curr.valid /\ s.slots.curr.age >= 3 * RejectAfterTime

ShouldSendKeepalive(s) ==
  /\ Keepalive > 0
  /\ s.slots.curr.valid \/ s.slots.prev.valid
  /\ s.txAge >= Keepalive

ShouldSendInitiation(s) ==
  LET curr == s.slots.curr
  IN  /\ s.initAge >= RekeyTimeout
      /\ \/ s.sendHandshake
         \/ /\ curr.valid /\ ~curr.initiator
            /\ Expired(curr.age, RejectAfterTime - Keepalive)
         \/ ~curr.valid /\ s.active

\* should_reset_peer, should_destroy_current_keypair, should_send_keepalive.
Maintained(s) ==
  LET r == IF ShouldReset(s) THEN [s EXCEPT !.slots = NoSlots] ELSE s
      d == IF r.slots.curr.valid /\ Spent(r.slots.curr)
             THEN [r EXCEPT !.slots.curr = NoKeypair] ELSE r
  IN  IF ShouldSendKeepalive(d) THEN Output(d, FALSE) ELSE [state |-> d, sent |-> {}]

\* Mutant: prev is forgotten.
LinkedCurrOnly(s) == [s EXCEPT !.link = @ /\ s.slots.curr.valid]

\* The link goes down when neither curr nor prev is valid.
Linked(s) == [s EXCEPT !.link = @ /\ (s.slots.curr.valid \/ s.slots.prev.valid)]

TmrIdle(n) ==
  LET o == Maintained(node[n])
  IN  /\ IF node[n].valid
           THEN ~ShouldSendInitiation(o.state) /\ Becomes(n, Linked(o.state), o.sent, {})
           ELSE Becomes(n, [node[n] EXCEPT !.link = FALSE], {}, {})
      /\ UNCHANGED <<initiations, left, agreed>>

\* wireguard_create_handshake_initiation overwrites whatever handshake is there.
Handshaking(s, id) == [s EXCEPT !.handshake = [valid |-> TRUE, initiator |-> TRUE, id |-> id]]

\* wireguard_start_handshake.
TmrInitiates(n) ==
  LET o == Maintained(node[n])
      id == left.handshakes
      h == [Handshaking(o.state, id) EXCEPT !.sendHandshake = FALSE, !.initAge = 0]
      q == Append(initiations[n], id)
  IN  /\ node[n].valid /\ ShouldSendInitiation(o.state)
      /\ left.handshakes > 0
      /\ left' = [left EXCEPT !.handshakes = @ - 1]
      /\ Becomes(n, Linked(h), o.sent, {})
      /\ initiations' = [initiations EXCEPT ![n] = IF Len(q) > MaxInFlight THEN Tail(q) ELSE q]
      /\ UNCHANGED agreed

\* The same when no buffer is found for the message: the handshake is already
\* overwritten, with an Id nobody will see (NoId); nothing else changes, and the
\* next timer tries again.
TmrNoBuffer(n) ==
  LET o == Maintained(node[n])
  IN  /\ node[n].valid /\ ShouldSendInitiation(o.state)
      /\ Becomes(n, Linked(Handshaking(o.state, NoId)), o.sent, {})
      /\ UNCHANGED <<initiations, left, agreed>>

Tmr(n) == TmrIdle(n) \/ TmrNoBuffer(n) \/ TmrInitiates(n)

\* The timer has nothing left to do but try again to find a buffer.
TmrDone(n) ==
  LET o == Maintained(node[n])
  IN  IF node[n].valid
        THEN /\ node[n] = Linked(o.state)
             /\ ShouldSendInitiation(o.state) => node[n] = Handshaking(node[n], NoId)
        ELSE ~node[n].link

\* Time passes in units far longer than WIREGUARDIF_TIMER_MSECS: both timers
\* have done what they had to.
Older(n) ==
  LET s == node[n]
      Up(age, limit) == IF age < limit THEN age + 1 ELSE age
      Aged(k) == IF k.valid THEN [k EXCEPT !.age = Up(@, RejectAfterTime)] ELSE k
  IN  [s EXCEPT !.slots = [slot \in Slots |-> Aged(s.slots[slot])],
                !.initAge = Up(@, RekeyTimeout), !.txAge = Up(@, Keepalive)]

TimePasses ==
  /\ left.time > 0
  /\ \A n \in Nodes : TmrDone(n)
  /\ left' = [left EXCEPT !.time = @ - 1]
  /\ node' = [n \in Nodes |-> Older(n)]
  /\ UNCHANGED <<initiations, responses, packets, agreed>>

(***************************************************************************)
(* The application's calls.                                                *)
(***************************************************************************)

Called(n, s) ==
  /\ left.calls > 0 /\ s # node[n]
  /\ left' = [left EXCEPT !.calls = @ - 1]
  /\ Becomes(n, s, {}, {})
  /\ UNCHANGED <<initiations, agreed>>

\* wireguardif_connect, with a connect_ip and connect_port set (by
\* wireguardif_add_peer or wireguardif_update_endpoint, which do nothing else to
\* a peer that exists).
Connect(n) ==
  /\ node[n].valid
  /\ Called(n, [node[n] EXCEPT !.active = TRUE])

\* wireguardif_disconnect: the handshake and send_handshake stay.
Disconnect(n) ==
  /\ node[n].valid
  /\ Called(n, [node[n] EXCEPT !.active = FALSE, !.slots = NoSlots])

\* wireguardif_remove_peer: the record is zeroed, the link is the timer's.
RemovePeer(n) ==
  /\ node[n].valid
  /\ Called(n, [NewPeer(node[n].link) EXCEPT !.valid = FALSE])

\* wireguardif_add_peer.  Its caller passes the greatest_timestamp the peer had.
AddPeer(n) ==
  /\ ~node[n].valid
  /\ Called(n, NewPeer(node[n].link))

Step(n) ==
  \/ SendData(n)
  \/ \E i \in 1 .. MaxInFlight : ReceiveInitiation(n, i)
  \/ \E id \in responses[n] : ReceiveResponse(n, id)
  \/ \E p \in packets[n] : ReceivePacket(n, p)
  \/ Tmr(n)
  \/ Connect(n) \/ Disconnect(n) \/ RemovePeer(n) \/ AddPeer(n)

Next == TimePasses \/ \E n \in Nodes : Step(n)

Spec == Init /\ [][Next]_vars

(***************************************************************************)
(* Properties.                                                             *)
(***************************************************************************)

Packet == [id : Ids, counter : Counters, data : BOOLEAN]

\* The variables keep their types: no keypair counts past REJECT_AFTER_MESSAGES, no
\* packet has a counter from there on, and none is given to lwIP more than twice.
PeerTypeOK ==
  /\ node \in [Nodes -> Node]
  /\ \A n \in Nodes : /\ initiations[n] \in Seq(Ids)
                       /\ responses[n] \subseteq Ids
                       /\ packets[n] \subseteq Packet
  /\ left \in [handshakes : Nat, time : Nat, calls : Nat]
  /\ agreed \subseteq Ids

\* A node seals packets only with keys its peer's end of the handshake has
\* derived too.
UnconfirmedSilent ==
  \A n \in Nodes, slot \in Slots :
    Sendable(node[n].slots[slot]) => node[n].slots[slot].keys \in agreed

\* No two packets are sealed with the same key and the same counter: a handshake
\* makes one session, and a keypair that moves to another slot takes its counter
\* along.
NoncesDistinct ==
  \A n \in Nodes : \A p, q \in packets[n] :
    p.id = q.id /\ p.counter = q.counter => p = q

\* The index a message is looked up by names one thing: the handshake and the three
\* keypairs never share theirs, however crossing handshakes move them.
KeysDistinct ==
  \A n \in Nodes, a \in Slots :
    LET s == node[n]
    IN  s.slots[a].valid =>
          /\ \A b \in Slots \ {a} : s.slots[b].valid => s.slots[a].keys # s.slots[b].keys
          /\ s.handshake.valid => s.slots[a].keys # s.handshake.id

\* A session that its responder is about to lose, and the timer has looked at,
\* has its successor on the way: an initiation is unanswered or the initiator's
\* new keypair waits to be used.
EndingAsks ==
  \A n \in Nodes :
    LET s == node[n]
        curr == s.slots.curr
    IN  /\ curr.valid /\ ~curr.initiator /\ curr.age >= RejectAfterTime - Keepalive
        /\ TmrDone(n)
        => s.handshake.valid \/ s.slots.next.valid

\* Where a session is, the link is up.
LinkFollowsSession ==
  \A n \in Nodes :
    node[n].slots.curr.valid \/ node[n].slots.prev.valid => node[n].link

\* A packet is given to lwIP once, but for the one that confirmed the session,
\* which may be given twice although wireguardif.c:303 means to "Check for packet
\* replay / dupes": the check of the first copy marked a slot that is gone.
OnlyConfirmingTwice ==
  \A n \in Nodes, slot \in Slots, c \in Counters :
    LET k == node[n].slots[slot]
    IN  k.taken[c] <= IF c = k.opener THEN 2 ELSE 1
==============================================================================
