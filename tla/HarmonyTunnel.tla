---------------------------- MODULE HarmonyTunnel ----------------------------
(***************************************************************************)
(* The native tunnel of the VPN extension for its single peer: the threads *)
(* of tunnel/packet_io.cpp over the peer record of wireguard/wireguard.h,  *)
(* which no lock protects.                                                 *)
(*                                                                         *)
(*   timer   TimerThread: wg_timer_tick, FlushPendingHandshakes,           *)
(*           FlushKeepalives, every 100 ms                                 *)
(*   napi    the JS thread inside StartVpn: KickInitialHandshake, once     *)
(*   udp     UdpToTunThread: wg_process_packet on a handshake response     *)
(*   tun     TunToUdpThread: one outgoing IP packet                        *)
(*                                                                         *)
(* The client only ever initiates: wg_process_packet refuses initiations.  *)
(* A handler that takes several milliseconds of public-key work between    *)
(* reading and writing the shared handshake is split where it does.        *)
(*                                                                         *)
(* An element of Ids stands for one initiation: its random local index and *)
(* the secret its ephemeral key gives it.  The server and the network are  *)
(* external: packets may be lost, overtaken or duplicated.                 *)
(***************************************************************************)
EXTENDS Integers, FiniteSets, Sequences, SequencesExt

CONSTANTS
  Ids,              (* Identities of initiations.  Bounds the model.       *)
  NoId,
  RekeyTimeout,     (* REKEY_TIMEOUT, in units of model time.              *)
  RekeyAfterTime,   (* REKEY_AFTER_TIME.                                   *)
  Keepalive,        (* keepalive_interval of the peer; 0 disables it.      *)
  MaxAge,           (* Ages saturate here; no comparison sees the rest.    *)
  MaxInFlight       (* Packets in flight each way.  Bounds the model.      *)

ASSUME NoIdAssumption == NoId \notin Ids
ASSUME TimeAssumption ==
  /\ RekeyTimeout \in Nat \ {0}
  /\ RekeyAfterTime \in Nat \ {0}
  /\ Keepalive \in Nat
  /\ MaxAge \in Nat
  /\ RekeyTimeout <= MaxAge /\ RekeyAfterTime <= MaxAge /\ Keepalive <= MaxAge
ASSUME FlightAssumption == MaxInFlight \in Nat \ {0}

VARIABLES
  slots,            (* peer->curr_keypair, next_keypair, prev_keypair      *)
  handshake,        (* peer->handshake                                     *)
  sendHandshake,    (* peer->send_handshake                                *)
  initAge,          (* time since peer->last_initiation_tx                 *)
  sentData,         (* peer->last_tx # 0                                   *)
  txAge,            (* time since peer->last_tx                            *)
  pc,               (* where the two threads that create initiations are   *)
  creating,         (* the initiation such a thread is building            *)
  udp,              (* where UdpToTunThread is, and the response it holds  *)
  initiations,      (* initiations in flight, in the order they were sent  *)
  responses,        (* responses in flight                                 *)
  initAge2,         (* history: time since the last initiation but one     *)
  raced             (* history: a response was being processed while an    *)
                    (* initiation was being created                        *)

peerVars == <<slots, handshake, sendHandshake, initAge, sentData, txAge>>
netVars  == <<initiations, responses>>
histVars == <<initAge2, raced>>
vars     == <<peerVars, pc, creating, udp, netVars, histVars>>

Creators == {"timer", "napi"}
IdOrNone == Ids \union {NoId}
Ages     == 0 .. MaxAge

(***************************************************************************)
(* handshake->chaining_key and the ephemeral private key: what the client  *)
(* can do with them.  Opening(n): what create_handshake_initiation leaves  *)
(* for n, enough to open the response to n.  Agreed(n): what processing    *)
(* that response leaves, from which both ends derive the same keys.        *)
(* Blank: erased.  Torn: two writers were interleaved; no peer has it.     *)
(***************************************************************************)
Opening(n) == [kind |-> "opening", id |-> n]
Agreed(n)  == [kind |-> "agreed", id |-> n]
Blank      == [kind |-> "blank", id |-> NoId]
Torn       == [kind |-> "torn", id |-> NoId]
Chains     == [kind : {"opening", "agreed", "blank", "torn"}, id : IdOrNone]

(***************************************************************************)
(* A keypair.  keys is the initiation whose response both ends derived     *)
(* sending_key and receiving_key from, NoId if the server has no such keys;*)
(* idx is local_index; used is last_tx # 0; age counts from                *)
(* keypair_millis.  sending_valid and receiving_valid always equal valid.  *)
(***************************************************************************)
Keypair == [valid : BOOLEAN, initiator : BOOLEAN, idx : IdOrNone,
            keys : IdOrNone, used : BOOLEAN, age : Ages]

NoKeypair == [valid |-> FALSE, initiator |-> FALSE, idx |-> NoId,
              keys |-> NoId, used |-> FALSE, age |-> 0]

INSTANCE WgKeypair WITH Erased <- NoKeypair

NoHandshake == [valid |-> FALSE, idx |-> NoId, chain |-> Blank]

Init ==
  /\ slots = [curr |-> NoKeypair, next |-> NoKeypair, prev |-> NoKeypair]
  /\ handshake = NoHandshake
  /\ sendHandshake = FALSE
  /\ initAge = MaxAge
  /\ sentData = FALSE
  /\ txAge = MaxAge
  /\ pc = [t \in Creators |-> IF t = "timer" THEN "tick" ELSE "gate"]
  /\ creating = [t \in Creators |-> NoId]
  /\ udp = [pc |-> "poll", id |-> NoId]
  /\ initiations = <<>>
  /\ responses = {}
  /\ initAge2 = MaxAge
  /\ raced = FALSE

(***************************************************************************)
(* Time.                                                                   *)
(***************************************************************************)

\* wireguard_expired compares an age with a limit of at most MaxAge.
Older(a) == IF a < MaxAge THEN a + 1 ELSE MaxAge

Expired(a, limit) == a >= limit

Aged(k) == IF k.valid THEN [k EXCEPT !.age = Older(@)] ELSE k

TimePasses ==
  /\ initAge' = Older(initAge)
  /\ initAge2' = Older(initAge2)
  /\ txAge' = Older(txAge)
  /\ slots' = [ curr |-> Aged(slots.curr), next |-> Aged(slots.next),
                prev |-> Aged(slots.prev) ]
  /\ UNCHANGED <<handshake, sendHandshake, sentData, pc, creating, udp, netVars, raced>>

(***************************************************************************)
(* Creating an initiation: SendHandshakeForPeer, on thread t.              *)
(***************************************************************************)

\* Mutants: one of the two early returns is missing.
GateIgnoresTimeout == ~HasSession(slots)
GateIgnoresSession == Expired(initAge, RekeyTimeout)

\* SendHandshakeForPeer goes on to build an initiation.
GateOpen == Expired(initAge, RekeyTimeout) /\ ~HasSession(slots)

After(t) == IF t = "timer" THEN "keepalive" ELSE "done"

EnterGate(t) ==
  /\ pc' = [pc EXCEPT ![t] = IF GateOpen THEN "mix" ELSE After(t)]
  /\ raced' = (raced \/ (GateOpen /\ udp.pc # "poll"))

\* KickInitialHandshake, on the thread that runs StartVpn.
KickInitialHandshake ==
  /\ pc["napi"] = "gate"
  /\ EnterGate("napi")
  /\ UNCHANGED <<peerVars, creating, udp, netVars, initAge2>>

\* Every identity some part of the system still holds.
InUse ==
  (UNION {{k.idx, k.keys} : k \in {slots.curr, slots.next, slots.prev}})
    \union {handshake.idx, handshake.chain.id, udp.id}
    \union {creating[t] : t \in Creators}
    \union ToSet(initiations) \union responses

\* Mutant: the drawn index is not compared with the ones in use.
AnyId == Ids

\* wireguard_generate_unique_index and wireguard_generate_private_key: random,
\* so new also to the packets and to the server.
FreshIds == Ids \ InUse

\* create_handshake_initiation starts over the shared chaining key; the
\* previous handshake's index stays valid until the new one is published.
MixInitiation(t) ==
  /\ pc[t] = "mix"
  /\ \E n \in FreshIds :
       /\ handshake' = [handshake EXCEPT !.chain = Opening(n)]
       /\ creating' = [creating EXCEPT ![t] = n]
  /\ pc' = [pc EXCEPT ![t] = "publish"]
  /\ UNCHANGED <<slots, sendHandshake, initAge, sentData, txAge, udp, netVars, histVars>>

\* The chaining key once t has mixed the rest of initiation n into it: another
\* thread's write since MixInitiation(t) came after t's last one, or before.
Mixed(n) ==
  IF handshake.chain = Opening(n) THEN {Opening(n)} ELSE {handshake.chain, Torn}

\* Sending into a full network loses the oldest packet.
Send(n) ==
  Append(IF Len(initiations) < MaxInFlight THEN initiations ELSE Tail(initiations), n)

\* The end of create_handshake_initiation; wg_start_handshake then sets
\* last_initiation_tx, before UdpSocketSend and whether or not that fails: to
\* the client a failed send is a lost packet (InitiationLost).
PublishInitiation(t) ==
  /\ pc[t] = "publish"
  /\ \E chain \in Mixed(creating[t]) :
       handshake' = [valid |-> TRUE, idx |-> creating[t], chain |-> chain]
  /\ initAge' = 0
  /\ initAge2' = initAge
  /\ initiations' = Send(creating[t])
  /\ creating' = [creating EXCEPT ![t] = NoId]
  /\ pc' = [pc EXCEPT ![t] = After(t)]
  /\ UNCHANGED <<slots, sendHandshake, sentData, txAge, udp, responses, raced>>

(***************************************************************************)
(* TimerThread.                                                            *)
(***************************************************************************)

\* Mutant: no retry while a handshake is outstanding.
TimerTickWaits ==
  /\ pc["timer"] = "tick"
  /\ sendHandshake' = (sendHandshake \/ (~handshake.valid /\ GateOpen))
  /\ pc' = [pc EXCEPT !["timer"] = "flush"]
  /\ UNCHANGED <<slots, handshake, initAge, sentData, txAge, creating, udp, netVars, histVars>>

\* wg_timer_tick on an active peer.  The second reason to replace a session,
\* sending_counter > REKEY_AFTER_MESSAGES, sets the same flag as its age: messages
\* are not counted here.
TimerTick ==
  /\ pc["timer"] = "tick"
  /\ sendHandshake' =
       \/ sendHandshake
       \/ ~HasSession(slots) /\ Expired(initAge, RekeyTimeout)
       \/ slots.curr.valid /\ Expired(slots.curr.age, RekeyAfterTime)
  /\ pc' = [pc EXCEPT !["timer"] = "flush"]
  /\ UNCHANGED <<slots, handshake, initAge, sentData, txAge, creating, udp, netVars, histVars>>

\* FlushPendingHandshakes.
FlushPendingHandshakes ==
  /\ pc["timer"] = "flush"
  /\ sendHandshake' = FALSE
  /\ IF sendHandshake
       THEN EnterGate("timer")
       ELSE /\ pc' = [pc EXCEPT !["timer"] = "keepalive"]
            /\ UNCHANGED raced
  /\ UNCHANGED <<slots, handshake, initAge, sentData, txAge, creating, udp, netVars, initAge2>>

\* wg_encrypt_packet; whether the send that follows fails changes nothing.
Encrypt ==
  /\ slots' = AfterEncrypt(slots)
  /\ sentData' = TRUE
  /\ txAge' = 0

KeepaliveDue ==
  /\ slots.curr.valid
  /\ \/ ~sentData
     \/ Keepalive > 0 /\ Expired(txAge, Keepalive)

FlushKeepalives ==
  /\ pc["timer"] = "keepalive"
  /\ IF KeepaliveDue THEN Encrypt ELSE UNCHANGED <<slots, sentData, txAge>>
  /\ pc' = [pc EXCEPT !["timer"] = "tick"]
  /\ UNCHANGED <<handshake, sendHandshake, initAge, creating, udp, netVars, histVars>>

(***************************************************************************)
(* TunToUdpThread: an IP packet leaves, or is dropped for want of a        *)
(* session and asks for a handshake.                                       *)
(***************************************************************************)

TunPacketSent ==
  /\ HasSession(slots)
  /\ Encrypt
  /\ UNCHANGED <<handshake, sendHandshake, initAge, pc, creating, udp, netVars, histVars>>

TunPacketDropped ==
  /\ ~HasSession(slots)
  /\ sendHandshake' = TRUE
  /\ UNCHANGED <<slots, handshake, initAge, sentData, txAge, pc, creating, udp, netVars, histVars>>

(***************************************************************************)
(* UdpToTunThread on a handshake response.                                 *)
(***************************************************************************)

\* peer_lookup_by_handshake.
LookupByHandshake(n) == handshake.valid /\ handshake.idx = n

\* wg_process_packet finds the handshake the response answers; a response
\* that answers none is refused.  left is what stays in flight.
ReceiveResponse(n, left) ==
  /\ udp.pc = "poll"
  /\ n \in responses
  /\ responses' = left
  /\ IF LookupByHandshake(n)
       THEN /\ udp' = [pc |-> "open", id |-> n]
            /\ raced' = (raced \/ \E t \in Creators : pc[t] \in {"mix", "publish"})
       ELSE UNCHANGED <<udp, raced>>
  /\ UNCHANGED <<peerVars, pc, creating, initiations, initAge2>>

\* wireguard_process_handshake_response copies the handshake and opens the
\* response with the copy: this fails unless the copy is the handshake of n.
OpenResponse ==
  /\ udp.pc = "open"
  /\ udp' = IF handshake.valid /\ handshake.chain = Opening(udp.id)
              THEN [udp EXCEPT !.pc = "store"]
              ELSE [pc |-> "poll", id |-> NoId]
  /\ UNCHANGED <<peerVars, pc, creating, netVars, histVars>>

\* Then it writes the result back to the shared handshake.
StoreResponse ==
  /\ udp.pc = "store"
  /\ handshake' = [handshake EXCEPT !.chain = Agreed(udp.id)]
  /\ udp' = [udp EXCEPT !.pc = "start"]
  /\ UNCHANGED <<slots, sendHandshake, initAge, sentData, txAge, pc, creating, netVars, histVars>>

\* Mutant: wireguard_start_session(peer, false).
NewKeypairAsResponder ==
  [ valid |-> TRUE, initiator |-> FALSE, idx |-> handshake.idx,
    keys |-> IF handshake.chain = Agreed(udp.id) THEN udp.id ELSE NoId,
    used |-> FALSE, age |-> 0 ]

\* wireguard_start_session(peer, true) builds the keypair from whatever the
\* shared handshake now holds.
NewKeypair ==
  [ valid |-> TRUE, initiator |-> TRUE, idx |-> handshake.idx,
    keys |-> IF handshake.chain = Agreed(udp.id) THEN udp.id ELSE NoId,
    used |-> FALSE, age |-> 0 ]

\* Mutant: the handshake is not destroyed, and its chaining key is what it was
\* before the response.  (With that of the response a second copy would not open.)
StartSessionReopens ==
  /\ udp.pc = "start"
  /\ slots' = AddNewKeypair(slots, NewKeypair)
  /\ handshake' = [handshake EXCEPT !.chain = Opening(udp.id)]
  /\ udp' = [pc |-> "poll", id |-> NoId]
  /\ UNCHANGED <<sendHandshake, initAge, sentData, txAge, pc, creating, netVars, histVars>>

\* wireguard_start_session ends with handshake_destroy.
StartSession ==
  /\ udp.pc = "start"
  /\ slots' = AddNewKeypair(slots, NewKeypair)
  /\ handshake' = NoHandshake
  /\ udp' = [pc |-> "poll", id |-> NoId]
  /\ UNCHANGED <<sendHandshake, initAge, sentData, txAge, pc, creating, netVars, histVars>>

(***************************************************************************)
(* The server and the network.  The server answers an initiation unless it *)
(* has answered a later one, whose timestamp is greater.                   *)
(***************************************************************************)

ServerAnswers(i) ==
  /\ i \in DOMAIN initiations
  /\ Cardinality(responses) < MaxInFlight
  /\ initiations' = SubSeq(initiations, i + 1, Len(initiations))
  /\ responses' = responses \union {initiations[i]}
  /\ UNCHANGED <<peerVars, pc, creating, udp, histVars>>

InitiationLost(i) ==
  /\ i \in DOMAIN initiations
  /\ initiations' = RemoveAt(initiations, i)
  /\ UNCHANGED <<peerVars, pc, creating, udp, responses, histVars>>

ResponseLost(n) ==
  /\ n \in responses
  /\ responses' = responses \ {n}
  /\ UNCHANGED <<peerVars, pc, creating, udp, initiations, histVars>>

-----------------------------------------------------------------------------

Creator(t) == MixInitiation(t) \/ PublishInitiation(t)

TimerThread ==
  TimerTick \/ FlushPendingHandshakes \/ FlushKeepalives \/ Creator("timer")

NapiThread == KickInitialHandshake \/ Creator("napi")

UdpThread == OpenResponse \/ StoreResponse \/ StartSession

\* Everything but the clock.
Step ==
  \/ TimerThread \/ NapiThread \/ UdpThread
  \/ TunPacketSent \/ TunPacketDropped
  \/ \E n \in Ids : \E left \in {responses, responses \ {n}} : ReceiveResponse(n, left)
  \/ \E i \in 1 .. MaxInFlight : ServerAnswers(i) \/ InitiationLost(i)
  \/ \E n \in Ids : ResponseLost(n)

Next == Step \/ TimePasses

Spec == Init /\ [][Next]_vars

(***************************************************************************)
(* Fairness.  The three threads run until StopPacketIO and the clock       *)
(* advances: weak fairness.  poll() wakes the UDP thread for a datagram    *)
(* that has arrived, and a path that is not dead delivers one of infinitely*)
(* many packets: strong fairness.  Nothing is assumed of the applications  *)
(* that send IP packets.                                                   *)
(***************************************************************************)
Deliver(n) == ReceiveResponse(n, responses \ {n})

ThreadFairness ==
  /\ WF_vars(TimerThread)
  /\ WF_vars(NapiThread)
  /\ WF_vars(UdpThread)
  /\ \A n \in Ids : SF_vars(Deliver(n))
  /\ WF_vars(\E i \in 1 .. MaxInFlight : ServerAnswers(i) \/ InitiationLost(i))
  /\ WF_vars(TimePasses)

FairSpec == Spec /\ ThreadFairness

\* A path whose round trip is shorter than a unit of time: time does not pass
\* while a packet is in flight or being processed.
Quiet == initiations = <<>> /\ responses = {} /\ udp.pc = "poll"

PromptTimePasses == Quiet /\ TimePasses

PromptFairness ==
  /\ WF_vars(TimerThread)
  /\ WF_vars(NapiThread)
  /\ WF_vars(UdpThread)
  /\ \A n \in Ids : SF_vars(Deliver(n))
  /\ SF_vars(\E i \in 1 .. MaxInFlight : ServerAnswers(i))
  /\ SF_vars(PromptTimePasses)

PromptSpec == Init /\ [][Step \/ PromptTimePasses]_vars /\ PromptFairness

(***************************************************************************)
(* Properties.                                                             *)
(***************************************************************************)

\* The variables keep their types: a thread is where its code can be, builds an
\* initiation or holds a response exactly while it is there, and every session of
\* the client is one that it initiated.
TypeOK ==
  /\ slots \in [curr : Keypair, next : Keypair, prev : Keypair]
  /\ \A k \in {slots.curr, slots.next, slots.prev} : k.valid => k.initiator
  /\ handshake \in [valid : BOOLEAN, idx : IdOrNone, chain : Chains]
  /\ sendHandshake \in BOOLEAN /\ sentData \in BOOLEAN /\ raced \in BOOLEAN
  /\ initAge \in Ages /\ initAge2 \in Ages /\ txAge \in Ages
  /\ pc \in [Creators -> {"tick", "flush", "keepalive", "gate", "mix", "publish", "done"}]
  /\ creating \in [Creators -> IdOrNone]
  /\ pc["timer"] \notin {"gate", "done"} /\ pc["napi"] \notin {"tick", "flush", "keepalive"}
  /\ \A t \in Creators : pc[t] = "publish" <=> creating[t] # NoId
  /\ udp \in [pc : {"poll", "open", "store", "start"}, id : IdOrNone]
  /\ udp.pc = "poll" <=> udp.id = NoId
  /\ initiations \in Seq(Ids)
  /\ responses \in SUBSET Ids

\* The client is never the responder, so nothing ever waits in next_keypair:
\* the promotion in wg_encrypt_packet and every test of next_keypair.valid in
\* packet_io.cpp are dead, and a session can be used from its first moment.
NextSlotUnused == ~slots.next.valid

\* The index a received packet is looked up by names one thing: no two of the
\* live handshake and the three keypairs share a local index.
LiveIndices ==
  [ what \in {"handshake", "curr", "next", "prev"} |->
      IF what = "handshake"
        THEN IF handshake.valid THEN handshake.idx ELSE NoId
        ELSE IF slots[what].valid THEN slots[what].idx ELSE NoId ]

IndicesDistinct ==
  \A a, b \in DOMAIN LiveIndices :
    a # b /\ LiveIndices[a] # NoId => LiveIndices[a] # LiveIndices[b]

\* Unless the udp thread was handling a response while another thread was
\* creating an initiation, a session in use has the keys and the index of one
\* and the same handshake, and it is the only session the tunnel ever had.
UnracedSessionSound ==
  ~raced /\ slots.curr.valid =>
    /\ slots.curr.keys # NoId /\ slots.curr.idx = slots.curr.keys
    /\ ~slots.prev.valid
    /\ \A t \in Creators : creating[t] = NoId

\* A session's keys are never installed again, whatever copies of responses
\* arrive: the new keypair's counter restarts at 0, so its packets would use
\* the nonces of the old one's.
InstalledOnce ==
  udp.pc = "start" /\ udp'.pc = "poll" =>
    \/ slots'.curr.keys = NoId
    \/ slots'.curr.keys \notin {slots.curr.keys, slots.next.keys, slots.prev.keys}

KeysInstalledOnce == [][InstalledOnce]_vars

\* A thread publishes the initiation it was building.
Initiates == \E t \in Creators : creating[t] # NoId /\ creating'[t] = NoId

\* The threads that create initiations race, but only one initiation too many
\* comes of it: of any three consecutive initiations, the first and the last
\* are at least REKEY_TIMEOUT apart.  (packet_io.cpp:47 has it that any two are;
\* the race lets two leave at once.)
ThirdInitiationWaits == [][Initiates => Expired(initAge2, RekeyTimeout)]_vars

\* packet_io.cpp:54: a session that counts as valid is one that works, so it
\* needs no new handshake.
ValidSessionUsable ==
  slots.curr.valid => slots.curr.keys # NoId /\ slots.curr.idx = slots.curr.keys

\* A tunnel without a session does not give up: REKEY_TIMEOUT after the last
\* initiation it sends another, whatever was lost and however the threads tore
\* the handshake before.
KeepsTrying ==
  ~slots.curr.valid /\ Expired(initAge, RekeyTimeout) ~> initAge = 0 \/ slots.curr.valid

\* Over a path that does not lose every packet the tunnel comes up, and it
\* stays up: no step of the native code ever takes the session away.
ComesUp == <>[]slots.curr.valid

\* wireguard.h:168 and wireguardif_harmony.cpp:213: a session that has reached
\* REKEY_AFTER_TIME is replaced by a new handshake.
SessionsAreRekeyed ==
  slots.curr.valid /\ Expired(slots.curr.age, RekeyAfterTime)
    ~> slots.curr.age < RekeyAfterTime

\* packet_io.cpp:89: once a session is established the initiator sends on it,
\* because until then the server will not.
EverySessionConfirmed == slots.curr.valid /\ ~slots.curr.used ~> slots.curr.used
==============================================================================
