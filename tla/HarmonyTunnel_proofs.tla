------------------------- MODULE HarmonyTunnel_proofs -------------------------
(***************************************************************************)
(* Proofs about HarmonyTunnel, for every set of identities, every timeout  *)
(* and every bound on the packets in flight.                               *)
(*                                                                         *)
(* Type correctness comes first; each further invariant then has its own   *)
(* inductive strengthening, proved from the ones before it.                *)
(***************************************************************************)
EXTENDS HarmonyTunnel, SequenceTheorems, TLAPS

(***************************************************************************)
(* The inductive invariants.                                               *)
(***************************************************************************)

\* The client is an initiator: no keypair ever waits for a first packet.
InitiatorInv == slots.next = NoKeypair

\* The six places that hold a local index: no two hold the same one, and a
\* thread holds one exactly while it builds an initiation.
HeldIndex ==
  [ h \in {"handshake", "curr", "next", "prev"} \union Creators |->
      IF h = "handshake" THEN handshake.idx
      ELSE IF h \in Creators THEN creating[h]
      ELSE slots[h].idx ]

IndexInv ==
  \A a, b \in DOMAIN HeldIndex :
    a # b /\ HeldIndex[a] # NoId => HeldIndex[a] # HeldIndex[b]

\* The keys of a session are those of no handshake still in progress.
InstalledKeys == {slots.curr.keys, slots.next.keys, slots.prev.keys} \ {NoId}

KeysInv ==
  /\ handshake.chain.id \notin InstalledKeys
  /\ udp.pc \in {"store", "start"} => udp.id \notin InstalledKeys

\* While the udp thread and the creators of initiations have not met, they
\* exclude each other, and a session shuts both out.
Building(t) == pc[t] \in {"mix", "publish"}

RaceInv ==
  /\ udp.pc # "poll" =>
       /\ \A t \in Creators : ~Building(t)
       /\ udp.id # NoId /\ handshake.valid /\ handshake.idx = udp.id
       /\ ~slots.curr.valid
  /\ udp.pc = "start" => handshake.chain = Agreed(udp.id)
  /\ slots.curr.valid =>
       /\ \A t \in Creators : ~Building(t)
       /\ ~handshake.valid
       /\ slots.curr.keys # NoId /\ slots.curr.idx = slots.curr.keys
  /\ ~slots.prev.valid

UnracedInv == ~raced => RaceInv

\* The gate's verdict stays true long enough: a thread past it publishes at
\* least REKEY_TIMEOUT after the last initiation but one.
SpacingInv ==
  /\ initAge <= initAge2
  /\ \A t \in Creators : Building(t) => Expired(initAge2, RekeyTimeout)
  /\ (\A t \in Creators : Building(t)) => Expired(initAge, RekeyTimeout)

(***************************************************************************)
(* Facts about the helpers.                                                *)
(***************************************************************************)

Slots == [curr : Keypair, next : Keypair, prev : Keypair]

\* Every session in the slots is one that the client initiated.
Initiated(s) == \A k \in {s.curr, s.next, s.prev} : k.valid => k.initiator

\* The threads that create initiations are where their code can be.
Where(p) ==
  /\ p \in [Creators -> {"tick", "flush", "keepalive", "gate", "mix", "publish", "done"}]
  /\ p["timer"] \notin {"gate", "done"} /\ p["napi"] \notin {"tick", "flush", "keepalive"}

\* An age stays an age and never falls.
LEMMA OlderAge ==
  ASSUME NEW a \in Ages
  PROVE  Older(a) \in Ages /\ a <= Older(a)
BY TimeAssumption DEF Ages, Older

\* Growing older changes nothing of a keypair but its age.
LEMMA AgedKeypair ==
  ASSUME NEW k \in Keypair
  PROVE  /\ Aged(k) \in Keypair /\ Aged(k).initiator = k.initiator
         /\ Aged(k).valid = k.valid /\ Aged(k).idx = k.idx /\ Aged(k).keys = k.keys
         /\ ~k.valid => Aged(k) = k
BY OlderAge DEF Keypair, Aged

\* The erased keypair is a keypair.
LEMMA NoKeypairType == NoKeypair \in Keypair
BY TimeAssumption DEF NoKeypair, Keypair, Ages, IdOrNone

\* wg_encrypt_packet leaves keypairs in the slots.
LEMMA AfterEncryptType ==
  ASSUME NEW s \in Slots, Initiated(s)
  PROVE  AfterEncrypt(s) \in Slots /\ (HasSession(s) => Initiated(AfterEncrypt(s)))
BY NoKeypairType DEF AfterEncrypt, Promote, Slots, Keypair, Initiated, HasSession, NoKeypair

\* So does add_new_keypair.
LEMMA AddNewKeypairType ==
  ASSUME NEW s \in Slots, NEW k \in Keypair, Initiated(s), k.initiator
  PROVE  AddNewKeypair(s, k) \in Slots /\ Initiated(AddNewKeypair(s, k))
BY NoKeypairType DEF AddNewKeypair, Slots, Initiated, NoKeypair

\* wireguard_start_session builds a keypair.
LEMMA NewKeypairType ==
  ASSUME TypeOK
  PROVE  NewKeypair \in Keypair /\ NewKeypair.initiator
BY TimeAssumption DEF TypeOK, NewKeypair, Keypair, Ages, IdOrNone

\* Sending and losing leave a sequence of identities.
LEMMA SendType ==
  ASSUME NEW n \in Ids, initiations \in Seq(Ids)
  PROVE  Send(n) \in Seq(Ids)
<1>1. CASE Len(initiations) < MaxInFlight
  BY <1>1, AppendProperties DEF Send
<1>2. CASE ~(Len(initiations) < MaxInFlight)
  <2>1. initiations # <<>>
    BY <1>2, FlightAssumption, EmptySeq
  <2>2. Tail(initiations) \in Seq(Ids)
    BY <2>1, HeadTailProperties
  <2> QED BY <1>2, <2>2, AppendProperties DEF Send
<1> QED BY <1>1, <1>2

(***************************************************************************)
(* Type correctness.                                                       *)
(***************************************************************************)

\* A new peer has its types.
LEMMA InitType == Init => TypeOK
<1> SUFFICES ASSUME Init  PROVE TypeOK
  OBVIOUS
<1>1. slots \in Slots
  BY NoKeypairType DEF Init, Slots
<1>2. handshake \in [valid : BOOLEAN, idx : IdOrNone, chain : Chains]
  BY DEF Init, NoHandshake, IdOrNone, Chains, Blank
<1>3. initiations \in Seq(Ids)
  BY EmptySeq DEF Init
<1>4. /\ pc \in [Creators -> {"tick", "flush", "keepalive", "gate", "mix", "publish", "done"}]
      /\ creating \in [Creators -> IdOrNone]
      /\ \A t \in Creators : pc[t] = "publish" <=> creating[t] # NoId
  BY DEF Init, IdOrNone
<1>5. initAge \in Ages /\ initAge2 \in Ages /\ txAge \in Ages
  BY TimeAssumption DEF Init, Ages
<1>6. udp \in [pc : {"poll", "open", "store", "start"}, id : IdOrNone]
  BY DEF Init, IdOrNone
<1>7. \A k \in {slots.curr, slots.next, slots.prev} : k.valid => k.initiator
  BY DEF Init, NoKeypair
<1>8. /\ pc["timer"] \notin {"gate", "done"} /\ pc["napi"] \notin {"tick", "flush", "keepalive"}
      /\ udp.pc = "poll" <=> udp.id = NoId
  BY DEF Init, Creators
<1> QED
  BY <1>1, <1>2, <1>3, <1>4, <1>5, <1>6, <1>7, <1>8 DEF Init, TypeOK, Slots

\* The clock keeps the types.
LEMMA TimePassesType ==
  ASSUME TypeOK, TimePasses  PROVE TypeOK'
<1>1. initAge' \in Ages /\ initAge2' \in Ages /\ txAge' \in Ages
  BY OlderAge DEF TypeOK, TimePasses
<1>2. /\ slots' \in [curr : Keypair, next : Keypair, prev : Keypair]
      /\ \A k \in {slots'.curr, slots'.next, slots'.prev} : k.valid => k.initiator
  BY AgedKeypair DEF TypeOK, TimePasses
<1> QED BY <1>1, <1>2 DEF TypeOK, TimePasses, netVars

\* The threads that create initiations keep the types.
LEMMA CreatorType ==
  ASSUME TypeOK, NEW t \in Creators, Creator(t)  PROVE TypeOK'
<1>1. CASE MixInitiation(t)
  <2>1. PICK n \in FreshIds :
          /\ handshake' = [handshake EXCEPT !.chain = Opening(n)]
          /\ creating' = [creating EXCEPT ![t] = n]
    BY <1>1 DEF MixInitiation
  <2>2. n \in IdOrNone /\ Opening(n) \in Chains
    BY DEF FreshIds, IdOrNone, Opening, Chains
  <2>3. handshake' \in [valid : BOOLEAN, idx : IdOrNone, chain : Chains]
    BY <2>1, <2>2 DEF TypeOK
  <2>4. /\ creating' \in [Creators -> IdOrNone]
        /\ \A u \in Creators : pc'[u] = "publish" <=> creating'[u] # NoId
    BY <1>1, <2>1, <2>2, NoIdAssumption DEF TypeOK, MixInitiation, FreshIds
  <2>5. Where(pc')
    BY <1>1 DEF TypeOK, MixInitiation, Where, Creators
  <2> QED BY <1>1, <2>3, <2>4, <2>5 DEF TypeOK, MixInitiation, netVars, histVars, Where
<1>2. CASE PublishInitiation(t)
  <2>1. PICK chain \in Mixed(creating[t]) :
          handshake' = [valid |-> TRUE, idx |-> creating[t], chain |-> chain]
    BY <1>2 DEF PublishInitiation
  <2>2. chain \in Chains
    BY DEF Mixed, Opening, Torn, Chains, IdOrNone, TypeOK
  <2>3. handshake' \in [valid : BOOLEAN, idx : IdOrNone, chain : Chains]
    BY <2>1, <2>2 DEF TypeOK
  <2>4. initAge' \in Ages /\ initAge2' \in Ages
    BY <1>2, TimeAssumption DEF PublishInitiation, TypeOK, Ages
  <2>5. /\ creating' \in [Creators -> IdOrNone] /\ Where(pc')
        /\ \A u \in Creators : pc'[u] = "publish" <=> creating'[u] # NoId
    BY <1>2 DEF PublishInitiation, TypeOK, IdOrNone, After, Where, Creators
  <2>6. creating[t] \in Ids
    BY <1>2 DEF PublishInitiation, TypeOK, IdOrNone
  <2>7. initiations' \in Seq(Ids)
    BY <1>2, <2>6, SendType DEF PublishInitiation, TypeOK
  <2> QED BY <1>2, <2>3, <2>4, <2>5, <2>7 DEF TypeOK, PublishInitiation, Where
<1> QED BY <1>1, <1>2 DEF Creator

\* Sending on a session keeps the types.
LEMMA EncryptType ==
  ASSUME TypeOK, Encrypt, HasSession(slots)
  PROVE  /\ slots' \in Slots /\ Initiated(slots')
         /\ sentData' \in BOOLEAN /\ txAge' \in Ages
BY AfterEncryptType, TimeAssumption DEF Encrypt, TypeOK, Slots, Ages, Initiated

\* A pass through the gate changes only pc and raced.
LEMMA GateType ==
  ASSUME TypeOK, NEW t \in Creators, pc[t] # "publish", EnterGate(t)
  PROVE  /\ Where(pc')
         /\ \A u \in Creators : pc'[u] = "publish" <=> creating[u] # NoId
         /\ raced' \in BOOLEAN
BY DEF EnterGate, TypeOK, After, Where, Creators

\* The timer thread's own steps keep the types.
LEMMA TimerType ==
  ASSUME TypeOK, TimerTick \/ FlushPendingHandshakes \/ FlushKeepalives
  PROVE  TypeOK'
<1> USE DEF netVars, histVars
<1>1. CASE TimerTick
  BY <1>1 DEF TypeOK, TimerTick, Creators
<1>2. CASE FlushPendingHandshakes
  <2>1. CASE sendHandshake
    BY <1>2, <2>1, GateType DEF FlushPendingHandshakes, TypeOK, Creators, Where
  <2>2. CASE ~sendHandshake
    BY <1>2, <2>2 DEF FlushPendingHandshakes, TypeOK, Creators
  <2> QED BY <2>1, <2>2
<1>3. CASE FlushKeepalives
  <2>1. /\ slots' \in Slots /\ Initiated(slots')
        /\ sentData' \in BOOLEAN /\ txAge' \in Ages
    BY <1>3, EncryptType DEF FlushKeepalives, TypeOK, KeepaliveDue, HasSession, Slots, Initiated
  <2> QED BY <1>3, <2>1 DEF FlushKeepalives, TypeOK, Slots, Initiated, Creators
<1> QED BY <1>1, <1>2, <1>3

\* The UDP thread keeps the types.
LEMMA UdpType ==
  ASSUME TypeOK, UdpThread  PROVE TypeOK'
<1> USE DEF netVars, histVars, peerVars
<1>1. CASE OpenResponse
  BY <1>1 DEF OpenResponse, TypeOK, IdOrNone
<1>2. CASE StoreResponse
  <2>1. Agreed(udp.id) \in Chains
    BY DEF TypeOK, Agreed, Chains
  <2> QED BY <1>2, <2>1 DEF StoreResponse, TypeOK
<1>3. CASE StartSession
  <2>1. slots' \in Slots /\ Initiated(slots')
    BY <1>3, AddNewKeypairType, NewKeypairType DEF StartSession, TypeOK, Slots, Initiated
  <2>2. handshake' \in [valid : BOOLEAN, idx : IdOrNone, chain : Chains]
    BY <1>3 DEF StartSession, NoHandshake, IdOrNone, Chains, Blank
  <2> QED BY <1>3, <2>1, <2>2 DEF StartSession, TypeOK, Slots, IdOrNone, Initiated
<1> QED BY <1>1, <1>2, <1>3 DEF UdpThread

\* Outgoing IP packets keep the types.
LEMMA PacketType ==
  ASSUME TypeOK, TunPacketSent \/ TunPacketDropped
  PROVE  TypeOK'
<1> USE DEF netVars, histVars
<1>1. CASE TunPacketSent
  <2>1. /\ slots' \in Slots /\ Initiated(slots')
        /\ sentData' \in BOOLEAN /\ txAge' \in Ages
    BY <1>1, EncryptType DEF TunPacketSent
  <2> QED BY <1>1, <2>1 DEF TunPacketSent, TypeOK, Slots, Initiated
<1>2. CASE TunPacketDropped
  BY <1>2 DEF TunPacketDropped, TypeOK
<1> QED BY <1>1, <1>2

\* The network and the server keep the types.
LEMMA NetworkType ==
  ASSUME TypeOK,
         \/ \E n \in Ids : \E left \in {responses, responses \ {n}} : ReceiveResponse(n, left)
         \/ \E i \in 1 .. MaxInFlight : ServerAnswers(i) \/ InitiationLost(i)
         \/ \E n \in Ids : ResponseLost(n)
  PROVE  TypeOK'
<1> USE DEF peerVars, histVars, netVars
<1>1. ASSUME NEW n \in Ids, NEW left \in {responses, responses \ {n}}, ReceiveResponse(n, left)
      PROVE  TypeOK'
  <2>1. CASE LookupByHandshake(n)
    BY <1>1, <2>1, NoIdAssumption DEF ReceiveResponse, TypeOK, IdOrNone
  <2>2. CASE ~LookupByHandshake(n)
    BY <1>1, <2>2 DEF ReceiveResponse, TypeOK
  <2> QED BY <2>1, <2>2
<1>2. ASSUME NEW i \in 1 .. MaxInFlight, ServerAnswers(i)  PROVE TypeOK'
  <2>1. initiations' \in Seq(Ids) /\ initiations[i] \in Ids
    BY <1>2, SubSeqProperties, LenProperties DEF ServerAnswers, TypeOK
  <2> QED BY <1>2, <2>1 DEF ServerAnswers, TypeOK
<1>3. ASSUME NEW i \in 1 .. MaxInFlight, InitiationLost(i)  PROVE TypeOK'
  <2>1. i \in 1 .. Len(initiations) /\ Len(initiations) \in Nat
    BY <1>3, LenProperties DEF InitiationLost, TypeOK
  <2>2. /\ SubSeq(initiations, 1, i - 1) \in Seq(Ids)
        /\ SubSeq(initiations, i + 1, Len(initiations)) \in Seq(Ids)
    BY <2>1, SubSeqProperties DEF TypeOK
  <2>3. initiations' \in Seq(Ids)
    BY <1>3, <2>2, ConcatProperties DEF InitiationLost, RemoveAt
  <2> QED BY <1>3, <2>3 DEF InitiationLost, TypeOK
<1>4. ASSUME NEW n \in Ids, ResponseLost(n)  PROVE TypeOK'
  BY <1>4 DEF ResponseLost, TypeOK
<1> QED BY <1>1, <1>2, <1>3, <1>4

\* Every variable keeps its type.
THEOREM TypeCorrect == Spec => []TypeOK
<1>1. TypeOK /\ [Next]_vars => TypeOK'
  <2> SUFFICES ASSUME TypeOK, [Next]_vars  PROVE TypeOK'
    OBVIOUS
  <2>1. CASE TimerThread
    BY <2>1, TimerType, CreatorType DEF TimerThread, Creators
  <2>2. CASE NapiThread
    <3>1. CASE KickInitialHandshake
      BY <3>1, GateType DEF KickInitialHandshake, Creators, TypeOK, peerVars, netVars, Where
    <3>2. CASE Creator("napi")
      BY <3>2, CreatorType DEF Creators
    <3> QED BY <2>2, <3>1, <3>2 DEF NapiThread
  <2>3. CASE UdpThread
    BY <2>3, UdpType
  <2>4. CASE TunPacketSent \/ TunPacketDropped
    BY <2>4, PacketType
  <2>5. CASE Step /\ ~TimerThread /\ ~NapiThread /\ ~UdpThread
                  /\ ~TunPacketSent /\ ~TunPacketDropped
    BY <2>5, NetworkType DEF Step
  <2>6. CASE TimePasses
    BY <2>6, TimePassesType
  <2>7. CASE UNCHANGED vars
    BY <2>7 DEF vars, peerVars, netVars, histVars, TypeOK
  <2> QED BY <2>1, <2>2, <2>3, <2>4, <2>5, <2>6, <2>7 DEF Next
<1> QED BY <1>1, InitType, PTL DEF Spec

(***************************************************************************)
(* What a step does to the variables the invariants are about.             *)
(***************************************************************************)

SameBuilders == \A t \in Creators : Building(t)' = Building(t)

PassGate(t) ==
  /\ GateOpen
  /\ pc' = [pc EXCEPT ![t] = "mix"]
  /\ raced' = (raced \/ udp.pc # "poll")
  /\ UNCHANGED <<slots, handshake, initAge, creating, udp, initAge2>>

UseSession ==
  /\ HasSession(slots)
  /\ slots' = AfterEncrypt(slots)
  /\ SameBuilders
  /\ UNCHANGED <<handshake, initAge, creating, udp, initAge2, raced>>

TakeResponse(n) ==
  /\ udp.pc = "poll" /\ LookupByHandshake(n)
  /\ udp' = [pc |-> "open", id |-> n]
  /\ raced' = (raced \/ \E t \in Creators : Building(t))
  /\ SameBuilders
  /\ UNCHANGED <<slots, handshake, initAge, creating, initAge2>>

Idle ==
  /\ SameBuilders
  /\ UNCHANGED <<slots, handshake, initAge, creating, udp, initAge2, raced>>

\* A thread at the gate passes it, when the gate is open, or changes nothing.
LEMMA GateCases ==
  ASSUME TypeOK, NEW t \in Creators, ~Building(t), EnterGate(t),
         UNCHANGED <<slots, handshake, initAge, creating, udp, initAge2>>
  PROVE  PassGate(t) \/ Idle
<1>1. CASE GateOpen
  BY <1>1 DEF EnterGate, PassGate
<1>2. CASE ~GateOpen
  <2>1. SameBuilders
    BY <1>2 DEF EnterGate, SameBuilders, Building, After, TypeOK
  <2>2. raced' = raced
    BY <1>2 DEF EnterGate, TypeOK
  <2> QED BY <2>1, <2>2 DEF Idle
<1> QED BY <1>1, <1>2

\* Every step does one of these things to the peer, or touches none of what the
\* invariants speak of.
LEMMA StepCases ==
  ASSUME TypeOK, [Next]_vars
  PROVE  \/ Idle
         \/ TimePasses
         \/ UseSession
         \/ \E t \in Creators : PassGate(t) \/ MixInitiation(t) \/ PublishInitiation(t)
         \/ \E n \in Ids : TakeResponse(n)
         \/ OpenResponse \/ StoreResponse \/ StartSession
<1> USE DEF peerVars, netVars, histVars
<1>1. CASE TimerThread
  <2>1. CASE TimerTick
    BY <2>1 DEF TimerTick, Idle, SameBuilders, Building, TypeOK
  <2>2. CASE FlushPendingHandshakes
    <3>1. CASE sendHandshake
      <4>1. ~Building("timer")
        BY <2>2 DEF FlushPendingHandshakes, Building
      <4> QED BY <2>2, <3>1, <4>1, GateCases DEF FlushPendingHandshakes, Creators
    <3>2. CASE ~sendHandshake
      BY <2>2, <3>2 DEF FlushPendingHandshakes, Idle, SameBuilders, Building, TypeOK
    <3> QED BY <3>1, <3>2
  <2>3. CASE FlushKeepalives
    <3>1. SameBuilders
      BY <2>3 DEF FlushKeepalives, SameBuilders, Building, TypeOK
    <3>2. CASE KeepaliveDue
      BY <2>3, <3>1, <3>2 DEF FlushKeepalives, KeepaliveDue, Encrypt, UseSession, HasSession
    <3>3. CASE ~KeepaliveDue
      BY <2>3, <3>1, <3>3 DEF FlushKeepalives, Idle
    <3> QED BY <3>2, <3>3
  <2> QED BY <1>1, <2>1, <2>2, <2>3 DEF TimerThread, Creator, Creators
<1>2. CASE NapiThread
  <2>1. CASE KickInitialHandshake
    <3>1. ~Building("napi")
      BY <2>1 DEF KickInitialHandshake, Building
    <3> QED BY <2>1, <3>1, GateCases DEF KickInitialHandshake, Creators
  <2> QED BY <1>2, <2>1 DEF NapiThread, Creator, Creators
<1>3. CASE TunPacketSent
  BY <1>3 DEF TunPacketSent, Encrypt, UseSession, SameBuilders, Building
<1>4. CASE TunPacketDropped
  BY <1>4 DEF TunPacketDropped, Idle, SameBuilders, Building
<1>5. ASSUME NEW n \in Ids, NEW left \in {responses, responses \ {n}}, ReceiveResponse(n, left)
      PROVE  TakeResponse(n) \/ Idle
  <2>1. SameBuilders
    BY <1>5 DEF ReceiveResponse, SameBuilders, Building
  <2>2. CASE LookupByHandshake(n)
    BY <1>5, <2>1, <2>2 DEF ReceiveResponse, TakeResponse, Building
  <2>3. CASE ~LookupByHandshake(n)
    BY <1>5, <2>1, <2>3 DEF ReceiveResponse, Idle
  <2> QED BY <2>2, <2>3
<1>6. ASSUME NEW i \in 1 .. MaxInFlight, ServerAnswers(i) \/ InitiationLost(i)  PROVE Idle
  BY <1>6 DEF ServerAnswers, InitiationLost, Idle, SameBuilders, Building
<1>7. ASSUME NEW n \in Ids, ResponseLost(n)  PROVE Idle
  BY <1>7 DEF ResponseLost, Idle, SameBuilders, Building
<1>8. CASE UNCHANGED vars
  BY <1>8 DEF vars, Idle, SameBuilders, Building
<1> QED BY <1>1, <1>2, <1>3, <1>4, <1>5, <1>6, <1>7, <1>8 DEF Next, Step, UdpThread

(***************************************************************************)
(* The initiator's slots.                                                  *)
(***************************************************************************)

\* The next slot stays erased.
LEMMA InitiatorInvariant == Spec => []InitiatorInv
<1>1. Init => InitiatorInv
  BY DEF Init, InitiatorInv
<1>2. TypeOK /\ InitiatorInv /\ [Next]_vars => InitiatorInv'
  <2> SUFFICES ASSUME TypeOK, InitiatorInv, [Next]_vars  PROVE InitiatorInv'
    OBVIOUS
  <2> USE DEF InitiatorInv
  <2>1. CASE TimePasses
    BY <2>1 DEF TimePasses, Aged, NoKeypair
  <2>2. CASE UseSession
    BY <2>2 DEF UseSession, HasSession, AfterEncrypt, NoKeypair, TypeOK
  <2>3. CASE StartSession
    BY <2>3 DEF StartSession, AddNewKeypair, NewKeypair, NoKeypair
  <2>4. CASE slots' = slots
    BY <2>4
  <2> QED
    BY <2>1, <2>2, <2>3, <2>4, StepCases
       DEF Idle, PassGate, MixInitiation, PublishInitiation, TakeResponse,
           OpenResponse, StoreResponse, peerVars
<1> QED BY <1>1, <1>2, TypeCorrect, PTL DEF Spec

\* Nothing ever waits in next_keypair.
THEOREM NextSlotIsUnused == Spec => []NextSlotUnused
<1>1. InitiatorInv => NextSlotUnused
  BY DEF InitiatorInv, NextSlotUnused, NoKeypair
<1> QED BY <1>1, InitiatorInvariant, PTL

\* What a packet sent on the session does to the slots of an initiator.
LEMMA UseSessionSlots ==
  ASSUME TypeOK, InitiatorInv, UseSession
  PROVE  slots' = [slots EXCEPT !.curr.used = TRUE]
BY DEF UseSession, HasSession, AfterEncrypt, InitiatorInv, NoKeypair

\* What a new session does to them.
LEMMA StartSessionSlots ==
  ASSUME InitiatorInv, StartSession
  PROVE  slots' = [curr |-> NewKeypair, next |-> NoKeypair, prev |-> slots.curr]
BY DEF StartSession, AddNewKeypair, NewKeypair, InitiatorInv, NoKeypair

(***************************************************************************)
(* Spacing of initiations.                                                 *)
(***************************************************************************)

\* A thread past the gate is late enough after the last initiation but one.
LEMMA SpacingInvariant == Spec => []SpacingInv
<1>1. Init => SpacingInv
  BY TimeAssumption DEF Init, SpacingInv, Building, Creators
<1>2. TypeOK /\ SpacingInv /\ [Next]_vars => SpacingInv'
  <2> SUFFICES ASSUME TypeOK, SpacingInv, [Next]_vars  PROVE SpacingInv'
    OBVIOUS
  <2> USE DEF SpacingInv, Expired
  <2>1. CASE TimePasses
    <3>1. /\ initAge' \in Ages /\ initAge2' \in Ages
          /\ initAge <= initAge' /\ initAge2 <= initAge2' /\ initAge' <= initAge2'
      BY <2>1, TimeAssumption DEF TimePasses, Older, Ages, TypeOK
    <3>2. \A t \in Creators : Building(t)' = Building(t)
      BY <2>1 DEF TimePasses, Building
    <3> QED BY <3>1, <3>2, TimeAssumption DEF Ages, TypeOK
  <2>2. ASSUME NEW t \in Creators, PassGate(t)  PROVE SpacingInv'
    <3>1. initAge >= RekeyTimeout /\ initAge2 >= RekeyTimeout
      BY <2>2, TimeAssumption DEF PassGate, GateOpen, Ages, TypeOK
    <3> QED BY <2>2, <3>1 DEF PassGate
  <2>3. ASSUME NEW t \in Creators, MixInitiation(t)  PROVE SpacingInv'
    <3>1. \A u \in Creators : Building(u)' = Building(u)
      BY <2>3 DEF MixInitiation, Building, TypeOK
    <3> QED BY <2>3, <3>1 DEF MixInitiation, histVars
  <2>4. ASSUME NEW t \in Creators, PublishInitiation(t)  PROVE SpacingInv'
    <3>1. Building(t) /\ ~Building(t)'
      BY <2>4 DEF PublishInitiation, Building, After, TypeOK
    <3>2. \A u \in Creators : u # t => Building(u)' = Building(u)
      BY <2>4 DEF PublishInitiation, Building, TypeOK
    <3>3. ASSUME NEW u \in Creators, Building(u)'  PROVE initAge >= RekeyTimeout
      BY <3>1, <3>2, <3>3 DEF Creators
    <3> QED BY <2>4, <3>1, <3>3 DEF PublishInitiation, Ages, TypeOK
  <2>5. CASE SameBuilders /\ initAge' = initAge /\ initAge2' = initAge2
    BY <2>5 DEF SameBuilders
  <2>6. CASE OpenResponse \/ StoreResponse \/ StartSession
    BY <2>6 DEF OpenResponse, StoreResponse, StartSession, peerVars, histVars, Building
  <2> QED
    BY <2>1, <2>2, <2>3, <2>4, <2>5, <2>6, StepCases DEF Idle, UseSession, TakeResponse
<1> QED BY <1>1, <1>2, TypeCorrect, PTL DEF Spec

\* Of any three consecutive initiations, the first and the last are at least
\* REKEY_TIMEOUT apart, although the gate is checked and acted upon by two
\* threads without a lock.
THEOREM ThirdWaits == Spec => ThirdInitiationWaits
<1>1. TypeOK /\ SpacingInv /\ [Next]_vars => [Initiates => Expired(initAge2, RekeyTimeout)]_vars
  <2> SUFFICES ASSUME TypeOK, SpacingInv, Initiates  PROVE Expired(initAge2, RekeyTimeout)
    OBVIOUS
  <2> QED BY DEF Initiates, TypeOK, SpacingInv, Building
<1> QED BY <1>1, TypeCorrect, SpacingInvariant, PTL DEF Spec, ThirdInitiationWaits

(***************************************************************************)
(* Sessions and handshakes when the threads do not meet.                   *)
(***************************************************************************)

\* Until they meet, the UDP thread and the creators exclude each other.
LEMMA UnracedInvariant == Spec => []UnracedInv
<1>1. Init => UnracedInv
  BY DEF Init, UnracedInv, RaceInv, NoKeypair
<1>2. TypeOK /\ InitiatorInv /\ UnracedInv /\ [Next]_vars => UnracedInv'
  <2> SUFFICES ASSUME TypeOK, InitiatorInv, UnracedInv, [Next]_vars, ~raced'
               PROVE  RaceInv'
    BY DEF UnracedInv
  <2>0. ~raced /\ RaceInv
    BY StepCases
       DEF UnracedInv, TypeOK, Idle, TimePasses, UseSession, PassGate, MixInitiation,
           PublishInitiation, TakeResponse, OpenResponse, StoreResponse, StartSession,
           histVars
  <2> USE <2>0 DEF RaceInv
  <2>1. CASE Idle
    BY <2>1 DEF Idle, SameBuilders
  <2>2. CASE TimePasses
    <3>1. /\ slots'.curr.valid = slots.curr.valid /\ slots'.prev.valid = slots.prev.valid
          /\ slots'.curr.keys = slots.curr.keys /\ slots'.curr.idx = slots.curr.idx
      BY <2>2, AgedKeypair DEF TimePasses, TypeOK
    <3> QED BY <2>2, <3>1 DEF TimePasses, Building
  <2>3. CASE UseSession
    <3>1. /\ slots'.curr.valid = slots.curr.valid /\ slots'.prev.valid = slots.prev.valid
          /\ slots'.curr.keys = slots.curr.keys /\ slots'.curr.idx = slots.curr.idx
      BY <2>3, UseSessionSlots DEF TypeOK, Keypair
    <3> QED BY <2>3, <3>1 DEF UseSession, SameBuilders
  <2>4. ASSUME NEW t \in Creators, PassGate(t)  PROVE RaceInv'
    <3>1. udp.pc = "poll" /\ ~slots.curr.valid
      BY <2>4 DEF PassGate, GateOpen, HasSession
    <3> QED BY <2>4, <3>1 DEF PassGate
  <2>5. ASSUME NEW t \in Creators, MixInitiation(t) \/ PublishInitiation(t)
        PROVE RaceInv'
    <3>1. udp.pc = "poll" /\ ~slots.curr.valid /\ udp' = udp /\ slots' = slots
      BY <2>5 DEF MixInitiation, PublishInitiation, Building
    <3> QED BY <3>1
  <2>6. ASSUME NEW n \in Ids, TakeResponse(n)  PROVE RaceInv'
    <3>1. \A t \in Creators : ~Building(t)'
      BY <2>6 DEF TakeResponse, SameBuilders
    <3>2. ~slots.curr.valid
      BY <2>6 DEF TakeResponse, LookupByHandshake
    <3> QED BY <2>6, <3>1, <3>2, NoIdAssumption DEF TakeResponse, LookupByHandshake
  <2>7. CASE OpenResponse \/ StoreResponse
    BY <2>7 DEF OpenResponse, StoreResponse, peerVars, Building, TypeOK
  <2>8. CASE StartSession
    <3>1. NewKeypair.keys = udp.id /\ NewKeypair.idx = udp.id /\ udp.id # NoId
      BY <2>8 DEF StartSession, NewKeypair
    <3>2. /\ slots'.curr = NewKeypair /\ slots'.prev = slots.curr /\ ~slots.curr.valid
      BY <2>8, StartSessionSlots DEF StartSession
    <3>3. /\ udp'.pc = "poll" /\ ~handshake'.valid
          /\ \A t \in Creators : ~Building(t)'
      BY <2>8 DEF StartSession, NoHandshake, Building
    <3> QED BY <3>1, <3>2, <3>3
  <2> QED
    BY <2>1, <2>2, <2>3, <2>4, <2>5, <2>6, <2>7, <2>8, StepCases
<1> QED BY <1>1, <1>2, TypeCorrect, InitiatorInvariant, PTL DEF Spec

\* Unless the udp thread met a creator of initiations, the session has the keys
\* and the index of one handshake and is the only one there ever was.
THEOREM UnracedSessionIsSound == Spec => []UnracedSessionSound
<1>1. TypeOK /\ UnracedInv => UnracedSessionSound
  BY DEF UnracedInv, RaceInv, UnracedSessionSound, TypeOK, Building
<1> QED BY <1>1, TypeCorrect, UnracedInvariant, PTL

\* A fresh identity is none that the peer or a thread holds.
LEMMA FreshIsNew ==
  ASSUME NEW n \in FreshIds
  PROVE  /\ n # handshake.idx
         /\ n \notin {slots.curr.idx, slots.next.idx, slots.prev.idx}
         /\ n \notin InstalledKeys
         /\ \A t \in Creators : n # creating[t]
<1>1. n \notin InUse
  BY DEF FreshIds
<1>2. \A k \in {slots.curr, slots.next, slots.prev} : n # k.idx /\ n # k.keys
  BY <1>1 DEF InUse
<1>3. n # handshake.idx /\ \A t \in Creators : n # creating[t]
  BY <1>1 DEF InUse
<1> QED BY <1>2, <1>3 DEF InstalledKeys

(***************************************************************************)
(* Keys are installed once.                                                *)
(***************************************************************************)

\* The keys of a session are those of no handshake still in progress.
LEMMA KeysInvariant == Spec => []KeysInv
<1>1. Init => KeysInv
  BY DEF Init, KeysInv, InstalledKeys, NoKeypair, NoHandshake, Blank
<1>2. TypeOK /\ InitiatorInv /\ KeysInv /\ [Next]_vars => KeysInv'
  <2> SUFFICES ASSUME TypeOK, InitiatorInv, KeysInv, [Next]_vars  PROVE KeysInv'
    OBVIOUS
  <2> USE DEF KeysInv, InstalledKeys
  <2>1. CASE TimePasses
    <3>1. InstalledKeys' = InstalledKeys
      BY <2>1, AgedKeypair DEF TimePasses, TypeOK
    <3> QED BY <2>1, <3>1 DEF TimePasses
  <2>2. CASE UseSession
    <3>1. InstalledKeys' = InstalledKeys
      BY <2>2, UseSessionSlots DEF TypeOK, Keypair
    <3> QED BY <2>2, <3>1 DEF UseSession
  <2>3. ASSUME NEW t \in Creators, MixInitiation(t)  PROVE KeysInv'
    <3>1. PICK n \in FreshIds : handshake' = [handshake EXCEPT !.chain = Opening(n)]
      BY <2>3 DEF MixInitiation
    <3>2. n \notin InstalledKeys
      BY FreshIsNew
    <3>3. handshake'.chain.id = n
      BY <3>1 DEF Opening, TypeOK
    <3> QED BY <2>3, <3>2, <3>3 DEF MixInitiation
  <2>4. ASSUME NEW t \in Creators, PublishInitiation(t)  PROVE KeysInv'
    <3>1. PICK chain \in Mixed(creating[t]) : handshake'.chain = chain
      BY <2>4 DEF PublishInitiation
    <3>2. chain.id = handshake.chain.id \/ chain.id = NoId
      BY DEF Mixed, Torn
    <3> QED BY <2>4, <3>1, <3>2 DEF PublishInitiation
  <2>5. CASE Idle \/ (\E t \in Creators : PassGate(t)) \/ (\E n \in Ids : TakeResponse(n))
    BY <2>5 DEF Idle, PassGate, TakeResponse
  <2>6. CASE OpenResponse
    BY <2>6 DEF OpenResponse, Opening, peerVars, TypeOK
  <2>7. CASE StoreResponse
    <3>1. handshake'.chain.id = udp.id /\ udp'.id = udp.id
      BY <2>7 DEF StoreResponse, Agreed, TypeOK
    <3> QED BY <2>7, <3>1 DEF StoreResponse
  <2>8. CASE StartSession
    BY <2>8 DEF StartSession, NoHandshake, Blank
  <2> QED
    BY <2>1, <2>2, <2>3, <2>4, <2>5, <2>6, <2>7, <2>8, StepCases
<1> QED BY <1>1, <1>2, TypeCorrect, InitiatorInvariant, PTL DEF Spec

\* No session's keys are installed a second time, whatever the network
\* duplicates and however the threads interleave.
THEOREM KeysAreInstalledOnce == Spec => KeysInstalledOnce
<1>1. TypeOK /\ InitiatorInv /\ KeysInv /\ [Next]_vars => [InstalledOnce]_vars
  <2> SUFFICES ASSUME TypeOK, InitiatorInv, KeysInv, [Next]_vars,
                      udp.pc = "start", udp'.pc = "poll"
               PROVE  \/ slots'.curr.keys = NoId
                      \/ slots'.curr.keys \notin
                           {slots.curr.keys, slots.next.keys, slots.prev.keys}
    BY DEF InstalledOnce
  <2>1. StartSession
    BY StepCases
       DEF Idle, TimePasses, UseSession, PassGate, MixInitiation, PublishInitiation,
           TakeResponse, OpenResponse, StoreResponse
  <2>2. slots'.curr.keys \in {udp.id, NoId}
    BY <2>1, StartSessionSlots DEF NewKeypair
  <2> QED BY <2>2 DEF KeysInv, InstalledKeys
<1> QED
  BY <1>1, TypeCorrect, InitiatorInvariant, KeysInvariant, PTL DEF Spec, KeysInstalledOnce

(***************************************************************************)
(* Local indices.                                                          *)
(***************************************************************************)

\* The six places, spelled out.
LEMMA HeldIndexIs ==
  /\ DOMAIN HeldIndex = {"handshake", "curr", "next", "prev", "timer", "napi"}
  /\ HeldIndex["handshake"] = handshake.idx
  /\ HeldIndex["curr"] = slots.curr.idx
  /\ HeldIndex["next"] = slots.next.idx
  /\ HeldIndex["prev"] = slots.prev.idx
  /\ HeldIndex["timer"] = creating["timer"]
  /\ HeldIndex["napi"] = creating["napi"]
BY DEF HeldIndex, Creators

\* No two of the six places hold the same index.
LEMMA IndexInvariant == Spec => []IndexInv
<1>1. Init => IndexInv
  BY DEF Init, IndexInv, HeldIndex, NoKeypair, NoHandshake, Creators
<1>2. TypeOK /\ InitiatorInv /\ IndexInv /\ [Next]_vars => IndexInv'
  <2> SUFFICES ASSUME TypeOK, InitiatorInv, IndexInv, [Next]_vars  PROVE IndexInv'
    OBVIOUS
  <2> USE DEF IndexInv, Creators
  <2>1. CASE TimePasses
    <3>1. HeldIndex' = HeldIndex
      BY <2>1, AgedKeypair DEF TimePasses, TypeOK, HeldIndex
    <3> QED BY <3>1
  <2>2. CASE UseSession
    <3>1. \A what \in {"curr", "next", "prev"} : slots'[what].idx = slots[what].idx
      BY <2>2, UseSessionSlots DEF TypeOK, Keypair
    <3>2. HeldIndex' = HeldIndex
      BY <2>2, <3>1 DEF UseSession, HeldIndex
    <3> QED BY <3>2
  <2>3. ASSUME NEW t \in Creators, MixInitiation(t)  PROVE IndexInv'
    <3>1. PICK n \in FreshIds :
            /\ handshake' = [handshake EXCEPT !.chain = Opening(n)]
            /\ creating' = [creating EXCEPT ![t] = n]
      BY <2>3 DEF MixInitiation
    <3>2. \A h \in DOMAIN HeldIndex : HeldIndex[h] # n
      BY FreshIsNew, HeldIndexIs
    <3>3. HeldIndex' = [HeldIndex EXCEPT ![t] = n]
      BY <2>3, <3>1 DEF MixInitiation, HeldIndex, TypeOK
    <3> QED BY <3>2, <3>3, HeldIndexIs
  <2>4. ASSUME NEW t \in Creators, PublishInitiation(t)  PROVE IndexInv'
    <3>1. HeldIndex' = [HeldIndex EXCEPT !["handshake"] = HeldIndex[t], ![t] = NoId]
      BY <2>4 DEF PublishInitiation, HeldIndex, TypeOK
    <3> QED BY <3>1, HeldIndexIs
  <2>5. CASE UNCHANGED <<slots, handshake, creating>>
    BY <2>5 DEF HeldIndex
  <2>6. CASE StoreResponse
    <3>1. HeldIndex' = HeldIndex
      BY <2>6 DEF StoreResponse, HeldIndex, TypeOK
    <3> QED BY <3>1
  <2>7. CASE StartSession
    <3>1. /\ handshake'.idx = NoId /\ slots'.next.idx = NoId
          /\ slots'.curr.idx = handshake.idx /\ slots'.prev.idx = slots.curr.idx
          /\ creating' = creating
      BY <2>7, StartSessionSlots DEF StartSession, NewKeypair, NoKeypair, NoHandshake
    <3>2. /\ HeldIndex'["handshake"] = NoId /\ HeldIndex'["next"] = NoId
          /\ HeldIndex'["curr"] = HeldIndex["handshake"]
          /\ HeldIndex'["prev"] = HeldIndex["curr"]
          /\ \A t \in Creators : HeldIndex'[t] = HeldIndex[t]
          /\ DOMAIN HeldIndex' = DOMAIN HeldIndex
      BY <3>1 DEF HeldIndex
    <3> QED BY <3>2, HeldIndexIs
  <2> QED
    BY <2>1, <2>2, <2>3, <2>4, <2>5, <2>6, <2>7, StepCases
       DEF Idle, PassGate, TakeResponse, OpenResponse, peerVars
<1> QED BY <1>1, <1>2, TypeCorrect, InitiatorInvariant, PTL DEF Spec

\* A received packet's index names one thing, although it is looked up in four
\* places that two threads fill.
THEOREM IndicesAreDistinct == Spec => []IndicesDistinct
<1>1. IndexInv => IndicesDistinct
  <2> SUFFICES ASSUME IndexInv, NEW a \in DOMAIN LiveIndices, NEW b \in DOMAIN LiveIndices,
                      a # b, LiveIndices[a] # NoId
               PROVE  LiveIndices[a] # LiveIndices[b]
    BY DEF IndicesDistinct
  <2>1. \A h \in DOMAIN LiveIndices :
          h \in DOMAIN HeldIndex /\ LiveIndices[h] \in {HeldIndex[h], NoId}
    BY HeldIndexIs DEF LiveIndices
  <2> QED BY <2>1 DEF IndexInv
<1> QED BY <1>1, IndexInvariant, PTL
==============================================================================
