------------------------- MODULE VpnControl_proofs -------------------------
(***************************************************************************)
(* Proofs about VpnExtension, and about VpnControl, which composes it with *)
(* the UI.                                                                 *)
(***************************************************************************)
EXTENDS VpnControl, SequenceTheorems, FiniteSetTheorems, TLAPS

(***************************************************************************)
(* Proofs about VpnExtension, for every set of configurations and every    *)
(* number of launches, whatever the UI does with the preferences.          *)
(***************************************************************************)

(***************************************************************************)
(* The inductive invariants.                                               *)
(***************************************************************************)

Pending(i) == i.phase \in {"resolve", "protect", "create"}
Holding(i) == i.phase \in {"protect", "create"} \/ i.beating

\* An ability that starts or reports has a configuration.
ConfiguredInv == \A n \in Insts : Pending(inst[n]) \/ inst[n].beating => inst[n].id # NoId

\* The process has one live ability; only it starts or reports, and it holds
\* the one socket from udpConnect until it fails or is destroyed.
OwnedInv ==
  /\ \A m, n \in Insts : inst[m].live /\ inst[n].live => m = n
  /\ \A n \in Insts : Pending(inst[n]) \/ inst[n].beating => inst[n].live /\ inst[n].conn
  /\ \A n \in Insts : inst[n].beating => ~Pending(inst[n])
  /\ \A n \in Insts : Holding(inst[n]) =>
       native.fd = inst[n].fd /\ native.open = {inst[n].fd}
  /\ native.open # {} => \E n \in Insts : Holding(inst[n])
  /\ native.udp # 0 =>
       \E n \in Insts : inst[n].beating /\ native.peer = n /\ native.udp = inst[n].fd

(***************************************************************************)
(* Types.                                                                  *)
(***************************************************************************)

Phases    == {"unborn", "resolve", "protect", "create", "ended"}
Instance  == [phase : Phases, id : Ids, live : BOOLEAN, conn : BOOLEAN,
              beating : BOOLEAN, fd : Fds \union {0}]
Native    == [fd : Fds \union {0}, open : SUBSET Fds, udp : Fds \union {0},
              threads : SUBSET Threads, peer : Insts \union {0}, session : BOOLEAN]
EventType == [id : Configs, state : {"connecting", "connected", "failed", "disconnected"}]

Types ==
  /\ inst \in [Insts -> Instance] /\ native \in Native
  /\ active \in Ids /\ saved \in SUBSET Configs /\ events \in Seq(EventType)

\* The type invariant, with the instances' and the library's types named.
LEMMA TypesIs == ExtensionTypeOK <=> Types
BY DEF ExtensionTypeOK, Types, Instance, Native, EventType, Phases

\* The descriptor of a new socket was closed.
LEMMA FreeFdIsClosed ==
  ASSUME HasFd
  PROVE  FreeFd \in Fds /\ FreeFd \notin native.open
BY DEF HasFd, FreeFd

\* What onDestroy and the end of the process leave of the instances.
LEMMA GoneInstance ==
  ASSUME NEW i \in Instance
  PROVE  /\ Gone(i) \in Instance
         /\ ~Gone(i).live /\ ~Gone(i).beating /\ ~Pending(Gone(i))
BY DEF Gone, Instance, Unborn, Phases, Pending, Fds, Ids

\* A newly loaded library has its type.
LEMMA FreshNativeType == FreshNative \in Native
BY DEF FreshNative, Native, Insts, Fds, Threads

\* What StopVpn does to each field of the library.
LEMMA StopVpnType ==
  ASSUME NEW nat \in Native
  PROVE  /\ StopVpn(nat) \in Native
         /\ StopVpn(nat).udp = 0 /\ StopVpn(nat).fd = 0
         /\ StopVpn(nat).open = nat.open \ {nat.fd} /\ StopVpn(nat).peer = nat.peer
BY DEF StopVpn, Native, Fds, Threads

\* What UdpConnect does to each field when it succeeds.
LEMMA UdpConnectedType ==
  ASSUME HasFd, native \in Native
  PROVE  /\ UdpConnected \in Native
         /\ UdpConnected.fd = FreeFd /\ UdpConnected.open = native.open \union {FreeFd}
         /\ UdpConnected.udp = native.udp /\ UdpConnected.peer = native.peer
BY FreeFdIsClosed DEF UdpConnected, Native

\* And when it fails.
LEMMA UdpRefusedType ==
  ASSUME native \in Native
  PROVE  /\ UdpRefused \in Native
         /\ UdpRefused.fd = 0 /\ UdpRefused.open = native.open
         /\ UdpRefused.udp = native.udp /\ UdpRefused.peer = native.peer
BY DEF UdpRefused, Native

\* What StartVpn does to each field.
LEMMA StartedType ==
  ASSUME Types, NEW n \in Insts
  PROVE  /\ Started(n) \in Native
         /\ Started(n).fd = native.fd /\ Started(n).open = native.open
         /\ Started(n).udp = inst[n].fd /\ Started(n).peer = n
         /\ ~Started(n).session
BY DEF Types, Started, Native, Instance, Threads, Insts

(***************************************************************************)
(* What a step can do to an instance and to the native library: each kind  *)
(* of step changes at most one instance, or ends them all.                 *)
(***************************************************************************)

Ends(n) ==
  /\ Pending(inst[n])
  /\ inst' = [inst EXCEPT ![n].phase = "ended", ![n].conn = FALSE, ![n].fd = 0]
  /\ \/ inst[n].phase = "resolve" /\ native' \in {native, UdpRefused}
     \/ inst[n].phase = "resolve" /\ ~inst[n].conn /\ HasFd /\ native' = StopVpn(UdpConnected)
     \/ inst[n].phase # "resolve" /\ native' = StopVpn(native)

Connects(n) ==
  /\ inst[n].phase = "resolve" /\ inst[n].conn /\ HasFd
  /\ native' = UdpConnected
  /\ inst' = [inst EXCEPT ![n].phase = "protect", ![n].fd = FreeFd]

Creates(n) ==
  /\ inst[n].phase = "protect" /\ inst[n].conn
  /\ inst' = [inst EXCEPT ![n].phase = "create"]
  /\ UNCHANGED native

Starts(n) ==
  /\ inst[n].phase = "create" /\ PeerSlotFree
  /\ native' = Started(n)
  /\ inst' = [inst EXCEPT ![n].phase = "ended", ![n].beating = TRUE]

Launches(n) ==
  /\ inst[n].phase = "unborn" /\ \A m \in Insts : ~inst[m].live
  /\ \E id \in Ids :
       inst' = [inst EXCEPT ![n] =
         [Unborn EXCEPT !.phase = IF id = NoId THEN "ended" ELSE "resolve",
                        !.id = id, !.live = TRUE, !.conn = id # NoId]]
  /\ UNCHANGED native

Abandons(n) ==
  /\ Lingers
  /\ native' = StopVpn(native)
  /\ inst' = [inst EXCEPT ![n].live = FALSE, ![n].conn = FALSE, ![n].beating = FALSE]

Ended == native' = FreshNative /\ inst' = [m \in Insts |-> Gone(inst[m])]

Threading ==
  /\ UNCHANGED inst
  /\ \/ UNCHANGED native
     \/ native' = [native EXCEPT !.session = TRUE]
     \/ \E t \in Threads : native' = [native EXCEPT !.threads = @ \ {t}]

\* Every step does one of these things to the abilities and the library.
LEMMA StepCases ==
  ASSUME Types, [ExtensionNext]_extVars
  PROVE  \/ \E n \in Insts : \/ Ends(n) \/ Connects(n) \/ Creates(n) \/ Starts(n)
                             \/ Launches(n) \/ Abandons(n)
         \/ Ended \/ Threading
<1>1. ASSUME NEW n \in Insts, NEW want \in Ids, Launch(n, want)  PROVE Launches(n)
  BY <1>1 DEF Launch, Launches, Types, Ids
<1>2. ASSUME NEW n \in Insts, Resolved(n)  PROVE Ends(n) \/ Connects(n)
  BY <1>2 DEF Resolved, Fails, Ends, Connects, Pending
<1>3. ASSUME NEW n \in Insts, Protected(n)  PROVE Ends(n) \/ Creates(n)
  BY <1>3 DEF Protected, Fails, Ends, Creates, Pending
<1>4. ASSUME NEW n \in Insts, Created(n)  PROVE Ends(n) \/ Starts(n)
  BY <1>4 DEF Created, Fails, Ends, Starts, Pending
<1>5. ASSUME NEW n \in Insts, OnDestroy(n)  PROVE Abandons(n) \/ Ended
  BY <1>5 DEF OnDestroy, Abandons, Ended
<1>6. ASSUME NEW n \in Insts, Heartbeat(n)  PROVE Threading
  BY <1>6 DEF Heartbeat, Threading
<1>7. ASSUME ProcessDies  PROVE Ended
  BY <1>7 DEF ProcessDies, Ended
<1>8. ASSUME HandshakeDone \/ (\E t \in Threads : PumpFails(t)) \/ UiWrites  PROVE Threading
  BY <1>8 DEF HandshakeDone, PumpFails, UiWrites, Threading
<1>9. ASSUME UNCHANGED extVars  PROVE Threading
  BY <1>9 DEF extVars, Threading
<1> QED
  BY <1>1, <1>2, <1>3, <1>4, <1>5, <1>6, <1>7, <1>8, <1>9 DEF ExtensionNext, Ability

(***************************************************************************)
(* Type correctness.                                                       *)
(***************************************************************************)

\* A step keeps the types of the abilities and of the library.
LEMMA InstancesTyped ==
  ASSUME Types, [ExtensionNext]_extVars
  PROVE  inst' \in [Insts -> Instance] /\ native' \in Native
<1> USE DEF Types
<1>1. ASSUME NEW n \in Insts, Ends(n)  PROVE inst' \in [Insts -> Instance] /\ native' \in Native
  <2> DEFINE failed == [inst[n] EXCEPT !.phase = "ended", !.conn = FALSE, !.fd = 0]
  <2>1. failed \in Instance
    BY DEF Instance, Phases
  <2>2. inst' = [inst EXCEPT ![n] = failed]
    BY <1>1 DEF Ends
  <2>3. inst' \in [Insts -> Instance]
    BY <2>1, <2>2
  <2>4. native' \in Native
    BY <1>1, UdpRefusedType, UdpConnectedType, StopVpnType DEF Ends
  <2> QED BY <2>3, <2>4
<1>2. ASSUME NEW n \in Insts, Connects(n)  PROVE inst' \in [Insts -> Instance] /\ native' \in Native
  <2> DEFINE connected == [inst[n] EXCEPT !.phase = "protect", !.fd = FreeFd]
  <2>1. connected \in Instance
    BY <1>2, FreeFdIsClosed DEF Connects, Instance, Phases
  <2>2. inst' = [inst EXCEPT ![n] = connected]
    BY <1>2 DEF Connects
  <2>3. inst' \in [Insts -> Instance]
    BY <2>1, <2>2
  <2> QED BY <1>2, <2>3, UdpConnectedType DEF Connects
<1>3. ASSUME NEW n \in Insts, Creates(n)  PROVE inst' \in [Insts -> Instance] /\ native' \in Native
  <2> DEFINE protected == [inst[n] EXCEPT !.phase = "create"]
  <2>1. protected \in Instance
    BY DEF Instance, Phases
  <2>2. inst' = [inst EXCEPT ![n] = protected] /\ native' = native
    BY <1>3 DEF Creates
  <2>3. inst' \in [Insts -> Instance]
    BY <2>1, <2>2
  <2> QED BY <2>2, <2>3
<1>4. ASSUME NEW n \in Insts, Starts(n)  PROVE inst' \in [Insts -> Instance] /\ native' \in Native
  <2> DEFINE started == [inst[n] EXCEPT !.phase = "ended", !.beating = TRUE]
  <2>1. started \in Instance
    BY DEF Instance, Phases
  <2>2. inst' = [inst EXCEPT ![n] = started]
    BY <1>4 DEF Starts
  <2>3. inst' \in [Insts -> Instance]
    BY <2>1, <2>2
  <2> QED BY <1>4, <2>3, StartedType DEF Starts
<1>5. ASSUME NEW n \in Insts, Launches(n)  PROVE inst' \in [Insts -> Instance] /\ native' \in Native
  <2>1. PICK id \in Ids :
          inst' = [inst EXCEPT ![n] =
            [Unborn EXCEPT !.phase = IF id = NoId THEN "ended" ELSE "resolve",
                           !.id = id, !.live = TRUE, !.conn = id # NoId]]
    BY <1>5 DEF Launches
  <2>2. [Unborn EXCEPT !.phase = IF id = NoId THEN "ended" ELSE "resolve",
                       !.id = id, !.live = TRUE, !.conn = id # NoId] \in Instance
    BY DEF Unborn, Instance, Phases
  <2> QED BY <1>5, <2>1, <2>2 DEF Launches
<1>6. ASSUME NEW n \in Insts, Abandons(n)  PROVE inst' \in [Insts -> Instance] /\ native' \in Native
  <2> DEFINE abandoned ==
        [inst[n] EXCEPT !.live = FALSE, !.conn = FALSE, !.beating = FALSE]
  <2>1. abandoned \in Instance
    BY DEF Instance
  <2>2. inst' = [inst EXCEPT ![n] = abandoned]
    BY <1>6 DEF Abandons
  <2>3. inst' \in [Insts -> Instance]
    BY <2>1, <2>2
  <2> QED BY <1>6, <2>3, StopVpnType DEF Abandons
<1>7. ASSUME Ended  PROVE inst' \in [Insts -> Instance] /\ native' \in Native
  BY <1>7, GoneInstance, FreshNativeType DEF Ended
<1>8. ASSUME Threading  PROVE inst' \in [Insts -> Instance] /\ native' \in Native
  BY <1>8 DEF Threading, Native
<1> QED BY <1>1, <1>2, <1>3, <1>4, <1>5, <1>6, <1>7, <1>8, StepCases

\* An ability keeps its configuration, and has one as long as it needs it.
LEMMA ConfiguredStep ==
  ASSUME Types, ConfiguredInv, [ExtensionNext]_extVars
  PROVE  ConfiguredInv'
<1> USE DEF Types, ConfiguredInv, Pending
<1>1. ASSUME NEW n \in Insts, Ends(n) \/ Connects(n) \/ Creates(n) \/ Starts(n)
      PROVE  ConfiguredInv'
  BY <1>1 DEF Ends, Connects, Creates, Starts, Instance
<1>2. ASSUME NEW n \in Insts, Launches(n)  PROVE ConfiguredInv'
  BY <1>2 DEF Launches, Unborn, Instance
<1>3. ASSUME NEW n \in Insts, Abandons(n)  PROVE ConfiguredInv'
  BY <1>3 DEF Abandons, Instance
<1>4. ASSUME Ended  PROVE ConfiguredInv'
  BY <1>4, GoneInstance DEF Ended
<1>5. ASSUME Threading  PROVE ConfiguredInv'
  BY <1>5 DEF Threading
<1> QED BY <1>1, <1>2, <1>3, <1>4, <1>5, StepCases

\* A final event has the type of events.
LEMMA PublishedTyped ==
  ASSUME Types, NEW n \in Insts, NEW state \in {"failed", "disconnected"},
         PublishDisconnected(n, state)
  PROVE  active' \in Ids /\ events' \in Seq(EventType)
<1>1. active' \in Ids
  BY DEF PublishDisconnected, ClearActive, Types, Ids
<1>2. CASE inst[n].id = NoId
  BY <1>1, <1>2 DEF PublishDisconnected, Types
<1>3. CASE inst[n].id # NoId
  <2>1. Event(n, state) \in EventType
    BY <1>3 DEF Event, EventType, Types, Instance, Ids
  <2> QED BY <1>1, <1>3, <2>1, AppendProperties DEF PublishDisconnected, Types
<1> QED BY <1>2, <1>3

\* So has a status event.
LEMMA ReportedTyped ==
  ASSUME Types, NEW n \in Insts, inst[n].id # NoId, NEW nat \in Native
  PROVE  Append(events, Event(n, BeatState(nat))) \in Seq(EventType)
<1>1. Event(n, BeatState(nat)) \in EventType
  BY DEF Event, BeatState, EventType, Types, Instance, Ids
<1> QED BY <1>1, AppendProperties DEF Types

\* Every step keeps the types.
LEMMA TypesStep ==
  ASSUME Types, ConfiguredInv, [ExtensionNext]_extVars
  PROVE  Types'
<1> SUFFICES active' \in Ids /\ saved' \in SUBSET Configs /\ events' \in Seq(EventType)
  BY InstancesTyped DEF Types
<1> DEFINE Goal == active' \in Ids /\ saved' \in SUBSET Configs /\ events' \in Seq(EventType)
<1>1. ASSUME NEW n \in Insts, NEW nat, Fails(n, nat)  PROVE Goal
  BY <1>1, PublishedTyped DEF Fails, Types
<1>2. ASSUME NEW n \in Insts, NEW want \in Ids, Launch(n, want)  PROVE Goal
  BY <1>2 DEF Launch, Types, Ids
<1>3. ASSUME NEW n \in Insts, Resolved(n)  PROVE Goal
  BY <1>1, <1>3 DEF Resolved, Types
<1>4. ASSUME NEW n \in Insts, Protected(n)  PROVE Goal
  BY <1>1, <1>4 DEF Protected, Types
<1>5. ASSUME NEW n \in Insts, Created(n)  PROVE Goal
  <2>1. inst[n].id # NoId
    BY <1>5 DEF Created, ConfiguredInv, Pending
  <2>2. Append(events, Event(n, BeatState(Started(n)))) \in Seq(EventType)
    BY <2>1, StartedType, ReportedTyped
  <2> QED BY <1>1, <1>5, <2>2 DEF Created, Types
<1>6. ASSUME NEW n \in Insts, Heartbeat(n)  PROVE Goal
  <2>1. Append(events, Event(n, BeatState(native))) \in Seq(EventType)
    BY <1>6, ReportedTyped DEF Heartbeat, ConfiguredInv, Types
  <2> QED BY <1>6, <2>1 DEF Heartbeat, Types
<1>7. ASSUME NEW n \in Insts, OnDestroy(n)  PROVE Goal
  BY <1>7, PublishedTyped DEF OnDestroy, Types
<1>8. ASSUME ProcessDies \/ HandshakeDone \/ (\E t \in Threads : PumpFails(t)) \/ UNCHANGED extVars
      PROVE  Goal
  BY <1>8 DEF ProcessDies, HandshakeDone, PumpFails, extVars, Types
<1>9. ASSUME UiWrites  PROVE Goal
  <2>1. events' \in Seq(EventType)
    BY <1>9, HeadTailProperties DEF UiWrites, Types
  <2> QED BY <1>9, <2>1 DEF UiWrites, Ids
<1> QED
  BY <1>2, <1>3, <1>4, <1>5, <1>6, <1>7, <1>8, <1>9 DEF ExtensionNext, Ability

\* The types hold at first.
LEMMA InitTypes == ExtensionInit => Types /\ ConfiguredInv
<1> SUFFICES ASSUME ExtensionInit  PROVE Types /\ ConfiguredInv
  OBVIOUS
<1>1. inst \in [Insts -> Instance]
  BY DEF ExtensionInit, Unborn, Instance, Phases, Ids
<1>2. events \in Seq(EventType)
  BY EmptySeq DEF ExtensionInit
<1> QED
  BY <1>1, <1>2, FreshNativeType
     DEF ExtensionInit, Types, ConfiguredInv, Pending, Unborn, Ids

\* The types hold always.
LEMMA TypesInvariant == ExtensionSpec => [](Types /\ ConfiguredInv)
BY InitTypes, TypesStep, ConfiguredStep, PTL DEF ExtensionSpec

\* Every variable of the extension process keeps its type.
THEOREM ExtensionTypes == ExtensionSpec => []ExtensionTypeOK
BY TypesInvariant, TypesIs, PTL

(***************************************************************************)
(* One tunnel at a time.                                                   *)
(***************************************************************************)

\* An ability only ever reports on the peer it configured: the slot of an
\* earlier ability is never overwritten while the process lives.
THEOREM OnlyOwnPeer == ExtensionSpec => []BeatsOwnPeer
<1>1. ExtensionInit => BeatsOwnPeer
  BY DEF ExtensionInit, BeatsOwnPeer, Unborn
<1>2. Types /\ BeatsOwnPeer /\ [ExtensionNext]_extVars => BeatsOwnPeer'
  <2> SUFFICES ASSUME Types, BeatsOwnPeer, [ExtensionNext]_extVars  PROVE BeatsOwnPeer'
    OBVIOUS
  <2> USE DEF Types, BeatsOwnPeer
  <2>1. ASSUME NEW n \in Insts, Ends(n)  PROVE BeatsOwnPeer'
    <3>1. native'.peer = native.peer
      BY <2>1, UdpRefusedType, UdpConnectedType, StopVpnType DEF Ends
    <3>2. \A m \in Insts : inst'[m].beating = inst[m].beating
      BY <2>1 DEF Ends, Instance
    <3> QED BY <3>1, <3>2
  <2>2. ASSUME NEW n \in Insts, Connects(n) \/ Creates(n)  PROVE BeatsOwnPeer'
    <3>1. native'.peer = native.peer
      BY <2>2, UdpConnectedType DEF Connects, Creates
    <3>2. \A m \in Insts : inst'[m].beating = inst[m].beating
      BY <2>2 DEF Connects, Creates, Instance
    <3> QED BY <3>1, <3>2
  <2>3. ASSUME NEW n \in Insts, Starts(n)  PROVE BeatsOwnPeer'
    <3>1. native'.peer = n
      BY <2>3, StartedType DEF Starts
    <3>2. \A m \in Insts \ {n} : ~inst[m].beating
      BY <2>3 DEF Starts, PeerSlotFree, Insts
    <3>3. \A m \in Insts \ {n} : ~inst'[m].beating
      BY <2>3, <3>2 DEF Starts
    <3> QED BY <3>1, <3>3
  <2>4. ASSUME NEW n \in Insts, Launches(n)  PROVE BeatsOwnPeer'
    BY <2>4 DEF Launches, Unborn
  <2>5. ASSUME NEW n \in Insts, Abandons(n)  PROVE BeatsOwnPeer'
    <3>1. native'.peer = native.peer
      BY <2>5, StopVpnType DEF Abandons
    <3> QED BY <2>5, <3>1 DEF Abandons, Instance
  <2>6. CASE Ended
    BY <2>6, GoneInstance DEF Ended
  <2>7. CASE Threading
    BY <2>7 DEF Threading, Native
  <2> QED BY <2>1, <2>2, <2>3, <2>4, <2>5, <2>6, <2>7, StepCases
<1> QED BY <1>1, <1>2, TypesInvariant, PTL DEF ExtensionSpec

\* In a process of its own, every step keeps the socket with its ability.
LEMMA OwnedStep ==
  ASSUME ~Lingers, Types, OwnedInv, [ExtensionNext]_extVars
  PROVE  OwnedInv'
<1> USE DEF Types
<1>1. ASSUME NEW n \in Insts, Ends(n)  PROVE OwnedInv'
  <2>1. inst[n].live /\ inst[n].conn /\ ~inst[n].beating
    BY <1>1 DEF Ends, OwnedInv
  <2>2. \A m \in Insts \ {n} : ~inst[m].live /\ ~Pending(inst[m]) /\ ~inst[m].beating
    BY <2>1 DEF OwnedInv
  <2>3. native.udp = 0
    BY <2>1, <2>2 DEF OwnedInv
  <2>4. native'.open = {} /\ native'.udp = 0
    <3>1. CASE inst[n].phase = "resolve"
      <4>1. native.open = {}
        BY <2>1, <2>2, <3>1 DEF OwnedInv, Holding, Pending
      <4> QED BY <1>1, <2>1, <2>3, <3>1, <4>1, UdpRefusedType DEF Ends
    <3>2. CASE inst[n].phase # "resolve"
      <4>1. Holding(inst[n])
        BY <1>1, <3>2 DEF Ends, Holding, Pending
      <4>2. native.open \ {native.fd} = {}
        BY <4>1 DEF OwnedInv
      <4> QED BY <1>1, <3>2, <4>2, StopVpnType DEF Ends
    <3> QED BY <3>1, <3>2
  <2>5. /\ \A m \in Insts \ {n} : inst'[m] = inst[m]
        /\ inst'[n].live /\ ~inst'[n].beating /\ inst'[n].phase = "ended"
    BY <1>1, <2>1 DEF Ends, Instance
  <2>6. \A m \in Insts : ~Pending(inst'[m]) /\ ~inst'[m].beating /\ ~Holding(inst'[m])
    BY <2>2, <2>5 DEF Pending, Holding
  <2> QED BY <2>2, <2>4, <2>5, <2>6 DEF OwnedInv
<1>2. ASSUME NEW n \in Insts, Connects(n)  PROVE OwnedInv'
  <2>1. inst[n].live /\ ~inst[n].beating
    BY <1>2 DEF Connects, OwnedInv, Pending
  <2>2. \A m \in Insts \ {n} : ~inst[m].live /\ ~Pending(inst[m]) /\ ~inst[m].beating
    BY <2>1 DEF OwnedInv
  <2>3. native.udp = 0 /\ native.open = {}
    BY <1>2, <2>1, <2>2 DEF Connects, OwnedInv, Holding, Pending
  <2>4. native'.open = {FreeFd} /\ native'.fd = FreeFd /\ native'.udp = 0
    BY <1>2, <2>3, UdpConnectedType DEF Connects
  <2>5. /\ \A m \in Insts \ {n} : inst'[m] = inst[m]
        /\ inst'[n].live /\ ~inst'[n].beating /\ inst'[n].conn
        /\ inst'[n].phase = "protect" /\ inst'[n].fd = FreeFd
    BY <1>2, <2>1 DEF Connects, Instance
  <2> QED BY <2>2, <2>4, <2>5 DEF OwnedInv, Pending, Holding
<1>3. ASSUME NEW n \in Insts, Creates(n)  PROVE OwnedInv'
  <2>1. /\ \A m \in Insts \ {n} : inst'[m] = inst[m]
        /\ inst'[n].live = inst[n].live /\ inst'[n].beating = inst[n].beating
        /\ inst'[n].conn = inst[n].conn /\ inst'[n].fd = inst[n].fd
        /\ inst'[n].phase = "create" /\ inst[n].phase = "protect" /\ native' = native
    BY <1>3 DEF Creates, Instance
  <2> QED BY <2>1 DEF OwnedInv, Pending, Holding
<1>4. ASSUME NEW n \in Insts, Starts(n)  PROVE OwnedInv'
  <2>1. inst[n].live /\ inst[n].conn /\ Holding(inst[n])
    BY <1>4 DEF Starts, OwnedInv, Pending, Holding
  <2>2. \A m \in Insts \ {n} : ~inst[m].live /\ ~Pending(inst[m]) /\ ~inst[m].beating
    BY <2>1 DEF OwnedInv
  <2>3. /\ native'.open = {inst[n].fd} /\ native'.fd = inst[n].fd
        /\ native'.udp = inst[n].fd /\ native'.peer = n
    BY <1>4, <2>1, StartedType DEF Starts, OwnedInv
  <2>4. /\ \A m \in Insts \ {n} : inst'[m] = inst[m]
        /\ inst'[n].live /\ inst'[n].conn /\ inst'[n].beating
        /\ inst'[n].phase = "ended" /\ inst'[n].fd = inst[n].fd
    BY <1>4, <2>1 DEF Starts, Instance
  <2> QED BY <2>2, <2>3, <2>4 DEF OwnedInv, Pending, Holding
<1>5. ASSUME NEW n \in Insts, Launches(n)  PROVE OwnedInv'
  <2>1. \A m \in Insts : ~inst[m].live /\ ~Pending(inst[m]) /\ ~inst[m].beating
    BY <1>5 DEF Launches, OwnedInv
  <2>2. native'.open = {} /\ native'.udp = 0
    BY <1>5, <2>1 DEF Launches, OwnedInv, Holding, Pending
  <2>3. /\ \A m \in Insts \ {n} : inst'[m] = inst[m]
        /\ inst'[n].live /\ ~inst'[n].beating
        /\ inst'[n].phase \in {"ended", "resolve"}
        /\ inst'[n].phase = "resolve" => inst'[n].conn
    <3>1. PICK id \in Ids :
            inst' = [inst EXCEPT ![n] =
              [Unborn EXCEPT !.phase = IF id = NoId THEN "ended" ELSE "resolve",
                             !.id = id, !.live = TRUE, !.conn = id # NoId]]
      BY <1>5 DEF Launches
    <3>2. \A m \in Insts \ {n} : inst'[m] = inst[m]
      BY <3>1
    <3>3. inst'[n] = [Unborn EXCEPT !.phase = IF id = NoId THEN "ended" ELSE "resolve",
                                    !.id = id, !.live = TRUE, !.conn = id # NoId]
      BY <3>1
    <3> QED BY <3>2, <3>3 DEF Unborn
  <2> QED BY <2>1, <2>2, <2>3 DEF OwnedInv, Pending, Holding
<1>6. CASE Ended
  <2>1. \A m \in Insts : ~inst'[m].live /\ ~Pending(inst'[m]) /\ ~inst'[m].beating
    BY <1>6, GoneInstance DEF Ended
  <2> QED BY <1>6, <2>1 DEF Ended, FreshNative, OwnedInv, Pending, Holding
<1>7. CASE Threading
  <2>1. inst' = inst /\ native'.fd = native.fd /\ native'.open = native.open
          /\ native'.udp = native.udp /\ native'.peer = native.peer
    BY <1>7 DEF Threading, Native
  <2> QED BY <2>1 DEF OwnedInv
<1> QED BY <1>1, <1>2, <1>3, <1>4, <1>5, <1>6, <1>7, StepCases DEF Abandons

\* In a process of its own, no path through the awaits of startVpnConnection,
\* their failures and onDestroy leaves a socket or a thread without an owner.
THEOREM TunnelIsOwned == ~Lingers /\ ExtensionSpec => []TunnelOwned
<1>1. ExtensionInit => OwnedInv
  BY DEF ExtensionInit, OwnedInv, Unborn, FreshNative, Pending, Holding
<1>2. ~Lingers /\ Types /\ OwnedInv /\ [ExtensionNext]_extVars => OwnedInv'
  BY OwnedStep
<1>3. Types /\ OwnedInv => TunnelOwned
  <2> SUFFICES ASSUME Types, OwnedInv  PROVE TunnelOwned
    OBVIOUS
  <2>1. ASSUME NEW f \in native.open
        PROVE  f = native.fd /\ \E n \in Insts : inst[n].live /\ inst[n].conn /\ inst[n].fd = f
    BY <2>1 DEF OwnedInv, Pending, Holding
  <2>2. ASSUME native.udp # 0
        PROVE  /\ native.udp \in native.open
               /\ \E n \in Insts : inst[n].live /\ inst[n].beating /\ native.peer = n
    BY <2>2 DEF OwnedInv, Holding
  <2> QED BY <2>1, <2>2 DEF TunnelOwned
<1> QED
  <2>1. CASE Lingers
    BY <2>1
  <2>2. CASE ~Lingers
    <3>1. Types /\ OwnedInv /\ [ExtensionNext]_extVars => OwnedInv'
      BY <1>2, <2>2
    <3> QED BY <1>1, <3>1, <1>3, TypesInvariant, PTL DEF ExtensionSpec
  <2> QED BY <2>1, <2>2

(***************************************************************************)
(* Proofs about VpnControl, for every set of configurations and every      *)
(* bound: the application is one of the UIs VpnExtension leaves open, so   *)
(* that what is shown of the extension holds in it.                        *)
(***************************************************************************)

(***************************************************************************)
(* The inductive invariant.                                                *)
(***************************************************************************)

Ui ==
  [up : {"dead", "shown", "ready"}, active : Ids, connecting : Ids,
   status : Statuses, states : [Configs -> Statuses \union {"none"}],
   timer : Ids, fresh : BOOLEAN]

PageTypes ==
  /\ ui \in Ui /\ calls \in Seq(Calls)
  /\ launching \in Ids /\ clicks \in 0 .. MaxClicks

ControlInv == Types /\ ConfiguredInv /\ PageTypes /\ ActiveIsSaved

(***************************************************************************)
(* Sequences of calls.                                                     *)
(***************************************************************************)

\* What is left of a sequence when one of its elements is taken out.
LEMMA RemoveAtProperties ==
  ASSUME NEW S, NEW s \in Seq(S), NEW i \in 1 .. Len(s)
  PROVE  /\ RemoveAt(s, i) \in Seq(S)
         /\ Len(RemoveAt(s, i)) = Len(s) - 1
         /\ \A j \in 1 .. Len(s) - 1 :
              RemoveAt(s, i)[j] = IF j < i THEN s[j] ELSE s[j + 1]
<1> DEFINE front == SubSeq(s, 1, i - 1)
           back  == SubSeq(s, i + 1, Len(s))
<1>1. /\ Len(s) \in Nat /\ i \in Nat /\ 1 <= i /\ i <= Len(s)
      /\ \A j \in 1 .. Len(s) : s[j] \in S
  BY LenProperties, ElementOfSeq
<1>2. /\ front \in Seq(S) /\ Len(front) = i - 1
      /\ \A j \in 1 .. i - 1 : front[j] = s[j]
  <2>1. \A j \in 1 .. i - 1 : s[j] \in S
    BY <1>1
  <2> QED BY <1>1, <2>1, SubSeqProperties
<1>3. /\ back \in Seq(S) /\ Len(back) = Len(s) - i
      /\ \A j \in 1 .. Len(s) - i : back[j] = s[i + j]
  <2>1. \A j \in i + 1 .. Len(s) : s[j] \in S
    BY <1>1
  <2>2. /\ back \in Seq(S)
        /\ Len(back) = IF i + 1 <= Len(s) THEN Len(s) - (i + 1) + 1 ELSE 0
        /\ \A j \in 1 .. Len(s) - (i + 1) + 1 : back[j] = s[(i + 1) + j - 1]
    BY <1>1, <2>1, SubSeqProperties
  <2> QED BY <1>1, <2>2
<1>4. /\ front \o back \in Seq(S) /\ Len(front \o back) = Len(front) + Len(back)
      /\ \A j \in 1 .. Len(front) + Len(back) :
           (front \o back)[j] = IF j <= Len(front) THEN front[j] ELSE back[j - Len(front)]
  BY <1>2, <1>3, ConcatProperties
<1> HIDE DEF front, back
<1>5. ASSUME NEW j \in 1 .. Len(s) - 1
      PROVE  (front \o back)[j] = IF j < i THEN s[j] ELSE s[j + 1]
  <2>1. CASE j < i
    BY <1>1, <1>2, <1>3, <1>4, <2>1
  <2>2. CASE ~(j < i)
    <3>1. (front \o back)[j] = back[j - (i - 1)]
      BY <1>1, <1>2, <1>3, <1>4, <2>2
    <3>2. j - (i - 1) \in 1 .. Len(s) - i /\ i + (j - (i - 1)) = j + 1
      BY <1>1, <2>2
    <3> QED BY <1>3, <2>2, <3>1, <3>2
  <2> QED BY <2>1, <2>2
<1>6. RemoveAt(s, i) = front \o back
  BY DEF RemoveAt, front, back
<1>7. Len(front \o back) = Len(s) - 1
  BY <1>1, <1>2, <1>3, <1>4
<1> QED BY <1>4, <1>5, <1>6, <1>7

\* A call in the sequence is a call.
LEMMA CallType ==
  ASSUME calls \in Seq(Calls), NEW i \in DOMAIN calls
  PROVE  /\ i \in 1 .. Len(calls) /\ Len(calls) \in Nat
         /\ calls[i] \in Calls /\ calls[i].id \in Configs
<1>1. i \in 1 .. Len(calls) /\ Len(calls) \in Nat
  BY LenProperties
<1>2. calls[i] \in Calls
  BY <1>1, ElementOfSeq
<1> QED BY <1>1, <1>2 DEF Calls

\* A new call is a call.
LEMMA NewCallType ==
  ASSUME NEW op \in {"start", "stop"}, NEW c \in Configs, NEW delete \in BOOLEAN
  PROVE  Call(op, c, delete) \in Calls
BY DEF Call, Calls

(***************************************************************************)
(* The application writes the preferences as VpnExtension lets any UI: the *)
(* persisted id stays empty or the id of a saved configuration.            *)
(***************************************************************************)

\* What the page may do to the persisted id and the configurations.
Writes ==
  /\ saved' \in SUBSET Configs /\ active' \in saved' \union {NoId}

\* Loading the configurations.
LEMMA LoadWrites ==
  ASSUME NEW u, NEW persisted, NEW remaining \in SUBSET Configs,
         LoadConfigs(u, persisted, remaining)
  PROVE  Writes
BY DEF LoadConfigs, Writes

\* Deleting a configuration: the persisted id is the old one or none by then.
LEMMA DeleteWrites ==
  ASSUME ControlInv, NEW u, NEW c \in Configs, NEW persisted \in {active, NoId},
         DeleteConfig(u, c, persisted)
  PROVE  Writes
<1> saved \in SUBSET Configs /\ active \in saved \union {NoId} /\ NoId \notin Configs
  BY NoIdAssumption DEF ControlInv, Types, ActiveIsSaved
<1>1. CASE persisted = c
  BY <1>1 DEF DeleteConfig, Writes
<1>2. CASE persisted # c
  BY <1>2, LoadWrites DEF DeleteConfig
<1> QED BY <1>1, <1>2

\* Clearing the persisted id if it is the one given.
LEMMA ClearWrites ==
  ASSUME ControlInv, NEW c, ClearActive(c), UNCHANGED saved
  PROVE  Writes
BY DEF ControlInv, Types, ActiveIsSaved, ClearActive, Writes

\* Each step of the user and of the page is a step VpnExtension lets a UI do.
LEMMA PageWrites ==
  ASSUME ControlInv, User \/ Page
  PROVE  UiWrites
<1> USE DEF Writes
<1>0. /\ saved \in SUBSET Configs /\ active \in saved \union {NoId}
      /\ calls \in Seq(Calls)
  BY DEF ControlInv, Types, PageTypes, ActiveIsSaved
<1>1. ASSUME NEW c \in Configs, ToggleOn(c)  PROVE UiWrites
  BY <1>0, <1>1 DEF ToggleOn, UiWrites
<1>2. ASSUME NEW c \in Configs, NEW delete, ToggleOff(c, delete)  PROVE UiWrites
  BY <1>0, <1>2 DEF ToggleOff, UiWrites, extVars
<1>3. ASSUME NEW c \in Configs, DeleteIdle(c)  PROVE UiWrites
  <2> DEFINE persisted == IF active = c THEN NoId ELSE active
  <2>1. DeleteConfig(Cleared(ui), c, persisted) \/ DeleteConfig(ui, c, active)
    BY <1>3 DEF DeleteIdle
  <2>2. Writes
    BY <2>1, DeleteWrites
  <2> QED BY <1>3, <2>2 DEF DeleteIdle, UiWrites
<1>4. ASSUME NEW c \in Configs, DeleteConfigAfterStop(c)  PROVE UiWrites
  BY <1>2, <1>3, <1>4 DEF DeleteConfigAfterStop
<1>5. ASSUME NEW c \in Configs, DeleteFromEditPage(c)  PROVE UiWrites
  <2>1. Writes
    BY <1>5, DeleteWrites DEF DeleteFromEditPage
  <2> QED BY <1>5, <2>1 DEF DeleteFromEditPage, UiWrites
<1>6. ASSUME PageShow  PROVE UiWrites
  BY <1>0, <1>6, LoadWrites DEF PageShow, UiWrites
<1>7. ASSUME UiDies  PROVE UiWrites
  BY <1>0, <1>7 DEF UiDies, UiWrites, extVars
<1>8. ASSUME UiStarts  PROVE UiWrites
  BY <1>0, <1>8, LoadWrites DEF UiStarts, UiWrites
<1>9. ASSUME Subscribe  PROVE UiWrites
  BY <1>0, <1>9 DEF Subscribe, UiWrites, extVars
<1>10. ASSUME StatusEvent  PROVE UiWrites
  <2>1. Writes
    BY <1>0, <1>10 DEF StatusEvent, ClearActive, Adopts
  <2> QED BY <1>10, <2>1 DEF StatusEvent, UiWrites
<1>11. ASSUME RestoreTimeout  PROVE UiWrites
  <2>1. Writes
    BY <1>0, <1>11 DEF RestoreTimeout, ClearActive
  <2> QED BY <1>11, <2>1 DEF RestoreTimeout, UiWrites
<1>12. ASSUME NEW i \in DOMAIN calls, StartAccepted(i) \/ StartRefused(i) \/ StopRefused(i)
       PROVE  UiWrites
  <2>1. Writes
    BY <1>0, <1>12 DEF StartAccepted, StartRefused, StopRefused, ClearActive
  <2> QED BY <1>12, <2>1 DEF StartAccepted, StartRefused, StopRefused, Returned, UiWrites
<1>13. ASSUME NEW i \in DOMAIN calls, StopAccepted(i)  PROVE UiWrites
  <2>1. calls[i].id \in Configs
    BY <1>0, CallType
  <2>2. CASE calls[i].delete
    <3> DEFINE c == calls[i].id
               u == WithStatus([ui EXCEPT !.status = "disconnected"], c, "disconnected")
               v == IF u.active = c THEN Cleared(u) ELSE u
               persisted == IF active = c THEN NoId ELSE active
    <3>1. DeleteConfig(v, c, persisted)
      BY <1>13, <2>2 DEF StopAccepted
    <3> HIDE DEF v
    <3>2. Writes
      BY <2>1, <3>1, DeleteWrites
    <3> QED BY <1>13, <3>2 DEF StopAccepted, Returned, UiWrites
  <2>3. CASE ~calls[i].delete
    <3>1. Writes
      BY <1>13, <2>3, ClearWrites DEF StopAccepted
    <3> QED BY <1>13, <3>1 DEF StopAccepted, Returned, UiWrites
  <2> QED BY <2>2, <2>3
<1> QED
  BY <1>1, <1>2, <1>4, <1>5, <1>6, <1>7, <1>8, <1>9, <1>10, <1>11, <1>12, <1>13
     DEF User, Page, CallReturns

\* Each step of the application is a step of VpnExtension or none of its own:
\* the system only creates and destroys abilities.
LEMMA ControlStep ==
  ASSUME ControlInv, [Next]_vars
  PROVE  [ExtensionNext]_extVars
<1>1. CASE User \/ Page
  BY <1>1, PageWrites DEF ExtensionNext
<1>2. CASE System
  <2>1. ASSUME NEW i \in DOMAIN calls, Refuse(i) \/ HandleStart(i)  PROVE UNCHANGED extVars
    BY <2>1 DEF Refuse, HandleStart
  <2>2. ASSUME NEW i \in DOMAIN calls, HandleStop(i)  PROVE [ExtensionNext]_extVars
    BY <2>2 DEF HandleStop, ExtensionNext
  <2>3. ASSUME CreateAbility  PROVE ExtensionNext
    BY <2>3 DEF CreateAbility, ExtensionNext, ControlInv, PageTypes, Ids
  <2>4. ASSUME Unauthorised  PROVE UNCHANGED extVars
    BY <2>4 DEF Unauthorised
  <2> QED BY <1>2, <2>1, <2>2, <2>3, <2>4 DEF System
<1>3. CASE Extension
  BY <1>3 DEF Extension, ExtensionNext
<1>4. CASE ExtensionDies
  BY <1>4 DEF ExtensionDies, ExtensionNext
<1>5. CASE UNCHANGED vars
  BY <1>5 DEF vars
<1> QED BY <1>1, <1>2, <1>3, <1>4, <1>5 DEF Next

\* The persisted id stays empty or saved: the extension only ever empties it.
LEMMA ActiveStep ==
  ASSUME ControlInv, [Next]_vars
  PROVE  ActiveIsSaved'
<1> USE DEF ActiveIsSaved
<1>1. CASE User \/ Page
  BY <1>1, PageWrites DEF UiWrites
<1>2. ASSUME saved' = saved, active' \in {active, NoId}  PROVE ActiveIsSaved'
  BY <1>2 DEF ControlInv
<1> DEFINE Empties == saved' = saved /\ active' \in {active, NoId}
<1>3. ASSUME NEW n \in Insts, OnDestroy(n)  PROVE Empties
  BY <1>3 DEF OnDestroy, PublishDisconnected, ClearActive
<1>4. CASE System
  <2>1. ASSUME NEW i \in DOMAIN calls, Refuse(i) \/ HandleStart(i)  PROVE Empties
    BY <2>1 DEF Refuse, HandleStart, extVars
  <2>2. ASSUME NEW i \in DOMAIN calls, HandleStop(i)  PROVE Empties
    BY <1>3, <2>2 DEF HandleStop, extVars
  <2>3. ASSUME CreateAbility  PROVE Empties
    BY <2>3 DEF CreateAbility, Launch
  <2>4. ASSUME Unauthorised  PROVE Empties
    BY <2>4 DEF Unauthorised, extVars
  <2> QED BY <1>2, <1>4, <2>1, <2>2, <2>3, <2>4 DEF System
<1>5. CASE Extension
  <2>1. ASSUME NEW n \in Insts, NEW nat, Fails(n, nat)  PROVE Empties
    BY <2>1 DEF Fails, PublishDisconnected, ClearActive
  <2>2. ASSUME Ability  PROVE Empties
    BY <2>1, <2>2 DEF Ability, Resolved, Protected, Created
  <2>3. ASSUME (\E n \in Insts : Heartbeat(n)) \/ HandshakeDone  PROVE Empties
    BY <2>3 DEF Heartbeat, HandshakeDone
  <2> QED BY <1>2, <1>5, <2>2, <2>3 DEF Extension
<1>6. CASE ExtensionDies
  BY <1>2, <1>6 DEF ExtensionDies, ProcessDies
<1>7. CASE UNCHANGED vars
  BY <1>2, <1>7 DEF vars, extVars
<1> QED BY <1>1, <1>4, <1>5, <1>6, <1>7 DEF Next

(***************************************************************************)
(* Types.                                                                  *)
(***************************************************************************)

\* What the page's operators make of its state, and that only toggleVpn sets
\* connectingId.
LEMMA ClearedType ==
  ASSUME NEW u \in Ui
  PROVE  Cleared(u) \in Ui /\ Cleared(u).connecting = NoId
BY DEF Cleared, Ui, Ids, Statuses

\* The same of scheduleRestoreValidation and of the listener.
LEMMA PageOperators ==
  ASSUME NEW u \in Ui, NEW c \in Configs
  PROVE  /\ Scheduled(u, c) \in Ui /\ Scheduled(u, c).connecting = u.connecting
         /\ Listen(u) \in Ui /\ Listen(u).connecting = u.connecting
BY DEF Scheduled, Listen, Ui, Ids, Statuses

\* The same of setStatus.
LEMMA WithStatusType ==
  ASSUME NEW u \in Ui, NEW c \in Configs, NEW status \in Statuses
  PROVE  WithStatus(u, c, status) \in Ui /\ WithStatus(u, c, status).connecting = u.connecting
<1> DEFINE v == [u EXCEPT !.states[c] = status, !.fresh = @ \/ u.timer = c]
<1>1. v \in Ui /\ v.connecting = u.connecting
  BY DEF Ui
<1> QED BY <1>1, PageOperators DEF WithStatus

\* The same of forgetting a configuration's status.
LEMMA ForgottenType ==
  ASSUME NEW u \in Ui, NEW c \in Configs
  PROVE  [u EXCEPT !.states[c] = "none"] \in Ui
BY DEF Ui

\* The same of restoreActiveConfig.
LEMMA RestoredType ==
  ASSUME NEW u \in Ui, NEW persisted \in Ids, NEW remaining \in SUBSET Configs
  PROVE  /\ Restored(u, persisted, remaining) \in Ui
         /\ Restored(u, persisted, remaining).connecting \in {u.connecting, NoId}
<1>1. CASE persisted = NoId
  BY <1>1, ClearedType DEF Restored
<1>2. CASE persisted # NoId /\ persisted \notin remaining
  BY <1>2, ClearedType, ForgottenType DEF Restored, Ids
<1>3. CASE persisted # NoId /\ persisted \in remaining
  <2> DEFINE v == [u EXCEPT !.active = persisted,
                     !.status = IF u.states[persisted] = "none" THEN "connecting"
                                ELSE u.states[persisted]]
  <2>1. v \in Ui /\ v.connecting = u.connecting
    BY <1>3 DEF Ui, Statuses, Ids
  <2>2. Restored(u, persisted, remaining) = Scheduled(v, persisted)
    BY <1>3 DEF Restored
  <2> HIDE DEF v
  <2> QED BY <1>3, <2>1, <2>2, PageOperators
<1> QED BY <1>1, <1>2, <1>3

\* Loading the configurations keeps the types, and connectingId or none.
LEMMA LoadKeeps ==
  ASSUME NEW u \in Ui, NEW persisted \in Ids, NEW remaining \in SUBSET Configs,
         LoadConfigs(u, persisted, remaining)
  PROVE  ui' \in Ui /\ ui'.connecting \in {u.connecting, NoId}
BY RestoredType DEF LoadConfigs

\* So does deleting a configuration.
LEMMA DeleteKeeps ==
  ASSUME Types, NEW u \in Ui, NEW c \in Configs, NEW persisted \in {active, NoId},
         DeleteConfig(u, c, persisted)
  PROVE  ui' \in Ui /\ ui'.connecting \in {u.connecting, NoId}
<1> persisted \in Ids /\ saved \ {c} \in SUBSET Configs
  BY DEF Types, Ids
<1> QED BY LoadKeeps DEF DeleteConfig

\* A step other than toggleVpn(c, true) keeps the types of the page, and
\* connectingId or none.
Keeps == ui' \in Ui /\ ui'.connecting \in {ui.connecting, NoId}

\* What the page does with a call that returns.
LEMMA ReturnKeeps ==
  ASSUME ControlInv, CallReturns
  PROVE  /\ Keeps
         /\ \E i \in DOMAIN calls :
              /\ calls' = RemoveAt(calls, i)
              /\ calls[i].op = "start" => ui'.connecting = NoId
<1> USE DEF Keeps
<1> Types /\ ui \in Ui /\ calls \in Seq(Calls) /\ NoId \in Ids
  BY DEF ControlInv, PageTypes, Ids
<1>1. PICK i \in DOMAIN calls :
        StartAccepted(i) \/ StartRefused(i) \/ StopAccepted(i) \/ StopRefused(i)
  BY DEF CallReturns
<1> DEFINE c == calls[i].id
<1>2. c \in Configs
  BY CallType
<1>3. calls' = RemoveAt(calls, i)
  BY <1>1 DEF StartAccepted, StartRefused, StopAccepted, StopRefused, Returned
<1>4. CASE StartAccepted(i)
  <2>1. Scheduled(ui, c) \in Ui /\ ui' = [Scheduled(ui, c) EXCEPT !.connecting = NoId]
    BY <1>2, <1>4, PageOperators DEF StartAccepted
  <2>2. ui' \in Ui /\ ui'.connecting = NoId
    BY <2>1 DEF Ui
  <2> QED BY <1>3, <2>2
<1>5. CASE StartRefused(i)
  <2> DEFINE u == WithStatus([ui EXCEPT !.status = "failed"], c, "failed")
  <2>1. u \in Ui
    <3>1. [ui EXCEPT !.status = "failed"] \in Ui
      BY DEF Ui, Statuses
    <3> QED BY <1>2, <3>1, WithStatusType DEF Statuses
  <2>2. ui' = [u EXCEPT !.connecting = NoId]
    BY <1>5 DEF StartRefused
  <2> HIDE DEF u
  <2>3. ui' \in Ui /\ ui'.connecting = NoId
    BY <2>1, <2>2 DEF Ui
  <2> QED BY <1>3, <2>3
<1>6. CASE StopAccepted(i)
  <2> DEFINE u == WithStatus([ui EXCEPT !.status = "disconnected"], c, "disconnected")
             v == IF u.active = c THEN Cleared(u) ELSE u
  <2>1. u \in Ui /\ u.connecting = ui.connecting
    <3>1. [ui EXCEPT !.status = "disconnected"] \in Ui
            /\ [ui EXCEPT !.status = "disconnected"].connecting = ui.connecting
      BY DEF Ui, Statuses
    <3> QED BY <1>2, <3>1, WithStatusType DEF Statuses
  <2>2. v \in Ui /\ v.connecting \in {ui.connecting, NoId}
    BY <2>1, ClearedType
  <2>3. \/ ui' = v
        \/ DeleteConfig(v, c, IF active = c THEN NoId ELSE active)
    BY <1>6 DEF StopAccepted
  <2> HIDE DEF v
  <2>4. Keeps
    BY <1>2, <2>2, <2>3, DeleteKeeps
  <2>5. calls[i].op = "stop"
    BY <1>6 DEF StopAccepted, Returned
  <2> QED BY <1>3, <2>4, <2>5
<1>7. CASE StopRefused(i)
  BY <1>3, <1>7 DEF StopRefused, Returned
<1> QED BY <1>1, <1>4, <1>5, <1>6, <1>7

\* What the other steps of the user and of the page do, toggleVpn(c, true)
\* apart.
LEMMA PageKeeps ==
  ASSUME ControlInv, ~(\E c \in Configs : ToggleOn(c)),
         User \/ UiStarts \/ Subscribe \/ StatusEvent \/ RestoreTimeout
  PROVE  Keeps
<1> USE DEF Keeps
<1> /\ Types /\ ui \in Ui /\ calls \in Seq(Calls) /\ NoId \in Ids
    /\ active \in Ids /\ saved \in SUBSET Configs
  BY DEF ControlInv, PageTypes, Types, Ids
<1>1. ASSUME NEW c \in Configs, NEW delete, ToggleOff(c, delete)  PROVE Keeps
  BY <1>1 DEF ToggleOff
<1>2. ASSUME NEW c \in Configs, DeleteIdle(c)  PROVE Keeps
  <2>1. CASE ui.active = c
    <3>1. DeleteConfig(Cleared(ui), c, IF active = c THEN NoId ELSE active)
      BY <1>2, <2>1 DEF DeleteIdle
    <3> QED BY <3>1, ClearedType, DeleteKeeps
  <2>2. CASE ui.active # c
    BY <1>2, <2>2, DeleteKeeps DEF DeleteIdle
  <2> QED BY <2>1, <2>2
<1>3. ASSUME NEW c \in Configs, DeleteConfigAfterStop(c) \/ DeleteFromEditPage(c)  PROVE Keeps
  BY <1>1, <1>2, <1>3, DeleteKeeps DEF DeleteConfigAfterStop, DeleteFromEditPage
<1>4. ASSUME PageShow  PROVE Keeps
  BY <1>4, LoadKeeps DEF PageShow
<1>5. NoUi \in Ui /\ NoUi.connecting = NoId
  BY DEF NoUi, Ui, Statuses, Ids
<1>6. ASSUME UiDies  PROVE Keeps
  BY <1>5, <1>6 DEF UiDies
<1>7. ASSUME UiStarts  PROVE Keeps
  <2>1. [NoUi EXCEPT !.up = "shown"] \in Ui /\ [NoUi EXCEPT !.up = "shown"].connecting = NoId
    BY <1>5 DEF Ui
  <2> QED BY <1>7, <2>1, LoadKeeps DEF UiStarts
<1>8. ASSUME Subscribe  PROVE Keeps
  BY <1>8 DEF Subscribe, Ui
<1>9. ASSUME StatusEvent  PROVE Keeps
  <2> DEFINE e == Head(events)
             u == [ui EXCEPT !.timer = IF ui.active = e.id THEN NoId ELSE @,
                             !.active = IF Adopts(e) THEN e.id ELSE @]
  <2>1. e.id \in Configs /\ e.state \in Statuses
    <3>1. e \in EventType
      BY <1>9, HeadTailProperties DEF StatusEvent, Types
    <3> QED BY <3>1 DEF EventType, Statuses
  <2> HIDE DEF e
  <2>2. u \in Ui /\ u.connecting = ui.connecting
    BY <2>1 DEF Ui, Ids
  <2> HIDE DEF u
  <2>3. [u EXCEPT !.connecting = NoId] \in Ui /\ [u EXCEPT !.connecting = NoId].connecting = NoId
    BY <2>2 DEF Ui
  <2>4. Noted(u, e) \in Ui /\ Noted(u, e).connecting \in {u.connecting, NoId}
    BY <2>2, <2>3, ClearedType DEF Noted
  <2>5. ui' \in {ui, WithStatus(Noted(u, e), e.id, e.state)}
    BY <1>9 DEF StatusEvent, e, u
  <2> QED BY <2>1, <2>2, <2>4, <2>5, WithStatusType
<1>10. ASSUME RestoreTimeout  PROVE Keeps
  <2> DEFINE c == ui.timer
             u == [ui EXCEPT !.timer = NoId]
  <2>1. u \in Ui /\ u.connecting = ui.connecting
    BY DEF Ui
  <2>2. c \in Configs
    BY <1>10 DEF RestoreTimeout, Ui, Ids
  <2>3. ui' = u \/ ui' = Cleared([u EXCEPT !.states[c] = "none"])
    BY <1>10 DEF RestoreTimeout
  <2> HIDE DEF u, c
  <2>4. [u EXCEPT !.states[c] = "none"] \in Ui
    BY <2>1, <2>2, ForgottenType
  <2> QED BY <2>1, <2>3, <2>4, ClearedType
<1> QED
  BY <1>1, <1>3, <1>4, <1>6, <1>7, <1>8, <1>9, <1>10 DEF User

\* toggleVpn(c, true) sets connectingId and makes the call that belongs to it.
LEMMA ToggleOnSets ==
  ASSUME ControlInv, NEW c \in Configs, ToggleOn(c)
  PROVE  ui' \in Ui /\ ui'.connecting = c
<1>1. c \in Ids /\ ui \in Ui
  BY DEF ControlInv, PageTypes, Ids
<1> DEFINE u == [ui EXCEPT !.connecting = c, !.active = c, !.status = "connecting"]
<1>2. u \in Ui /\ u.connecting = c
  BY <1>1 DEF Ui, Statuses
<1>3. ui' = WithStatus(u, c, "connecting")
  BY DEF ToggleOn
<1> HIDE DEF u
<1> QED BY <1>2, <1>3, WithStatusType DEF Statuses

\* What steps do to the calls: one more is made, or one is answered, or one
\* returns that no start awaits;
Awaits(i) == calls[i].op = "start" /\ calls[i].awaited

CallsGoOn ==
  \/ UNCHANGED calls
  \/ \E op \in {"start", "stop"}, c \in Configs, delete \in BOOLEAN :
       calls' = Append(calls, Call(op, c, delete))
  \/ \E i \in DOMAIN calls, result \in {"ok", "error"} : Answer(i, result)
  \/ \E i \in DOMAIN calls : ~Awaits(i) /\ calls' = RemoveAt(calls, i)

\* or the start returns, or the page is gone.
CallsEnd == (\E i \in DOMAIN calls : calls' = RemoveAt(calls, i)) \/ UiDies

\* The number of calls handled is one.
LEMMA HandledCountType ==
  ASSUME calls \in Seq(Calls)
  PROVE  HandledCount \in Nat
<1> DEFINE H == {i \in DOMAIN calls : calls[i].result # "sent"}
<1>1. IsFiniteSet(1 .. Len(calls))
  BY LenProperties, FS_Interval
<1>2. H \subseteq 1 .. Len(calls)
  BY LenProperties
<1>3. IsFiniteSet(H)
  BY <1>1, <1>2, FS_Subset
<1> QED BY <1>3, FS_CardinalityType DEF HandledCount

\* Every one of those keeps the type of the calls.
LEMMA CallsTyped ==
  ASSUME calls \in Seq(Calls), CallsGoOn \/ CallsEnd
  PROVE  calls' \in Seq(Calls)
<1>1. ASSUME NEW op \in {"start", "stop"}, NEW c \in Configs, NEW delete \in BOOLEAN,
             calls' = Append(calls, Call(op, c, delete))
      PROVE  calls' \in Seq(Calls)
  BY <1>1, NewCallType, AppendProperties
<1>2. ASSUME NEW i \in DOMAIN calls
      PROVE  /\ RemoveAt(calls, i) \in Seq(Calls)
             /\ \A result \in {"ok", "error"} : Answer(i, result) => calls' \in Seq(Calls)
  <2>1. i \in 1 .. Len(calls) /\ calls[i] \in Calls
    BY CallType
  <2>2. RemoveAt(calls, i) \in Seq(Calls)
    BY <2>1, RemoveAtProperties
  <2>3. ASSUME NEW result \in {"ok", "error"}  PROVE [calls EXCEPT ![i].result = result] \in Seq(Calls)
    <3>1. [calls[i] EXCEPT !.result = result] \in Calls
      BY <2>1 DEF Calls
    <3>2. [calls EXCEPT ![i] = [calls[i] EXCEPT !.result = result]] \in Seq(Calls)
      BY <2>1, <3>1, ExceptSeq
    <3> QED BY <3>2
  <2> QED BY <2>2, <2>3 DEF Answer
<1>3. ASSUME UiDies  PROVE calls' \in Seq(Calls)
  <2> DEFINE h == HandledCount
             e(i) == [calls[i + h] EXCEPT !.awaited = FALSE]
             n == IF h <= Len(calls) THEN Len(calls) - h ELSE 0
  <2>1. h \in Nat /\ Len(calls) \in Nat
    BY HandledCountType, LenProperties
  <2> HIDE DEF h
  <2>2. ASSUME NEW i \in 1 .. n  PROVE e(i) \in Calls
    <3>1. i + h \in 1 .. Len(calls)
      BY <2>1
    <3>2. calls[i + h] \in Calls
      BY <3>1, ElementOfSeq
    <3> QED BY <3>2 DEF Calls
  <2>3. calls' = [i \in 1 .. n |-> e(i)]
    <3>1. 1 .. Len(calls) - h = 1 .. n
      BY <2>1
    <3> QED BY <1>3, <3>1 DEF UiDies, h
  <2>4. n \in Nat
    BY <2>1
  <2> HIDE DEF e, n
  <2>5. [i \in 1 .. n |-> e(i)] \in Seq(Calls)
    BY <2>2, <2>4, IsASeq
  <2> QED BY <2>3, <2>5
<1> QED BY <1>1, <1>2, <1>3 DEF CallsGoOn, CallsEnd

\* Every step does one of those things to the calls, and connectingId is reset
\* by the last two.
LEMMA CallsCases ==
  ASSUME ControlInv, [Next]_vars
  PROVE  CallsGoOn \/ (CallsEnd /\ ui'.connecting = NoId)
<1> DEFINE Goal == CallsGoOn \/ (CallsEnd /\ ui'.connecting = NoId)
<1>1. ASSUME NEW c \in Configs, ToggleOn(c)  PROVE Goal
  BY <1>1 DEF ToggleOn, CallsGoOn
<1>2. ASSUME NEW c \in Configs, NEW delete \in BOOLEAN, ToggleOff(c, delete)  PROVE Goal
  BY <1>2 DEF ToggleOff, CallsGoOn
<1>3. ASSUME NEW c \in Configs, DeleteConfigAfterStop(c) \/ DeleteFromEditPage(c)
      PROVE  Goal
  BY <1>2, <1>3 DEF DeleteConfigAfterStop, DeleteIdle, DeleteFromEditPage, CallsGoOn
<1>4. ASSUME UiDies  PROVE Goal
  BY <1>4 DEF UiDies, NoUi, CallsEnd
<1>5. CASE User
  BY <1>1, <1>2, <1>3, <1>4, <1>5 DEF User, PageShow, CallsGoOn
<1>6. CASE CallReturns
  BY <1>6, ReturnKeeps DEF CallsGoOn, CallsEnd, Awaits
<1>7. CASE Page
  BY <1>6, <1>7 DEF Page, UiStarts, Subscribe, StatusEvent, RestoreTimeout, CallsGoOn
<1>8. CASE System
  BY <1>8 DEF System, Refuse, HandleStart, HandleStop, CreateAbility, Unauthorised, CallsGoOn
<1>9. CASE Extension \/ ExtensionDies \/ UNCHANGED vars
  BY <1>9 DEF Extension, ExtensionDies, vars, CallsGoOn
<1> QED BY <1>5, <1>7, <1>8, <1>9 DEF Next

\* A start call the page awaits, for a configuration.
Awaited(c) ==
  \E i \in DOMAIN calls : calls[i].op = "start" /\ calls[i].id = c /\ calls[i].awaited

\* As long as the calls go on, a start call that is awaited stays.
LEMMA AwaitedStays ==
  ASSUME calls \in Seq(Calls), CallsGoOn, NEW c, Awaited(c)
  PROVE  Awaited(c)'
<1>1. PICK j \in DOMAIN calls : calls[j].op = "start" /\ calls[j].id = c /\ calls[j].awaited
  BY DEF Awaited
<1>2. j \in 1 .. Len(calls) /\ Len(calls) \in Nat /\ DOMAIN calls = 1 .. Len(calls)
  BY LenProperties
<1>3. SUFFICES ASSUME calls' \in Seq(Calls)
               PROVE  \E k \in 1 .. Len(calls') :
                        calls'[k].op = "start" /\ calls'[k].id = c /\ calls'[k].awaited
  <2>1. calls' \in Seq(Calls)
    BY CallsTyped
  <2>2. DOMAIN calls' = 1 .. Len(calls')
    BY <2>1, LenProperties
  <2> QED BY <2>1, <2>2 DEF Awaited
<1>4. CASE UNCHANGED calls
  BY <1>1, <1>2, <1>4
<1>5. ASSUME NEW op \in {"start", "stop"}, NEW d \in Configs, NEW delete \in BOOLEAN,
             calls' = Append(calls, Call(op, d, delete))
      PROVE  \E k \in 1 .. Len(calls') :
               calls'[k].op = "start" /\ calls'[k].id = c /\ calls'[k].awaited
  <2>1. Len(calls') = Len(calls) + 1 /\ calls'[j] = calls[j]
    BY <1>2, <1>5, NewCallType, AppendProperties
  <2> QED BY <1>1, <1>2, <2>1
<1>6. ASSUME NEW i \in DOMAIN calls, ~Awaits(i), calls' = RemoveAt(calls, i)
      PROVE  \E k \in 1 .. Len(calls') :
               calls'[k].op = "start" /\ calls'[k].id = c /\ calls'[k].awaited
  <2>1. /\ i \in 1 .. Len(calls) /\ Len(calls') = Len(calls) - 1
        /\ \A k \in 1 .. Len(calls) - 1 :
             calls'[k] = IF k < i THEN calls[k] ELSE calls[k + 1]
    BY <1>2, <1>6, RemoveAtProperties
  <2>2. i # j
    BY <1>1, <1>6 DEF Awaits
  <2>3. CASE j < i
    <3>1. j \in 1 .. Len(calls') /\ calls'[j] = calls[j]
      BY <1>2, <2>1, <2>3
    <3> QED BY <1>1, <3>1
  <2>4. CASE j > i
    <3>1. j - 1 \in 1 .. Len(calls') /\ ~(j - 1 < i) /\ (j - 1) + 1 = j
      BY <1>2, <2>1, <2>4
    <3>2. calls'[j - 1] = calls[j]
      BY <2>1, <3>1
    <3> QED BY <1>1, <3>1, <3>2
  <2> QED BY <1>2, <2>1, <2>2, <2>3, <2>4
<1>7. ASSUME NEW i \in DOMAIN calls, NEW result \in {"ok", "error"}, Answer(i, result)
      PROVE  \E k \in 1 .. Len(calls') :
               calls'[k].op = "start" /\ calls'[k].id = c /\ calls'[k].awaited
  <2>1. CASE ~calls[i].awaited
    BY <1>6, <1>7, <2>1 DEF Answer, Awaits
  <2>2. CASE calls[i].awaited
    <3>1. i \in 1 .. Len(calls) /\ calls[i] \in Calls
      BY CallType
    <3> DEFINE answered == [calls[i] EXCEPT !.result = result]
    <3>2. /\ answered \in Calls
          /\ answered.op = calls[i].op /\ answered.id = calls[i].id
          /\ answered.awaited = calls[i].awaited
      BY <3>1 DEF Calls
    <3>3. calls' = [calls EXCEPT ![i] = answered]
      BY <1>7, <2>2 DEF Answer
    <3> HIDE DEF answered
    <3>4. /\ Len(calls') = Len(calls)
          /\ \A k \in 1 .. Len(calls) : calls'[k] = IF k = i THEN answered ELSE calls[k]
      BY <3>1, <3>2, <3>3, ExceptSeq
    <3> QED BY <1>1, <1>2, <3>2, <3>4
  <2> QED BY <2>1, <2>2
<1> QED BY <1>4, <1>5, <1>6, <1>7 DEF CallsGoOn

\* Every step keeps the types of the page, the calls and the system.
LEMMA PageTypesStep ==
  ASSUME ControlInv, [Next]_vars
  PROVE  PageTypes'
<1> /\ Types /\ ui \in Ui /\ calls \in Seq(Calls) /\ launching \in Ids
    /\ clicks \in 0 .. MaxClicks
  BY DEF ControlInv, PageTypes
<1>1. calls' \in Seq(Calls)
  BY CallsCases, CallsTyped
<1>2. ui' \in Ui
  <2>1. CASE User \/ Page
    BY <2>1, ToggleOnSets, PageKeeps, ReturnKeeps DEF Page, Keeps
  <2>2. CASE System
    BY <2>2 DEF System, Refuse, HandleStart, HandleStop, CreateAbility, Unauthorised
  <2>3. CASE Extension \/ ExtensionDies \/ UNCHANGED vars
    BY <2>3 DEF Extension, ExtensionDies, vars
  <2> QED BY <2>1, <2>2, <2>3 DEF Next
<1>3. launching' \in Ids /\ clicks' \in 0 .. MaxClicks
  <2>1. ASSUME Click  PROVE clicks' \in 0 .. MaxClicks
    BY <2>1, ClickAssumption DEF Click
  <2>2. CASE User
    <3>1. launching' = launching
      BY <2>2 DEF User, ToggleOn, ToggleOff, DeleteConfigAfterStop, DeleteIdle,
                  DeleteFromEditPage, PageShow, UiDies
    <3>2. Click
      BY <2>2 DEF User, ToggleOn, DeleteConfigAfterStop, DeleteFromEditPage, PageShow, UiDies
    <3> QED BY <2>1, <3>1, <3>2
  <2>3. CASE Page
    BY <2>3 DEF Page, UiStarts, Subscribe, StatusEvent, RestoreTimeout, CallReturns,
                StartAccepted, StartRefused, StopAccepted, StopRefused, Returned
  <2>4. CASE System
    <3>1. ASSUME NEW i \in DOMAIN calls  PROVE {calls[i].id, NoId} \subseteq Ids
      BY CallType DEF Ids
    <3> QED BY <2>4, <3>1 DEF System, Refuse, HandleStart, HandleStop, CreateAbility,
                              Unauthorised, Ids
  <2>5. CASE Extension \/ ExtensionDies \/ UNCHANGED vars
    BY <2>1, <2>5 DEF Extension, ExtensionDies, vars
  <2> QED BY <2>2, <2>3, <2>4, <2>5 DEF Next
<1> QED BY <1>1, <1>2, <1>3 DEF PageTypes

(***************************************************************************)
(* The theorems.                                                           *)
(***************************************************************************)

\* The invariant holds at first.
LEMMA ControlInit == Init => ControlInv
<1> SUFFICES ASSUME Init  PROVE ControlInv
  OBVIOUS
<1>1. Types /\ ConfiguredInv
  BY InitTypes DEF Init
<1>2. PageTypes
  BY EmptySeq, ClickAssumption DEF Init, PageTypes, NoUi, Ui, Statuses, Ids
<1> QED BY <1>1, <1>2 DEF Init, ExtensionInit, ActiveIsSaved, ControlInv

\* And always.
LEMMA ControlInvariant == Spec => []ControlInv
<1>1. ControlInv /\ [Next]_vars => ControlInv'
  <2> SUFFICES ASSUME ControlInv, [Next]_vars  PROVE ControlInv'
    OBVIOUS
  <2>1. [ExtensionNext]_extVars
    BY ControlStep
  <2>2. Types' /\ ConfiguredInv'
    BY <2>1, TypesStep, ConfiguredStep DEF ControlInv
  <2> QED BY <2>2, PageTypesStep, ActiveStep DEF ControlInv
<1> QED BY <1>1, ControlInit, PTL DEF Spec

\* Every variable of the application and of the extension keeps its type.
THEOREM ControlTypes == Spec => []TypeOK
<1>1. ControlInv => TypeOK
  BY TypesIs DEF ControlInv, PageTypes, Ui, TypeOK
<1> QED BY <1>1, ControlInvariant, PTL

\* However toggles, deletions, restores, returns and events interleave, and
\* whichever process dies, the persisted id names a saved configuration or none.
THEOREM ActiveAlwaysSaved == Spec => []ActiveIsSaved
<1>1. ControlInv => ActiveIsSaved
  BY DEF ControlInv
<1> QED BY <1>1, ControlInvariant, PTL

\* The application is a UI of the extension: each of its steps is one of
\* VpnExtension, or leaves the extension and what it shares with the UI alone.
THEOREM ControlImplements == Spec => ExtensionSpec
<1>1. Init => ExtensionInit
  BY DEF Init
<1>2. ControlInv /\ [Next]_vars => [ExtensionNext]_extVars
  BY ControlStep
<1> QED BY <1>1, <1>2, ControlInvariant, PTL DEF Spec, ExtensionSpec

\* So what is shown of VpnExtension holds in the application: its abilities only
\* report on their own peers,
COROLLARY ControlOnlyOwnPeer == Spec => []BeatsOwnPeer
BY ControlImplements, OnlyOwnPeer, PTL

\* and in a process of its own no socket or thread is left without an owner,
\* whatever the user does and in which order calls return.
COROLLARY ControlTunnelIsOwned == ~Lingers /\ Spec => []TunnelOwned
BY ControlImplements, TunnelIsOwned, PTL

\* While the page refuses every start because one is in progress, the call that
\* ends this is still to return.
THEOREM ConnectingAlwaysHasCall == Spec => []ConnectingHasCall
<1>1. Init => ConnectingHasCall
  BY DEF Init, NoUi, ConnectingHasCall
<1>2. ControlInv /\ ConnectingHasCall /\ [Next]_vars => ConnectingHasCall'
  <2> SUFFICES ASSUME ControlInv, ConnectingHasCall, [Next]_vars,
                      NEW c, c = ui'.connecting, c # NoId
               PROVE  Awaited(c)'
    BY DEF ConnectingHasCall, Awaited
  <2>1. calls \in Seq(Calls) /\ CallsGoOn
    BY CallsCases DEF ControlInv, PageTypes
  <2>2. ASSUME NEW d \in Configs, ToggleOn(d)  PROVE Awaited(c)'
    <3>1. c = d /\ calls' = Append(calls, Call("start", d, FALSE))
      BY <2>2, ToggleOnSets DEF ToggleOn
    <3>2. Call("start", d, FALSE) \in Calls
      BY NewCallType
    <3>3. /\ calls' \in Seq(Calls) /\ Len(calls') = Len(calls) + 1
          /\ calls'[Len(calls) + 1] = Call("start", d, FALSE)
      BY <2>1, <3>1, <3>2, AppendProperties
    <3>4. Len(calls) + 1 \in DOMAIN calls'
      BY <2>1, <3>3, LenProperties
    <3> QED BY <3>1, <3>3, <3>4 DEF Awaited, Call
  <2>3. CASE c = ui.connecting
    <3>1. Awaited(c)
      BY <2>3 DEF ConnectingHasCall, Awaited
    <3> QED BY <2>1, <3>1, AwaitedStays
  <2>4. CASE ~(\E d \in Configs : ToggleOn(d))
    <3>1. c \in {ui.connecting, NoId}
      <4>1. CASE User \/ Page
        BY <2>4, <4>1, PageKeeps, ReturnKeeps DEF Page, Keeps
      <4>2. CASE System
        BY <4>2 DEF System, Refuse, HandleStart, HandleStop, CreateAbility, Unauthorised
      <4>3. CASE Extension \/ ExtensionDies \/ UNCHANGED vars
        BY <4>3 DEF Extension, ExtensionDies, vars
      <4> QED BY <4>1, <4>2, <4>3 DEF Next
    <3> QED BY <2>3, <3>1
  <2> QED BY <2>2, <2>4
<1> QED BY <1>1, <1>2, ControlInvariant, PTL DEF Spec
==============================================================================
