----------------------------- MODULE VpnExtension -----------------------------
(***************************************************************************)
(* The process of the VPN extension: the instances of WireGuardVpnAbility  *)
(* the system creates in it one after the other, each of which starts the  *)
(* tunnel across three awaits, and the native library's state, of which    *)
(* the process has one (napi_init.cpp, packet_io.cpp).                     *)
(*                                                                         *)
(* JavaScript runs on one thread: a step is what an ability does from one  *)
(* await to the next.  onDestroy may come during any await; the rest of    *)
(* startVpnConnection then runs in a destroyed ability, if the process is  *)
(* still there.                                                            *)
(*                                                                         *)
(* The other process, the UI, is left open here: it may change the         *)
(* persisted id and the saved configurations and takes events in order.    *)
(* VpnControl puts the UI of the application in its place.                 *)
(***************************************************************************)
EXTENDS Integers, FiniteSets, Sequences

CONSTANTS
  Configs,      (* Ids of configurations.                                  *)
  NoId,         (* The empty id.                                           *)
  MaxLaunches,  (* Instances the system ever creates.  Bounds the model.   *)
  MaxEvents,    (* Events on their way to the UI.  Bounds the model.       *)
  Lingers       (* Whether the process outlives a destroyed ability: the   *)
                (* system decides.                                         *)

ASSUME NoIdAssumption == NoId \notin Configs
ASSUME BoundAssumption ==
  MaxLaunches \in Nat \ {0} /\ MaxEvents \in Nat \ {0} /\ Lingers \in BOOLEAN

VARIABLES
  inst,     (* the instances, in the order of their creation               *)
  native,   (* the static variables of the native library                  *)
  active,   (* the preference active_config_id                             *)
  saved,    (* the preference configs                                      *)
  events    (* published status events the UI has not received             *)

extVars == <<inst, native, active, saved, events>>

Insts == 1 .. MaxLaunches
Ids   == Configs \union {NoId}

(***************************************************************************)
(* An instance.  phase: the await startVpnConnection is at, "unborn"       *)
(* before onCreate, "ended" once startVpnConnection has settled or has no  *)
(* configuration to start.  live: created and not destroyed.  conn:        *)
(* vpnConnection # null.  beating: the status timer runs.  fd: the socket  *)
(* startVpnConnection holds, 0 for none.                                   *)
(***************************************************************************)
Unborn ==
  [phase |-> "unborn", id |-> NoId, live |-> FALSE, conn |-> FALSE,
   beating |-> FALSE, fd |-> 0]

\* What is left of an instance when its process has gone.
Gone(i) ==
  [Unborn EXCEPT !.phase = IF i.phase = "unborn" THEN "unborn" ELSE "ended", !.id = i.id]

(***************************************************************************)
(* The native library.  fd: g_tunnelFd; open: the open UDP descriptors;    *)
(* udp: g_udpFd, # 0 exactly while g_ioRunning; threads: the I/O threads   *)
(* still in their loops; peer: the instance whose configuration the only   *)
(* peer slot was filled from, 0 if free; session: curr_keypair.valid.      *)
(***************************************************************************)
Threads == {"tun", "udp", "timer"}
Fds     == 1 .. MaxLaunches

FreshNative ==
  [fd |-> 0, open |-> {}, udp |-> 0, threads |-> {}, peer |-> 0, session |-> FALSE]

\* The system gives some descriptor that is not open, if there is one.
HasFd  == Fds \ native.open # {}
FreeFd == CHOOSE f \in Fds : f \notin native.open

\* Mutant: a failed call leaves its error number in g_tunnelFd.
UdpErrorKept == [native EXCEPT !.fd = -2]

\* UdpConnect: g_tunnelFd is overwritten whatever it held.
UdpConnected == [native EXCEPT !.fd = FreeFd, !.open = @ \union {FreeFd}]
UdpRefused   == [native EXCEPT !.fd = 0]

\* Mutant: StopVpn leaves the socket open.
StopThreadsOnly(nat) == [nat EXCEPT !.fd = 0, !.udp = 0, !.threads = {}]

\* StopVpn: StopPacketIO, then the socket of g_tunnelFd is closed.  The device
\* keeps its peer, and the peer its session.
StopVpn(nat) ==
  [nat EXCEPT !.fd = 0, !.open = @ \ {nat.fd}, !.udp = 0, !.threads = {}]

\* Mutant: wg_add_peer overwrites a peer.
AlwaysRoom == TRUE

\* StartVpn for instance n, when wg_add_peer finds the peer slot free.
PeerSlotFree == native.peer = 0
Started(n) ==
  [native EXCEPT !.peer = n, !.udp = inst[n].fd, !.threads = Threads, !.session = FALSE]

(***************************************************************************)
(* Events and the persisted id.                                            *)
(***************************************************************************)

\* publishStatus; terminal states have no tunnel to tell of.
Event(n, state) == [id |-> inst[n].id, state |-> state]

BeatState(nat) == IF nat.session THEN "connected" ELSE "connecting"

\* configManager.clearActiveConfigId(id).
ClearActive(id) == active' = IF active = id THEN NoId ELSE active

\* publishDisconnected; the UI ignores an event without an id.
PublishDisconnected(n, state) ==
  /\ ClearActive(inst[n].id)
  /\ events' = IF inst[n].id = NoId THEN events ELSE Append(events, Event(n, state))

(***************************************************************************)
(* Steps of an ability.                                                    *)
(***************************************************************************)

\* onCreate and loadConfigAndStart, up to the first await.  want is the
\* configuration in want.parameters, lost after the authorisation dialog.
Launch(n, want) ==
  LET id == IF want # NoId THEN want ELSE IF active \in saved THEN active ELSE NoId
  IN  /\ inst[n].phase = "unborn" /\ \A m \in Insts : m < n => inst[m].phase # "unborn"
      /\ \A m \in Insts : ~inst[m].live
      /\ inst' = [inst EXCEPT ![n] =
           [Unborn EXCEPT !.phase = IF id = NoId THEN "ended" ELSE "resolve",
                          !.id = id, !.live = TRUE, !.conn = id # NoId]]
      /\ active' = IF want = NoId /\ active \notin saved THEN NoId ELSE active
      /\ UNCHANGED <<native, saved, events>>

\* startVpnConnection throws; the native library is left as nat.
Fails(n, nat) ==
  /\ native' = nat
  /\ inst' = [inst EXCEPT ![n].phase = "ended", ![n].conn = FALSE, ![n].fd = 0]
  /\ PublishDisconnected(n, "failed")
  /\ UNCHANGED saved

\* The host name is resolved or not; then udpConnect, then protect, which
\* throws if onDestroy has taken the connection away.
Resolved(n) ==
  /\ inst[n].phase = "resolve"
  /\ \/ Fails(n, native)
     \/ Fails(n, UdpRefused)
     \/ /\ HasFd /\ ~inst[n].conn
        /\ Fails(n, StopVpn(UdpConnected))
     \/ /\ HasFd /\ inst[n].conn
        /\ native' = UdpConnected
        /\ inst' = [inst EXCEPT ![n].phase = "protect", ![n].fd = FreeFd]
        /\ UNCHANGED <<active, saved, events>>

\* The socket is protected or not; then create.  Between the two, buildVpnConfig
\* takes a configuration with the types WgConfig declares and does not throw: on
\* another it would, without StopVpn.
Protected(n) ==
  /\ inst[n].phase = "protect"
  /\ \/ Fails(n, StopVpn(native))
     \/ /\ inst[n].conn
        /\ inst' = [inst EXCEPT ![n].phase = "create"]
        /\ UNCHANGED <<native, active, saved, events>>

\* The TUN device is created or not; then startVpn, and the first status.
Created(n) ==
  /\ inst[n].phase = "create"
  /\ \/ Fails(n, StopVpn(native))
     \/ /\ PeerSlotFree
        /\ native' = Started(n)
        /\ inst' = [inst EXCEPT ![n].phase = "ended", ![n].beating = TRUE]
        /\ events' = Append(events, Event(n, BeatState(Started(n))))
        /\ UNCHANGED <<active, saved>>

\* The status timer.
Heartbeat(n) ==
  /\ inst[n].beating
  /\ Len(events) < MaxEvents
  /\ events' = Append(events, Event(n, BeatState(native)))
  /\ UNCHANGED <<inst, native, active, saved>>

\* onDestroy.  What startVpnConnection awaits still arrives if the process
\* lives on.
OnDestroy(n) ==
  /\ inst[n].live
  /\ PublishDisconnected(n, "disconnected")
  /\ IF Lingers
       THEN /\ native' = StopVpn(native)
            /\ inst' = [inst EXCEPT ![n].live = FALSE, ![n].conn = FALSE, ![n].beating = FALSE]
       ELSE /\ native' = FreshNative
            /\ inst' = [m \in Insts |-> Gone(inst[m])]
  /\ UNCHANGED saved

\* The system ends a process that has no ability, or has not been quick enough,
\* or that crashed: no callback runs.
ProcessDies ==
  /\ \E n \in Insts : inst[n] # Gone(inst[n])
  /\ native' = FreshNative
  /\ inst' = [m \in Insts |-> Gone(inst[m])]
  /\ UNCHANGED <<active, saved, events>>

(***************************************************************************)
(* The native threads.                                                     *)
(***************************************************************************)

\* A handshake completes (HarmonyTunnel says when).
HandshakeDone ==
  /\ {"udp", "timer"} \subseteq native.threads
  /\ native.udp \in native.open
  /\ native' = [native EXCEPT !.session = TRUE]
  /\ UNCHANGED <<inst, active, saved, events>>

\* poll, read or recv fails: the thread leaves its loop, the others go on.
PumpFails(t) ==
  /\ t \in native.threads \ {"timer"}
  /\ native' = [native EXCEPT !.threads = @ \ {t}]
  /\ UNCHANGED <<inst, active, saved, events>>

Ability == \E n \in Insts : Resolved(n) \/ Protected(n) \/ Created(n)

-----------------------------------------------------------------------------

(***************************************************************************)
(* What any UI may do.                                                     *)
(***************************************************************************)
UiWrites ==
  /\ saved' \in SUBSET Configs
  /\ active' \in saved' \union {NoId}
  /\ events' = events \/ (events # <<>> /\ events' = Tail(events))
  /\ UNCHANGED <<inst, native>>

ExtensionInit ==
  /\ inst = [n \in Insts |-> Unborn]
  /\ native = FreshNative
  /\ active = NoId
  /\ saved = Configs
  /\ events = <<>>

ExtensionNext ==
  \/ \E n \in Insts, want \in Ids : Launch(n, want)
  \/ Ability
  \/ \E n \in Insts : Heartbeat(n) \/ OnDestroy(n)
  \/ ProcessDies
  \/ HandshakeDone
  \/ \E t \in Threads : PumpFails(t)
  \/ UiWrites

ExtensionSpec == ExtensionInit /\ [][ExtensionNext]_extVars

(***************************************************************************)
(* Properties.                                                             *)
(***************************************************************************)

ExtensionTypeOK ==
  /\ inst \in [Insts -> [phase : {"unborn", "resolve", "protect", "create", "ended"},
                         id : Ids, live : BOOLEAN, conn : BOOLEAN,
                         beating : BOOLEAN, fd : Fds \union {0}]]
  /\ native \in [fd : Fds \union {0}, open : SUBSET Fds, udp : Fds \union {0},
                 threads : SUBSET Threads, peer : Insts \union {0}, session : BOOLEAN]
  /\ active \in Ids
  /\ saved \in SUBSET Configs
  /\ events \in Seq([id : Configs, state : {"connecting", "connected", "failed", "disconnected"}])

\* FEATURE.md:159, one tunnel at a time: an ability that reports status reports
\* on the peer it configured itself, whatever other abilities the process has
\* run, so no two report and none reports on keys of another configuration.
BeatsOwnPeer == \A n \in Insts : inst[n].beating => native.peer = n

\* In a process of its own an open socket belongs to the live ability and is
\* the one StopVpn will close, and a running tunnel is reported on by that
\* ability: no failure on the way to it leaves a socket or a thread behind.
TunnelOwned ==
  /\ \A f \in native.open :
       f = native.fd /\ \E n \in Insts : inst[n].live /\ inst[n].conn /\ inst[n].fd = f
  /\ native.udp # 0 =>
       native.udp \in native.open
         /\ \E n \in Insts : inst[n].live /\ inst[n].beating /\ native.peer = n
==============================================================================
