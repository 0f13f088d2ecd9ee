# HarmonyWireguard in TLA+

HarmonyWireguard is a WireGuard client for HarmonyOS: a UI process and a VPN
extension process in ArkTS (`src/entry/src/main/ets`), and a native library in
C and C++ (`src/entry/src/main/cpp`) that the extension loads. This directory
models the parts whose correctness depends on order: four native threads that
share one peer without a lock, a VPN ability that starts a tunnel across three
awaits and may be destroyed during any of them, and a page that learns what
became of it from calls that return late, events that arrive late, a timer, and
a preference both processes write. It also models the WireGuard library under
them: the handshake's cryptography, cookies, the replay window, the second
interface the library comes with, and the arithmetic of its primitives on a scale
that can be tried out.

Paths below are relative to `src/entry/src/main/` unless they begin with `src/`.

    tlc -workers 2 -config HarmonyTunnel_safety.cfg MCHarmonyTunnel
    tlapm HarmonyTunnel_proofs.tla

## 1. The system

    UI process                      system             extension process
    pages/Index.ets  --start/stop-->  VPN    --create/destroy-->  WireGuardVpnAbility.ets
        ^    |                      service                        |  ^        |
        |    | active_config_id, configs (Preferences)             |  |        | NAPI
        |    +--------------- ConfigManager.ets -------------------+  |        v
        +---------------- common events: status --------------------- +   napi_init.cpp
                                                                         packet_io.cpp
                                                          TUN <--threads--> UDP socket
                                                                         wireguard.c

* The page calls the system's VPN service, and the service creates and destroys
  the ability. The authorisation dialog loses the call's parameters, so the page
  first writes the chosen configuration's id to `active_config_id`.
* The ability opens and protects a UDP socket, creates the TUN device and calls
  `startVpn`, each with an await in between, then publishes a status event
  every 1.5 s and one final event.
* `startVpn` fills the single peer slot of a process-wide device, starts three
  threads and sends a first handshake initiation on the JS thread itself.

### Components

**Tunnel threads** (`cpp/tunnel/packet_io.cpp`,
`cpp/wireguard/wireguardif_harmony.cpp`). State: `g_ioRunning`, two descriptors,
the peer's fields. Operations: `TimerThread` (tick, pending handshakes,
keepalives), `TunToUdpThread`, `UdpToTunThread`, `KickInitialHandshake`. Hard:
every field of `struct wireguard_peer` is shared by up to four threads without
a lock, and handshakes spend milliseconds in public-key work between reading
and writing it. Correct when a valid session works and is confirmed, is
replaced in time, no key is installed twice, no nonce is used twice,
initiations keep their distance and the tunnel never gives up.

**WireGuard protocol core** (`cpp/wireguard/wireguard.c`). State: device, peer,
handshake, three keypairs, cookies and their secret. Operations: create/process
initiation and response, `start_session`, keypair rotation, encrypt, decrypt,
cookies. Hard: each end runs through eleven hashes and key derivations that must
mirror the other's; secrets and cookies expire between a reply and its use.
Correct when both ends derive the same keys, an index names one thing, no key
seals two texts with one nonce, and a device under load serves only senders it
has reached.

**Replay window** (`wireguard_check_replay`). State: a 64-bit counter and a
32-bit bitmap. Correct when no packet is accepted twice and none in the window
is refused without reason.

**lwIP interface** (`cpp/wireguard/wireguardif.c`): initiator, responder and
timer of the library the client derives from. It is in the repository and not
in the native build; it is the only caller of `wireguard_check_replay` and of
the cookies. State: the peer and the interface's link. Operations: sending,
receiving, a timer, and the application's connect, disconnect, add and remove.
Hard: a responder must not use a session its peer may not have; three keypairs
move between slots under pointers; a session must be renewed before it ends.

**Cryptography** (`cpp/wireguard/crypto/refc`): BLAKE2s, ChaCha20, Poly1305 and
their AEAD as streams that cut input into blocks; Poly1305 and X25519 in limbs
that are kept only partly reduced. Hard: boundaries of blocks, carries, the last
reduction. Correct when the cut does not matter and the limbs stand for the exact
result.

**Base64** (`cpp/utils/base64.cpp`, and a second one in `wireguard.c`): two
decoders that must accept the same keys and never write past the buffer.

**Native lifecycle** (`cpp/napi_init.cpp`, start and stop in `packet_io.cpp`).
State: the static descriptor, threads, device and its one peer slot.
Operations: `UdpConnect`, `StartVpn`, `StopVpn`, `GetStatus`. Correct when no
socket or thread is left behind and no peer is taken for another's.

**VPN extension ability** (`ets/vpnextension/WireGuardVpnAbility.ets`). State:
connection, socket, configuration id, status timer. Operations: `onCreate`,
`startVpnConnection`, the status broadcast, `onDestroy`. Hard: `onDestroy`
during an await; a process that dies without a word. Correct when every failure
cleans up and the status is the truth.

**UI control** (`ets/pages/Index.ets`,
`ets/service/TunnelRuntimeService.ets`). State: active and connecting id,
status, the state of each configuration, the restore timer. Operations:
`toggleVpn`, `onStatusEvent`, `restoreActiveConfig` and its timer, deletion.
Hard: everything after an await meets a page that has moved on. Correct when the
page comes to agree with the extension and never locks itself.

**Configuration store** (`ets/service/ConfigManager.ets`): the configurations
and the active id, shared by two processes. Correct when the id names a saved
configuration and a starting tunnel finds it.

**Not modelled**: platform glue, address and route planning, parsers and
validators, diagnostics, logs and settings, the secure key field, the other
pages. Section 8 says why.

## 2. Modules

| module | what it is |
|---|---|
| `WgKeypair` | operators on the three keypair slots |
| `HarmonyTunnel` | the four native threads, the network, the server |
| `MCHarmonyTunnel` | symmetry for TLC |
| `HarmonyTunnel_proofs` | its theorems |
| `TransmitCounter` | the keypair two threads encrypt with while a third replaces it |
| `AntiReplay` | what a replay window promises (abstract) |
| `ReplayWindow` | `wireguard_check_replay`; implements `AntiReplay` |
| `VpnExtension` | the extension process, with any UI (the abstract environment) |
| `VpnControl` | the application: page, system calls, store, extension; implements `VpnExtension` |
| `VpnControl_proofs` | the theorems of both, the refinement among them |
| `MCVpnControl` | symmetry for TLC |
| `LwipPeer` | `wireguardif.c`: two devices, both roles, over a network |
| `LwipPeer_proofs` | its theorems |
| `MCLwipPeer` | two nodes and their budgets for TLC |
| `NoiseHandshake` | the cryptography of the handshake, symbolically |
| `CookieExchange` | devices under load, secrets and cookies |
| `DataPath_proofs` | the theorems of both, of `TransmitCounter` and of `ReplayWindow` |
| `Base64` | both codecs |
| `CryptoStreams` | how hash, MAC and cipher cut bytes into blocks; the AEAD |
| `Streams_proofs` | its theorems |
| `Poly1305` | its arithmetic over limbs |
| `Poly1305_proofs` | its theorems |
| `X25519` | its field, ladder and inversion |
| `Keys_proofs` | the theorems about `Base64`, and about the field and the inversion of `X25519` |
| `Foundations` | lemmas on division, induction and folds, for the three modules above |
| `MCDataPath` | the independent parts of the library, side by side for TLC |

`HarmonyTunnel` and `LwipPeer` use `WgKeypair` through `INSTANCE`; `VpnControl` extends
`VpnExtension` and adds the page and the system. `VpnExtension` reduces
everything `HarmonyTunnel` says to one bit, `native.session`; `HarmonyTunnel`
says when a handshake completes, `TransmitCounter` what happens to a keypair
once it is there.

### HarmonyTunnel

`slots`, `handshake`, `sendHandshake`, `initAge`, `sentData` and `txAge` are the
peer's `curr/next/prev_keypair`, `handshake`, `send_handshake`,
`last_initiation_tx`, and `last_tx` (twice: whether it was set, and how long
ago). Times are ages that saturate at `MaxAge`, where no comparison of the code
sees a difference.

An action is what a thread does between two points where another thread's step
can be seen. `SendHandshakeForPeer` is three: the gate (`EnterGate`),
`MixInitiation` (the first write of the chaining key) and `PublishInitiation`
(the rest, `last_initiation_tx` and the send). `wireguard_process_handshake_response` is
`ReceiveResponse` (the lookup), `OpenResponse` (copy and decrypt),
`StoreResponse` (write back), then `StartSession`. Everything else is one step;
so is a struct copy.

Cryptography is abstracted to what an end can derive. An element of `Ids`
stands for one initiation, its random index and the secret of its ephemeral key.
The chaining key is `Opening(n)`, `Agreed(n)`, `Blank` or `Torn`: the last is
what two interleaved writers leave and no server has. A keypair's `keys` is the
initiation both ends derived it from, or `NoId`. `FreshIds` assumes that random
indices and keys are never drawn twice while anything still holds them.

The server answers an initiation unless it answered a later one (its timestamp
check); the network loses, duplicates (a response may be received and stay in
flight) and reorders. The compiled interface only receives transport data on
`curr`, `next` and `prev` without changing them, so data packets are left out.

### TransmitCounter

`wg_encrypt_packet` in four steps: the header takes index and counter, the
cipher takes the key and the counter again, the increment loads, the increment
stores. At any point the UDP thread may begin to copy a new session's keypair
over the same structure, and the others find each member (`index`, `key`,
`counter`) replaced or not; a member is copied at once.

### ReplayWindow and AntiReplay

`bitmap` is the set of one bits. The 64-bit counters are unbounded in the model
and their difference is taken `% DiffMod`, because the code keeps it in a
`uint32_t`. `copies` and `verdict` are history for the promise. `AntiReplay` says
it without a bitmap: no packet is accepted twice, and a new one is refused only
if one at least `Window` later has been accepted.

### VpnExtension

`inst` holds the abilities of the process in the order of their creation, with
the await each `startVpnConnection` is at; `native` the library's statics;
`active` and `saved` the two preferences; `events` the published events. A step
is what JavaScript runs from one await to the next: `Launch` (`onCreate` to the
DNS await), `Resolved` (`udpConnect` to the `protect` await), `Protected`,
`Created` (`startVpn` and the first status). Each includes its failures, with
`cleanupFailedStart` and the `catch` of `loadConfigAndStart` in the same step.
`OnDestroy` may come at any await. `Lingers` says whether the process outlives a
destroyed ability, which the system decides: both values are checked.
`UiWrites` stands for any UI that keeps the id among the saved configurations.

### VpnControl

`ui` is the page; `calls` the start and stop calls and what has become of each,
because the code after the await runs when the call returns; `launching` the
accepted start. Each handler is one action: `toggleVpn` is `ToggleOn` or
`ToggleOff` up to its await and `StartAccepted`, `StartRefused`, `StopAccepted`
or `StopRefused` after it, a deletion that waited included. The page's listener
runs inside every `WithStatus`, as in the code. `restoreActiveConfig` is
`Restored`, its timer `RestoreTimeout`; `fresh` replaces the comparison of
`updatedAt` with `ACTIVE_RESTORE_TIMEOUT_MS`: an update since the timer was set.
The UI process may die with calls under way, the extension's without a word.
The system is external: it handles calls in order, ignores a start while an
ability is there, may launch with or without the want's parameters, and may
refuse. `InOrder` says whether the calls also return in order.

### LwipPeer

Every node runs the code with one peer, the other node (`WIREGUARD_MAX_PEERS`
is 1). lwIP calls all handlers from one thread, so a handler is one step, written
as an operator from a node's state to its next state and the messages it sends:
`wireguardif_output_to_peer` is `Output`, called by `SendData`,
`ReceiveResponse` and the timer. `ReceiveInitiation`, `ReceiveResponse` and
`ReceivePacket` are the cases of `wireguardif_network_rx` (cookies are in
`CookieExchange`); `Tmr` is `wireguardif_tmr` with the order of its five checks;
`Connect`, `Disconnect`, `RemovePeer` and `AddPeer` are the application's calls.
A packet received with `next` is `DecryptNext`: `keypair_update` moves the
keypair and erases the slot the handler's pointer still names, so the replay mark
of that packet is lost.

An `Id` stands for one handshake, the keys and indices of both ends. The network
loses (a message may never be received), copies (one that is received stays) and
reorders; initiations only in the order their timestamps allow, since an older one
is refused. A message its receiver can only refuse is not kept. The replay window
is the set of counters seen; `ReplayWindow` has its bitmap. Time passes in units
far longer than the timer's 400 ms, so it waits until both timers have done what
they had to.

### NoiseHandshake

Hashes and key derivations are free constructors: two are equal exactly when they
were made in the same way from the same inputs. `CreateInitiation`,
`ProcessedInitiation`, `Finish` and `ProcessResponse` follow the code line by
line through `mix_hash`, `kdf1`, `kdf2`, `kdf3`, the AEAD and X25519; `Session`
is `wireguard_start_session`. The network keeps every message. Each end may have
been configured with a wrong peer key and with either preshared key.

### CookieExchange

Two devices initiate to each other from addresses that may change. Whether a
device is under load is decided anew at each check: on this platform
`wireguard_is_under_load` always answers no (`wireguard_platform_harmony.cpp`),
and the code's other branch is what is modelled. A cookie is the secret and the
address it was made from; secrets and cookies have ages.

### Base64, CryptoStreams, Poly1305, X25519

Pure code, run by small state machines that feed it input piece by piece, with a
reference definition as the invariant.

* `Base64`: a decoder is a fold over the text with the code's early exits. A
  character is its six bits, padding, or illegal. `KeyLength` is 5: as 32, two
  more than a multiple of three.
* `CryptoStreams`: bytes are named by their position, so an output says where each
  input byte went. The compression function and the ChaCha20 block are free.
* `Poly1305`: `Limbs` limbs below `Base` and the prime `Base^Limbs - 5`: five below
  2^26 in the code, three below 64 in the run. `Base >= 16 * Limbs` is room for the
  carry from the top, times five, as there is in 26 bits. Limbs are natural numbers,
  and the bounds on them are properties. The pad has four words, of 4 bits in the run,
  and is added word by word (`AddPad`); that no block changes it is in the model's
  shape, where it is not a variable but any of `Pads`.
* `X25519`: the prime 2^9 - 3 for 2^255 - 19, in 10 bits and with words of 6. The
  limbs' loops are arithmetic on the number they stand for. The chain of
  multiplications that inverts is followed over exponents, at full size.

### MCDataPath

`ReplayWindow`, `TransmitCounter`, `NoiseHandshake`, `CookieExchange`, `Base64`,
`CryptoStreams`, `Poly1305` and `X25519` share no state. `part` chooses one at
the start and the others rest, so the run explores the sum of their state spaces,
not the product.

## 3. Runs

| run | what it asks | distinct states |
|---|---|---|
| `tunnel_safety` | what survives every interleaving, loss, copy and reordering of four handshakes: `TypeOK`, `IndicesDistinct`, `UnracedSessionSound`, `KeysInstalledOnce`, `ThirdInitiationWaits` | 602,923 |
| `tunnel_live` | `KeepsTrying`: without a session another initiation always follows | 301,945 |
| `tunnel_prompt` | `ComesUp`: over a path that answers, the tunnel comes up and stays | 16,273 |
| `data_path` | replay window below the width of the difference: `AcceptedOnce`, `WindowExact`, `Implements`; two threads on one keypair: `ReuseBounded`, `SpoiledBounded`; handshake: `KeysAgree`, `ConfigurationAgrees`, `NonceZeroOnce`; under load: `ServesReachable`, `CookieTakenOnce`; Base64: `SameKeys`, `EncodingDecodes`; streams: `SameAsOneShot`, `OpensOnlyItself`; arithmetic: `TagExact`, `FieldExact`, `SecretsAgree`, `ChainInverts` | 852,056 |
| `lwip_safety` | which sessions two devices use, renew and end: `PeerTypeOK`, `UnconfirmedSilent`, `NoncesDistinct`, `KeysDistinct`, `LinkFollowsSession`, `EndingAsks`, `OnlyConfirmingTwice` | 931,029 |
| `extension` | `BeatsOwnPeer`: in a process that outlives its abilities, none reports on another's peer; with any UI | 65,820 |
| `control_safety` | `ConnectingHasCall`, `ActiveIsSaved`, `TunnelOwned` (a process of its own leaves no socket or thread without an owner), and the composition implements `ExtensionSpec` | 804,404 |
| `control_live` | `PageAgrees`: once the user has stopped, page and extension agree | 67,986 |

Every property of these runs fails for at least one plausible bug of the code:
the modules hold the mutated definition beside the real one, `PROJECT.json` lists
the pairs.

Four more runs, `tunnel_torn`, `tunnel_rekey`, `tunnel_confirm` and
`control_late`, each check what a comment of the code says and end in a
counterexample (section 6).

Some properties are deliberately less than one would wish for, because the code
does not give more. `ThirdInitiationWaits`, `ReuseBounded` and `SpoiledBounded` say
how far a race can go: one initiation too many; one reuse of a nonce for every
keepalive and every packet torn by the copy of a new session; two packets the
server cannot open for every keepalive, one for every new session and each torn one.
`OnlyConfirmingTwice` allows what `wireguardif.c` does to the packet that confirms
a session. The second half of `EncodingDecodes` says how `Base64Encode`, which never
writes padding, fails.
`UnracedSessionSound` says that the race between the UDP thread and a creator of
initiations is the only cause of an unusable session. `PageAgrees` lets a
running tunnel be shown as failed, which a refused second start can cause.

### Bounds, and why they are enough

* `Ids` of 3 to 5: an identity is reused once nothing holds it, so runs are
  unbounded in length. Two creators, a response being processed and a packet in
  flight can hold four at once. Symmetry only where no liveness is checked.
* `RekeyTimeout = 2` in the safety run makes "a moment early" different from
  "at once"; the liveness runs need one boundary only and use 1. `MaxAge` equals
  the largest limit.
* `MaxInFlight = 2` for reordering; 1 for liveness, where it multiplies states.
* `Window = 4`, `MaxSeq = 9`: every shift distance below, at and past the
  window, twice over.
* Four packets, one keepalive, two sessions for `TransmitCounter`: a keepalive that
  sleeps between its load and its store sets the counter back over several
  packets, or across a copy. With two keepalives (7.9 million states) the
  properties hold as well.
* `MCLwipPeer`'s budgets: three handshakes without much time (rotation through all
  three slots, crossing initiations), two with time for a session to end and be
  renewed, and fewer with the application's calls. `RejectAfterTime = 2` and
  `RejectAfterMessages = 2` let both limits be reached. `Keepalive = 1` keeps the
  code's unsigned limits from wrapping: `EndingAsks` is about such intervals.
* Five ephemeral keys for `NoiseHandshake`: two handshakes whose four messages can
  be mixed up, and one more. Where configurations do not matter they are fixed.
* Two initiations and one unit of time for `CookieExchange`: a secret and a cookie
  that expire between a reply and its use. Two units (472,162 states) hold too.
* The samples of `Poly1305` let blocks, pads and all limbs of the sum be as large as
  they get (of the key, all but the top one, where TLC's integers end), and sums
  reach the prime and the numbers above it. Those of `X25519` hold 0, 1, the prime and
  its neighbours and the largest number; every element of the small field is tried against every
  other.
* 21 bytes in `CryptoStreams`: five blocks of the hash, past the carry between the
  words of its counter (`WordMod = 8`).
* Three launches in `extension`: an ability, its successor, and one that meets
  what both left. One configuration is enough there, as only instances are
  compared. `control_*` use two launches and two configurations.
* `MaxEvents = 2`: an old event behind or before a new one. The bound holds back
  heartbeats only, never a final event.
* `MaxClicks = 4` (3 where liveness is checked): start, stop, start again and one
  disturbance. `PageAgrees` also holds at 4 clicks (809,601 states), which takes
  longer than is convenient.
* `control_*`, `data_path` and `lwip_safety`: deadlock is not an error, the user's
  clicks, the packets and the budgets do come to an end.

## 4. Fairness

* `HarmonyTunnel`: weak fairness of each thread (they run until
  `StopPacketIO`) and of the clock; strong fairness of the delivery of each
  response, because `poll` wakes the thread for a datagram that has arrived;
  weak fairness of the network doing something with an initiation, losing it
  included. Nothing is assumed of outgoing IP packets. `PromptSpec` also assumes
  a path whose round trip is shorter than a unit of time and a server that
  answers infinitely many of the initiations it could answer: `ComesUp` is about
  a path that is alive.
* `VpnControl`: weak fairness of the page's subscription, events, timer and call
  returns, of the system, and of each ability's awaits and timer: awaited work
  ends, well or not. Nothing of the user, and not that a handshake succeeds.
  `FairSpec` leaves out the silent death of the extension process: no event tells
  the page, and it goes on showing the tunnel until it is shown again.
  It also takes `InOrder`: with calls that return out of order `PageAgrees`
  fails, since the rest of an older start replaces the newer one's restore timer
  (`Index.ets:345`). Whether the system can do that the code does not say.

## 5. Proofs

The theorems hold for every value of the constants that satisfies the modules'
assumptions. tlapm proves them with Z3, Zenon and LS4.

**`HarmonyTunnel_proofs`** uses `NoIdAssumption`, `TimeAssumption`,
`FlightAssumption`. `TypeCorrect` comes first; it includes that a thread holds
an index exactly while it publishes. On it rest five inductive invariants.

* `InitiatorInv` (`next` stays erased) gives `NextSlotIsUnused`. It is inductive
  because `NewKeypair` is always the initiator's.
* `SpacingInv` gives `ThirdWaits`. `ThirdInitiationWaits` cannot be inductive: it
  speaks of a step whose gate was passed earlier. The invariant records what the
  gate's verdict still implies when the thread publishes: if one thread is past
  the gate, the age was enough then and only grew; if the other published
  meanwhile, the initiation before that one is old enough.
* `UnracedInv` gives `UnracedSessionIsSound`. While `raced` is false the creators
  of initiations and the UDP thread exclude each other, so what the UDP thread
  opened is still there when it stores and installs; and a session shuts the gate.
* `KeysInv` (the keys of installed sessions are those of no handshake in
  progress, and fresh identities avoid both) gives `KeysAreInstalledOnce`.
* `IndexInv` (the six places that hold an index differ) gives
  `IndicesAreDistinct`. It needs the two threads' unpublished indices, which the
  property does not mention.

`GateCases` and `StepCases` classify the actions by what they do to the peer, so
that each invariant is proved for a handful of cases.

**`DataPath_proofs`**, for `ReplayWindow`, uses `WindowAssumption` and, as a hypothesis of its
theorems, that counters stay below the width of the difference, without which
they are false (section 6). The inductive invariant is `WindowExact` with the
type and the bound on the counter; `NoPacketAcceptedTwice` needs it, because a
set bit is the only thing that refuses a copy. `ImplementsPromise` maps every
step to a step of `AntiReplay`.

**`VpnControl_proofs`**, for `VpnExtension`, uses `NoIdAssumption` and `BoundAssumption`.
`ConfiguredInv` (an ability that is still to publish has a configuration) makes
the type of `events` inductive. `BeatsOwnPeer` is then inductive by itself: only
`startVpn` sets the slot, for the ability that runs it, and it finds the slot
free, so no other ability reports at that moment. `OwnedInv` follows
the socket from `udpConnect` on: while an ability waits for `protect` or
`create`, the only open descriptor is the one it and `g_tunnelFd` hold, it is
alive with its connection, and no thread runs. `TunnelIsOwned` has `~Lingers`
as hypothesis: in a process that lingers, the rest of a destroyed ability can
hold a socket.

For `VpnControl` it uses those assumptions and `ClickAssumption`.
`ControlImplements` is the refinement: with `ControlInv` (the types, the
configuration of each ability, and `ActiveIsSaved`) every step of the application
is a step of `VpnExtension`, with the page as its UI, or changes nothing of it.
The invariant is needed for the steps in which the page writes the active id:
`VpnExtension` lets a UI write only the id of a saved configuration. So
`BeatsOwnPeer` and, for a process of its own, `TunnelOwned` hold of the application
(`ControlOnlyOwnPeer`, `ControlTunnelIsOwned`) without a second proof.
`ActiveAlwaysSaved` follows the ways an id is adopted, by `toggleVpn` and by a
late event, against the ways a configuration is deleted.
`ConnectingAlwaysHasCall` rests on `CallsGoOn`: no step but the return of the
call or the death of the page takes an awaited call away. None of these theorems
assumes `InOrder`.

**`LwipPeer_proofs`** uses `NodesAssumption` (two devices) and
`LimitsAssumption`. One invariant, `LwipInv`, carries all of its theorems:

* `NodeOK`, of each device by itself: the keypairs, `next` and the handshake have
  different keys; what `next` holds is a responder's and unused; a keypair has
  given a packet to lwIP once for its mark in the window and once for being the
  one that made it current; and `AskedOK`, which says that after an initiation of
  the last `REKEY_TIMEOUT` that is no longer outstanding the responder's keypair
  is younger than that initiation. `LinkOK` is `LinkFollowsSession`.
* `UsedInv`: handshakes not yet made are in no place, so a new one differs from all.
* `OrderInv`: a handshake is with its initiator, then in a response, then agreed,
  and never in two of these stages; an end's own handshakes are not its peer's.
* `AgreedInv`: a keypair that may send, and a packet on its way, has keys that both
  ends have. It is `UnconfirmedSilent` with the packets in flight, without which
  it is not inductive: a packet is what lets a responder send.
* `NonceInv`: a packet's counter is below that of the keypair with its keys, in
  whatever slot that is, and names one packet.

Each handler has a lemma on the node it leaves (`OutputOK`, `DecryptNextOK`,
`MaintainedOK`, ...) and the relation of its sessions and packets to those before
(`Grown`, `SentOK`), which `BecomesOK` turns into the invariant. `EndingAlwaysAsks`
has as hypothesis that `Keepalive + RekeyTimeout <= RejectAfterTime`: otherwise the
code's unsigned limits wrap, or a session ends before a second initiation is
allowed (section 6). With the code's 5 and 180 seconds it holds for keepalive
intervals up to 175.

**`DataPath_proofs`**, for `TransmitCounter`, uses `BoundAssumption`. Both bounds are inductive only
as sums of what has happened and what the threads can still do from where they are.
For `ReuseStaysBounded` that is `ToCome(j)`: each thread's own use of the nonce
`j`, and one more where the TUN thread is about to undo the increments of more than
one packet (`AfterStale`). Sealing takes one away from `ToCome` at the nonce it
uses, only the beginning of a keepalive adds one, and every other step of a thread
leaves it or lessens it. A packet torn by a copy pays for itself. For
`SpoilStaysBounded` a keepalive owes one packet until it is sealed and one until
it has stored, and a new session the packet whose header was written before it.

For `NoiseHandshake` it uses `EndsAssumption`: two devices, whose static keys
are none of the ephemeral ones. Hashes and derivations are free constructors, so
equal keys have equal derivations (`KdfAlike`, `DhAlike`). The invariant says that
an initiator waits with the chaining key of its own initiation (`WaitingInv`), and
that behind each response in the network there is a responder that has started the
session of that chaining key (`AnswerInv`). If the empty text opens, both chains
are the same, and `ChainsAgree` reads from them that each end was given the
other's static key. For `HandshakeNonceOnce` every sealing key contains the
ephemeral key of its message (`EphemeralOf`), which is new when it is made.

And for `CookieExchange` it uses `DevicesAssumption` and `CookieAssumption`.
`Mac1Inv` (a `mac1` belongs to one initiation and is gone once a cookie was taken
for it) gives `OneCookieEach`. `OnlyReachableServed` needs `MadeInv`: wherever a
cookie is, in a device or in the mail, one that its maker would still accept was
told to its address no longer ago than the maker has its secret.

**`Foundations`** has what the proofs about pure code stand on. A number has one
quotient and one remainder (`SplitsOnce`), and numbers that differ by a multiple of
the modulus have the same (`Congruent`). Induction is used in the form of a set of
numbers that has 0 and with each number the next (`SetInduction`). A fold of the
community modules, which is a recursive function chosen on the subsets of the
indices, exists (`FoldExists`) and is the last of a run of states, each got from the
one before with the next element (`FoldRuns`). The step of the fold is there a table
on a set of states, since no prover takes an operator as a parameter; each loop of
the code has its own lemma that turns it into such a table.

**`Streams_proofs`** uses `StreamAssumption`. Hash, MAC and cipher are given bytes in
pieces of any size, so the invariant `Fed` says of each state what has gone into it:
whole blocks of all the bytes so far, in order, with their counters, and the rest in
the buffer (`Absorbed`, `HashFed`). The hash keeps back its last block, full or not,
and the MAC does not, so their loops leave different remainders. A piece then changes
`s` to `s` with the piece (`AddBlocks`, `HashRun`, `MacRun`), and `OneShot` follows at
the end: what was fed does not remember how it was cut. For `PacketOpensOnlyItself`
the first block of the key stream is the MAC's key and the others are the text's pads
(`Pads`, `UsedBy`); the input of the MAC is its two parts, padded, with their lengths
(`InputOf`), and two such inputs are the same only if the parts are.

**`Poly1305_proofs`** uses `PolyAssumption` (at least three limbs, and a base of at
least 16 times their number, 80 against 67,108,864 in the code) and `WordAssumption`
(four words make a tag). What limbs stand for
is a sum of powers of the base (`ValueLinear`, `ValueChanges`, `PartBounds`). The
columns of the product are the right side turned once for each limb of the left
(`ColumnsTo`, `Turned`): turning multiplies by the base, less a multiple of the prime
(`TurnedOnce`). A carry changes nothing, and the one from the top takes off a
multiple of the prime (`CarryValue`). So `Value(h)` is always right modulo the prime,
and the rest is that limbs stay small. After a block each is within its width but the
second, which is below `2 * Base - 1` (`LimbsOK`). This needs both bounds of
`ColumnsBound`: a column is at most `(10 * Limbs - 3) * Base^2`, but the top one, whose
carry comes back five times, at most `(2 * Limbs + 1) * Base^2` (`ReducedBounds`). That
one less is needed at the end: in the last round of carries a limb above its limit, by
five at most, comes with a second limb that has room for one more (`Turning`), so the
round ends with every limb in its width (`FullCarryBounds`). The sign of the top limb
of `h + -p` then tells which candidate is below the prime (`TagValue`). The pad is added in four
sums with a carry, each of which takes one word off both numbers (`DigitsAdd`), so what
the last carry drops is a multiple of 2^128 (`PadAdded`).
`ColumnsAlwaysFit` comes from the same invariant: a column is at most 47 * 2^52 in
the code, which 64 bits hold.

**`Keys_proofs`**, for `Base64`, uses `Base64Assumption`: a key is two bytes longer than
a multiple of three, as 32 is, because `wireguard_base64_decode` writes past the end
of other buffers. The states of both decoders are followed side by side. While a text
has only letters, each block of four characters adds the same three bytes to both
(`WgStepped`, `UtStepped`, `BothRun`). `EncodingsUndone` puts the encoding of bytes,
which is six bits at a time, through that. `KeysAreTheSame` is about any text: the
invariants `WgAt` and `UtAt` say what either decoder has made of it so far, bad
characters and padding in the middle included, and the length of a key leaves one
shape of text (`OnePad`) that either accepts.

For `X25519` it uses `X25519Assumption` and `RoomAssumption`: `Size` is twice
`Half`, what is folded back in fits a word, and words are short against the whole.
All of it is true of the code's 256 bits, 19 and words of 32, so `FieldIsExact`
speaks of 2^255 - 19 and not only of the small field of the run. Quotient and
remainder are unique (`OneDivision`), which gives what `propagate` computes from a
number and its carry (`PropagateExact`); each operation is then a bound on the
carry it leaves: at most one after an addition or a subtraction, `Gap + 1` after a
multiplication. The model's arithmetic is on whole numbers: that the limbs' loops
compute it stays an abstraction. `InversionIsExact` follows the chain of
multiplications that inverts through its rows of exponents, up to the prime less two.

**Only model-checked**: liveness (`KeepsTrying`, `ComesUp`, `PageAgrees`), since the
prover has no fairness or ENABLED; and `SecretsAgree`, which is the group law of the
curve: that the ladder multiplies a point by a number, so that two multiplications
may be exchanged.

## 6. What the code does not keep

Four statements of the code's comments are refuted by a run each.

* `tunnel_torn`, `ValidSessionUsable`: a response processed while another
  initiation is created makes a valid session with keys no server has, and
  nothing replaces it (`wireguard.c:483`, `packet_io.cpp:54`).
* `tunnel_rekey`, `SessionsAreRekeyed`: the timer asks for a new handshake after
  `REKEY_AFTER_TIME`; `SendHandshakeForPeer` refuses while the old session is
  valid (`packet_io.cpp:55`).
* `tunnel_confirm`, `EverySessionConfirmed`: the packet that confirms a session is
  sent once in the peer's life, not once per session (`packet_io.cpp:101`).
* `control_late`, `OldTerminalHarmless`: the final event of an old connection
  clears the persisted id of a new one with the same configuration, since events
  and the conditional clear name a configuration and not a connection
  (`Index.ets:195`).

The models show more. The formula with each item is the one to add to the
module and give to TLC to see it.

* The NAPI and the timer thread pass the `REKEY_TIMEOUT` gate together, and two
  initiations leave at once (`packet_io.cpp:49`). `HarmonyTunnel`:
  `[][Initiates => Expired(initAge, RekeyTimeout)]_vars`.
* The difference of two 64-bit counters is kept in 32 bits (`wireguard.c:333`):
  after a jump of 2^32 an old packet is accepted again. `ReplayWindow` with
  `DiffMod = 8`, `MaxSeq = 10`: `AcceptedOnce`.
* A pump thread that ends on an error leaves the status at "connected"
  (`packet_io.cpp:141`). `VpnExtension`:
  `\A n \in Insts : inst[n].beating /\ native.session => native.threads = Threads`.
* The restore timer gives up a tunnel that is still starting; its configuration
  can then be deleted as idle, and the tunnel comes up (`Index.ets:272`, against
  the comment at 979). `VpnControl`:
  `\A n \in Insts : inst[n].beating => inst[n].id \in saved`.
* A keepalive between a packet's header and its nonce makes a packet the server
  cannot open (`wireguardif_harmony.cpp:175`), and a keepalive that is held up in
  its increment makes later packets use nonces again (`wireguard.c:1006`). So does
  a packet encrypted while a session is copied over its keypair.
  `TransmitCounter`: `spoiled = 0` and `\A n \in Numbers : uses[n] <= 1`.
* `wireguardif.c:290` moves the keypair out from under the pointer that
  `wireguard_check_replay` then gets at 304, under the comment "Check for packet
  replay / dupes": a copy of the packet that confirmed a session is accepted.
  `LwipPeer`: `\A n \in Nodes, k \in Slots, c \in Counters : node[n].slots[k].taken[c] <= 1`.
* For a keepalive interval above 175 s or 180 s the limits at `wireguardif.c:293`
  and 789 wrap to some 49 days and a session is not renewed before it ends.
  `LwipPeer` with `Keepalive = 3`: `Expired` never holds of those limits.
* `wireguardif_disconnect` leaves `handshake` and `send_handshake` as they are, so
  a response on its way still makes a session, and the timer may still initiate.
  `LwipPeer`: `Disconnect`.
* The rate limit of `wireguard.c:614` subtracts in the wrong order, unsigned: it
  refuses only an initiation in the same millisecond as the last one, against "only
  get one per peer every 5 seconds max?" (612). The models leave it out.
* A cookie reply to a handshake *response* is addressed to the responder's index,
  and only initiations wait for cookies: it is never taken. An initiator under load
  that has not been initiated to accepts no response. `CookieExchange`:
  `ReceiveResponse`.
* `wireguard_base64_decode` writes one byte too many into a buffer whose length is
  a multiple of three; its callers' buffers hold 32. `Base64` with
  `KeyLength = 3`: `SameKeys`.
* `StartVpn` does not look at whether the preshared key decoded (`napi_init.cpp:107`):
  what was written by then is used. `ConfigurationAgrees` says that no session
  comes of it.

## 7. Assumptions

* A struct copy or assignment of the native code is one step, except where
  section 2 splits it. A key torn byte by byte is outside the models.
* Random indices and keys do not collide; hashes, MACs, key derivations and the
  AEAD are as strong as they are meant to be.
* What holds of the small curve holds of the code's: the algorithm is the same, and
  the bounds it relies on are kept in proportion. Of `Poly1305` and of the field
  operations of `X25519` it is proved (section 5).
* The preferences are one consistent store whose writes succeed. In the program
  each process keeps a cache of its own: a stale read would be a behaviour the
  models do not have.
* Status events arrive in the order they were published, and no event is lost
  while the page is subscribed.
* The kernel may give a new socket any closed descriptor; the system ignores a
  start while an ability is there and runs one VPN ability at a time.
* An ability's process has no other user of the native library.
* A stored configuration has the types `WgConfig` declares. With others
  `buildVpnConfig` can throw (`WireGuardVpnAbility.ets:172`), outside both try blocks:
  the catch around the whole start does not call `stopVpn`, and the socket stays open.
* `Base64Decode` shifts a signed int past its width (`base64.cpp:25`), which the
  language leaves undefined. `Base64` has it drop the top bits, as compilers do; no
  byte is read from them.

## 8. Not modelled

* In `wireguardif.c`: the creation of the interface and its UDP socket, and the
  tables of addresses and allowed IPs; with one peer there is nothing to choose
  from, and what does not match is as if lost.
* Copying packets between TUN and UDP changes no state the properties speak of,
  apart from traffic counters.
* The rounds of BLAKE2s and ChaCha20 (bit operations on full words, whose only
  reference would be themselves), XChaCha20, the signatures of `x25519.c`, and
  `crypto/cortex`, which the build does not compile.
* The other reason for which `wg_timer_tick` asks for a new handshake, a counter past
  `REKEY_AFTER_MESSAGES` (`wireguardif_harmony.cpp:216`): it sets the same flag as the
  age does, and `HarmonyTunnel` counts no messages.
* Why `wireguardif_peer_output` fails (`wireguardif.c:151`): `LwipPeer` has one failure
  for a lack of memory and a failed send, and no property reads what tells them apart.
* Clock, random numbers and descriptors: pure I/O; a failure shows as a lost
  packet.
* CIDR and route planning, the status codec, parsers, validators: pure functions
  on text.
* `SecureKeyField`, logs, settings, diagnostics and the other pages.
* In `VpnControl`: import and editing of configurations, traffic and speed, more
  than one page; `PumpFails`, which no UI can see.

## 9. Plan

Done, in this order: `WgKeypair` and `HarmonyTunnel` with their proofs;
`AntiReplay` and `ReplayWindow` with theirs; `VpnExtension` with its own;
`VpnControl` over it; `TransmitCounter`; `LwipPeer`; `NoiseHandshake`; `Base64`,
`CryptoStreams`, `Poly1305`, `X25519`; `CookieExchange`; then the proofs of
`VpnControl`, `CookieExchange`, `LwipPeer`, `TransmitCounter`, `NoiseHandshake`, the
field of `X25519`; `Foundations`, and on it the proofs of `CryptoStreams`, `Base64`,
the inversion of `X25519` and `Poly1305`.

Next:

1. The limbs of `X25519` as such: that the word loops of `propagate` and `mul`
   compute the arithmetic on whole numbers, as it is done for `Poly1305`.
2. `ConfigStore`: two processes with a cache each over one file, under
   `VpnControl`'s protocol; failing writes; editing and saving.
3. Received data packets in `HarmonyTunnel`, and which keypair they use.
4. CIDR parsing and the route plan against a reference definition.
