-------------------------- MODULE DataPath_proofs --------------------------
(***************************************************************************)
(* Proofs about the parts that packets of the peers pass: the window of the*)
(* one who receives data (ReplayWindow) and the counter of the one who     *)
(* sends it (TransmitCounter), for every window and width; NoiseHandshake, *)
(* for any preshared keys, any number of ephemeral keys and whatever the   *)
(* network keeps, copies and reorders; and CookieExchange, for every set of*)
(* addresses, every lifetime of a cookie and every number of initiations.  *)
(***************************************************************************)
EXTENDS ReplayWindow, TransmitCounter, NoiseHandshake, CookieExchange, TLAPS

(***************************************************************************)
(* Proofs about wireguard_check_replay for every window, every width of    *)
(* diff and every bound on the counters, provided the counters of one      *)
(* session stay below the width of diff.  Beyond it they are false: an old *)
(* packet is accepted again after a jump of that width.                    *)
(***************************************************************************)

\* Below the width of diff, keeping a difference in diff loses nothing.
LEMMA DiffExact ==
  ASSUME NEW a \in Nat, NEW b \in Nat, b <= a, a < DiffMod
  PROVE  Diff(a, b) = a - b
BY WindowAssumption DEF Diff

\* The inductive invariant: the window is exact, the counter stays in range and
\* names a packet that was accepted.
IInv ==
  /\ TypeOK /\ AcceptedOnce /\ WindowExact
  /\ counter <= MaxSeq + 1
  /\ counter > 0 => copies[counter - 1] > 0

\* A new keypair has an empty window.
LEMMA InitIInv == Init => IInv
BY WindowAssumption
   DEF Init, IInv, TypeOK, AcceptedOnce, WindowExact, Seqs, Bits

\* A packet the window takes for new has not been accepted.
LEMMA AdvanceStep ==
  ASSUME MaxSeq + 1 < DiffMod, IInv, NEW q \in Seqs, Advance(q)
  PROVE  IInv' /\ copies[q] = 0 /\ verdict' = [seq |-> q, ok |-> TRUE]
<1> DEFINE d == Diff(q + 1, counter)
<1> USE WindowAssumption DEF Seqs, Bits
<1>1. /\ q + 1 > counter /\ counter \in Nat /\ d = q + 1 - counter
      /\ counter' = q + 1
      /\ copies' = [copies EXCEPT ![q] = @ + 1]
      /\ verdict' = [seq |-> q, ok |-> TRUE]
      /\ bitmap' = IF d < Window THEN Shift(d) ELSE {0}
  BY DiffExact DEF Advance, Record, IInv, TypeOK
<1>2. copies[q] = 0
  BY <1>1 DEF IInv, TypeOK, WindowExact
<1>3. TypeOK'
  <2>1. 0 \in Bits /\ Shift(d) \in SUBSET Bits
    BY DEF Shift
  <2>2. bitmap' \in SUBSET Bits
    BY <1>1, <2>1
  <2>3. copies' \in [Seqs -> Nat]
    <3>1. copies \in [Seqs -> Nat]
      BY DEF IInv, TypeOK
    <3> QED BY <1>1, <3>1
  <2>4. counter' \in Nat /\ verdict' \in [seq : Seqs, ok : BOOLEAN]
    BY <1>1
  <2> QED BY <2>2, <2>3, <2>4 DEF TypeOK
<1>4. AcceptedOnce'
  BY <1>1, <1>2 DEF IInv, TypeOK, AcceptedOnce
<1>5. \A r \in Seqs : copies'[r] = IF r = q THEN 1 ELSE copies[r]
  BY <1>1, <1>2 DEF IInv, TypeOK
<1>6. ASSUME NEW r \in Seqs, copies'[r] > 0  PROVE r < counter'
  BY <1>1, <1>5, <1>6 DEF IInv, WindowExact, TypeOK
<1>7. ASSUME NEW b \in Bits
      PROVE  b \in bitmap' <=> counter' - 1 - b \in Seqs /\ copies'[counter' - 1 - b] > 0
  <2>1. CASE b = 0
    BY <2>1, <1>1, <1>5 DEF Shift
  <2>2. CASE b # 0 /\ b < d
    <3>1. b \notin bitmap'
      BY <1>1, <2>2 DEF Shift
    <3>2. ASSUME counter' - 1 - b \in Seqs  PROVE copies'[counter' - 1 - b] = 0
      <4>1. counter' - 1 - b >= counter /\ counter' - 1 - b # q
        BY <1>1, <2>2
      <4> QED BY <3>2, <4>1, <1>5 DEF IInv, WindowExact, TypeOK
    <3> QED BY <3>1, <3>2
  <2>3. CASE b # 0 /\ b >= d
    <3>1. d < Window /\ bitmap' = Shift(d) /\ b - d \in Bits
      BY <1>1, <2>3
    <3>2. b \in bitmap' <=> b - d \in bitmap
      BY <3>1, <2>3 DEF Shift
    <3>3. counter' - 1 - b = counter - 1 - (b - d) /\ counter' - 1 - b # q
      BY <1>1, <2>3
    <3> QED BY <3>1, <3>2, <3>3, <1>5 DEF IInv, WindowExact
  <2> QED BY <1>1, <2>1, <2>2, <2>3
<1>8. WindowExact'
  BY <1>6, <1>7 DEF WindowExact
<1>9. copies'[counter' - 1] > 0
  BY <1>1, <1>5
<1> QED BY <1>1, <1>2, <1>3, <1>4, <1>8, <1>9 DEF IInv

\* A late packet is accepted exactly when it is new and in the window.
LEMMA LateStep ==
  ASSUME MaxSeq + 1 < DiffMod, IInv, NEW q \in Seqs, Late(q)
  PROVE  /\ IInv' /\ q < counter
         /\ \E ok \in BOOLEAN :
              /\ ok <=> copies[q] = 0 /\ counter < q + 1 + Window
              /\ verdict' = [seq |-> q, ok |-> ok]
              /\ copies' = IF ok THEN [copies EXCEPT ![q] = @ + 1] ELSE copies
<1> DEFINE d    == Diff(counter, q + 1)
           good == d < Window /\ d \notin bitmap
<1> USE WindowAssumption DEF Seqs, Bits
<1>1. /\ q + 1 <= counter /\ counter \in Nat /\ d = counter - (q + 1) /\ d \in Nat
      /\ counter' = counter
  <2>1. q + 1 \in Nat /\ counter \in Nat /\ q + 1 <= counter /\ counter < DiffMod
    BY DEF Late, IInv, TypeOK
  <2>2. d = counter - (q + 1)
    BY <2>1, DiffExact
  <2> QED BY <2>1, <2>2 DEF Late
<1>2. /\ copies' = IF good THEN [copies EXCEPT ![q] = @ + 1] ELSE copies
      /\ verdict' = [seq |-> q, ok |-> good]
      /\ bitmap' = IF good THEN bitmap \union {d} ELSE bitmap
  BY DEF Late, Record
<1>3. good <=> copies[q] = 0 /\ counter < q + 1 + Window
  <2>1. CASE d < Window
    <3>1. d \in Bits /\ counter - 1 - d = q
      BY <1>1, <2>1
    <3>2. d \in bitmap <=> copies[q] > 0
      BY <3>1 DEF IInv, WindowExact
    <3> QED BY <1>1, <2>1, <3>2 DEF IInv, TypeOK
  <2>2. CASE ~(d < Window)
    BY <1>1, <2>2
  <2> QED BY <2>1, <2>2
<1>4. TypeOK'
  <2>1. good => d \in Bits
    BY <1>1
  <2>2. bitmap' \in SUBSET Bits
    BY <1>2, <2>1 DEF IInv, TypeOK
  <2>3. copies' \in [Seqs -> Nat]
    <3>1. copies \in [Seqs -> Nat]
      BY DEF IInv, TypeOK
    <3>2. [copies EXCEPT ![q] = @ + 1] \in [Seqs -> Nat]
      BY <3>1
    <3> QED BY <1>2, <3>1, <3>2
  <2>4. verdict' \in [seq : Seqs, ok : BOOLEAN]
    BY <1>2
  <2> QED BY <1>1, <2>2, <2>3, <2>4 DEF IInv, TypeOK
<1>5. \A r \in Seqs : copies'[r] = IF good /\ r = q THEN 1 ELSE copies[r]
  BY <1>2, <1>3 DEF IInv, TypeOK
<1>6. AcceptedOnce'
  BY <1>5 DEF IInv, AcceptedOnce
<1>7. \A r \in Seqs : copies'[r] > 0 => r < counter'
  BY <1>1, <1>5 DEF IInv, WindowExact
<1>8. ASSUME NEW b \in Bits
      PROVE  b \in bitmap' <=> counter' - 1 - b \in Seqs /\ copies'[counter' - 1 - b] > 0
  <2>1. b \in bitmap <=> counter - 1 - b \in Seqs /\ copies[counter - 1 - b] > 0
    BY DEF IInv, WindowExact
  <2>2. counter - 1 - b = q <=> b = d
    BY <1>1
  <2> QED BY <1>1, <1>2, <1>5, <2>1, <2>2
<1>9. WindowExact'
  BY <1>7, <1>8 DEF WindowExact
<1>10. IInv' /\ q < counter
  <2>1. copies'[counter' - 1] > 0
    BY <1>1, <1>5 DEF IInv
  <2> QED BY <1>1, <1>4, <1>6, <1>9, <2>1 DEF IInv
<1>11. \E ok \in BOOLEAN :
         /\ ok <=> copies[q] = 0 /\ counter < q + 1 + Window
         /\ verdict' = [seq |-> q, ok |-> ok]
         /\ copies' = IF ok THEN [copies EXCEPT ![q] = @ + 1] ELSE copies
  <2> HIDE DEF d
  <2> WITNESS good \in BOOLEAN
  <2> QED BY <1>2, <1>3
<1> QED BY <1>10, <1>11

\* Every step keeps the invariant and is a step of the promise.
LEMMA NextStep ==
  ASSUME MaxSeq + 1 < DiffMod, IInv, Next
  PROVE  IInv' /\ Promise!Next
<1> PICK q \in Seqs : CheckReplay(q)
  BY DEF Next
<1>1. CASE Advance(q)
  <2>1. /\ TRUE => copies[q] = 0
        /\ Promise!MustAccept(q) => TRUE
        /\ verdict' = [seq |-> q, ok |-> TRUE]
        /\ copies' = IF TRUE THEN [copies EXCEPT ![q] = @ + 1] ELSE copies
    BY <1>1, AdvanceStep DEF Advance, Record
  <2>2. Promise!Receive(q)
    BY <2>1 DEF Promise!Receive
  <2>3. IInv'
    BY <1>1, AdvanceStep
  <2> QED BY <2>2, <2>3 DEF Promise!Next, Promise!Seqs, Seqs
<1>2. CASE Late(q)
  <2>1. IInv' /\ q < counter
    BY <1>2, LateStep
  <2>2. PICK ok \in BOOLEAN :
          /\ ok <=> copies[q] = 0 /\ counter < q + 1 + Window
          /\ verdict' = [seq |-> q, ok |-> ok]
          /\ copies' = IF ok THEN [copies EXCEPT ![q] = @ + 1] ELSE copies
    BY <1>2, LateStep
  \* The last packet accepted is counter - 1.
  <2>3. counter - 1 \in Seqs /\ copies[counter - 1] > 0
    BY <2>1, WindowAssumption DEF IInv, TypeOK, Seqs
  <2>4. Promise!MustAccept(q) => ok
    <3> SUFFICES ASSUME Promise!MustAccept(q)  PROVE ok
      OBVIOUS
    <3>1. copies[q] = 0 /\ counter - 1 < q + Window
      BY <2>3 DEF Promise!MustAccept, Promise!Seqs, Seqs
    <3>2. counter < q + 1 + Window
      BY <3>1, WindowAssumption DEF Seqs, IInv, TypeOK
    <3> QED BY <2>2, <3>1, <3>2
  <2>5. Promise!Receive(q)
    BY <2>2, <2>4 DEF Promise!Receive
  <2> QED BY <2>1, <2>5 DEF Promise!Next, Promise!Seqs, Seqs
<1> QED BY <1>1, <1>2 DEF CheckReplay

\* The replay window's invariant: every behaviour of wireguard_check_replay on
\* counters below the width of diff keeps the window exact.
THEOREM Invariance ==
  ASSUME MaxSeq + 1 < DiffMod
  PROVE  Spec => []IInv
<1>1. IInv /\ [Next]_vars => IInv'
  <2> SUFFICES ASSUME IInv, [Next]_vars  PROVE IInv'
    OBVIOUS
  <2>1. CASE Next
    BY <2>1, NextStep
  <2>2. CASE UNCHANGED vars
    BY <2>2 DEF vars, IInv, TypeOK, AcceptedOnce, WindowExact
  <2> QED BY <2>1, <2>2
<1> QED BY <1>1, InitIInv, PTL DEF Spec

\* wireguard_check_replay accepts no packet twice.
THEOREM NoPacketAcceptedTwice ==
  ASSUME MaxSeq + 1 < DiffMod
  PROVE  Spec => []AcceptedOnce
<1>1. IInv => AcceptedOnce
  BY DEF IInv
<1> QED BY <1>1, Invariance, PTL

\* The bitmap remembers exactly the accepted packets of the window.
THEOREM WindowIsExact ==
  ASSUME MaxSeq + 1 < DiffMod
  PROVE  Spec => []WindowExact
<1>1. IInv => WindowExact
  BY DEF IInv
<1> QED BY <1>1, Invariance, PTL

\* wireguard_check_replay keeps the promise of a replay window: it also
\* refuses no new packet that is less than Window behind the latest.
THEOREM ImplementsPromise ==
  ASSUME MaxSeq + 1 < DiffMod
  PROVE  Spec => Implements
<1>1. Init => Promise!Init
  BY DEF Init, Promise!Init, Seqs, Promise!Seqs
<1>2. IInv /\ [Next]_vars => [Promise!Next]_<<copies, verdict>>
  <2> SUFFICES ASSUME IInv, [Next]_vars  PROVE [Promise!Next]_<<copies, verdict>>
    OBVIOUS
  <2>1. CASE Next
    BY <2>1, NextStep
  <2>2. CASE UNCHANGED vars
    BY <2>2 DEF vars
  <2> QED BY <2>1, <2>2
<1> QED BY <1>1, <1>2, Invariance, PTL DEF Spec, Implements, Promise!Spec

(***************************************************************************)
(* Proofs about TransmitCounter, for any number of packets, keepalives and *)
(* sessions: both bounds are the sums of what has happened and of what the *)
(* threads, from where they are, can still make happen.                    *)
(***************************************************************************)

(***************************************************************************)
(* The inductive invariant.                                                *)
(***************************************************************************)

CounterTypes ==
  /\ keypair \in [index : Sessions, key : Sessions, counter : Nat]
  /\ session \in Sessions
  /\ tocopy \subseteq Members
  /\ pc \in [Threads -> {"idle", "seal", "load", "store"}]
  /\ header \in [Threads -> [session : Sessions, counter : Nat, torn : BOOLEAN]]
  /\ loaded \in [Threads -> Nat]
  /\ begun \in [Threads -> Nat]
  /\ uses \in [Numbers -> Nat]
  /\ spoiled \in Nat /\ torn \in Nat

\* The index and the key are of the new session exactly when they are copied.
CopyInv ==
  /\ IF "index" \in tocopy THEN keypair.index < session ELSE keypair.index = session
  /\ IF "key" \in tocopy THEN keypair.key < session ELSE keypair.key = session

One(b) == IF b THEN 1 ELSE 0

\* How often a thread, left to finish its packet and, the TUN thread, to go on
\* with others, uses the nonce j: once, unless it is to store a greater counter.
Reach(t, j) ==
  IF pc[t] = "store" THEN One(j > loaded[t])
  ELSE IF pc[t] = "load" THEN One(j > keypair.counter)
  ELSE One(j >= keypair.counter)

\* The TUN thread is about to undo the increments of more than one packet.
Stale == pc["tun"] = "store" /\ keypair.counter >= loaded["tun"] + 2

\* The uses that this adds, where the timer thread can still store after it.
AfterStale(j) ==
  CASE pc["timer"] = "idle"  -> One(j >= keypair.counter)
    [] pc["timer"] = "seal"  -> One(j > loaded["tun"])
    [] pc["timer"] = "load"  -> One(j > loaded["tun"] + 1)
    [] pc["timer"] = "store" -> 0

\* Uses of the nonce j still to come if no keepalive is begun any more.
ToCome(j) ==
  Reach("tun", j) + (IF pc["timer"] = "idle" THEN 0 ELSE Reach("timer", j))
                  + (IF Stale THEN AfterStale(j) ELSE 0)

\* Only keepalives make the counter stale.
StaleInv ==
  /\ pc["timer"] # "idle" => begun["timer"] >= 1
  /\ Stale => begun["timer"] >= 1 + One(pc["timer"] # "idle")

\* A key not installed yet has sealed nothing; one installed before its counter
\* only torn packets; and one in use has the uses to come within the bound.
UseInv ==
  \A n \in Numbers :
    /\ uses[n] <= 1 + begun["timer"] + torn
    /\ n.session > keypair.key => uses[n] = 0
    /\ n.session = keypair.key /\ "key" \notin tocopy =>
         IF "counter" \in tocopy
           THEN uses[n] <= torn
           ELSE uses[n] + ToCome(n.counter) <= 1 + begun["timer"] + torn

\* A packet of the TUN thread that will be spoiled if nothing else happens.
Doomed ==
  /\ pc["tun"] = "seal" /\ ~header["tun"].torn
  /\ header["tun"].session # session \/ header["tun"].counter # keypair.counter

\* A header is of no later session, and one that is not torn is older than a
\* session still being copied.
HeaderInv ==
  /\ header["tun"].session <= session
  /\ pc["tun"] = "seal" /\ ~header["tun"].torn /\ tocopy # {} =>
       header["tun"].session # session

\* A keepalive may still be spoiled until it is sealed, and spoil a packet until
\* it has stored.
SpoilInv ==
  spoiled + One(Doomed) + One(pc["timer"] = "seal") + One(pc["timer"] # "idle")
    <= 2 * begun["timer"] + session - 1 + torn

CounterInv == CounterTypes /\ CopyInv /\ StaleInv /\ UseInv /\ HeaderInv /\ SpoilInv

(***************************************************************************)
(* Each step keeps it.                                                     *)
(***************************************************************************)

\* What the number of sessions is compared with is a number.
LEMMA Bounds ==
  MaxSessions \in Nat /\ MaxPackets \in Nat /\ MaxKeepalives \in Nat /\ Sessions \subseteq Nat
BY BoundAssumption DEF Sessions

\* Nothing has been sent.
LEMMA CounterInitInv == CounterInit => CounterInv
<1> SUFFICES ASSUME CounterInit PROVE CounterInv
  OBVIOUS
<1> USE DEF CounterInit
<1>1. CounterTypes
  BY BoundAssumption DEF CounterTypes, Sessions, Threads, NoHeader, Numbers, Members
<1>2. pc["tun"] = "idle" /\ pc["timer"] = "idle" /\ begun["timer"] = 0
  BY DEF Threads
<1>3. CopyInv /\ StaleInv /\ HeaderInv
  BY <1>2, Bounds DEF CopyInv, StaleInv, Stale, HeaderInv, Threads, NoHeader
<1>4. UseInv
  <2> SUFFICES ASSUME NEW n \in Numbers
               PROVE  /\ uses[n] <= 1 + begun["timer"] + torn
                      /\ n.session > keypair.key => uses[n] = 0
                      /\ n.session = keypair.key /\ "key" \notin tocopy =>
                           IF "counter" \in tocopy
                             THEN uses[n] <= torn
                             ELSE uses[n] + ToCome(n.counter) <= 1 + begun["timer"] + torn
    BY DEF UseInv
  <2>1. uses[n] = 0 /\ torn = 0
    OBVIOUS
  <2>2. ToCome(n.counter) = One(n.counter >= keypair.counter)
    BY <1>2 DEF ToCome, Reach, Stale, One
  <2>3. ToCome(n.counter) \in 0 .. 1
    BY <2>2 DEF One
  <2> QED BY <1>2, <2>1, <2>3
<1>5. SpoilInv
  BY <1>2 DEF SpoilInv, Doomed, One
<1> QED BY <1>1, <1>3, <1>4, <1>5 DEF CounterInv

\* Every step keeps the types.
LEMMA TypesStep ==
  ASSUME CounterTypes, CounterNext
  PROVE  CounterTypes'
<1> USE Bounds DEF CounterTypes
<1>1. ASSUME Install PROVE CounterTypes'
  BY <1>1 DEF Install, Sessions
<1>2. ASSUME NEW m \in Members, CopyMember(m) PROVE CounterTypes'
  <2>1. keypair' \in [index : Sessions, key : Sessions, counter : Nat]
    <3>1. CASE m = "index"
      BY <1>2, <3>1 DEF CopyMember
    <3>2. CASE m = "key"
      BY <1>2, <3>2 DEF CopyMember
    <3>3. CASE m = "counter"
      BY <1>2, <3>3 DEF CopyMember
    <3> QED BY <3>1, <3>2, <3>3 DEF Members
  <2> QED BY <1>2, <2>1 DEF CopyMember
<1>3. ASSUME NEW t \in Threads, WriteHeader(t) PROVE CounterTypes'
  <2>1. (tocopy # {}) \in BOOLEAN
    OBVIOUS
  <2> QED BY <1>3, <2>1 DEF WriteHeader
<1>4. ASSUME NEW t \in Threads, SealPacket(t) PROVE CounterTypes'
  <2> PICK n : n = [session |-> keypair.key, counter |-> keypair.counter]
    OBVIOUS
  <2>1. uses' = [uses EXCEPT ![n] = @ + 1]
    BY <1>4 DEF SealPacket
  <2>2. uses' \in [Numbers -> Nat]
    <3>1. CASE n \in Numbers
      BY <2>1, <3>1
    <3>2. CASE n \notin Numbers
      BY <2>1, <3>2
    <3> QED BY <3>1, <3>2
  <2>3. spoiled' \in Nat /\ torn' \in Nat
    BY <1>4 DEF SealPacket
  <2> QED BY <1>4, <2>2, <2>3 DEF SealPacket
<1>5. ASSUME NEW t \in Threads, Load(t) PROVE CounterTypes'
  BY <1>5 DEF Load
<1>6. ASSUME NEW t \in Threads, Store(t) PROVE CounterTypes'
  <2>1. NoHeader \in [session : Sessions, counter : Nat, torn : BOOLEAN]
    BY BoundAssumption DEF NoHeader, Sessions
  <2> QED BY <1>6, <2>1 DEF Store
<1> QED BY <1>1, <1>2, <1>3, <1>4, <1>5, <1>6 DEF CounterNext, EncryptStep

\* Only Install and CopyMember change the copied members.
LEMMA CopyStep ==
  ASSUME CounterTypes, CopyInv, CounterNext
  PROVE  CopyInv'
<1> USE Bounds DEF CounterTypes, CopyInv
<1>1. ASSUME Install PROVE CopyInv'
  BY <1>1 DEF Install, Members, Sessions
<1>2. ASSUME NEW m \in Members, CopyMember(m) PROVE CopyInv'
  <2>1. CASE m = "index"
    BY <1>2, <2>1 DEF CopyMember
  <2>2. CASE m = "key"
    BY <1>2, <2>2 DEF CopyMember
  <2>3. CASE m = "counter"
    BY <1>2, <2>3 DEF CopyMember
  <2> QED BY <2>1, <2>2, <2>3 DEF Members
<1>3. ASSUME NEW t \in Threads, EncryptStep(t) PROVE CopyInv'
  <2>1. tocopy' = tocopy /\ session' = session
        /\ keypair'.index = keypair.index /\ keypair'.key = keypair.key
    BY <1>3 DEF EncryptStep, WriteHeader, SealPacket, Load, Store
  <2> QED BY <2>1
<1> QED BY <1>1, <1>2, <1>3 DEF CounterNext

\* The counter is set ahead of the TUN thread by a timer thread that has begun.
LEMMA StaleStep ==
  ASSUME CounterTypes, StaleInv, CounterNext
  PROVE  StaleInv'
<1> USE Bounds DEF CounterTypes, StaleInv, Stale, One, Threads
<1>1. ASSUME Install PROVE StaleInv'
  BY <1>1 DEF Install
<1>2. ASSUME NEW m \in Members, CopyMember(m) PROVE StaleInv'
  <2>1. keypair'.counter \in {0, keypair.counter}
    BY <1>2 DEF CopyMember, Members
  <2> QED BY <1>2, <2>1 DEF CopyMember
<1>3. ASSUME NEW t \in Threads, WriteHeader(t) PROVE StaleInv'
  <2>1. CASE t = "tun"
    BY <1>3, <2>1 DEF WriteHeader
  <2>2. CASE t = "timer"
    BY <1>3, <2>2 DEF WriteHeader
  <2> QED BY <2>1, <2>2
<1>4. ASSUME NEW t \in Threads, SealPacket(t) PROVE StaleInv'
  BY <1>4 DEF SealPacket
<1>5. ASSUME NEW t \in Threads, Load(t) PROVE StaleInv'
  BY <1>5 DEF Load
<1>6. ASSUME NEW t \in Threads, Store(t) PROVE StaleInv'
  <2>1. CASE t = "tun"
    BY <1>6, <2>1 DEF Store
  <2>2. CASE t = "timer"
    BY <1>6, <2>2 DEF Store
  <2> QED BY <2>1, <2>2
<1> QED BY <1>1, <1>2, <1>3, <1>4, <1>5, <1>6 DEF CounterNext, EncryptStep

\* A header that is written whole names the installed session; a later one has
\* to be installed before its members are copied.
LEMMA HeaderStep ==
  ASSUME CounterTypes, CopyInv, HeaderInv, CounterNext
  PROVE  HeaderInv'
<1> USE Bounds DEF CounterTypes, HeaderInv, Threads
<1>1. ASSUME Install PROVE HeaderInv'
  BY <1>1 DEF Install, Sessions
<1>2. ASSUME NEW m \in Members, CopyMember(m) PROVE HeaderInv'
  BY <1>2 DEF CopyMember
<1>3. ASSUME NEW t \in Threads, WriteHeader(t) PROVE HeaderInv'
  <2>1. keypair.index <= session
    BY DEF CopyInv, Sessions
  <2>2. CASE t = "tun"
    <3>1. header'["tun"].session = keypair.index
          /\ header'["tun"].torn = (tocopy # {})
      BY <1>3, <2>2 DEF WriteHeader
    <3> QED BY <1>3, <2>1, <3>1 DEF WriteHeader
  <2>3. CASE t = "timer"
    BY <1>3, <2>3 DEF WriteHeader
  <2> QED BY <2>2, <2>3
<1>4. ASSUME NEW t \in Threads, SealPacket(t) PROVE HeaderInv'
  BY <1>4 DEF SealPacket
<1>5. ASSUME NEW t \in Threads, Load(t) PROVE HeaderInv'
  BY <1>5 DEF Load
<1>6. ASSUME NEW t \in Threads, Store(t) PROVE HeaderInv'
  <2>1. CASE t = "tun"
    <3>1. header'["tun"] = NoHeader /\ NoHeader.session = 1 /\ session >= 1
      BY <1>6, <2>1 DEF Store, NoHeader, Sessions
    <3>2. pc'["tun"] = "idle"
      BY <1>6, <2>1 DEF Store
    <3> QED BY <1>6, <3>1, <3>2 DEF Store
  <2>2. CASE t = "timer"
    BY <1>6, <2>2 DEF Store
  <2> QED BY <2>1, <2>2
<1> QED BY <1>1, <1>2, <1>3, <1>4, <1>5, <1>6 DEF CounterNext, EncryptStep

\* A packet is only doomed by the timer thread's store or by an installation,
\* and each has its share in the bound.
LEMMA SpoilStep ==
  ASSUME CounterTypes, CopyInv, HeaderInv, SpoilInv, CounterNext
  PROVE  SpoilInv'
<1> USE Bounds DEF CounterTypes, SpoilInv, Threads, One
<1>1. ASSUME Install PROVE SpoilInv'
  <2>1. session' = session + 1 /\ UNCHANGED <<spoiled, pc, begun, torn>>
    BY <1>1 DEF Install
  <2> QED BY <2>1
<1>2. ASSUME NEW m \in Members, CopyMember(m) PROVE SpoilInv'
  <2>1. Doomed' => Doomed
    BY <1>2 DEF CopyMember, HeaderInv, Doomed
  <2>2. UNCHANGED <<spoiled, pc, begun, torn, session>>
    BY <1>2 DEF CopyMember
  <2> QED BY <2>1, <2>2
<1>3. ASSUME NEW t \in Threads, WriteHeader(t) PROVE SpoilInv'
  <2>1. UNCHANGED <<spoiled, torn, session, keypair, tocopy>>
    BY <1>3 DEF WriteHeader
  <2>2. CASE t = "tun"
    <3>1. /\ header'["tun"].session = keypair.index
          /\ header'["tun"].counter = keypair.counter
          /\ header'["tun"].torn = (tocopy # {})
      BY <1>3, <2>2 DEF WriteHeader
    <3>2. ~Doomed'
      BY <2>1, <3>1 DEF CopyInv, Doomed
    <3>3. begun'["timer"] = begun["timer"] /\ pc'["timer"] = pc["timer"]
      BY <1>3, <2>2 DEF WriteHeader
    <3> QED BY <2>1, <3>2, <3>3
  <2>3. CASE t = "timer"
    <3>1. /\ begun'["timer"] = begun["timer"] + 1
          /\ pc["timer"] = "idle" /\ pc'["timer"] = "seal"
          /\ pc'["tun"] = pc["tun"] /\ header'["tun"] = header["tun"]
      BY <1>3, <2>3 DEF WriteHeader
    <3>2. Doomed' = Doomed
      BY <2>1, <3>1 DEF Doomed
    <3> QED BY <2>1, <3>1, <3>2
  <2> QED BY <2>2, <2>3
<1>4. ASSUME NEW t \in Threads, SealPacket(t) PROVE SpoilInv'
  <2>1. UNCHANGED <<keypair, session, tocopy, header, begun>>
    BY <1>4 DEF SealPacket
  <2>2. torn' \in {torn, torn + 1} /\ spoiled' \in {spoiled, spoiled + 1}
    BY <1>4 DEF SealPacket
  <2>3. CASE t = "tun"
    <3>1. pc["tun"] = "seal" /\ pc'["tun"] = "load" /\ pc'["timer"] = pc["timer"]
      BY <1>4, <2>3 DEF SealPacket
    <3>2. ~Doomed'
      BY <3>1 DEF Doomed
    <3>3. CASE header["tun"].torn \/ tocopy # {}
      <4>1. torn' = torn + 1
        BY <1>4, <2>3, <3>3 DEF SealPacket
      <4> QED BY <2>1, <2>2, <3>1, <3>2, <4>1
    <3>4. CASE ~header["tun"].torn /\ tocopy = {} /\ ~Doomed
      <4>1. header["tun"].session = keypair.key /\ header["tun"].counter = keypair.counter
        BY <3>1, <3>4 DEF CopyInv, Doomed
      <4>2. spoiled' = spoiled
        BY <1>4, <2>3, <4>1 DEF SealPacket
      <4> QED BY <2>1, <2>2, <3>1, <3>2, <4>2
    <3>5. CASE Doomed
      BY <2>1, <2>2, <3>1, <3>2, <3>5
    <3> QED BY <3>3, <3>4, <3>5
  <2>4. CASE t = "timer"
    <3>1. pc["timer"] = "seal" /\ pc'["timer"] = "load" /\ pc'["tun"] = pc["tun"]
      BY <1>4, <2>4 DEF SealPacket
    <3>2. Doomed' = Doomed
      BY <2>1, <3>1 DEF Doomed
    <3> QED BY <2>1, <2>2, <3>1, <3>2
  <2> QED BY <2>3, <2>4
<1>5. ASSUME NEW t \in Threads, Load(t) PROVE SpoilInv'
  <2>1. UNCHANGED <<keypair, session, tocopy, header, begun, spoiled, torn>>
    BY <1>5 DEF Load
  <2>2. /\ pc'["tun"] = "seal" <=> pc["tun"] = "seal"
        /\ pc'["timer"] = "seal" <=> pc["timer"] = "seal"
        /\ pc'["timer"] = "idle" <=> pc["timer"] = "idle"
    BY <1>5 DEF Load
  <2>3. Doomed' = Doomed
    BY <2>1, <2>2 DEF Doomed
  <2> QED BY <2>1, <2>2, <2>3
<1>6. ASSUME NEW t \in Threads, Store(t) PROVE SpoilInv'
  <2>1. UNCHANGED <<session, tocopy, begun, spoiled, torn>>
    BY <1>6 DEF Store
  <2>2. CASE t = "tun"
    <3>1. pc'["tun"] = "idle" /\ pc'["timer"] = pc["timer"]
      BY <1>6, <2>2 DEF Store
    <3>2. ~Doomed'
      BY <3>1 DEF Doomed
    <3> QED BY <2>1, <3>1, <3>2
  <2>3. CASE t = "timer"
    <3>1. pc["timer"] = "store" /\ pc'["timer"] = "idle"
      BY <1>6, <2>3 DEF Store
    <3> QED BY <2>1, <3>1
  <2> QED BY <2>2, <2>3
<1> QED BY <1>1, <1>2, <1>3, <1>4, <1>5, <1>6 DEF CounterNext, EncryptStep

\* What a step of a thread makes of the uses to come: only a keepalive that is
\* begun adds one, and a packet that is sealed takes away the one it makes.
LEMMA ToComeStep ==
  ASSUME CounterTypes, NEW j \in Nat, NEW t \in Threads
  PROVE  /\ ToCome(j) \in Nat
         /\ WriteHeader(t) /\ t = "tun" => (ToCome(j))' <= ToCome(j)
         /\ WriteHeader(t) /\ t = "timer" => (ToCome(j))' <= ToCome(j) + 1
         /\ SealPacket(t) => (ToCome(j))' + One(j = keypair.counter) <= ToCome(j)
         /\ Load(t) \/ Store(t) => (ToCome(j))' <= ToCome(j)
<1> USE DEF CounterTypes, Threads, ToCome, Reach, Stale, AfterStale, One
<1>1. ToCome(j) \in Nat
  OBVIOUS
<1>2. ASSUME WriteHeader(t), t = "tun" PROVE (ToCome(j))' <= ToCome(j)
  BY <1>2 DEF WriteHeader
<1>3. ASSUME WriteHeader(t), t = "timer" PROVE (ToCome(j))' <= ToCome(j) + 1
  BY <1>3 DEF WriteHeader
<1>4. ASSUME SealPacket(t), t = "tun"
      PROVE  (ToCome(j))' + One(j = keypair.counter) <= ToCome(j)
  BY <1>4 DEF SealPacket
<1>5. ASSUME SealPacket(t), t = "timer"
      PROVE  (ToCome(j))' + One(j = keypair.counter) <= ToCome(j)
  BY <1>5 DEF SealPacket
<1>6. ASSUME Load(t), t = "tun" PROVE (ToCome(j))' <= ToCome(j)
  BY <1>6 DEF Load
<1>7. ASSUME Load(t), t = "timer" PROVE (ToCome(j))' <= ToCome(j)
  BY <1>7 DEF Load
<1>8. ASSUME Store(t), t = "tun" PROVE (ToCome(j))' <= ToCome(j)
  BY <1>8 DEF Store
<1>9. ASSUME Store(t), t = "timer" PROVE (ToCome(j))' <= ToCome(j)
  BY <1>9 DEF Store
<1> HIDE DEF CounterTypes, ToCome, Reach, Stale, AfterStale, One
<1> QED BY <1>1, <1>2, <1>3, <1>4, <1>5, <1>6, <1>7, <1>8, <1>9

\* What UseInv says of one nonce.
UseOK(n) ==
  /\ uses[n] <= 1 + begun["timer"] + torn
  /\ n.session > keypair.key => uses[n] = 0
  /\ n.session = keypair.key /\ "key" \notin tocopy =>
       IF "counter" \in tocopy
         THEN uses[n] <= torn
         ELSE uses[n] + ToCome(n.counter) <= 1 + begun["timer"] + torn

\* A nonce that is not used in a step in which what is to come does not grow by
\* more than begun or torn.
LEMMA UnusedOK ==
  ASSUME CounterTypes, CounterTypes', NEW n \in Numbers, UseOK(n),
         keypair'.key = keypair.key, tocopy' = tocopy, session' = session,
         (ToCome(n.counter))' + begun["timer"] + torn
           <= ToCome(n.counter) + begun'["timer"] + torn',
         ToCome(n.counter) \in Nat, (ToCome(n.counter))' \in Nat,
         begun["timer"] <= begun'["timer"], torn <= torn', uses'[n] = uses[n]
  PROVE  (UseOK(n))'
<1>1. /\ uses[n] \in Nat /\ torn \in Nat /\ torn' \in Nat
      /\ begun["timer"] \in Nat /\ begun'["timer"] \in Nat
  BY DEF CounterTypes, Threads
<1>2. uses'[n] <= 1 + begun'["timer"] + torn'
  BY <1>1 DEF UseOK
<1>3. uses[n] <= torn => uses'[n] <= torn'
  BY <1>1
<1>4. uses[n] + ToCome(n.counter) <= 1 + begun["timer"] + torn
      => uses'[n] + (ToCome(n.counter))' <= 1 + begun'["timer"] + torn'
  BY <1>1
<1> QED BY <1>2, <1>3, <1>4 DEF UseOK

\* The bound holds before and after every step.
LEMMA UseStep ==
  ASSUME CounterTypes, CounterTypes', CopyInv, StaleInv, StaleInv', UseInv, CounterNext
  PROVE  UseInv'
<1> SUFFICES ASSUME NEW n \in Numbers PROVE (UseOK(n))'
  BY DEF UseInv, UseOK
<1> USE Bounds
<1>n. n.counter \in Nat /\ n.session \in Nat
  BY DEF Numbers, Counters, Sessions
<1>u. UseOK(n)
  BY DEF UseInv, UseOK
<1>c. ToCome(n.counter) \in Nat /\ (ToCome(n.counter))' \in Nat
      /\ (ToCome(n.counter))' <= 1 + begun'["timer"]
  BY <1>n DEF CounterTypes, StaleInv, ToCome, Reach, Stale, AfterStale, One, Threads
<1>1. ASSUME Install PROVE (UseOK(n))'
  <2>1. UNCHANGED <<keypair, uses, begun, torn>> /\ "key" \in tocopy'
    BY <1>1 DEF Install, Members
  <2> QED BY <1>u, <2>1 DEF UseOK
<1>2. ASSUME NEW m \in Members, CopyMember(m) PROVE (UseOK(n))'
  <2>1. UNCHANGED <<uses, begun, torn, session, pc, loaded>> /\ m \in tocopy
        /\ tocopy' = tocopy \ {m}
    BY <1>2 DEF CopyMember
  <2>2. CASE m = "index"
    <3>1. keypair'.key = keypair.key /\ keypair'.counter = keypair.counter
      BY <1>2, <2>2 DEF CopyMember, CounterTypes
    <3>2. (ToCome(n.counter))' = ToCome(n.counter)
      BY <2>1, <3>1 DEF ToCome, Reach, Stale, AfterStale
    <3> QED BY <1>u, <2>1, <2>2, <3>1, <3>2 DEF UseOK
  <2>3. CASE m = "key"
    <3>1. keypair'.key = session /\ keypair.key < session
      BY <1>2, <2>1, <2>3 DEF CopyMember, CounterTypes, CopyInv
    <3>2. keypair.key \in Nat /\ session \in Nat
      BY DEF CounterTypes, Sessions
    <3>3. n.session >= session => uses[n] = 0
      BY <1>u, <1>n, <3>1, <3>2 DEF UseOK
    <3> QED BY <1>u, <1>n, <1>c, <2>1, <3>1, <3>3 DEF UseOK, CounterTypes, Threads
  <2>4. CASE m = "counter"
    <3>1. keypair'.key = keypair.key
      BY <1>2, <2>4 DEF CopyMember, CounterTypes
    <3> QED BY <1>u, <1>c, <2>1, <2>4, <3>1 DEF UseOK, CounterTypes, Threads
  <2> QED BY <2>2, <2>3, <2>4 DEF Members
<1>3. ASSUME NEW t \in Threads, WriteHeader(t) PROVE (UseOK(n))'
  <2>1. UNCHANGED <<keypair, session, tocopy, uses, torn>>
    BY <1>3 DEF WriteHeader
  <2>2. CASE t = "tun"
    <3>1. begun'["timer"] = begun["timer"]
      BY <1>3, <2>2 DEF WriteHeader, CounterTypes, Threads
    <3>2. (ToCome(n.counter))' <= ToCome(n.counter)
      BY <1>3, <1>n, <2>2, ToComeStep
    <3> QED BY <1>u, <1>c, <2>1, <3>1, <3>2, UnusedOK DEF CounterTypes, Threads
  <2>3. CASE t = "timer"
    <3>1. begun'["timer"] = begun["timer"] + 1
      BY <1>3, <2>3 DEF WriteHeader, CounterTypes, Threads
    <3>2. (ToCome(n.counter))' <= ToCome(n.counter) + 1
      BY <1>3, <1>n, <2>3, ToComeStep
    <3> QED BY <1>u, <1>c, <2>1, <3>1, <3>2, UnusedOK DEF CounterTypes, Threads
  <2> QED BY <2>2, <2>3 DEF Threads
<1>4. ASSUME NEW t \in Threads, SealPacket(t) PROVE (UseOK(n))'
  <2>1. UNCHANGED <<keypair, session, tocopy, begun>>
    BY <1>4 DEF SealPacket
  <2>2. (ToCome(n.counter))' + One(n.counter = keypair.counter) <= ToCome(n.counter)
    BY <1>4, <1>n, ToComeStep
  <2>3. torn' \in {torn, torn + 1} /\ (tocopy # {} => torn' = torn + 1)
    BY <1>4 DEF SealPacket
  <2> PICK k : k = [session |-> keypair.key, counter |-> keypair.counter]
    OBVIOUS
  <2>4. uses' = [uses EXCEPT ![k] = @ + 1]
    BY <1>4 DEF SealPacket
  <2>5. CASE n # k
    <3>1. uses'[n] = uses[n]
      BY <2>4, <2>5 DEF CounterTypes
    <3>2. (ToCome(n.counter))' <= ToCome(n.counter)
      BY <1>c, <2>2 DEF One
    <3> QED BY <1>u, <1>c, <2>1, <2>3, <3>1, <3>2, UnusedOK DEF CounterTypes, Threads
  <2>6. CASE n = k
    <3>1. uses'[n] = uses[n] + 1
      BY <2>4, <2>6 DEF CounterTypes
    <3>2. n.session = keypair.key /\ n.counter = keypair.counter
      BY <2>6
    <3>3. (ToCome(n.counter))' + 1 <= ToCome(n.counter)
      BY <2>2, <3>2 DEF One
    <3> QED BY <1>u, <1>n, <1>c, <2>1, <2>3, <3>1, <3>2, <3>3
            DEF UseOK, CounterTypes, Threads, CopyInv
  <2> QED BY <2>5, <2>6
<1>5. ASSUME NEW t \in Threads, Load(t) \/ Store(t) PROVE (UseOK(n))'
  <2>1. UNCHANGED <<session, tocopy, begun, uses, torn>> /\ keypair'.key = keypair.key
    BY <1>5 DEF Load, Store, CounterTypes
  <2>2. (ToCome(n.counter))' <= ToCome(n.counter)
    BY <1>5, <1>n, ToComeStep
  <2> QED BY <1>u, <1>c, <2>1, <2>2, UnusedOK DEF CounterTypes, Threads
<1> QED BY <1>1, <1>2, <1>3, <1>4, <1>5 DEF CounterNext, EncryptStep

(***************************************************************************)
(* Theorems.                                                               *)
(***************************************************************************)

\* Every step keeps the invariant.
LEMMA CounterStep == CounterInv /\ [CounterNext]_counterVars => CounterInv'
<1> SUFFICES ASSUME CounterInv, [CounterNext]_counterVars PROVE CounterInv'
  OBVIOUS
<1>1. CASE CounterNext
  <2>1. CounterTypes' /\ CopyInv' /\ StaleInv' /\ HeaderInv' /\ SpoilInv'
    BY <1>1, TypesStep, CopyStep, StaleStep, HeaderStep, SpoilStep DEF CounterInv
  <2>2. UseInv'
    BY <1>1, <2>1, UseStep DEF CounterInv
  <2> QED BY <2>1, <2>2 DEF CounterInv
<1>2. CASE UNCHANGED counterVars
  BY <1>2 DEF counterVars, CounterInv, CounterTypes, CopyInv, StaleInv, Stale, UseInv, ToCome,
              Reach, AfterStale, HeaderInv, SpoilInv, Doomed
<1> QED BY <1>1, <1>2

\* The invariant holds in every state.
LEMMA CounterInvariant == CounterSpec => []CounterInv
BY CounterInitInv, CounterStep, PTL DEF CounterSpec

\* wg_encrypt_packet, for any number of packets, keepalives and sessions: a nonce
\* is used with its key once, and once more at most for each keepalive begun and
\* each packet that was encrypted while a session was being copied.
THEOREM ReuseStaysBounded == CounterSpec => []ReuseBounded
<1>1. CounterInv => ReuseBounded
  BY DEF CounterInv, UseInv, ReuseBounded
<1> QED BY <1>1, CounterInvariant, PTL

\* And the packets the server cannot open are at most two for each keepalive, one
\* for each new session and those encrypted while it was copied.
THEOREM SpoilStaysBounded == CounterSpec => []SpoiledBounded
<1>1. CounterInv => SpoiledBounded
  BY Bounds DEF CounterInv, CounterTypes, SpoilInv, SpoiledBounded, One, Threads
<1> QED BY <1>1, CounterInvariant, PTL

(***************************************************************************)
(* The inductive invariant of NoiseHandshake.                              *)
(***************************************************************************)

Ephemerals == {Eph(e) : e \in 1 .. made}

\* The chaining key after an initiation with the ephemeral key e, as its sender
\* and as its receiver derive it.
SenderChain(n, e) ==
  LET p == knows[n].peer
  IN  Kdf(1, Kdf(1, Kdf(1, <<"construction">>, e), Dh(e, p)), Dh(n, p))

ReceiverChain(n, e) ==
  Kdf(1, Kdf(1, Kdf(1, <<"construction">>, e), Dh(n, e)), Dh(n, knows[n].peer))

\* The responder's chaining key before the preshared key: r answers the ephemeral
\* key e with its own key o.
AnswerChain(r, e, o) ==
  Kdf(1, Kdf(1, Kdf(1, ReceiverChain(r, e), o), Dh(o, e)), Dh(o, knows[r].peer))

\* The session of a responder whose chaining key is ck.
ResponderSession(r, ck) ==
  [end |-> r, initiator |-> FALSE, send |-> Kdf(2, ck, Empty), receive |-> Kdf(1, ck, Empty)]

\* h has the members of struct wireguard_handshake, whatever is in them.
IsHandshake(h) ==
  h = [ valid |-> h.valid, initiator |-> h.initiator, hash |-> h.hash, ck |-> h.ck,
        own |-> h.own, remote |-> h.remote, local |-> h.local,
        remoteIndex |-> h.remoteIndex ]

NoiseTypes ==
  /\ made \in 0 .. MaxMade
  /\ knows \in [Ends -> [peer : Ends \union {Other}, psk : Psks]]
  /\ \A n \in Ends : knows[n].peer # n
  /\ hs = [n \in Ends |-> hs[n]]
  /\ \A n \in Ends : IsHandshake(hs[n])

\* An initiator waits with the chaining key of its own initiation.
WaitingInv ==
  \A n \in Ends : hs[n].valid /\ hs[n].initiator =>
    hs[n].own \in Ephemerals /\ hs[n].ck = SenderChain(n, hs[n].own)

\* A response is of a responder that has started the session.
AnswerInv ==
  \A msg \in sent :
    /\ msg.body.ephemeral \in Ephemerals
    /\ msg.body.type = "response" =>
         \E r \in Ends, e \in Ephemerals :
           LET ck == AnswerChain(r, e, msg.body.ephemeral)
           IN  /\ msg.body.empty[2] = Kdf(3, ck, knows[r].psk)
               /\ ResponderSession(r, Kdf(1, ck, knows[r].psk)) \in sessions

\* The ephemeral key that a sealing key was made with: the key of the empty text,
\* that of the static key, and that of the timestamp.
EphemeralOf(key) ==
  IF key[2] = 3 THEN key[3][3][3][4]
  ELSE IF key[3][3] = <<"construction">> THEN key[3][4]
  ELSE key[3][3][4]

\* A key that was not made has sealed nothing.
SealedInv == \A c \in sealed : EphemeralOf(c[2]) \in Ephemerals

NoiseInv ==
  /\ NoiseTypes /\ WaitingInv /\ AnswerInv /\ SealedInv
  /\ KeysAgree /\ ConfigurationAgrees /\ NonceZeroOnce

(***************************************************************************)
(* The constructors are free.                                              *)
(***************************************************************************)

\* A derived key has one derivation, and is not the first chaining key.
LEMMA KdfFree ==
  ASSUME NEW i, NEW k, NEW d
  PROVE  /\ Kdf(i, k, d)[2] = i /\ Kdf(i, k, d)[3] = k /\ Kdf(i, k, d)[4] = d
         /\ Kdf(i, k, d) # <<"construction">>
BY DEF Kdf

\* Equal derived keys are derived alike.
LEMMA KdfAlike ==
  ASSUME NEW i, NEW k, NEW d, NEW j, NEW l, NEW e, Kdf(i, k, d) = Kdf(j, l, e)
  PROVE  i = j /\ k = l /\ d = e
BY KdfFree

\* A shared secret has one pair of keys.
LEMMA DhAlike ==
  ASSUME NEW a, NEW b, NEW c, NEW d, Dh(a, b) = Dh(c, d)
  PROVE  (a = c /\ b = d) \/ (a = d /\ b = c)
<1>1. {a, b} = {c, d}
  <2>1. Dh(a, b)[2] = {a, b} /\ Dh(c, d)[2] = {c, d}
    BY DEF Dh
  <2> QED BY <2>1
<1> QED BY <1>1

\* A new ephemeral key is none made before.
LEMMA EphemeralIsNew ==
  ASSUME made \in Nat
  PROVE  Eph(made + 1) \notin Ephemerals
<1>1. \A i, j : Eph(i) = Eph(j) => i = j
  BY DEF Eph
<1> QED BY <1>1 DEF Ephemerals

\* The parts of a sealed text.
LEMMA SealFree ==
  ASSUME NEW k, NEW t, NEW a
  PROVE  Seal(k, t, a)[2] = k /\ Seal(k, t, a)[3] = t
BY DEF Seal

\* The ephemeral key is found again in each of the three sealing keys.
LEMMA EphemeralFound ==
  /\ \A e, x : EphemeralOf(Kdf(2, Kdf(1, <<"construction">>, e), x)) = e
  /\ \A e, x, y : EphemeralOf(Kdf(2, Kdf(1, Kdf(1, <<"construction">>, e), x), y)) = e
  /\ \A e, k, x, y, z : EphemeralOf(Kdf(3, Kdf(1, Kdf(1, Kdf(1, k, e), x), y), z)) = e
<1>1. \A e, x : EphemeralOf(Kdf(2, Kdf(1, <<"construction">>, e), x)) = e
  BY KdfFree DEF EphemeralOf
<1>2. \A e, x, y : EphemeralOf(Kdf(2, Kdf(1, Kdf(1, <<"construction">>, e), x), y)) = e
  BY KdfFree DEF EphemeralOf
<1>3. \A e, k, x, y, z : EphemeralOf(Kdf(3, Kdf(1, Kdf(1, Kdf(1, k, e), x), y), z)) = e
  BY KdfFree DEF EphemeralOf
<1> QED BY <1>1, <1>2, <1>3

\* Two ends that derive the same chaining key from an initiation were each given
\* the other's key.
LEMMA ChainsAgree ==
  ASSUME NoiseTypes, NEW n \in Ends, NEW r \in Ends, NEW e \in Ephemerals, NEW f,
         SenderChain(n, e) = ReceiverChain(r, f)
  PROVE  e = f /\ n # r /\ knows[n].peer = r /\ knows[r].peer = n
<1>1. e \notin Ends
  BY EndsAssumption DEF NoiseTypes, Ephemerals
<1>2. Dh(n, knows[n].peer) = Dh(r, knows[r].peer)
  BY KdfAlike DEF SenderChain, ReceiverChain
<1>3. Kdf(1, Kdf(1, <<"construction">>, e), Dh(e, knows[n].peer))
        = Kdf(1, Kdf(1, <<"construction">>, f), Dh(r, f))
  BY KdfAlike DEF SenderChain, ReceiverChain
<1>4. Dh(e, knows[n].peer) = Dh(r, f)
      /\ Kdf(1, <<"construction">>, e) = Kdf(1, <<"construction">>, f)
  BY <1>3, KdfAlike
<1>5. e = f
  BY <1>4, KdfAlike
<1>6. knows[n].peer = r
  BY <1>1, <1>4, <1>5, DhAlike
<1>7. knows[n].peer # n
  BY DEF NoiseTypes
<1> QED BY <1>2, <1>5, <1>6, <1>7, DhAlike

(***************************************************************************)
(* What the steps do, as far as the invariant tells.                       *)
(***************************************************************************)

\* An initiation: the record of its sender, the message, and the two sealed texts.
LEMMA CreateEffect ==
  ASSUME NEW n \in Ends, CreateInitiation(n)
  PROVE  \E hash, msg, c, d :
           LET e == Eph(made + 1)
               p == knows[n].peer
               k == Kdf(1, <<"construction">>, e)
           IN  /\ hs' = [hs EXCEPT ![n] =
                    [@ EXCEPT !.valid = TRUE, !.initiator = TRUE, !.own = e, !.local = e,
                              !.ck = SenderChain(n, e), !.hash = hash]]
               /\ sent' = sent \union {msg}
               /\ msg.body.type = "initiation" /\ msg.body.ephemeral = e
               /\ sealed' = sealed \union {c, d}
               /\ c[2] = Kdf(2, k, Dh(e, p))
               /\ d[2] = Kdf(2, Kdf(1, k, Dh(e, p)), Dh(n, p))
<1> DEFINE e    == Eph(made + 1)
           p    == knows[n].peer
           ck1  == Kdf(1, <<"construction">>, e)
           h1   == MixHash(MixHash(<<"identifier">>, p), e)
           k1   == Kdf(2, ck1, Dh(e, p))
           ck2  == Kdf(1, ck1, Dh(e, p))
           key  == Seal(k1, n, h1)
           h2   == MixHash(h1, key)
           k2   == Kdf(2, ck2, Dh(n, p))
           ck3  == Kdf(1, ck2, Dh(n, p))
           time == Seal(k2, <<"time", made + 1>>, h2)
           body == [type |-> "initiation", sender |-> e, ephemeral |-> e,
                    static |-> key, timestamp |-> time]
           msg  == [body |-> body, mac1 |-> Mac1(p, body)]
<1>1. /\ hs' = [hs EXCEPT ![n] =
           [@ EXCEPT !.valid = TRUE, !.initiator = TRUE, !.own = e, !.local = e,
                     !.ck = ck3, !.hash = MixHash(h2, time)]]
      /\ sent' = sent \union {msg}
      /\ sealed' = sealed \union {key, time}
  BY DEF CreateInitiation
<1>2. ck3 = SenderChain(n, e)
  BY DEF SenderChain
<1>3. key[2] = k1 /\ time[2] = k2
  BY SealFree
<1>4. msg.body.type = "initiation" /\ msg.body.ephemeral = e
  OBVIOUS
<1> HIDE DEF msg, key, time, h2
<1> WITNESS MixHash(h2, time), msg, key, time
<1> QED BY <1>1, <1>2, <1>3, <1>4

\* A response: the record of the responder is empty, and its session is that of
\* the chaining key under which the empty text is sealed.
LEMMA RespondEffect ==
  ASSUME NoiseTypes, NEW n \in Ends, NEW m \in sent, Respond(n, m)
  PROVE  \E msg, c, h :
           LET e  == Eph(made + 1)
               ck == AnswerChain(n, m.body.ephemeral, e)
               k  == Kdf(3, ck, knows[n].psk)
           IN  /\ hs' = [hs EXCEPT ![n] = Forgotten(h)] /\ IsHandshake(h)
               /\ sent' = sent \union {msg}
               /\ msg.body.type = "response" /\ msg.body.ephemeral = e
               /\ msg.body.empty = c /\ c[2] = k
               /\ sealed' = sealed \union {c}
               /\ sessions' = sessions
                    \union {ResponderSession(n, Kdf(1, ck, knows[n].psk))}
<1> DEFINE q == ProcessedInitiation(n, m.body)
           e == Eph(made + 1)
           f == Finish(q.hs, e, Dh(e, q.hs.remote), Dh(e, knows[n].peer), knows[n].psk)
           empty == Seal(f.key, Empty, f.hash)
           body == [type |-> "response", sender |-> e, receiver |-> q.hs.remoteIndex,
                    ephemeral |-> e, empty |-> empty]
           h == [q.hs EXCEPT !.own = e, !.local = e, !.ck = f.ck,
                             !.hash = MixHash(f.hash, empty)]
           msg == [body |-> body, mac1 |-> Mac1(knows[n].peer, body)]
           ck == AnswerChain(n, m.body.ephemeral, e)
<1>1. /\ sessions' = sessions \union {Session(n, h)}
      /\ hs' = [hs EXCEPT ![n] = Forgotten(h)]
      /\ sent' = sent \union {msg}
      /\ sealed' = sealed \union {empty}
      /\ q.ok
  BY DEF Respond
<1>2. Opened(m.body.static) = knows[n].peer
  BY <1>1 DEF ProcessedInitiation
<1> PICK chain : chain = ReceiverChain(n, m.body.ephemeral)
  OBVIOUS
<1> PICK hash : hash = MixHash(MixHash(MixHash(MixHash(<<"identifier">>, n), m.body.ephemeral),
                                       m.body.static), m.body.timestamp)
  OBVIOUS
<1>3. q.hs = [hs[n] EXCEPT !.valid = TRUE, !.initiator = FALSE, !.remote = m.body.ephemeral,
                           !.remoteIndex = m.body.sender, !.ck = chain, !.hash = hash]
  BY <1>2 DEF ProcessedInitiation, ReceiverChain
<1>4. /\ q.hs.ck = chain /\ q.hs.remote = m.body.ephemeral
      /\ q.hs.initiator = FALSE /\ IsHandshake(q.hs)
  <2> HIDE DEF q
  <2>1. IsHandshake(hs[n])
    BY DEF NoiseTypes
  <2> QED BY <1>3, <2>1 DEF IsHandshake
<1>5. f.ck = Kdf(1, ck, knows[n].psk) /\ f.key = Kdf(3, ck, knows[n].psk)
  <2> HIDE DEF q
  <2> QED BY <1>4 DEF Finish, AnswerChain
<1>6. h.ck = f.ck /\ h.initiator = FALSE /\ IsHandshake(h)
  <2> PICK o : o = q.hs
    OBVIOUS
  <2> PICK v : v = f.ck
    OBVIOUS
  <2> PICK x : x = MixHash(f.hash, empty)
    OBVIOUS
  <2>1. h = [o EXCEPT !.own = e, !.local = e, !.ck = v, !.hash = x]
    OBVIOUS
  <2>2. IsHandshake(o) /\ o.initiator = FALSE
    BY <1>4
  <2> HIDE DEF q, f, empty, h, e
  <2>3. h.ck = v /\ h.initiator = FALSE /\ IsHandshake(h)
    BY <2>1, <2>2 DEF IsHandshake
  <2> QED BY <2>3
<1>7. Session(n, h) = ResponderSession(n, Kdf(1, ck, knows[n].psk))
  <2> HIDE DEF h, f, ck
  <2> QED BY <1>5, <1>6 DEF Session, ResponderSession
<1>8. empty[2] = Kdf(3, ck, knows[n].psk)
  BY <1>5, SealFree
<1>9. msg.body.type = "response" /\ msg.body.ephemeral = e /\ msg.body.empty = empty
  OBVIOUS
<1> HIDE DEF msg, empty, h
<1> WITNESS msg, empty, h
<1> QED BY <1>1, <1>6, <1>7, <1>8, <1>9

\* A response that is taken: its empty text opens under the initiator's chaining
\* key, which is then that of the session.
LEMMA ProcessEffect ==
  ASSUME NoiseTypes, NEW n \in Ends, NEW m \in sent, ProcessResponse(n, m)
  PROVE  /\ hs[n].valid /\ hs[n].initiator /\ m.body.type = "response"
         /\ \E h, ck :
              /\ hs' = [hs EXCEPT ![n] = Forgotten(h)] /\ IsHandshake(h)
              /\ ck = Kdf(1, Kdf(1, Kdf(1, hs[n].ck, m.body.ephemeral),
                                 Dh(hs[n].own, m.body.ephemeral)),
                          Dh(n, m.body.ephemeral))
              /\ m.body.empty[2] = Kdf(3, ck, knows[n].psk)
              /\ \E s : /\ sessions' = sessions \union {s}
                        /\ s.end = n
                        /\ s.send = Kdf(1, Kdf(1, ck, knows[n].psk), Empty)
                        /\ s.receive = Kdf(2, Kdf(1, ck, knows[n].psk), Empty)
<1> DEFINE e == m.body.ephemeral
           f == Finish(hs[n], e, Dh(hs[n].own, e), Dh(n, e), knows[n].psk)
           t == [hs[n] EXCEPT !.remote = e, !.remoteIndex = m.body.sender,
                              !.ck = f.ck, !.hash = f.hash]
           ck == Kdf(1, Kdf(1, Kdf(1, hs[n].ck, e), Dh(hs[n].own, e)), Dh(n, e))
<1>1. /\ m.body.type = "response" /\ hs[n].valid /\ hs[n].initiator
      /\ Opens(m.body.empty, f.key, f.hash)
      /\ sessions' = sessions \union {Session(n, t)}
      /\ hs' = [hs EXCEPT ![n] = Forgotten(t)]
  BY DEF ProcessResponse
<1>2. f.ck = Kdf(1, ck, knows[n].psk) /\ f.key = Kdf(3, ck, knows[n].psk)
  BY DEF Finish
<1>3. t.ck = f.ck /\ t.initiator = hs[n].initiator /\ IsHandshake(t)
  <2> PICK o : o = hs[n]
    OBVIOUS
  <2> PICK v : v = f.ck
    OBVIOUS
  <2> PICK x : x = f.hash
    OBVIOUS
  <2> PICK y : y = m.body.sender
    OBVIOUS
  <2> PICK z : z = e
    OBVIOUS
  <2>1. t = [o EXCEPT !.remote = z, !.remoteIndex = y, !.ck = v, !.hash = x]
    OBVIOUS
  <2>2. IsHandshake(o)
    BY DEF NoiseTypes
  <2> HIDE DEF f, t, e
  <2>3. t.ck = v /\ t.initiator = o.initiator /\ IsHandshake(t)
    BY <2>1, <2>2 DEF IsHandshake
  <2> QED BY <2>3
<1>4. m.body.empty[2] = Kdf(3, ck, knows[n].psk)
  BY <1>1, <1>2 DEF Opens
<1>5. /\ Session(n, t).end = n
      /\ Session(n, t).send = Kdf(1, Kdf(1, ck, knows[n].psk), Empty)
      /\ Session(n, t).receive = Kdf(2, Kdf(1, ck, knows[n].psk), Empty)
  <2> HIDE DEF t, f, ck
  <2> QED BY <1>1, <1>2, <1>3 DEF Session
<1> HIDE DEF t, f, ck
<1>6. \E s : /\ sessions' = sessions \union {s}
             /\ s.end = n
             /\ s.send = Kdf(1, Kdf(1, ck, knows[n].psk), Empty)
             /\ s.receive = Kdf(2, Kdf(1, ck, knows[n].psk), Empty)
  BY <1>1, <1>5
<1>7. ck = Kdf(1, Kdf(1, Kdf(1, hs[n].ck, e), Dh(hs[n].own, e)), Dh(n, e))
  BY DEF ck
<1> QED BY <1>1, <1>3, <1>4, <1>6, <1>7

\* A record that is emptied keeps its members.
LEMMA ForgottenOK ==
  ASSUME NEW h, IsHandshake(h), NEW t, t = Forgotten(h)
  PROVE  IsHandshake(t) /\ t.valid = FALSE
BY DEF IsHandshake, Forgotten

(***************************************************************************)
(* Each step keeps the invariant.                                          *)
(***************************************************************************)

\* Nothing has been sent.
LEMMA NoiseInitInv == NoiseInit => NoiseInv
<1> SUFFICES ASSUME NoiseInit PROVE NoiseInv
  OBVIOUS
<1> USE DEF NoiseInit
<1>1. NoiseTypes
  <2>1. \A n \in Ends : hs[n] = NoHs
    OBVIOUS
  <2>2. IsHandshake(NoHs)
    BY DEF IsHandshake, NoHs
  <2> QED BY <2>1, <2>2, EndsAssumption DEF NoiseTypes
<1>2. WaitingInv
  BY DEF WaitingInv, NoHs
<1>3. AnswerInv /\ SealedInv /\ KeysAgree /\ ConfigurationAgrees /\ NonceZeroOnce
  BY DEF AnswerInv, SealedInv, KeysAgree, ConfigurationAgrees, NonceZeroOnce
<1> QED BY <1>1, <1>2, <1>3 DEF NoiseInv

\* Texts sealed with keys of a new ephemeral key share none with those before.
LEMMA NewlySealed ==
  ASSUME NoiseTypes, SealedInv, NonceZeroOnce, NEW new, made' = made + 1,
         sealed' = sealed \union new,
         \A c \in new : EphemeralOf(c[2]) = Eph(made + 1),
         \A c, d \in new : c[2] = d[2] => c = d
  PROVE  SealedInv' /\ NonceZeroOnce'
<1>1. Ephemerals \subseteq Ephemerals' /\ Eph(made + 1) \in Ephemerals'
  BY DEF NoiseTypes, Ephemerals
<1>2. Eph(made + 1) \notin Ephemerals
  BY EphemeralIsNew DEF NoiseTypes
<1>3. \A c \in sealed, d \in new : c[2] # d[2]
  BY <1>2 DEF SealedInv
<1>4. SealedInv'
  BY <1>1 DEF SealedInv
<1>5. NonceZeroOnce'
  BY <1>3 DEF NonceZeroOnce
<1> QED BY <1>4, <1>5

\* The sender of an initiation waits with the chaining key of it.
LEMMA CreateInv ==
  ASSUME NoiseInv, NEW n \in Ends, CreateInitiation(n)
  PROVE  NoiseInv'
<1>1. made' = made + 1 /\ made < MaxMade /\ UNCHANGED <<knows, greatest, sessions>>
  BY DEF CreateInitiation
<1> DEFINE e == Eph(made + 1)
           p == knows[n].peer
           k == Kdf(1, <<"construction">>, e)
<1>2. PICK hash, msg, c, d :
       /\ hs' = [hs EXCEPT ![n] =
            [@ EXCEPT !.valid = TRUE, !.initiator = TRUE, !.own = e, !.local = e,
                      !.ck = SenderChain(n, e), !.hash = hash]]
       /\ sent' = sent \union {msg}
       /\ msg.body.type = "initiation" /\ msg.body.ephemeral = e
       /\ sealed' = sealed \union {c, d}
       /\ c[2] = Kdf(2, k, Dh(e, p))
       /\ d[2] = Kdf(2, Kdf(1, k, Dh(e, p)), Dh(n, p))
  BY CreateEffect
<1>3. Ephemerals \subseteq Ephemerals' /\ e \in Ephemerals'
  BY <1>1 DEF Ephemerals, NoiseInv, NoiseTypes
<1> HIDE DEF e, p, k
<1>4. PICK chain : chain = SenderChain(n, e)
  OBVIOUS
<1>5. PICK o : o = [hs[n] EXCEPT !.valid = TRUE, !.initiator = TRUE, !.own = e, !.local = e,
                                 !.ck = chain, !.hash = hash]
  OBVIOUS
<1>6. IsHandshake(hs[n]) /\ hs = [m \in Ends |-> hs[m]]
  BY DEF NoiseInv, NoiseTypes
<1>7. IsHandshake(o) /\ o.own = e /\ o.ck = chain
  BY <1>5, <1>6 DEF IsHandshake
<1>8. hs' = [hs EXCEPT ![n] = o]
  BY <1>4, <1>5, <1>2
<1>9. /\ hs' = [m \in Ends |-> hs'[m]] /\ hs'[n] = o
      /\ \A m \in Ends \ {n} : hs'[m] = hs[m]
  BY <1>6, <1>8
<1>10. NoiseTypes'
  <2>1. made' \in 0 .. MaxMade
    BY <1>1, EndsAssumption DEF NoiseInv, NoiseTypes
  <2>2. \A m \in Ends : IsHandshake(hs'[m])
    BY <1>7, <1>9 DEF NoiseInv, NoiseTypes
  <2>3. /\ knows' \in [Ends -> [peer : Ends \union {Other}, psk : Psks]]
        /\ \A m \in Ends : knows'[m].peer # m
    BY <1>1 DEF NoiseInv, NoiseTypes
  <2> QED BY <1>9, <2>1, <2>2, <2>3 DEF NoiseTypes
<1>11. WaitingInv'
  BY <1>1, <1>3, <1>4, <1>7, <1>9 DEF NoiseInv, WaitingInv, SenderChain
<1>12. AnswerInv'
  BY <1>1, <1>3, <1>2 DEF NoiseInv, AnswerInv, AnswerChain, ReceiverChain
<1>13. SealedInv' /\ NonceZeroOnce'
  <2>1. EphemeralOf(c[2]) = e /\ EphemeralOf(d[2]) = e
    BY <1>2, EphemeralFound DEF k
  <2>2. c[2] # d[2]
    <3>1. k # Kdf(1, k, Dh(e, p))
      BY KdfFree DEF k
    <3> QED BY <1>2, <3>1, KdfAlike
  <2> PICK new : new = {c, d}
    OBVIOUS
  <2>3. /\ sealed' = sealed \union new
        /\ \A x \in new : EphemeralOf(x[2]) = Eph(made + 1)
        /\ \A x, y \in new : x[2] = y[2] => x = y
    BY <1>2, <2>1, <2>2 DEF e
  <2> QED BY <1>1, <2>3, NewlySealed DEF NoiseInv
<1>14. KeysAgree' /\ ConfigurationAgrees'
  BY <1>1 DEF NoiseInv, KeysAgree, ConfigurationAgrees
<1> QED BY <1>10, <1>11, <1>12, <1>13, <1>14 DEF NoiseInv

\* A responder has started the session that its answer leads to.
LEMMA RespondInv ==
  ASSUME NoiseInv, NEW n \in Ends, NEW m \in sent, Respond(n, m)
  PROVE  NoiseInv'
<1>1. made' = made + 1 /\ made < MaxMade /\ UNCHANGED knows
  BY DEF Respond
<1> DEFINE e  == Eph(made + 1)
           i  == m.body.ephemeral
           ck == AnswerChain(n, i, e)
           k  == Kdf(3, ck, knows[n].psk)
           s  == ResponderSession(n, Kdf(1, ck, knows[n].psk))
<1> PICK msg, c, h :
       /\ hs' = [hs EXCEPT ![n] = Forgotten(h)] /\ IsHandshake(h)
       /\ sent' = sent \union {msg}
       /\ msg.body.type = "response" /\ msg.body.ephemeral = e
       /\ msg.body.empty = c /\ c[2] = k
       /\ sealed' = sealed \union {c}
       /\ sessions' = sessions \union {s}
  BY RespondEffect DEF NoiseInv
<1>2. Ephemerals \subseteq Ephemerals' /\ e \in Ephemerals' /\ i \in Ephemerals
  BY <1>1 DEF Ephemerals, NoiseInv, NoiseTypes, AnswerInv
<1>3. EphemeralOf(k) = e
  BY EphemeralFound DEF AnswerChain
<1>4. s.initiator = FALSE
  BY DEF ResponderSession
<1> HIDE DEF e, i, k, s
<1>5. PICK o : o = Forgotten(h)
  OBVIOUS
<1>6. IsHandshake(o) /\ o.valid = FALSE
  BY <1>5, ForgottenOK
<1>7. /\ hs' = [j \in Ends |-> hs'[j]] /\ hs'[n] = o
      /\ \A j \in Ends \ {n} : hs'[j] = hs[j]
  BY <1>5 DEF NoiseInv, NoiseTypes
<1>8. NoiseTypes'
  BY <1>1, <1>6, <1>7, EndsAssumption DEF NoiseInv, NoiseTypes
<1>9. WaitingInv'
  BY <1>1, <1>2, <1>6, <1>7 DEF NoiseInv, WaitingInv, SenderChain
<1>10. AnswerInv'
  <2> SUFFICES ASSUME NEW x \in sent',  x.body.type = "response"
               PROVE  \E r \in Ends, f \in Ephemerals' :
                        /\ x.body.empty[2]
                             = (Kdf(3, AnswerChain(r, f, x.body.ephemeral), knows[r].psk))'
                        /\ (ResponderSession(r, Kdf(1, AnswerChain(r, f, x.body.ephemeral),
                                                    knows[r].psk)))' \in sessions'
    BY <1>2 DEF NoiseInv, AnswerInv
  <2>1. CASE x \in sent
    BY <1>1, <1>2, <2>1 DEF NoiseInv, AnswerInv, AnswerChain, ReceiverChain
  <2>2. CASE x = msg
    BY <1>1, <1>2, <2>2 DEF AnswerChain, ReceiverChain, k, s
  <2> QED BY <2>1, <2>2
<1>11. SealedInv' /\ NonceZeroOnce'
  <2> PICK new : new = {c}
    OBVIOUS
  <2>1. /\ sealed' = sealed \union new
        /\ \A x \in new : EphemeralOf(x[2]) = Eph(made + 1)
        /\ \A x, y \in new : x[2] = y[2] => x = y
    BY <1>3 DEF e
  <2> QED BY <1>1, <2>1, NewlySealed DEF NoiseInv
<1>12. KeysAgree' /\ ConfigurationAgrees'
  BY <1>1, <1>4 DEF NoiseInv, KeysAgree, ConfigurationAgrees
<1> QED BY <1>8, <1>9, <1>10, <1>11, <1>12 DEF NoiseInv

\* An initiator that opens the empty text has the responder's chaining key, and so
\* its session is across from one that the responder has started.
LEMMA ProcessInv ==
  ASSUME NoiseInv, NEW n \in Ends, NEW m \in sent, ProcessResponse(n, m)
  PROVE  NoiseInv'
<1>1. UNCHANGED <<knows, greatest, sent, sealed, made>>
  BY DEF ProcessResponse
<1>2. hs[n].valid /\ hs[n].initiator /\ m.body.type = "response"
  BY ProcessEffect DEF NoiseInv
<1>3. PICK i : i = m.body.ephemeral
  OBVIOUS
<1>4. PICK own : own = hs[n].own
  OBVIOUS
<1>5. PICK h, ck :
        /\ hs' = [hs EXCEPT ![n] = Forgotten(h)] /\ IsHandshake(h)
        /\ ck = Kdf(1, Kdf(1, Kdf(1, hs[n].ck, i), Dh(own, i)), Dh(n, i))
        /\ m.body.empty[2] = Kdf(3, ck, knows[n].psk)
        /\ \E s : /\ sessions' = sessions \union {s}
                  /\ s.end = n
                  /\ s.send = Kdf(1, Kdf(1, ck, knows[n].psk), Empty)
                  /\ s.receive = Kdf(2, Kdf(1, ck, knows[n].psk), Empty)
  BY <1>3, <1>4, ProcessEffect DEF NoiseInv
<1>6. PICK s : /\ sessions' = sessions \union {s}
               /\ s.end = n
               /\ s.send = Kdf(1, Kdf(1, ck, knows[n].psk), Empty)
               /\ s.receive = Kdf(2, Kdf(1, ck, knows[n].psk), Empty)
  BY <1>5
<1>7. own \in Ephemerals /\ hs[n].ck = SenderChain(n, own)
  BY <1>2, <1>4 DEF NoiseInv, WaitingInv
<1>8. PICK r \in Ends, e \in Ephemerals :
        /\ m.body.empty[2] = Kdf(3, AnswerChain(r, e, i), knows[r].psk)
        /\ ResponderSession(r, Kdf(1, AnswerChain(r, e, i), knows[r].psk)) \in sessions
  BY <1>2, <1>3 DEF NoiseInv, AnswerInv
<1>9. ck = AnswerChain(r, e, i) /\ knows[n].psk = knows[r].psk
  BY <1>5, <1>8, KdfAlike
<1>10. SenderChain(n, own) = ReceiverChain(r, e)
  <2>1. Kdf(1, Kdf(1, SenderChain(n, own), i), Dh(own, i))
          = Kdf(1, Kdf(1, ReceiverChain(r, e), i), Dh(i, e))
    BY <1>5, <1>7, <1>9, KdfAlike DEF AnswerChain
  <2>2. Kdf(1, SenderChain(n, own), i) = Kdf(1, ReceiverChain(r, e), i)
    BY <2>1, KdfAlike
  <2> QED BY <2>2, KdfAlike
<1>11. n # r /\ knows[n].peer = r /\ knows[r].peer = n
  BY <1>7, <1>10, ChainsAgree DEF NoiseInv
<1>12. KeysAgree'
  <2>1. PICK t : t = ResponderSession(r, Kdf(1, ck, knows[r].psk))
    OBVIOUS
  <2>2. /\ t \in sessions /\ t.initiator = FALSE /\ t.end = r
        /\ t.send = s.receive /\ t.receive = s.send
    BY <1>6, <1>8, <1>9, <2>1 DEF ResponderSession
  <2>3. ~t.initiator /\ t.end # s.end
    BY <1>6, <1>11, <2>2
  <2> QED BY <1>6, <2>2, <2>3 DEF NoiseInv, KeysAgree
<1>13. ConfigurationAgrees'
  <2>1. Ends = {n, r}
    BY <1>11, EndsAssumption
  <2>2. /\ \A j \in Ends : knows[j].peer \in Ends
        /\ \A j, l \in Ends : knows[j].psk = knows[l].psk
    BY <1>9, <1>11, <2>1
  <2> QED BY <1>1, <2>2 DEF ConfigurationAgrees
<1>14. PICK o : o = Forgotten(h)
  OBVIOUS
<1>15. IsHandshake(o) /\ o.valid = FALSE
  BY <1>5, <1>14, ForgottenOK
<1>16. /\ hs' = [j \in Ends |-> hs'[j]] /\ hs'[n] = o
       /\ \A j \in Ends \ {n} : hs'[j] = hs[j]
  BY <1>5, <1>14 DEF NoiseInv, NoiseTypes
<1>17. NoiseTypes'
  BY <1>1, <1>15, <1>16 DEF NoiseInv, NoiseTypes
<1>18. WaitingInv'
  BY <1>1, <1>15, <1>16 DEF NoiseInv, WaitingInv, SenderChain, Ephemerals
<1>19. AnswerInv'
  <2>1. sessions \subseteq sessions'
    BY <1>6
  <2> QED BY <1>1, <2>1 DEF NoiseInv, AnswerInv, AnswerChain, ReceiverChain, Ephemerals
<1>20. SealedInv' /\ NonceZeroOnce'
  BY <1>1 DEF NoiseInv, SealedInv, NonceZeroOnce, Ephemerals
<1> QED BY <1>12, <1>13, <1>17, <1>18, <1>19, <1>20 DEF NoiseInv

(***************************************************************************)
(* Theorems about NoiseHandshake.                                          *)
(***************************************************************************)

\* Every step keeps the invariant.
LEMMA NoiseStep == NoiseInv /\ [NoiseNext]_noiseVars => NoiseInv'
<1> SUFFICES ASSUME NoiseInv, [NoiseNext]_noiseVars PROVE NoiseInv'
  OBVIOUS
<1>1. CASE NoiseNext
  BY <1>1, CreateInv, RespondInv, ProcessInv DEF NoiseNext
<1>2. CASE UNCHANGED noiseVars
  BY <1>2 DEF noiseVars, NoiseInv, NoiseTypes, WaitingInv, SenderChain, AnswerInv, AnswerChain,
              ReceiverChain, Ephemerals, SealedInv, KeysAgree, ConfigurationAgrees, NonceZeroOnce
<1> QED BY <1>1, <1>2

\* The invariant holds in every state.
LEMMA NoiseInvariant == NoiseSpec => []NoiseInv
BY NoiseInitInv, NoiseStep, PTL DEF NoiseSpec

\* Whatever messages are kept, copied and reordered, and whoever initiates, an
\* initiator's session has the responder's across from it, with the same keys
\* (wireguard_start_session).
THEOREM SessionKeysAgree == NoiseSpec => []KeysAgree
BY NoiseInvariant, PTL DEF NoiseInv

\* An initiator gets a session only with the device it was configured for, which
\* was configured for it and with the same preshared key.
THEOREM SessionsNeedConfiguration == NoiseSpec => []ConfigurationAgrees
BY NoiseInvariant, PTL DEF NoiseInv

\* Although wireguard.c seals every handshake text with the nonce 0, no key seals
\* two texts.
THEOREM HandshakeNonceOnce == NoiseSpec => []NonceZeroOnce
BY NoiseInvariant, PTL DEF NoiseInv

(***************************************************************************)
(* The inductive invariants of CookieExchange.                             *)
(***************************************************************************)

Ages       == 0 .. CookieAge
RealCookie == [number : Nat \ {0}, at : Addresses]
Cookies    == RealCookie \union {None}
Hello      == [type : {"initiation", "response"}, id : Initiations, to : Devices,
               from : Addresses, mac2 : Cookies]
Reply      == [type : {"reply"}, id : Initiations, to : Devices, cookie : RealCookie]

CookieTypes ==
  /\ address \in [Devices -> Addresses]
  /\ secret \in [Devices -> [number : Nat \ {0}, age : Ages]]
  /\ cookie \in [Devices -> [value : Cookies, age : Ages]]
  /\ mac1 \in [Devices -> Initiations \union {0}]
  /\ mail \subseteq Hello \union Reply
  /\ told \in [Devices -> [Addresses -> Ages]]
  /\ blind \in BOOLEAN
  /\ took \in [Initiations -> 0 .. 2]

\* A mac1 is that of one initiation, of one device, and is gone once a cookie has
\* been taken for it.
Mac1Inv ==
  /\ \A n \in Devices : mac1[n] # 0 => mac1[n] \in Made
  /\ \A m, n \in Devices : mac1[m] = mac1[n] /\ mac1[n] # 0 => m = n
  /\ \A i \in Initiations :
       took[i] # 0 => took[i] = 1 /\ i \in Made /\ \A n \in Devices : mac1[n] # i

\* A cookie that n has made, wherever it has gone: one made from the secret that
\* n still has was told to its address not longer ago than n has the secret.
MadeBy(n, c) ==
  /\ c.number <= secret[n].number
  /\ c.number = secret[n].number => told[n][c.at] <= secret[n].age

\* Every cookie on its way to n, or held by n's peer for n, was made by n.
MadeInv ==
  /\ \A msg \in mail : msg.type # "reply" => MadeBy(msg.to, msg.mac2)
  /\ \A msg \in mail : msg.type = "reply" => MadeBy(To(msg.to), msg.cookie)
  /\ \A n \in Devices : MadeBy(To(n), cookie[n].value)

CookieInv == CookieTypes /\ Mac1Inv /\ MadeInv

(***************************************************************************)
(* The operators.                                                          *)
(***************************************************************************)

\* The other device's other device is the device.
LEMMA Two ==
  ASSUME NEW n \in Devices
  PROVE  To(n) \in Devices /\ To(n) # n /\ To(To(n)) = n
BY DevicesAssumption DEF To

\* No cookie is not a cookie.
LEMMA NoneIsNoCookie == None \notin RealCookie /\ None.number = 0 /\ None \in Cookies
BY DEF None, RealCookie, Cookies

\* A new secret has the next number and is young.
LEMMA RenewedType ==
  ASSUME NEW s \in [number : Nat \ {0}, age : Ages]
  PROVE  /\ Renewed(s) \in [number : Nat \ {0}, age : Ages]
         /\ Renewed(s).age < CookieAge
         /\ \/ Renewed(s) = s
            \/ s.age = CookieAge /\ Renewed(s).number = s.number + 1 /\ Renewed(s).age = 0
BY CookieAssumption DEF Renewed, Ages

\* What a check leaves of the secrets.
LEMMA CheckedType ==
  ASSUME CookieTypes, NEW n \in Devices, NEW msg, NEW load \in BOOLEAN, Checked(n, msg, load)
  PROVE  /\ secret' \in [Devices -> [number : Nat \ {0}, age : Ages]]
         /\ \A m \in Devices : secret'[m] \in {secret[m], Renewed(secret[m])}
         /\ blind' \in BOOLEAN
<1> secret[n] \in [number : Nat \ {0}, age : Ages]
  BY DEF CookieTypes
<1>1. secret' = IF load THEN [secret EXCEPT ![n] = Renewed(secret[n])] ELSE secret
  BY DEF Checked
<1>2. Renewed(secret[n]) \in [number : Nat \ {0}, age : Ages]
  BY RenewedType
<1>3. blind' \in BOOLEAN
  BY DEF Checked, CookieTypes
<1> QED BY <1>1, <1>2, <1>3 DEF CookieTypes

\* The cookie of an address is one.
LEMMA PeerCookieType ==
  ASSUME CookieTypes, NEW n \in Devices, NEW a \in Addresses
  PROVE  PeerCookie(n, a) \in RealCookie
BY RenewedType DEF PeerCookie, RealCookie, CookieTypes

\* What a new message carries is a cookie or none.
LEMMA Mac2Type ==
  ASSUME CookieTypes, NEW n \in Devices
  PROVE  Mac2(n) \in Cookies /\ Mac2(n) \in {None, cookie[n].value}
BY NoneIsNoCookie DEF Mac2, CookieTypes

\* Messages have the fields of their kind.
LEMMA MessageType ==
  ASSUME CookieTypes, NEW msg \in mail
  PROVE  /\ msg.id \in Initiations /\ msg.to \in Devices
         /\ msg.type # "reply" => msg.from \in Addresses /\ msg.mac2 \in Cookies
         /\ msg.type = "reply" => msg.cookie \in RealCookie
<1>1. CASE msg \in Hello
  BY <1>1 DEF Hello
<1>2. CASE msg \in Reply
  BY <1>2 DEF Reply
<1> QED BY <1>1, <1>2 DEF CookieTypes

(***************************************************************************)
(* Type correctness.                                                       *)
(***************************************************************************)

\* The messages the devices make.
Initiation(n, i) ==
  [type |-> "initiation", id |-> i, to |-> To(n), from |-> address[n], mac2 |-> Mac2(n)]
Response(n, i) ==
  [type |-> "response", id |-> i, to |-> To(n), from |-> address[n], mac2 |-> Mac2(n)]
Refusal(n, i, a) ==
  [type |-> "reply", id |-> i, to |-> To(n), cookie |-> PeerCookie(n, a)]

\* Each is a message.
LEMMA NewMessageType ==
  ASSUME CookieTypes, NEW n \in Devices, NEW i \in Initiations, NEW a \in Addresses
  PROVE  /\ Initiation(n, i) \in Hello /\ Response(n, i) \in Hello
         /\ Refusal(n, i, a) \in Reply
<1> /\ To(n) \in Devices /\ address[n] \in Addresses /\ Mac2(n) \in Cookies
    /\ PeerCookie(n, a) \in RealCookie
  BY Two, Mac2Type, PeerCookieType DEF CookieTypes
<1>1. Initiation(n, i) \in Hello /\ Response(n, i) \in Hello
  BY DEF Initiation, Response, Hello
<1>2. Refusal(n, i, a) \in Reply
  BY DEF Refusal, Reply
<1> QED BY <1>1, <1>2

\* Time makes every age one more, up to CookieAge.
Up(age) == IF age < CookieAge THEN age + 1 ELSE age

\* An age stays one.
LEMMA UpType ==
  /\ \A age \in Ages : Up(age) \in Ages
  /\ \A a, b \in Ages : a <= b => Up(a) <= Up(b)
BY CookieAssumption DEF Up, Ages

\* What each variable is when time has passed.
LEMMA TimeType ==
  ASSUME CookieTypes, CookieTime
  PROVE  /\ secret' \in [Devices -> [number : Nat \ {0}, age : Ages]]
         /\ cookie' \in [Devices -> [value : Cookies, age : Ages]]
         /\ told' \in [Devices -> [Addresses -> Ages]]
         /\ \A n \in Devices : /\ secret'[n].number = secret[n].number
                               /\ secret'[n].age = Up(secret[n].age)
                               /\ cookie'[n].value = cookie[n].value
                               /\ \A a \in Addresses : told'[n][a] = Up(told[n][a])
<1>1. /\ secret' = [n \in Devices |-> [secret[n] EXCEPT !.age = Up(@)]]
      /\ cookie' = [n \in Devices |-> [cookie[n] EXCEPT !.age = Up(@)]]
      /\ told' = [n \in Devices |-> [a \in Addresses |-> Up(told[n][a])]]
  BY DEF CookieTime, Up
<1>2. ASSUME NEW n \in Devices
      PROVE  /\ [secret[n] EXCEPT !.age = Up(@)] \in [number : Nat \ {0}, age : Ages]
             /\ [cookie[n] EXCEPT !.age = Up(@)] \in [value : Cookies, age : Ages]
             /\ [a \in Addresses |-> Up(told[n][a])] \in [Addresses -> Ages]
  BY UpType DEF CookieTypes
<1> QED BY <1>1, <1>2 DEF CookieTypes

\* Every step keeps the types.
LEMMA CookieTypesStep ==
  ASSUME CookieTypes, Mac1Inv, [CookieNext]_cookieVars
  PROVE  CookieTypes'
<1> USE DEF CookieTypes
<1>1. ASSUME CookieTime  PROVE CookieTypes'
  BY <1>1, TimeType DEF CookieTime
<1>2. ASSUME NEW n \in Devices, SendInitiation(n)  PROVE CookieTypes'
  <2>1. PICK i \in Initiations : mail' = mail \union {Initiation(n, i)} /\ mac1' = [mac1 EXCEPT ![n] = i]
    BY <1>2 DEF SendInitiation, Initiation
  <2>2. mail' \subseteq Hello \union Reply
    BY <2>1, CookieAssumption, NewMessageType
  <2> QED BY <1>2, <2>1, <2>2 DEF SendInitiation
<1>3. ASSUME NEW n \in Devices, Roams(n)  PROVE CookieTypes'
  BY <1>3 DEF Roams
<1>4. ASSUME NEW n \in Devices, NEW msg \in mail, RefuseInitiation(n, msg)  PROVE CookieTypes'
  <2>1. msg.id \in Initiations /\ msg.from \in Addresses
    BY <1>4, MessageType DEF RefuseInitiation
  <2>2. mail' \subseteq Hello \union Reply
    <3>1. mail' = mail \union {Refusal(n, msg.id, msg.from)}
      BY <1>4 DEF RefuseInitiation, Refusal
    <3> QED BY <2>1, <3>1, NewMessageType
  <2>3. told' \in [Devices -> [Addresses -> Ages]]
    BY <1>4, <2>1, CookieAssumption DEF RefuseInitiation, Ages
  <2> QED BY <1>4, <2>2, <2>3, CheckedType DEF RefuseInitiation
<1>5. ASSUME NEW n \in Devices, NEW msg \in mail, TakeCookie(n, msg)  PROVE CookieTypes'
  <2>1. msg.id \in Initiations /\ msg.cookie \in Cookies
    BY <1>5, MessageType DEF TakeCookie, Cookies
  <2>2. [value |-> msg.cookie, age |-> 0] \in [value : Cookies, age : Ages]
    BY <2>1, CookieAssumption DEF Ages
  <2>3. took' \in [Initiations -> 0 .. 2]
    <3> DEFINE count == IF took[msg.id] < 2 THEN took[msg.id] + 1 ELSE took[msg.id]
    <3>1. count \in 0 .. 2
      BY <2>1
    <3>2. took' = [took EXCEPT ![msg.id] = count]
      BY <1>5 DEF TakeCookie
    <3> HIDE DEF count
    <3> QED BY <3>1, <3>2
  <2> QED BY <1>5, <2>2, <2>3 DEF TakeCookie
<1>6. ASSUME NEW n \in Devices, NEW msg \in mail, NEW load \in BOOLEAN, AcceptInitiation(n, msg, load)
      PROVE  CookieTypes'
  <2>1. msg.id \in Initiations
    BY MessageType
  <2>2. mail' \subseteq Hello \union Reply
    <3>1. mail' = mail \/ mail' = mail \union {Response(n, msg.id)}
      BY <1>6 DEF AcceptInitiation, Response
    <3> QED BY <2>1, <3>1, CookieAssumption, NewMessageType
  <2> QED BY <1>6, <2>2, CheckedType DEF AcceptInitiation
<1>7. ASSUME NEW n \in Devices, NEW msg \in mail, NEW load \in BOOLEAN, ReceiveResponse(n, msg, load)
      PROVE  CookieTypes'
  <2>1. msg.from \in Addresses
    BY <1>7, MessageType DEF ReceiveResponse
  <2>2. told' \in [Devices -> [Addresses -> Ages]]
    BY <1>7, <2>1, CookieAssumption DEF ReceiveResponse, Ages
  <2> QED BY <1>7, <2>2, CheckedType DEF ReceiveResponse
<1>8. CASE UNCHANGED cookieVars
  BY <1>8 DEF cookieVars
<1> QED BY <1>1, <1>2, <1>3, <1>4, <1>5, <1>6, <1>7, <1>8 DEF CookieNext

(***************************************************************************)
(* One cookie for an initiation.                                           *)
(***************************************************************************)

\* No message is ever lost, so an initiation that was made stays made.
LEMMA MadeStays ==
  ASSUME [CookieNext]_cookieVars
  PROVE  mail \subseteq mail' /\ Made \subseteq Made'
<1>1. ASSUME NEW n \in Devices, SendInitiation(n) \/ Roams(n)  PROVE mail \subseteq mail'
  BY <1>1 DEF SendInitiation, Roams
<1>2. ASSUME NEW n \in Devices, NEW msg \in mail, RefuseInitiation(n, msg) \/ TakeCookie(n, msg)
      PROVE  mail \subseteq mail'
  BY <1>2 DEF RefuseInitiation, TakeCookie
<1>3. ASSUME NEW n \in Devices, NEW msg \in mail, NEW load \in BOOLEAN,
             AcceptInitiation(n, msg, load) \/ ReceiveResponse(n, msg, load)
      PROVE  mail \subseteq mail'
  BY <1>3 DEF AcceptInitiation, ReceiveResponse
<1>4. ASSUME CookieTime \/ UNCHANGED cookieVars  PROVE mail \subseteq mail'
  BY <1>4 DEF CookieTime, cookieVars
<1>5. mail \subseteq mail'
  BY <1>1, <1>2, <1>3, <1>4 DEF CookieNext
<1> QED BY <1>5 DEF Made

\* A mac1 is made for a new initiation, which no cookie was taken for, and goes
\* with the cookie that is.
LEMMA Mac1Step ==
  ASSUME CookieTypes, Mac1Inv, [CookieNext]_cookieVars
  PROVE  Mac1Inv'
<1> USE DEF CookieTypes
<1>1. ASSUME UNCHANGED <<mac1, took>>  PROVE Mac1Inv'
  BY <1>1, MadeStays DEF Mac1Inv
<1>2. ASSUME NEW n \in Devices, SendInitiation(n)  PROVE Mac1Inv'
  <2>1. PICK i \in Initiations \ Made :
          mail' = mail \union {Initiation(n, i)} /\ mac1' = [mac1 EXCEPT ![n] = i]
    BY <1>2 DEF SendInitiation, Initiation
  <2>2. took' = took
    BY <1>2 DEF SendInitiation
  <2>3. i \in Made'
    <3>1. Initiation(n, i) \in mail' /\ Initiation(n, i).type = "initiation" /\ Initiation(n, i).id = i
      BY <2>1 DEF Initiation
    <3> QED BY <2>1, <3>1 DEF Made
  <2>4. mac1'[n] = i /\ \A m \in Devices \ {n} : mac1'[m] = mac1[m] /\ mac1[m] # i
    BY <2>1 DEF Mac1Inv, Initiations
  <2>5. took[i] = 0
    BY <2>1 DEF Mac1Inv
  <2>6. \A m \in Devices : mac1'[m] # 0 => mac1'[m] \in Made'
    BY <2>3, <2>4, MadeStays DEF Mac1Inv
  <2>7. \A m, k \in Devices : mac1'[m] = mac1'[k] /\ mac1'[k] # 0 => m = k
    BY <2>4 DEF Mac1Inv
  <2>8. ASSUME NEW j \in Initiations, took'[j] # 0
        PROVE  took'[j] = 1 /\ j \in Made' /\ \A m \in Devices : mac1'[m] # j
    <3>1. took[j] = 1 /\ j \in Made /\ \A m \in Devices : mac1[m] # j
      BY <2>2, <2>8 DEF Mac1Inv
    <3> QED BY <2>1, <2>2, <2>4, <3>1, MadeStays
  <2> QED BY <2>6, <2>7, <2>8 DEF Mac1Inv
<1>3. ASSUME NEW n \in Devices, NEW msg \in mail, TakeCookie(n, msg)  PROVE Mac1Inv'
  <2> DEFINE i == msg.id
  <2>1. i \in Initiations /\ mac1[n] = i /\ i # 0
    BY <1>3, MessageType DEF TakeCookie, Initiations
  <2>2. took[i] = 0
    BY <2>1 DEF Mac1Inv
  <2>3. took' = [took EXCEPT ![i] = 1]
    BY <1>3, <2>1, <2>2 DEF TakeCookie
  <2>4. mac1' = [mac1 EXCEPT ![n] = 0]
    BY <1>3 DEF TakeCookie
  <2>5. i \in Made
    BY <2>1 DEF Mac1Inv
  <2> HIDE DEF i
  <2>6. \A m \in Devices : mac1'[m] # 0 => mac1'[m] \in Made'
    BY <2>4, MadeStays DEF Mac1Inv
  <2>7. \A m, k \in Devices : mac1'[m] = mac1'[k] /\ mac1'[k] # 0 => m = k
    BY <2>4 DEF Mac1Inv
  <2>8. \A m \in Devices : mac1'[m] # i
    BY <2>1, <2>4 DEF Mac1Inv
  <2>9. ASSUME NEW j \in Initiations, took'[j] # 0
        PROVE  took'[j] = 1 /\ j \in Made' /\ \A m \in Devices : mac1'[m] # j
    <3>1. CASE j = i
      BY <2>1, <2>3, <2>5, <2>8, <3>1, MadeStays
    <3>2. CASE j # i
      <4>1. took'[j] = took[j]
        BY <2>3, <3>2
      <4>2. took[j] = 1 /\ j \in Made /\ \A m \in Devices : mac1[m] # j
        BY <2>9, <4>1 DEF Mac1Inv
      <4> QED BY <2>4, <4>1, <4>2, MadeStays DEF Initiations
    <3> QED BY <3>1, <3>2
  <2> QED BY <2>6, <2>7, <2>9 DEF Mac1Inv
<1>4. CASE CookieTime \/ (\E n \in Devices : Roams(n)) \/ UNCHANGED cookieVars
  BY <1>1, <1>4 DEF CookieTime, Roams, cookieVars
<1>5. ASSUME NEW n \in Devices, NEW msg \in mail, NEW load \in BOOLEAN,
             \/ RefuseInitiation(n, msg) \/ AcceptInitiation(n, msg, load)
             \/ ReceiveResponse(n, msg, load)
      PROVE  Mac1Inv'
  BY <1>1, <1>5 DEF RefuseInitiation, AcceptInitiation, ReceiveResponse
<1> QED BY <1>2, <1>3, <1>4, <1>5 DEF CookieNext

(***************************************************************************)
(* Only reachable senders.                                                 *)
(***************************************************************************)

\* A cookie that n has made stays one as time passes,
LEMMA TimeKeepsMade ==
  ASSUME CookieTypes, CookieTime, NEW n \in Devices, NEW c \in Cookies, MadeBy(n, c)
  PROVE  MadeBy(n, c)'
<1>1. CASE c = None
  BY <1>1, TimeType, NoneIsNoCookie DEF MadeBy, CookieTypes
<1>2. CASE c \in RealCookie
  BY <1>2, TimeType, UpType DEF MadeBy, RealCookie, CookieTypes
<1> QED BY <1>1, <1>2 DEF Cookies

\* and whenever n makes a new secret or sends a cookie.
LEMMA CheckKeepsMade ==
  ASSUME CookieTypes, NEW n \in Devices, NEW c \in Cookies, MadeBy(n, c),
         secret'[n] \in {secret[n], Renewed(secret[n])},
         \A a \in Addresses : told'[n][a] \in {told[n][a], 0}
  PROVE  MadeBy(n, c)'
<1>1. secret[n] \in [number : Nat \ {0}, age : Ages]
  BY DEF CookieTypes
<1>2. CASE c = None
  BY <1>1, <1>2, RenewedType, NoneIsNoCookie DEF MadeBy
<1>3. CASE c \in RealCookie
  <2>1. c.number \in Nat /\ c.at \in Addresses /\ told[n][c.at] \in Ages
    BY <1>3 DEF RealCookie, CookieTypes
  <2>2. CASE secret'[n] = secret[n]
    BY <1>1, <2>1, <2>2 DEF MadeBy, Ages
  <2>3. CASE secret'[n] # secret[n]
    BY <1>1, <2>1, <2>3, RenewedType DEF MadeBy
  <2> QED BY <2>2, <2>3
<1> QED BY <1>2, <1>3 DEF Cookies

\* Every step keeps the cookies that were made.
LEMMA StepKeepsMade ==
  ASSUME CookieTypes, [CookieNext]_cookieVars, NEW n \in Devices, NEW c \in Cookies, MadeBy(n, c)
  PROVE  MadeBy(n, c)'
<1>1. CASE CookieTime
  BY <1>1, TimeKeepsMade
<1>2. ASSUME NEW m \in Devices, SendInitiation(m) \/ Roams(m)  PROVE MadeBy(n, c)'
  BY <1>2 DEF SendInitiation, Roams, MadeBy
<1>3. ASSUME NEW m \in Devices, NEW msg \in mail, TakeCookie(m, msg)  PROVE MadeBy(n, c)'
  BY <1>3 DEF TakeCookie, MadeBy
<1>4. ASSUME NEW m \in Devices, NEW msg \in mail, RefuseInitiation(m, msg)  PROVE MadeBy(n, c)'
  <2>1. \A a \in Addresses : told'[n][a] \in {told[n][a], 0}
    BY <1>4 DEF RefuseInitiation, CookieTypes
  <2> QED BY <1>4, <2>1, CheckedType, CheckKeepsMade DEF RefuseInitiation
<1>5. ASSUME NEW m \in Devices, NEW msg \in mail, NEW load \in BOOLEAN, AcceptInitiation(m, msg, load)
      PROVE  MadeBy(n, c)'
  <2>1. \A a \in Addresses : told'[n][a] \in {told[n][a], 0}
    BY <1>5 DEF AcceptInitiation
  <2> QED BY <1>5, <2>1, CheckedType, CheckKeepsMade DEF AcceptInitiation
<1>6. ASSUME NEW m \in Devices, NEW msg \in mail, NEW load \in BOOLEAN, ReceiveResponse(m, msg, load)
      PROVE  MadeBy(n, c)'
  <2>1. \A a \in Addresses : told'[n][a] \in {told[n][a], 0}
    BY <1>6 DEF ReceiveResponse, CookieTypes
  <2> QED BY <1>6, <2>1, CheckedType, CheckKeepsMade DEF ReceiveResponse
<1>7. CASE UNCHANGED cookieVars
  BY <1>7 DEF cookieVars, MadeBy
<1> QED BY <1>1, <1>2, <1>3, <1>4, <1>5, <1>6, <1>7 DEF CookieNext

\* What n's own messages carry was made by its peer.
LEMMA Mac2Made ==
  ASSUME CookieTypes, MadeInv, NEW n \in Devices
  PROVE  MadeBy(To(n), Mac2(n))
<1>1. CASE Mac2(n) = None
  BY <1>1, Two, NoneIsNoCookie DEF MadeBy, CookieTypes
<1>2. CASE Mac2(n) = cookie[n].value
  BY <1>2 DEF MadeInv
<1> QED BY <1>1, <1>2, Mac2Type

\* Every step only passes on cookies that were made.
LEMMA MadeStep ==
  ASSUME CookieTypes, MadeInv, [CookieNext]_cookieVars
  PROVE  MadeInv'
<1>1. \A msg \in mail : /\ msg.type # "reply" => MadeBy(msg.to, msg.mac2)'
                        /\ msg.type = "reply" => MadeBy(To(msg.to), msg.cookie)'
  BY MessageType, StepKeepsMade, Two DEF MadeInv, Cookies
<1> DEFINE MailMade == \A msg \in mail : /\ msg.type # "reply" => MadeBy(msg.to, msg.mac2)
                                         /\ msg.type = "reply" => MadeBy(To(msg.to), msg.cookie)
           HeldMade == \A n \in Devices : MadeBy(To(n), cookie[n].value)
<1>2. ASSUME UNCHANGED mail  PROVE MailMade'
  BY <1>1, <1>2
<1>3. ASSUME NEW new, mail' = mail \union {new},
             /\ new.type # "reply" => MadeBy(new.to, new.mac2)'
             /\ new.type = "reply" => MadeBy(To(new.to), new.cookie)'
      PROVE  MailMade'
  BY <1>1, <1>3
<1>4. ASSUME NEW n \in Devices, NEW c \in Cookies, MadeBy(To(n), c), cookie'[n].value = c
      PROVE  MadeBy(To(n), cookie[n].value)'
  <2>1. MadeBy(To(n), c)'
    BY <1>4, StepKeepsMade, Two
  <2> QED BY <1>4, <2>1 DEF MadeBy
<1>5. ASSUME \A n \in Devices : cookie'[n].value = cookie[n].value  PROVE HeldMade'
  <2> SUFFICES ASSUME NEW n \in Devices  PROVE MadeBy(To(n), cookie[n].value)'
    OBVIOUS
  <2>1. PICK c \in Cookies : c = cookie[n].value
    BY DEF CookieTypes
  <2>2. MadeBy(To(n), c)
    BY <2>1 DEF MadeInv
  <2> QED BY <1>4, <1>5, <2>1, <2>2
<1>6. ASSUME NEW n \in Devices, NEW new, mail' = mail \union {new}, UNCHANGED cookie,
             new.type \in {"initiation", "response"}, new.to = To(n), new.mac2 = Mac2(n)
      PROVE  MailMade' /\ HeldMade'
  <2>1. PICK c \in Cookies : c = new.mac2
    BY <1>6, Mac2Type
  <2>2. MadeBy(new.to, c)
    BY <1>6, <2>1, Mac2Made
  <2>3. MadeBy(new.to, c)'
    BY <1>6, <2>2, StepKeepsMade, Two
  <2>4. MadeBy(new.to, new.mac2)'
    BY <2>1, <2>3
  <2> QED BY <1>3, <1>5, <1>6, <2>4
<1>a. SUFFICES MailMade' /\ HeldMade'
  BY DEF MadeInv
<1>7. ASSUME CookieTime  PROVE MailMade' /\ HeldMade'
  BY <1>2, <1>5, <1>7, TimeType DEF CookieTime
<1>8. ASSUME NEW n \in Devices, SendInitiation(n)  PROVE MailMade' /\ HeldMade'
  <2>1. PICK i \in Initiations : mail' = mail \union {Initiation(n, i)}
    BY <1>8 DEF SendInitiation, Initiation
  <2> QED BY <1>6, <1>8, <2>1 DEF SendInitiation, Initiation
<1>9. ASSUME NEW n \in Devices, NEW msg \in mail, RefuseInitiation(n, msg)
      PROVE  MailMade' /\ HeldMade'
  <2>0. PICK r, c : r = Refusal(n, msg.id, msg.from) /\ c = PeerCookie(n, msg.from)
    OBVIOUS
  <2>1. msg.from \in Addresses
    BY <1>9, MessageType DEF RefuseInitiation
  <2>2. mail' = mail \union {r} /\ UNCHANGED cookie
    BY <1>9, <2>0 DEF RefuseInitiation, Refusal
  <2>3. r.type = "reply" /\ r.to = To(n) /\ r.cookie = c
    BY <2>0 DEF Refusal
  <2>4. secret'[n] = Renewed(secret[n]) /\ told'[n][msg.from] = 0
    BY <1>9, <2>1 DEF RefuseInitiation, Checked, CookieTypes
  <2>5. Renewed(secret[n]).number \in Nat /\ Renewed(secret[n]).age \in Nat
    BY RenewedType DEF CookieTypes, Ages
  <2>6. c.number = Renewed(secret[n]).number /\ c.at = msg.from
    BY <2>0 DEF PeerCookie
  <2>7. To(r.to) = n
    BY <2>3, Two
  <2>8. MadeBy(To(r.to), r.cookie)'
    BY <2>3, <2>4, <2>5, <2>6, <2>7 DEF MadeBy
  <2> QED BY <1>3, <1>5, <2>2, <2>3, <2>8
<1>10. ASSUME NEW n \in Devices, NEW msg \in mail, TakeCookie(n, msg)
       PROVE  MailMade' /\ HeldMade'
  <2>1. msg.type = "reply" /\ msg.to = n /\ msg.cookie \in Cookies
    BY <1>10, MessageType DEF TakeCookie, Cookies
  <2>2. MadeBy(To(n), msg.cookie)
    BY <2>1 DEF MadeInv
  <2>3. cookie' = [cookie EXCEPT ![n] = [value |-> msg.cookie, age |-> 0]] /\ UNCHANGED mail
    BY <1>10 DEF TakeCookie
  <2>4. cookie'[n].value = msg.cookie /\ \A m \in Devices \ {n} : cookie'[m].value = cookie[m].value
    BY <2>3 DEF CookieTypes
  <2>5. \A m \in Devices : cookie[m].value \in Cookies /\ MadeBy(To(m), cookie[m].value)
    BY DEF CookieTypes, MadeInv
  <2>6. ASSUME NEW m \in Devices  PROVE MadeBy(To(m), cookie[m].value)'
    <3>1. CASE m = n
      BY <1>4, <2>1, <2>2, <2>4, <3>1
    <3>2. CASE m # n
      <4>1. PICK c \in Cookies : c = cookie[m].value
        BY <2>5
      <4>2. MadeBy(To(m), c) /\ cookie'[m].value = c
        BY <2>4, <2>5, <3>2, <4>1
      <4> QED BY <1>4, <4>2
    <3> QED BY <3>1, <3>2
  <2> QED BY <1>2, <2>3, <2>6
<1>11. ASSUME NEW n \in Devices, NEW msg \in mail, NEW load \in BOOLEAN, AcceptInitiation(n, msg, load)
       PROVE  MailMade' /\ HeldMade'
  <2>1. CASE UNCHANGED mail
    BY <1>2, <1>5, <1>11, <2>1 DEF AcceptInitiation
  <2>2. CASE mail' = mail \union {Response(n, msg.id)}
    BY <1>6, <1>11, <2>2 DEF AcceptInitiation, Response
  <2> QED BY <1>11, <2>1, <2>2 DEF AcceptInitiation, Response
<1>12. ASSUME UNCHANGED <<mail, cookie>>  PROVE MailMade' /\ HeldMade'
  BY <1>2, <1>5, <1>12
<1>13. ASSUME NEW n \in Devices, NEW msg \in mail, NEW load \in BOOLEAN, ReceiveResponse(n, msg, load)
       PROVE  MailMade' /\ HeldMade'
  BY <1>12, <1>13 DEF ReceiveResponse
<1>14. ASSUME NEW n \in Devices, Roams(n)  PROVE MailMade' /\ HeldMade'
  BY <1>12, <1>14 DEF Roams
<1>15. CASE UNCHANGED cookieVars
  BY <1>12, <1>15 DEF cookieVars
<1> HIDE DEF MailMade, HeldMade
<1> QED BY <1>7, <1>8, <1>9, <1>10, <1>11, <1>13, <1>14, <1>15 DEF CookieNext

\* A message with a cookie that passes under load comes from an address that was
\* told the cookie: one made from a secret that has expired does not pass.
LEMMA CheckServes ==
  ASSUME CookieTypes, MadeInv, ServesReachable,
         NEW n \in Devices, NEW msg \in mail, NEW load \in BOOLEAN,
         msg.type # "reply", msg.to = n, Checked(n, msg, load)
  PROVE  ServesReachable'
<1> DEFINE a == msg.from
<1>1. a \in Addresses /\ msg.mac2 \in Cookies /\ MadeBy(n, msg.mac2)
  BY MessageType DEF MadeInv
<1>2. ASSUME load, Passes(n, msg, load)  PROVE told[n][a] < CookieAge
  <2>1. msg.mac2.number = Renewed(secret[n]).number /\ msg.mac2.at = a
    BY <1>2 DEF Passes, PeerCookie
  <2>2. secret[n].number \in Nat /\ secret[n].age \in Nat
    BY DEF CookieTypes, Ages
  <2>3. msg.mac2.number <= secret[n].number
    BY <1>1 DEF MadeBy
  <2>4. Renewed(secret[n]) = secret[n] /\ secret[n].age < CookieAge
    BY <2>1, <2>2, <2>3, RenewedType DEF CookieTypes
  <2>5. told[n][a] <= secret[n].age
    BY <1>1, <2>1, <2>4 DEF MadeBy
  <2> QED BY <1>1, <2>2, <2>4, <2>5, CookieAssumption DEF CookieTypes, Ages
<1>3. ~(told[n][a] >= CookieAge) \/ ~load \/ ~Passes(n, msg, load)
  BY <1>1, <1>2, CookieAssumption DEF CookieTypes, Ages
<1> QED BY <1>3 DEF Checked, ServesReachable

(***************************************************************************)
(* The theorems.                                                           *)
(***************************************************************************)

\* The invariant holds at first.
LEMMA CookieInitInv == CookieInit => CookieInv
<1> SUFFICES ASSUME CookieInit  PROVE CookieInv
  OBVIOUS
<1>1. CookieTypes
  <2>1. (CHOOSE a \in Addresses : TRUE) \in Addresses /\ {0, CookieAge} \subseteq Ages
    BY CookieAssumption DEF Ages
  <2>2. /\ [number |-> 1, age |-> 0] \in [number : Nat \ {0}, age : Ages]
        /\ [value |-> None, age |-> CookieAge] \in [value : Cookies, age : Ages]
    BY <2>1, NoneIsNoCookie
  <2>3. address \in [Devices -> Addresses] /\ told \in [Devices -> [Addresses -> Ages]]
    BY <2>1 DEF CookieInit
  <2>4. /\ secret \in [Devices -> [number : Nat \ {0}, age : Ages]]
        /\ cookie \in [Devices -> [value : Cookies, age : Ages]]
    BY <2>2 DEF CookieInit
  <2>5. mac1 \in [Devices -> Initiations \union {0}] /\ took \in [Initiations -> 0 .. 2]
    BY DEF CookieInit
  <2> QED BY <2>3, <2>4, <2>5 DEF CookieInit, CookieTypes
<1>2. Mac1Inv
  BY DEF CookieInit, Mac1Inv
<1>3. MadeInv
  BY Two, NoneIsNoCookie DEF CookieInit, MadeInv, MadeBy
<1> QED BY <1>1, <1>2, <1>3 DEF CookieInv

\* And always.
LEMMA CookieInvariant == CookieSpec => []CookieInv
<1>1. CookieInv /\ [CookieNext]_cookieVars => CookieInv'
  BY CookieTypesStep, Mac1Step, MadeStep DEF CookieInv
<1> QED BY <1>1, CookieInitInv, PTL DEF CookieSpec

\* However often a reply is copied and however late it comes, an initiation
\* brings its sender one cookie at most.
THEOREM OneCookieEach == CookieSpec => []CookieTakenOnce
<1>1. CookieInv => CookieTakenOnce
  BY DEF CookieInv, CookieTypes, Mac1Inv, CookieTakenOnce
<1> QED BY <1>1, CookieInvariant, PTL

\* Under load a device only serves senders at addresses it has sent a cookie to
\* within the lifetime of a secret, through all renewals of secrets, copies of
\* messages and changes of address.
THEOREM OnlyReachableServed == CookieSpec => []ServesReachable
<1>1. CookieInit => ServesReachable
  BY DEF CookieInit, ServesReachable
<1>2. CookieInv /\ ServesReachable /\ [CookieNext]_cookieVars => ServesReachable'
  <2> SUFFICES ASSUME CookieTypes, MadeInv, ServesReachable, [CookieNext]_cookieVars
               PROVE  ServesReachable'
    BY DEF CookieInv
  <2>1. ASSUME UNCHANGED blind  PROVE ServesReachable'
    BY <2>1 DEF ServesReachable
  <2>2. ASSUME NEW n \in Devices, NEW msg \in mail, TakeCookie(n, msg)  PROVE ServesReachable'
    BY <2>1, <2>2 DEF TakeCookie
  <2>3. ASSUME NEW n \in Devices, NEW msg \in mail, RefuseInitiation(n, msg)  PROVE ServesReachable'
    BY <2>3, CheckServes DEF RefuseInitiation
  <2>4. ASSUME NEW n \in Devices, NEW msg \in mail, NEW load \in BOOLEAN,
               AcceptInitiation(n, msg, load) \/ ReceiveResponse(n, msg, load)
        PROVE  ServesReachable'
    BY <2>4, CheckServes DEF AcceptInitiation, ReceiveResponse
  <2>5. CASE CookieTime \/ (\E n \in Devices : SendInitiation(n) \/ Roams(n)) \/ UNCHANGED cookieVars
    BY <2>1, <2>5 DEF CookieTime, SendInitiation, Roams, cookieVars
  <2> QED BY <2>2, <2>3, <2>4, <2>5 DEF CookieNext
<1> QED BY <1>1, <1>2, CookieInvariant, PTL DEF CookieSpec
=============================================================================
