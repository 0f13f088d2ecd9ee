---------------------------- MODULE TransmitCounter ----------------------------
(***************************************************************************)
(* wg_encrypt_packet (wireguardif_harmony.cpp) on the two threads that     *)
(* call it, TunToUdpThread and TimerThread, over the one keypair in        *)
(* curr_keypair, which no lock protects.                                   *)
(*                                                                         *)
(* A packet is numbered in four steps: its header takes the index and the  *)
(* counter, the cipher takes the key and the counter again as its nonce,   *)
(* and the increment loads and stores it.  The UDP thread may meanwhile    *)
(* copy the keypair of a new session over curr_keypair, member by member:  *)
(* add_new_keypair assigns the structure, and a reader may find any of its *)
(* members replaced already.  A member is taken to be copied at once.      *)
(*                                                                         *)
(* An index and a key are named by the number of their session.            *)
(***************************************************************************)
EXTENDS Integers, FiniteSets

CONSTANTS
  MaxPackets,     (* IP packets encrypted.  Bounds the model.               *)
  MaxKeepalives,  (* Keepalives encrypted.  Bounds the model.               *)
  MaxSessions     (* Sessions installed.  Bounds the model.                 *)

ASSUME BoundAssumption ==
  MaxPackets \in Nat \ {0} /\ MaxKeepalives \in Nat /\ MaxSessions \in Nat \ {0}

VARIABLES
  keypair,  (* curr_keypair: remote_index, sending_key, sending_counter     *)
  session,  (* the session being installed, or installed                    *)
  tocopy,   (* the members of it that curr_keypair does not have yet        *)
  pc,       (* where each thread is in wg_encrypt_packet                    *)
  header,   (* the index and counter each thread wrote in its header        *)
  loaded,   (* what its increment has read                                  *)
  begun,    (* history: packets each thread has begun                       *)
  uses,     (* history: how often each nonce was used with each key         *)
  spoiled,  (* history: packets encrypted with a key or nonce that is not   *)
            (* the one their header names, which the server cannot open     *)
  torn      (* history: packets whose header or nonce was taken in the      *)
            (* middle of a copy                                             *)

counterVars == <<keypair, session, tocopy, pc, header, loaded, begun, uses, spoiled, torn>>

Threads  == {"tun", "timer"}
Budget   == [t \in Threads |-> IF t = "tun" THEN MaxPackets ELSE MaxKeepalives]
Sessions == 1 .. MaxSessions
Counters == 0 .. MaxPackets + MaxKeepalives
Numbers  == [session : Sessions, counter : Counters]
Members  == {"index", "key", "counter"}

\* The locals of a thread that is not in wg_encrypt_packet.
NoHeader == [session |-> 1, counter |-> 0, torn |-> FALSE]

CounterInit ==
  /\ keypair = [index |-> 1, key |-> 1, counter |-> 0]
  /\ session = 1 /\ tocopy = {}
  /\ pc = [t \in Threads |-> "idle"]
  /\ header = [t \in Threads |-> NoHeader]
  /\ loaded = [t \in Threads |-> 0]
  /\ begun = [t \in Threads |-> 0]
  /\ uses = [n \in Numbers |-> 0]
  /\ spoiled = 0 /\ torn = 0

\* Mutant: the counter is incremented for the header already.
WriteHeaderAhead(t) ==
  /\ pc[t] = "idle" /\ begun[t] < Budget[t]
  /\ header' = [header EXCEPT ![t] =
       [session |-> keypair.index, counter |-> keypair.counter + 1, torn |-> tocopy # {}]]
  /\ begun' = [begun EXCEPT ![t] = @ + 1]
  /\ pc' = [pc EXCEPT ![t] = "seal"]
  /\ UNCHANGED <<keypair, session, tocopy, loaded, uses, spoiled, torn>>

WriteHeader(t) ==
  /\ pc[t] = "idle" /\ begun[t] < Budget[t]
  /\ header' = [header EXCEPT ![t] =
       [session |-> keypair.index, counter |-> keypair.counter, torn |-> tocopy # {}]]
  /\ begun' = [begun EXCEPT ![t] = @ + 1]
  /\ pc' = [pc EXCEPT ![t] = "seal"]
  /\ UNCHANGED <<keypair, session, tocopy, loaded, uses, spoiled, torn>>

\* wireguard_aead_encrypt.
SealPacket(t) ==
  LET n == [session |-> keypair.key, counter |-> keypair.counter]
      named == n = [session |-> header[t].session, counter |-> header[t].counter]
  IN  /\ pc[t] = "seal"
      /\ uses' = [uses EXCEPT ![n] = @ + 1]
      /\ spoiled' = IF named THEN spoiled ELSE spoiled + 1
      /\ torn' = IF header[t].torn \/ tocopy # {} THEN torn + 1 ELSE torn
      /\ pc' = [pc EXCEPT ![t] = "load"]
      /\ UNCHANGED <<keypair, session, tocopy, header, loaded, begun>>

\* keypair->sending_counter++: the load, then the store.
Load(t) ==
  /\ pc[t] = "load"
  /\ loaded' = [loaded EXCEPT ![t] = keypair.counter]
  /\ pc' = [pc EXCEPT ![t] = "store"]
  /\ UNCHANGED <<keypair, session, tocopy, header, begun, uses, spoiled, torn>>

\* Mutant: each of the two functions leaves the increment to the other.
StoreSame(t) ==
  /\ pc[t] = "store"
  /\ keypair' = [keypair EXCEPT !.counter = loaded[t]]
  /\ pc' = [pc EXCEPT ![t] = "idle"]
  /\ header' = [header EXCEPT ![t] = NoHeader]
  /\ loaded' = [loaded EXCEPT ![t] = 0]
  /\ UNCHANGED <<session, tocopy, begun, uses, spoiled, torn>>

Store(t) ==
  /\ pc[t] = "store"
  /\ keypair' = [keypair EXCEPT !.counter = loaded[t] + 1]
  /\ pc' = [pc EXCEPT ![t] = "idle"]
  /\ header' = [header EXCEPT ![t] = NoHeader]
  /\ loaded' = [loaded EXCEPT ![t] = 0]
  /\ UNCHANGED <<session, tocopy, begun, uses, spoiled, torn>>

\* add_new_keypair, on UdpToTunThread, comes to peer->curr_keypair = new_keypair.
Install ==
  /\ tocopy = {} /\ session < MaxSessions
  /\ session' = session + 1
  /\ tocopy' = Members
  /\ UNCHANGED <<keypair, pc, header, loaded, begun, uses, spoiled, torn>>

CopyMember(m) ==
  /\ m \in tocopy
  /\ keypair' = [keypair EXCEPT ![m] = IF m = "counter" THEN 0 ELSE session]
  /\ tocopy' = tocopy \ {m}
  /\ UNCHANGED <<session, pc, header, loaded, begun, uses, spoiled, torn>>

EncryptStep(t) == WriteHeader(t) \/ SealPacket(t) \/ Load(t) \/ Store(t)

CounterNext ==
  \/ Install
  \/ \E m \in Members : CopyMember(m)
  \/ \E t \in Threads : EncryptStep(t)

CounterSpec == CounterInit /\ [][CounterNext]_counterVars

(***************************************************************************)
(* Properties.                                                             *)
(***************************************************************************)

\* A keepalive that overlaps other packets can set the counter back, but only
\* once, and a packet torn by the copy of a new session pairs a key with the
\* counter of another: a nonce is used once, and at most once more for each of them.
ReuseBounded == \A n \in Numbers : uses[n] <= 1 + begun["timer"] + torn

\* wireguardif_harmony.cpp:174 has the counter in a packet equal its nonce.
\* Only what comes between the two spoils a packet: a keepalive spoils at most
\* itself and one IP packet, a new session at most one more, and then those that
\* were encrypted while it was copied.
SpoiledBounded == spoiled <= 2 * begun["timer"] + session - 1 + torn
==============================================================================
