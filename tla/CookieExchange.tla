----------------------------- MODULE CookieExchange -----------------------------
(***************************************************************************)
(* The cookies of a device under load (wireguard.c and the checks of       *)
(* wireguardif.c): a handshake message is refused unless its mac2 shows a  *)
(* cookie that the device made for the address the message comes from, and *)
(* the refusal carries one.                                                *)
(*                                                                         *)
(* Two devices initiate handshakes to each other.  The network keeps every *)
(* message, so it copies, delays and reorders them.  A cookie is named by  *)
(* the secret and the address it is made from, a mac1 by the number of its *)
(* initiation; mac1 itself is always right.                                *)
(***************************************************************************)
EXTENDS Integers

CONSTANTS
  Devices,      (* The two devices.                                         *)
  Addresses,    (* Addresses, with port, a device may send from.            *)
  Roaming,      (* Devices whose address changes.                           *)
  CookieAge,    (* COOKIE_SECRET_MAX_AGE, in units of model time.           *)
  MaxInitiations, (* Initiations sent.  Bounds the model.                   *)
  MaxTime       (* Units of time.  Bounds the model.                        *)

ASSUME DevicesAssumption == \E m, n \in Devices : m # n /\ Devices = {m, n}
ASSUME CookieAssumption ==
  /\ Addresses # {} /\ Roaming \subseteq Devices
  /\ CookieAge \in Nat \ {0} /\ MaxInitiations \in Nat /\ MaxTime \in Nat

VARIABLES
  address,      (* address[n]: where n's messages come from                 *)
  secret,       (* secret[n]: number and age of cookie_secret               *)
  cookie,       (* cookie[n]: peer->cookie and its age                      *)
  mac1,         (* mac1[n]: handshake_mac1, 0 when it is not valid          *)
  waits,        (* waits[n]: initiation n's handshake waits with, or 0      *)
  newest,       (* newest[n]: peer->greatest_timestamp                      *)
  mail,         (* messages sent                                            *)
  clock,        (* units of time that have passed                           *)
  told,         (* history: told[n][a] is the time since n sent a cookie to *)
                (* a, at most CookieAge                                     *)
  blind,        (* history: a message passed under load from an address     *)
                (* that was not told a cookie in the last CookieAge         *)
  took          (* history: took[i] counts the cookies taken in answer to i *)

cookieVars == <<address, secret, cookie, mac1, waits, newest, mail, clock, told, blind, took>>

None == [number |-> 0]
Initiations == 1 .. MaxInitiations
Made == {i \in Initiations : \E msg \in mail : msg.type = "initiation" /\ msg.id = i}
To(n) == CHOOSE m \in Devices : m # n

CookieInit ==
  /\ address = [n \in Devices |-> CHOOSE a \in Addresses : TRUE]
  /\ secret = [n \in Devices |-> [number |-> 1, age |-> 0]]
  /\ cookie = [n \in Devices |-> [value |-> None, age |-> CookieAge]]
  /\ mac1 = [n \in Devices |-> 0] /\ waits = [n \in Devices |-> 0]
  /\ newest = [n \in Devices |-> 0]
  /\ mail = {} /\ clock = 0
  /\ told = [n \in Devices |-> [a \in Addresses |-> CookieAge]]
  /\ blind = FALSE
  /\ took = [i \in Initiations |-> 0]

\* generate_peer_cookie first makes a new secret if the old one has expired.
Renewed(s) == IF s.age >= CookieAge THEN [number |-> s.number + 1, age |-> 0] ELSE s

\* Mutant: the secret is only made anew for a reply, not for a check.
PeerCookieStale(n, a) == [number |-> secret[n].number, at |-> a]

PeerCookie(n, a) == [number |-> Renewed(secret[n]).number, at |-> a]

\* mac2 of a message n creates: no cookie, or one too old, leaves it zero.
Mac2(n) == IF cookie[n].age >= CookieAge THEN None ELSE cookie[n].value

\* wireguardif_check_initiation_message and wireguardif_check_response_message,
\* given what wireguard_is_under_load answers them: whether the message passes,
\* and what the check leaves.  Under load the secret may be a new one; history:
\* whether the sender of a message that passes can be known to be at its address.
Passes(n, msg, load) == ~load \/ msg.mac2 = PeerCookie(n, msg.from)

Checked(n, msg, load) ==
  /\ secret' = IF load THEN [secret EXCEPT ![n] = Renewed(@)] ELSE secret
  /\ blind' = \/ blind
              \/ load /\ Passes(n, msg, load) /\ told[n][msg.from] >= CookieAge

\* wireguard_start_handshake, whenever the timer asks for one (see LwipPeer).
SendInitiation(n) ==
  \E i \in Initiations \ Made :
    /\ \A j \in Initiations : j < i => j \in Made
    /\ mail' = mail \union {[type |-> "initiation", id |-> i, to |-> To(n), from |-> address[n], mac2 |-> Mac2(n)]}
    /\ mac1' = [mac1 EXCEPT ![n] = i] /\ waits' = [waits EXCEPT ![n] = i]
    /\ UNCHANGED <<address, secret, cookie, newest, clock, told, blind, took>>

\* wireguardif_send_handshake_cookie, in answer to an initiation.
RefuseInitiation(n, msg) ==
  /\ msg.type = "initiation" /\ msg.to = n /\ ~Passes(n, msg, TRUE)
  /\ Checked(n, msg, TRUE)
  /\ mail' = mail \union {[type |-> "reply", id |-> msg.id, to |-> To(n), cookie |-> PeerCookie(n, msg.from)]}
  /\ told' = [told EXCEPT ![n][msg.from] = 0]
  /\ UNCHANGED <<address, cookie, mac1, waits, newest, clock, took>>

\* wireguardif_network_rx of an initiation that passes: one that is not newer
\* than the last is dropped, any other overwrites the handshake and is answered.
AcceptInitiation(n, msg, load) ==
  LET new == msg.id > newest[n]
  IN  /\ msg.type = "initiation" /\ msg.to = n /\ Passes(n, msg, load)
      /\ Checked(n, msg, load)
      /\ newest' = [newest EXCEPT ![n] = IF new THEN msg.id ELSE @]
      /\ waits' = [waits EXCEPT ![n] = IF new THEN 0 ELSE @]
      /\ mail' = IF new THEN mail \union {[type |-> "response", id |-> msg.id, to |-> To(n),
                                           from |-> address[n], mac2 |-> Mac2(n)]}
                 ELSE mail
      /\ UNCHANGED <<address, cookie, mac1, clock, told, took>>

\* wireguardif_network_rx of a response.  The cookie reply to one that does not
\* pass names the responder's index, with which no handshake waits: it is never
\* taken and so left out, but its address has been told.
ReceiveResponse(n, msg, load) ==
  /\ msg.type = "response" /\ msg.to = n
  /\ Checked(n, msg, load)
  /\ told' = IF Passes(n, msg, load) THEN told ELSE [told EXCEPT ![n][msg.from] = 0]
  /\ waits' = [waits EXCEPT ![n] = IF Passes(n, msg, load) /\ @ = msg.id THEN 0 ELSE @]
  /\ UNCHANGED <<address, cookie, mac1, newest, mail, clock, took>>

\* Mutant: handshake_mac1 stays valid.
TakeCookieAgain(n, msg) ==
  /\ msg.type = "reply" /\ msg.to = n
  /\ waits[n] = msg.id /\ mac1[n] = msg.id
  /\ cookie' = [cookie EXCEPT ![n] = [value |-> msg.cookie, age |-> 0]]
  /\ took' = [took EXCEPT ![msg.id] = IF @ < 2 THEN @ + 1 ELSE @]
  /\ UNCHANGED <<address, secret, mac1, waits, newest, mail, clock, told, blind>>

\* wireguard_process_cookie_message: the reply decrypts with the mac1 that was
\* sent last.
TakeCookie(n, msg) ==
  /\ msg.type = "reply" /\ msg.to = n
  /\ waits[n] = msg.id /\ mac1[n] = msg.id
  /\ cookie' = [cookie EXCEPT ![n] = [value |-> msg.cookie, age |-> 0]]
  /\ mac1' = [mac1 EXCEPT ![n] = 0]
  /\ took' = [took EXCEPT ![msg.id] = IF @ < 2 THEN @ + 1 ELSE @]
  /\ UNCHANGED <<address, secret, waits, newest, mail, clock, told, blind>>

Roams(n) ==
  /\ n \in Roaming
  /\ \E a \in Addresses \ {address[n]} : address' = [address EXCEPT ![n] = a]
  /\ UNCHANGED <<secret, cookie, mac1, waits, newest, mail, clock, told, blind, took>>

CookieTime ==
  LET Up(age) == IF age < CookieAge THEN age + 1 ELSE age
  IN  /\ clock < MaxTime /\ clock' = clock + 1
      /\ secret' = [n \in Devices |-> [secret[n] EXCEPT !.age = Up(@)]]
      /\ cookie' = [n \in Devices |-> [cookie[n] EXCEPT !.age = Up(@)]]
      /\ told' = [n \in Devices |-> [a \in Addresses |-> Up(told[n][a])]]
      /\ UNCHANGED <<address, mac1, waits, newest, mail, blind, took>>

CookieNext ==
  \/ CookieTime
  \/ \E n \in Devices :
       \/ SendInitiation(n) \/ Roams(n)
       \/ \E msg \in mail :
            \/ RefuseInitiation(n, msg) \/ TakeCookie(n, msg)
            \/ \E load \in BOOLEAN : AcceptInitiation(n, msg, load) \/ ReceiveResponse(n, msg, load)

CookieSpec == CookieInit /\ [][CookieNext]_cookieVars

(***************************************************************************)
(* Properties.                                                             *)
(***************************************************************************)

\* Under load only a sender that can be reached is served: the address a message
\* is accepted from was sent a cookie less than COOKIE_SECRET_MAX_AGE ago.
ServesReachable == ~blind

\* An initiation brings its sender one cookie at most, so no copy of a reply
\* starts the two minutes of a cookie again.
CookieTakenOnce == \A i \in Initiations : took[i] <= 1
==============================================================================
