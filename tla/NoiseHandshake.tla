---------------------------- MODULE NoiseHandshake ----------------------------
(***************************************************************************)
(* The cryptography of the handshake (wireguard.c): what each end hashes,  *)
(* derives and seals, in which order, and so when the two ends come to the *)
(* same session keys.                                                      *)
(*                                                                         *)
(* Hashing and key derivation are free constructors: two results are equal *)
(* exactly when they were made in the same way from the same inputs.  A    *)
(* private key also stands for its public key, and a shared secret is the  *)
(* set of the two keys it comes from.  A sealed text carries its key and   *)
(* associated data; it opens with the same ones.                           *)
(*                                                                         *)
(* The network keeps every message, so it copies and reorders them; each   *)
(* end has the one handshake record of its peer, and either may initiate.  *)
(***************************************************************************)
EXTENDS Integers

CONSTANTS
  Ends,         (* The two devices; each names its static key pair.         *)
  Other,        (* A static key that neither has.                           *)
  Psks,         (* Preshared keys to configure.                             *)
  MaxMade       (* Ephemeral keys made.  Bounds the model.                  *)

VARIABLES
  knows,        (* knows[n]: the peer key and preshared key n is given      *)
  hs,           (* hs[n]: peer->handshake                                   *)
  greatest,     (* greatest[n]: peer->greatest_timestamp                    *)
  sent,         (* messages that were sent                                  *)
  sessions,     (* history: sessions started                                *)
  sealed,       (* history: the texts sealed, each with its key             *)
  made          (* ephemeral keys made so far                               *)

noiseVars == <<knows, hs, greatest, sent, sessions, sealed, made>>

(***************************************************************************)
(* Primitives.                                                             *)
(***************************************************************************)
Empty  == <<"empty">>
Eph(e) == <<"key", e>>

\* An ephemeral key that is made anew is nobody's static key.
ASSUME EndsAssumption ==
  /\ \E m, n \in Ends : m # n /\ Ends = {m, n}
  /\ MaxMade \in Nat /\ \A e \in 1 .. MaxMade : Eph(e) \notin Ends

\* wireguard_mix_hash.
MixHash(hash, data) == <<"hash", hash, data>>

\* Mutant: what is derived does not depend on the chaining key.
KdfUnchained(i, key, data) == <<"kdf", i, data>>

\* wireguard_kdf1, wireguard_kdf2 and wireguard_kdf3: output i of the chain of
\* wireguard_hmac calls that start from key and data.
Kdf(i, key, data) == <<"kdf", i, key, data>>

\* wireguard_x25519.
Dh(private, public) == <<"dh", {private, public}>>

\* wireguard_aead_encrypt, always with the nonce 0, and wireguard_aead_decrypt.
Seal(key, text, ad) == <<"sealed", key, text, ad>>
Opens(c, key, ad)   == c[2] = key /\ c[4] = ad
Opened(c)           == c[3]

\* wireguard_mac under wireguard_mac_key of the receiver's public key; mac2 stays
\* zero, for no cookie was received.
Mac1(public, msg) == <<"mac1", public, msg>>

(***************************************************************************)
(* Messages and state.                                                     *)
(***************************************************************************)
NoHs == [ valid |-> FALSE, initiator |-> FALSE, hash |-> Empty, ck |-> Empty,
          own |-> Empty, remote |-> Empty, local |-> Empty, remoteIndex |-> Empty ]

NoiseInit ==
  /\ knows \in [Ends -> [peer : Ends \union {Other}, psk : Psks]]
  /\ \A n \in Ends : knows[n].peer # n
  /\ hs = [n \in Ends |-> NoHs]
  /\ greatest = [n \in Ends |-> 0]
  /\ sent = {}
  /\ sessions = {}
  /\ sealed = {}
  /\ made = 0

\* wireguard_create_handshake_initiation.  The ephemeral key e also stands for
\* the sender's index and for the timestamp, all three being new.
CreateInitiation(n) ==
  LET e    == Eph(made + 1)
      p    == knows[n].peer
      ck1  == Kdf(1, <<"construction">>, e)
      h1   == MixHash(MixHash(<<"identifier">>, p), e)
      k1   == Kdf(2, ck1, Dh(e, p))
      ck2  == Kdf(1, ck1, Dh(e, p))
      key  == Seal(k1, n, h1)
      h2   == MixHash(h1, key)
      k2   == Kdf(2, ck2, Dh(n, p))
      ck3  == Kdf(1, ck2, Dh(n, p))
      time == Seal(k2, <<"time", made + 1>>, h2)
      body == [type |-> "initiation", sender |-> e, ephemeral |-> e,
               static |-> key, timestamp |-> time]
  IN  /\ made < MaxMade
      /\ made' = made + 1
      /\ hs' = [hs EXCEPT ![n] =
           [@ EXCEPT !.valid = TRUE, !.initiator = TRUE, !.own = e, !.local = e,
                     !.ck = ck3, !.hash = MixHash(h2, time)]]
      /\ sent' = sent \union {[body |-> body, mac1 |-> Mac1(p, body)]}
      /\ sealed' = sealed \union {key, time}
      /\ UNCHANGED <<knows, greatest, sessions>>

\* wireguard_process_initiation_message: the handshake record an initiation
\* leaves at n, and whether n accepts it.
ProcessedInitiation(n, m) ==
  LET e   == m.ephemeral
      ck1 == Kdf(1, <<"construction">>, e)
      h1  == MixHash(MixHash(<<"identifier">>, n), e)
      k1  == Kdf(2, ck1, Dh(n, e))
      ck2 == Kdf(1, ck1, Dh(n, e))
      h2  == MixHash(h1, m.static)
      s   == Opened(m.static)
      k2  == Kdf(2, ck2, Dh(n, s))
      ck3 == Kdf(1, ck2, Dh(n, s))
  IN  [ ok |-> /\ Opens(m.static, k1, h1)
               /\ s = knows[n].peer
               /\ Opens(m.timestamp, k2, h2)
               /\ Opened(m.timestamp)[2] > greatest[n],
        hs |-> [hs[n] EXCEPT !.valid = TRUE, !.initiator = FALSE, !.remote = e,
                             !.remoteIndex = m.sender, !.ck = ck3,
                             !.hash = MixHash(h2, m.timestamp)] ]

\* Mutant: the responder's keys are not exchanged.
SessionSameOrder(n, h) ==
  [end |-> n, initiator |-> h.initiator, send |-> Kdf(1, h.ck, Empty), receive |-> Kdf(2, h.ck, Empty)]

\* wireguard_start_session.
Session(n, h) ==
  LET a == Kdf(1, h.ck, Empty)
      b == Kdf(2, h.ck, Empty)
  IN  [ end |-> n, initiator |-> h.initiator,
        send |-> IF h.initiator THEN a ELSE b, receive |-> IF h.initiator THEN b ELSE a ]

Forgotten(h) == [h EXCEPT !.valid = FALSE, !.hash = Empty, !.ck = Empty, !.own = Empty,
                          !.remote = Empty, !.local = Empty, !.remoteIndex = Empty]

\* Mutant: the preshared key only reaches the next chaining key.
FinishUnsealed(h, e, ee, se, psk) ==
  LET ck  == Kdf(1, Kdf(1, Kdf(1, h.ck, e), ee), se)
      tau == Kdf(2, ck, Empty)
  IN  [ck |-> Kdf(1, ck, psk), key |-> Kdf(3, ck, Empty), hash |-> MixHash(MixHash(h.hash, e), tau)]

\* Mixing both ephemeral secrets and the preshared key: the final chaining key,
\* the key that seals the empty text, and the hash it is sealed over.
Finish(h, e, ee, se, psk) ==
  LET ck  == Kdf(1, Kdf(1, Kdf(1, h.ck, e), ee), se)
      tau == Kdf(2, ck, psk)
  IN  [ck |-> Kdf(1, ck, psk), key |-> Kdf(3, ck, psk), hash |-> MixHash(MixHash(h.hash, e), tau)]

\* wireguardif_network_rx of an initiation: wireguard_process_initiation_message,
\* then wireguard_create_handshake_response and wireguard_start_session.
Respond(n, msg) ==
  LET m == msg.body
      p == ProcessedInitiation(n, m)
      e == Eph(made + 1)
      f == Finish(p.hs, e, Dh(e, p.hs.remote), Dh(e, knows[n].peer), knows[n].psk)
      empty == Seal(f.key, Empty, f.hash)
      body == [type |-> "response", sender |-> e, receiver |-> p.hs.remoteIndex,
               ephemeral |-> e, empty |-> empty]
      h == [p.hs EXCEPT !.own = e, !.local = e, !.ck = f.ck, !.hash = MixHash(f.hash, empty)]
  IN  /\ m.type = "initiation" /\ msg.mac1 = Mac1(n, m)
      /\ p.ok
      /\ made < MaxMade
      /\ made' = made + 1
      /\ greatest' = [greatest EXCEPT ![n] = Opened(m.timestamp)[2]]
      /\ sessions' = sessions \union {Session(n, h)}
      /\ hs' = [hs EXCEPT ![n] = Forgotten(h)]
      /\ sent' = sent \union {[body |-> body, mac1 |-> Mac1(knows[n].peer, body)]}
      /\ sealed' = sealed \union {empty}
      /\ UNCHANGED knows

\* wireguardif_network_rx of a response: peer_lookup_by_handshake,
\* wireguard_process_handshake_response and wireguard_start_session.
ProcessResponse(n, msg) ==
  LET m == msg.body
      h == hs[n]
      f == Finish(h, m.ephemeral, Dh(h.own, m.ephemeral), Dh(n, m.ephemeral), knows[n].psk)
      t == [h EXCEPT !.remote = m.ephemeral, !.remoteIndex = m.sender, !.ck = f.ck, !.hash = f.hash]
  IN  /\ m.type = "response" /\ msg.mac1 = Mac1(n, m)
      /\ h.valid /\ h.initiator /\ h.local = m.receiver
      /\ Opens(m.empty, f.key, f.hash)
      /\ sessions' = sessions \union {Session(n, t)}
      /\ hs' = [hs EXCEPT ![n] = Forgotten(t)]
      /\ UNCHANGED <<knows, greatest, sent, sealed, made>>

NoiseNext ==
  \E n \in Ends :
    CreateInitiation(n) \/ \E msg \in sent : Respond(n, msg) \/ ProcessResponse(n, msg)

NoiseSpec == NoiseInit /\ [][NoiseNext]_noiseVars

(***************************************************************************)
(* Properties.                                                             *)
(***************************************************************************)

\* A session of an initiator has a session of the responder across from it:
\* what one sends with the other receives with.
KeysAgree ==
  \A s \in sessions : s.initiator =>
    \E t \in sessions : /\ ~t.initiator /\ t.end # s.end
                        /\ t.send = s.receive /\ t.receive = s.send

\* An initiator gets a session only if each end was given the other's key and
\* both the same preshared key.
ConfigurationAgrees ==
  \A s \in sessions : s.initiator =>
    /\ \A n \in Ends : knows[n].peer \in Ends
    /\ \A m, n \in Ends : knows[m].psk = knows[n].psk

\* Every seal has the nonce 0, so no key may seal two different texts.
NonceZeroOnce == \A c, d \in sealed : c[2] = d[2] => c = d
==============================================================================
