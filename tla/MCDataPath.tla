------------------------------ MODULE MCDataPath ------------------------------
(***************************************************************************)
(* The parts of the data path that share no state, checked side by side:   *)
(* part says which one takes steps, and the others keep their initial      *)
(* states.                                                                 *)
(***************************************************************************)
EXTENDS ReplayWindow, TransmitCounter, NoiseHandshake, CookieExchange,
         Base64, CryptoStreams, Poly1305, X25519

VARIABLE part

dataVars == <<vars, counterVars, noiseVars, cookieVars, b64Vars,
              streamVars, polyVars, xVars, part>>

Parts == {"replay", "counter", "noise", "cookies", "base64", "streams", "poly1305", "x25519"}

\* Where the configured keys do not matter they are fixed.
DataInit ==
  /\ Init /\ CounterInit /\ NoiseInit /\ CookieInit /\ B64Init /\ StreamInit /\ PolyInit /\ XInit
  /\ part \in Parts
  /\ part # "noise" => \A n \in Ends : knows[n] = [peer |-> Other, psk |-> CHOOSE k \in Psks : TRUE]

DataNext ==
  /\ UNCHANGED part
  /\ \/ /\ part = "replay" /\ Next
        /\ UNCHANGED <<counterVars, noiseVars, cookieVars, b64Vars, streamVars, polyVars, xVars>>
     \/ /\ part = "counter" /\ CounterNext
        /\ UNCHANGED <<vars, noiseVars, cookieVars, b64Vars, streamVars, polyVars, xVars>>
     \/ /\ part = "noise" /\ NoiseNext
        /\ UNCHANGED <<vars, counterVars, cookieVars, b64Vars, streamVars, polyVars, xVars>>
     \/ /\ part = "cookies" /\ CookieNext
        /\ UNCHANGED <<vars, counterVars, noiseVars, b64Vars, streamVars, polyVars, xVars>>
     \/ /\ part = "base64" /\ B64Next
        /\ UNCHANGED <<vars, counterVars, noiseVars, cookieVars, streamVars, polyVars, xVars>>
     \/ /\ part = "streams" /\ StreamNext
        /\ UNCHANGED <<vars, counterVars, noiseVars, cookieVars, b64Vars, polyVars, xVars>>
     \/ /\ part = "poly1305" /\ PolyNext
        /\ UNCHANGED <<vars, counterVars, noiseVars, cookieVars, b64Vars, streamVars, xVars>>
     \/ /\ part = "x25519" /\ XNext
        /\ UNCHANGED <<vars, counterVars, noiseVars, cookieVars, b64Vars, streamVars, polyVars>>

DataSpec == DataInit /\ [][DataNext]_dataVars
==============================================================================
