--------------------------- MODULE MCHarmonyTunnel ---------------------------
(***************************************************************************)
(* Small instances of HarmonyTunnel for TLC.                               *)
(***************************************************************************)
EXTENDS HarmonyTunnel, TLC

\* Identities are only ever compared for equality: safety is checked up to
\* their permutations (liveness is checked without symmetry).
IdSymmetry == Permutations(Ids)
==============================================================================
