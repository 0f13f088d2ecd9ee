----------------------------- MODULE MCVpnControl -----------------------------
(***************************************************************************)
(* Small instances of VpnControl for TLC.                                  *)
(***************************************************************************)
EXTENDS VpnControl

\* Ids of configurations are only compared: safety is checked up to their
\* permutations (liveness is checked without symmetry).
ConfigSymmetry == Permutations(Configs)
==============================================================================
