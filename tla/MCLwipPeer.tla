------------------------------ MODULE MCLwipPeer ------------------------------
(* Two nodes for TLC, of which the first connects, and three small budgets. *)
EXTENDS LwipPeer

CONSTANTS A, B

MCNodes      == {A, B}
MCConfigured == {A}

Budget(h, t, c) == [handshakes |-> h, time |-> t, calls |-> c]

MCBudgets == {Budget(3, 1, 0), Budget(2, 3, 0), Budget(2, 1, 1), Budget(1, 2, 2)}
==============================================================================
