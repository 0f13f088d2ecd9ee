------------------------------ MODULE AntiReplay ------------------------------
(***************************************************************************)
(* What a replay window promises of the packets of one session, numbered   *)
(* by the sender from 0: no packet is accepted twice, and a new packet is  *)
(* refused only if one at least Window later has been accepted.            *)
(***************************************************************************)
EXTENDS Integers

CONSTANTS
  Window,   (* How far behind the latest packet a late one may be.          *)
  MaxSeq    (* The largest counter a packet carries.                        *)

VARIABLES
  copies,   (* copies[q]: how often packet q has been accepted              *)
  verdict   (* the packet last received, and whether it was accepted        *)

Seqs == 0 .. MaxSeq

Init ==
  /\ copies = [q \in Seqs |-> 0]
  /\ verdict = [seq |-> 0, ok |-> FALSE]

\* Packet q is new, and no packet Window or more after it has been accepted.
MustAccept(q) == copies[q] = 0 /\ \A r \in Seqs : copies[r] > 0 => r < q + Window

Receive(q) ==
  \E ok \in BOOLEAN :
    /\ ok => copies[q] = 0
    /\ MustAccept(q) => ok
    /\ verdict' = [seq |-> q, ok |-> ok]
    /\ copies' = IF ok THEN [copies EXCEPT ![q] = @ + 1] ELSE copies

Next == \E q \in Seqs : Receive(q)

Spec == Init /\ [][Next]_<<copies, verdict>>
==============================================================================
