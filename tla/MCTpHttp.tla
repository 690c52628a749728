------------------------------ MODULE MCTpHttp ------------------------------
(***************************************************************************)
(* Instances of the HTTP transport for TLC: the .cfg files choose the mode,*)
(* the number of packets and what may go wrong.                            *)
(***************************************************************************)
EXTENDS TpHttp

One == [h \in Hosts |-> 1]
Two == [h \in Hosts |-> 2]
TwoOne == [h \in Hosts |-> IF h = Client THEN 2 ELSE 1]
TwoThree == [h \in Hosts |-> IF h = Client THEN 2 ELSE 3]

(* Bodies of messages: bytes with a pattern in each of the positions that  *)
(* encoding cuts.                                                          *)
Samples == UNION {[1..n -> {0, 1, 60, 85, 192, 255}] : n \in 0..4}
=============================================================================
