------------------------------ MODULE MCTpXmpp ------------------------------
(***************************************************************************)
(* Instances of the XMPP transport for TLC: the .cfg files choose the      *)
(* number of packets, how often a connection breaks and what may go wrong. *)
(***************************************************************************)
EXTENDS TpXmpp

TwoOne == [h \in Hosts |-> IF h = Left THEN 2 ELSE 1]
OneSided == {Left}
=============================================================================
