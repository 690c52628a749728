----------------------------- MODULE MCPackets -----------------------------
(***************************************************************************)
(* Packets for TLC.  The addresses of packets are interchangeable.         *)
(***************************************************************************)
EXTENDS Packets, TLC

CONSTANTS p1, p2, p3

Three == {p1, p2, p3}
Addresses == Permutations(Pkts)
=============================================================================
