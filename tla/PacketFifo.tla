----------------------------- MODULE PacketFifo -----------------------------
(***************************************************************************)
(* What a transport promises for one direction of a link: the packets that *)
(* one host's pipeline hands to mop_process() come out of the other host's *)
(* mop_process(NULL) in the same order, each once and unchanged.  A link   *)
(* that may be torn down can lose packets, but never reorders or repeats.  *)
(***************************************************************************)
EXTENDS Naturals, Sequences

CONSTANT Lossy      \* may packets in transit be lost

VARIABLES
    transit,        \* packets accepted and not yet delivered, oldest first
    accepted,       \* how many packets were accepted; they are numbered from 1
    delivered       \* the packet that was delivered last, 0 before the first

vars == <<transit, accepted, delivered>>

Init == transit = <<>> /\ accepted = 0 /\ delivered = 0

Accept ==
    /\ accepted' = accepted + 1
    /\ transit' = Append(transit, accepted')
    /\ UNCHANGED delivered

Deliver ==
    /\ transit # <<>>
    /\ delivered' = Head(transit)
    /\ transit' = Tail(transit)
    /\ UNCHANGED accepted

(* n packets are left, and stay in order.                                  *)
Lose ==
    /\ Lossy
    /\ \E n \in 0..Len(transit) : \E kept \in [1..n -> 1..Len(transit)] :
          /\ \A i, j \in 1..n : i < j => kept[i] < kept[j]
          /\ transit' = [i \in 1..n |-> transit[kept[i]]]
    /\ UNCHANGED <<accepted, delivered>>

Next == Accept \/ Deliver \/ Lose

Spec == Init /\ [][Next]_vars
=============================================================================
