---------------------------- MODULE TpXmppProofs ----------------------------
(***************************************************************************)
(* Proofs about the XMPP transport, for any number of packets and of lost  *)
(* connections: every variable keeps its type, there is never more than one*)
(* attempt to connect, a host that is down keeps trying (unless libstrophe *)
(* reports failures that the handler only logs), and a worker that has been*)
(* told to stop cannot get a connection any more.  In each direction the   *)
(* link is a FIFO that loses packets at most.                              *)
(***************************************************************************)
EXTENDS TpXmpp, SequenceTheorems, TLAPS

Seqs == INSTANCE ListsProofs

(* There are two hosts, each the other's peer.                             *)
LEMMA PeerFacts ==
    ASSUME NEW h \in Hosts
    PROVE  /\ Peer(h) \in Hosts /\ Peer(h) # h /\ Peer(Peer(h)) = h
           /\ \A g \in Hosts : g = h \/ g = Peer(h)
BY XmppAssumption DEF XmppAssumption, Peer, Hosts

(* The stanzas of packets 1 to n.                                          *)
Stanzas(n) == [pkt : 1..n, delayed : BOOLEAN]

(* What the server keeps for later are still stanzas of the same packets.  *)
LEMMA LateTypes ==
    ASSUME NEW n \in Nat, NEW q \in Seq(Stanzas(n)) PROVE Late(q) \in Seq(Stanzas(n))
<1>1. PICK m \in Nat : q \in [1..m -> Stanzas(n)] BY SeqDef
<1>2. Late(q) \in [1..m -> Stanzas(n)] BY <1>1 DEF Late, Stanza, Stanzas
<1> QED BY <1>2, SeqDef

(* The part of TypeOK about flags and labels, and the part about packets.  *)
Flags ==
    /\ connected \in [Hosts -> BOOLEAN] /\ stopping \in [Hosts -> BOOLEAN]
    /\ stopsem \in [Hosts -> BOOLEAN] /\ timer \in [Hosts -> BOOLEAN]
    /\ quit \in [Hosts -> BOOLEAN]
    /\ conn \in [Hosts -> {"down", "connecting", "up", "closing"}]
    /\ pc \in [Hosts -> {"connect", "test", "events", "send", "leave", "run", "done"}]
    /\ main \in [Hosts -> {"running", "join", "stopped", "freed"}]
    /\ nlost \in Nat

(* The state of the connection, of its timer and of the worker agree: the  *)
(* inductive invariant for one host.                                       *)
Agree(h) ==
    /\ stopping[h] <=> pc[h] \in {"run", "done"}
    /\ connected[h] => conn[h] \in {"up", "closing"} /\ pc[h] # "done"
    /\ conn[h] = "up" => connected[h]
    /\ conn[h] = "closing" => pc[h] = "run"
    /\ timer[h] => conn[h] = "down"
    /\ quit[h] => stopping[h] /\ conn[h] = "down" /\ ~connected[h] /\ ~timer[h]
    /\ pc[h] = "connect" => conn[h] = "down" /\ ~timer[h]
    /\ pc[h] = "run" => quit[h] \/ conn[h] = "closing"
    /\ main[h] \in {"stopped", "freed"} => pc[h] = "done"
    /\ pc[h] \in {"test", "events", "send"} /\ conn[h] = "down" /\ h \notin FailEvents => timer[h]

IInv == Flags /\ \A h \in Hosts : Agree(h)

LEMMA InitIInv == ASSUME Init PROVE IInv
BY XmppAssumption DEF XmppAssumption, Init, IInv, Flags, Agree

LEMMA NextIInv == ASSUME IInv, [Next]_vars PROVE IInv'
<1> USE XmppAssumption DEF XmppAssumption, IInv, Flags, Agree
<1> USE DEF queueVars, connVars, stopVars, serverVars, Goto, InLoop
<1>1. ASSUME NEW h \in Hosts, Enqueue(h) PROVE IInv'
  BY <1>1 DEF Enqueue
<1>2. ASSUME NEW h \in Hosts, PktGet(h) PROVE IInv'
  BY <1>2 DEF PktGet
<1>3. ASSUME NEW h \in Hosts, Connect(h) PROVE IInv'
  <2> DEFINE Moved ==
        /\ conn' \in [Hosts -> {"down", "connecting", "up", "closing"}]
        /\ timer' \in [Hosts -> BOOLEAN] /\ nlost' \in Nat
        /\ conn'[h] \in {"connecting", "down"} /\ (timer'[h] <=> conn'[h] = "down")
        /\ \A g \in Hosts : g # h => conn'[g] = conn[g] /\ (timer'[g] <=> timer[g])
  <2>1. /\ pc[h] = "connect" /\ pc' = [pc EXCEPT ![h] = "test"]
        /\ conn[h] = "down" /\ ~timer[h] /\ ~stopping[h] /\ ~connected[h]
        /\ UNCHANGED <<connected, quit, stopping, stopsem, main>>
    BY <1>3 DEF Connect
  <2>2. Moved
    <3> HIDE DEF Agree, IInv
    <3>1. conn \in [Hosts -> {"down", "connecting", "up", "closing"}]
          /\ timer \in [Hosts -> BOOLEAN] /\ nlost \in Nat
      BY DEF IInv
    <3>2. CASE conn' = [conn EXCEPT ![h] = "connecting"] /\ UNCHANGED <<timer, nlost>>
      BY <2>1, <3>1, <3>2
    <3>3. CASE /\ nlost' = nlost + 1
               /\ timer' = [timer EXCEPT ![h] = TRUE] /\ UNCHANGED conn
      BY <2>1, <3>1, <3>3
    <3> QED BY <3>2, <3>3, <1>3 DEF Connect
  <2>3. Flags'
    BY <2>1, <2>2
  <2>4. Agree(h)'
    BY <2>1, <2>2
  <2>5. ASSUME NEW g \in Hosts, g # h PROVE Agree(g)'
    BY <2>1, <2>2, <2>5
  <2> QED BY <2>3, <2>4, <2>5
<1>4. ASSUME NEW h \in Hosts, TestStop(h) PROVE IInv'
  BY <1>4 DEF TestStop
<1>5. ASSUME NEW h \in Hosts, EventsDone(h) PROVE IInv'
  BY <1>5 DEF EventsDone
<1>6. ASSUME NEW h \in Hosts, Send(h) PROVE IInv'
  BY <1>6 DEF Send
<1>7. ASSUME NEW h \in Hosts, SendDone(h) PROVE IInv'
  BY <1>7 DEF SendDone
<1>8. ASSUME NEW h \in Hosts, Leave(h) PROVE IInv'
  BY <1>8 DEF Leave
<1>9. ASSUME NEW h \in Hosts, RunEnds(h) PROVE IInv'
  BY <1>9 DEF RunEnds
<1>10. ASSUME NEW h \in Hosts, TimerFires(h) PROVE IInv'
  BY <1>10 DEF TimerFires
<1>11. ASSUME NEW h \in Hosts, Established(h) PROVE IInv'
  BY <1>11 DEF Established
<1>12. ASSUME NEW h \in Hosts, Lost(h) PROVE IInv'
  <2> DEFINE Handled ==
        /\ timer' \in [Hosts -> BOOLEAN] /\ quit' \in [Hosts -> BOOLEAN]
        /\ IF stopping[h] THEN quit'[h] /\ (timer'[h] <=> timer[h])
                          ELSE timer'[h] /\ (quit'[h] <=> quit[h])
        /\ \A g \in Hosts : g # h => (timer'[g] <=> timer[g]) /\ (quit'[g] <=> quit[g])
  <2>1. /\ conn[h] # "down" /\ conn' = [conn EXCEPT ![h] = "down"]
        /\ connected' = [connected EXCEPT ![h] = FALSE]
        /\ pc[h] \in {"events", "run"} /\ UNCHANGED <<stopping, stopsem, main, pc>>
    BY <1>12 DEF Lost, Disconnected
  <2>2. nlost' \in Nat
    BY <1>12 DEF Lost
  <2>3. Handled
    <3>1. Disconnected(h) BY <1>12 DEF Lost
    <3>2. timer \in [Hosts -> BOOLEAN] /\ quit \in [Hosts -> BOOLEAN] OBVIOUS
    <3> HIDE DEF Agree, IInv
    <3>3. CASE stopping[h] BY <3>1, <3>2, <3>3 DEF Disconnected
    <3>4. CASE ~stopping[h] BY <3>1, <3>2, <3>4 DEF Disconnected
    <3> QED BY <3>3, <3>4
  <2>4. Flags'
    BY <2>1, <2>2, <2>3
  <2>5. Agree(h)'
    BY <2>1, <2>3
  <2>6. ASSUME NEW g \in Hosts, g # h PROVE Agree(g)'
    BY <2>1, <2>3, <2>6
  <2> QED BY <2>4, <2>5, <2>6
<1>13. ASSUME NEW h \in Hosts, Failed(h) PROVE IInv'
  BY <1>13 DEF Failed
<1>14. ASSUME NEW h \in Hosts, Receive(h) PROVE IInv'
  BY <1>14 DEF Receive
<1>15. ASSUME NEW h \in Hosts, Stop(h) PROVE IInv'
  BY <1>15 DEF Stop
<1>16. ASSUME NEW h \in Hosts, Release(h) PROVE IInv'
  BY <1>16 DEF Release
<1>17. ASSUME NEW h \in Hosts, Fini(h) PROVE IInv'
  BY <1>17 DEF Fini
<1>18. CASE UNCHANGED vars
  BY <1>18 DEF vars
<1> QED
  BY <1>1, <1>2, <1>3, <1>4, <1>5, <1>6, <1>7, <1>8, <1>9, <1>10, <1>11, <1>12, <1>13, <1>14, <1>15, <1>16, <1>17, <1>18 DEF Next, WorkStep, Event

(* The invariant above, for every number of packets and lost connections.  *)
THEOREM Inductive == Spec => []IInv
<1>1. Init => IInv BY InitIInv
<1>2. IInv /\ [Next]_vars => IInv' BY NextIInv
<1> QED BY <1>1, <1>2, PTL DEF Spec

(* xmpp_connect_client() is only ever called for a connection that is down.*)
THEOREM OneAttemptAtATime == Spec => []OneAttempt
<1>1. IInv => OneAttempt BY DEF IInv, Agree, OneAttempt
<1> QED BY <1>1, Inductive, PTL

(* The assertion of tp_xmpp_conn_handler() holds: xmpp_run() in the end of *)
(* the worker waits for a disconnection that must come.                    *)
THEOREM StopsForGood == Spec => []NoConnectWhileStopping
<1>1. IInv => NoConnectWhileStopping
  BY DEF IInv, Flags, Agree, NoConnectWhileStopping
<1> QED BY <1>1, Inductive, PTL

(* Unless libstrophe reports XMPP_CONN_FAIL, a worker that serves its loop *)
(* without a connection has a timer that will try again.                   *)
THEOREM ReconnectsAlways == Spec => []KeepsTrying
<1>1. IInv => KeepsTrying BY DEF IInv, Agree, KeepsTrying
<1> QED BY <1>1, Inductive, PTL

-----------------------------------------------------------------------------
(* The part of TypeOK about packets.                                       *)
SendTypes ==
    /\ nsent \in [Hosts -> Nat] /\ sendq \in [Hosts -> Seq(Nat)]
    /\ \A h \in Hosts : sendq[h] \in Seq(1..nsent[h])
RecvTypes ==
    /\ got \in [Hosts -> Nat] /\ recvq \in [Hosts -> Seq(Nat)]
    /\ \A h \in Hosts : got[h] \in 0..nsent[Peer(h)] /\ recvq[h] \in Seq(1..nsent[Peer(h)])
InboxTypes ==
    /\ inbox \in [Hosts -> Seq([pkt : Nat, delayed : BOOLEAN])]
    /\ \A h \in Hosts : inbox[h] \in Seq(Stanzas(nsent[Peer(h)]))
PacketTypes == SendTypes /\ RecvTypes /\ InboxTypes

LEMMA TypeOKParts == TypeOK <=> Flags /\ PacketTypes
BY DEF TypeOK, Flags, PacketTypes, SendTypes, RecvTypes, InboxTypes, Stanzas

(* The weaker type of a queue follows from the stronger one.               *)
LEMMA NumbersAreNat ==
    ASSUME NEW n \in Nat, NEW q \in Seq(1..n) PROVE q \in Seq(Nat)
<1>1. 1..n \subseteq Nat OBVIOUS
<1> QED BY <1>1, SeqMonotonic

LEMMA StanzasAreStanzas ==
    ASSUME NEW n \in Nat, NEW q \in Seq(Stanzas(n))
    PROVE  q \in Seq([pkt : Nat, delayed : BOOLEAN])
<1>1. Stanzas(n) \subseteq [pkt : Nat, delayed : BOOLEAN] BY DEF Stanzas
<1> QED BY <1>1, SeqMonotonic

(* What the server is given for a host keeps the type of its stanzas.      *)
LEMMA ToServerTypes ==
    ASSUME InboxTypes, nsent \in [Hosts -> Nat], UNCHANGED nsent,
           NEW h \in Hosts, NEW k \in 1..nsent[Peer(h)], ToServer(h, k)
    PROVE  InboxTypes'
<1>1. ASSUME NEW late \in BOOLEAN, inbox' = [inbox EXCEPT ![h] = Append(@, Stanza(k, late))]
      PROVE  InboxTypes'
  <2> DEFINE q == Append(inbox[h], Stanza(k, late))
  <2>1. Stanza(k, late) \in Stanzas(nsent[Peer(h)]) BY DEF Stanza, Stanzas
  <2>2. q \in Seq(Stanzas(nsent[Peer(h)]))
    BY <2>1, AppendProperties DEF InboxTypes
  <2>3. q \in Seq([pkt : Nat, delayed : BOOLEAN])
    BY <2>2, PeerFacts, StanzasAreStanzas
  <2>4. inbox' = [inbox EXCEPT ![h] = q] BY <1>1
  <2> HIDE DEF q
  <2> QED BY <2>2, <2>3, <2>4 DEF InboxTypes
<1>2. CASE UNCHANGED inbox
  BY <1>2 DEF InboxTypes
<1> QED BY <1>1, <1>2 DEF ToServer

(* A packet is numbered: what was a packet before still is one.            *)
LEMMA EnqueueTypes ==
    ASSUME PacketTypes, NEW h \in Hosts, Enqueue(h) PROVE PacketTypes'
<1>1. /\ nsent' \in [Hosts -> Nat] /\ nsent'[h] = nsent[h] + 1
      /\ \A g \in Hosts : 1..nsent[g] \subseteq 1..nsent'[g] /\ 0..nsent[g] \subseteq 0..nsent'[g]
  BY DEF PacketTypes, SendTypes, Enqueue
<1>2. sendq' = [sendq EXCEPT ![h] = Append(@, nsent[h] + 1)] /\ UNCHANGED <<recvq, got, inbox>>
  BY <1>1 DEF Enqueue, serverVars
<1>3. ASSUME NEW g \in Hosts PROVE sendq[g] \in Seq(1..nsent'[g])
  <2>1. sendq[g] \in Seq(1..nsent[g]) BY DEF PacketTypes, SendTypes
  <2>2. 1..nsent[g] \subseteq 1..nsent'[g] BY <1>1
  <2> QED BY <2>1, <2>2, SeqMonotonic
<1>4. Append(sendq[h], nsent[h] + 1) \in Seq(1..nsent'[h])
  <2>1. nsent[h] + 1 \in 1..nsent'[h] BY <1>1 DEF PacketTypes, SendTypes
  <2> QED BY <2>1, <1>3, AppendProperties
<1>5. SendTypes'
  <2>1. Append(sendq[h], nsent[h] + 1) \in Seq(Nat) BY <1>1, <1>4, NumbersAreNat
  <2> QED BY <2>1, <1>1, <1>2, <1>3, <1>4 DEF PacketTypes, SendTypes
<1>6. RecvTypes'
  <2>1. ASSUME NEW g \in Hosts
        PROVE  recvq[g] \in Seq(1..nsent'[Peer(g)]) /\ got[g] \in 0..nsent'[Peer(g)]
    <3>1. Peer(g) \in Hosts BY PeerFacts
    <3>2. recvq[g] \in Seq(1..nsent[Peer(g)]) /\ got[g] \in 0..nsent[Peer(g)]
      BY DEF PacketTypes, RecvTypes
    <3>3. /\ 1..nsent[Peer(g)] \subseteq 1..nsent'[Peer(g)]
          /\ 0..nsent[Peer(g)] \subseteq 0..nsent'[Peer(g)]
      BY <1>1, <3>1
    <3>4. recvq[g] \in Seq(1..nsent'[Peer(g)]) BY <3>2, <3>3, SeqMonotonic
    <3> QED BY <3>2, <3>3, <3>4
  <2> QED BY <2>1, <1>2 DEF PacketTypes, RecvTypes
<1>7. InboxTypes'
  <2>1. ASSUME NEW g \in Hosts PROVE inbox[g] \in Seq(Stanzas(nsent'[Peer(g)]))
    <3>1. Stanzas(nsent[Peer(g)]) \subseteq Stanzas(nsent'[Peer(g)])
      BY <1>1, PeerFacts DEF Stanzas
    <3> QED BY <3>1, SeqMonotonic DEF PacketTypes, InboxTypes
  <2> QED BY <2>1, <1>2 DEF PacketTypes, InboxTypes
<1> QED BY <1>5, <1>6, <1>7 DEF PacketTypes

LEMMA PktGetTypes ==
    ASSUME PacketTypes, NEW h \in Hosts, PktGet(h) PROVE PacketTypes'
<1>1. /\ recvq[h] # <<>> /\ recvq' = [recvq EXCEPT ![h] = Tail(@)]
      /\ got' = [got EXCEPT ![h] = Head(recvq[h])] /\ UNCHANGED <<nsent, sendq, inbox>>
  BY DEF PktGet, serverVars
<1>2. Peer(h) \in Hosts /\ nsent[Peer(h)] \in Nat
  BY PeerFacts DEF PacketTypes, SendTypes
<1>3. Head(recvq[h]) \in 1..nsent[Peer(h)] /\ Tail(recvq[h]) \in Seq(1..nsent[Peer(h)])
  BY <1>1, HeadTailProperties DEF PacketTypes, RecvTypes
<1>4. Tail(recvq[h]) \in Seq(Nat) BY <1>2, <1>3, NumbersAreNat
<1>5. Head(recvq[h]) \in Nat /\ Head(recvq[h]) \in 0..nsent[Peer(h)] BY <1>2, <1>3
<1>6. RecvTypes'
  BY <1>1, <1>3, <1>4, <1>5 DEF PacketTypes, RecvTypes
<1> QED BY <1>1, <1>6 DEF PacketTypes, SendTypes, InboxTypes

LEMMA SendQueueTypes ==
    ASSUME PacketTypes, NEW h \in Hosts, Send(h) PROVE PacketTypes'
<1>1. /\ sendq[h] # <<>> /\ sendq' = [sendq EXCEPT ![h] = Tail(@)]
      /\ UNCHANGED <<recvq, nsent, got>>
  BY DEF Send
<1>2. Head(sendq[h]) \in 1..nsent[h] /\ Tail(sendq[h]) \in Seq(1..nsent[h])
  BY <1>1, HeadTailProperties DEF PacketTypes, SendTypes
<1>3. Tail(sendq[h]) \in Seq(Nat)
  BY <1>2, NumbersAreNat DEF PacketTypes, SendTypes
<1>4. SendTypes' /\ RecvTypes'
  BY <1>1, <1>2, <1>3 DEF PacketTypes, SendTypes, RecvTypes
<1>5. InboxTypes'
  <2>1. CASE ToServer(Peer(h), Head(sendq[h]))
    <3>1. Peer(h) \in Hosts /\ Head(sendq[h]) \in 1..nsent[Peer(Peer(h))] BY <1>2, PeerFacts
    <3> QED BY <2>1, <3>1, <1>1, ToServerTypes DEF PacketTypes, SendTypes
  <2>2. CASE UNCHANGED inbox
    BY <2>2, <1>1 DEF PacketTypes, InboxTypes
  <2> QED BY <2>1, <2>2 DEF Send
<1> QED BY <1>4, <1>5 DEF PacketTypes

LEMMA LostTypes ==
    ASSUME PacketTypes, NEW h \in Hosts, Lost(h) PROVE PacketTypes'
<1>1. UNCHANGED <<sendq, recvq, nsent, got>> BY DEF Lost, queueVars
<1>2. PICK kept \in {<<>>, Late(inbox[h])}, n \in 0..Len(inbox[Peer(h)]) :
        inbox' = [inbox EXCEPT ![h] = kept, ![Peer(h)] = SubSeq(@, 1, n)]
  BY DEF Lost
<1>3. Peer(h) \in Hosts /\ Peer(h) # h /\ nsent[h] \in Nat /\ nsent[Peer(h)] \in Nat
      /\ Peer(Peer(h)) = h
  BY PeerFacts DEF PacketTypes, SendTypes
<1>4. kept \in Seq(Stanzas(nsent[Peer(h)]))
  BY <1>3, LateTypes, EmptySeq DEF PacketTypes, InboxTypes
<1>5. SubSeq(inbox[Peer(h)], 1, n) \in Seq(Stanzas(nsent[h]))
  <2>1. inbox[Peer(h)] \in Seq(Stanzas(nsent[h])) BY <1>3 DEF PacketTypes, InboxTypes
  <2>2. \A i \in 1..n : inbox[Peer(h)][i] \in Stanzas(nsent[h])
    BY <2>1, ElementOfSeq, LenProperties
  <2> QED BY <2>2, SubSeqProperties
<1>6. /\ kept \in Seq([pkt : Nat, delayed : BOOLEAN])
      /\ SubSeq(inbox[Peer(h)], 1, n) \in Seq([pkt : Nat, delayed : BOOLEAN])
  BY <1>3, <1>4, <1>5, StanzasAreStanzas
<1>7. InboxTypes'
  BY <1>1, <1>2, <1>3, <1>4, <1>5, <1>6, PeerFacts DEF PacketTypes, InboxTypes
<1> QED BY <1>1, <1>7 DEF PacketTypes, SendTypes, RecvTypes

LEMMA ReceiveTypes ==
    ASSUME PacketTypes, NEW h \in Hosts, Receive(h) PROVE PacketTypes'
<1>1. /\ inbox[h] # <<>> /\ inbox' = [inbox EXCEPT ![h] = Tail(@)]
      /\ UNCHANGED <<sendq, nsent, got>>
  BY DEF Receive
<1>2. nsent[Peer(h)] \in Nat BY PeerFacts DEF PacketTypes, SendTypes
<1>3. Head(inbox[h]) \in Stanzas(nsent[Peer(h)]) /\ Tail(inbox[h]) \in Seq(Stanzas(nsent[Peer(h)]))
  BY <1>1, HeadTailProperties DEF PacketTypes, InboxTypes
<1>4. Tail(inbox[h]) \in Seq([pkt : Nat, delayed : BOOLEAN]) BY <1>2, <1>3, StanzasAreStanzas
<1>5. InboxTypes' BY <1>1, <1>3, <1>4 DEF PacketTypes, InboxTypes
<1>6. RecvTypes'
  <2>1. CASE UNCHANGED recvq BY <2>1, <1>1 DEF PacketTypes, RecvTypes
  <2>2. CASE recvq' = [recvq EXCEPT ![h] = Append(@, Head(inbox[h]).pkt)]
    <3>1. Append(recvq[h], Head(inbox[h]).pkt) \in Seq(1..nsent[Peer(h)])
      <4>1. Head(inbox[h]).pkt \in 1..nsent[Peer(h)] BY <1>3 DEF Stanzas
      <4> QED BY <4>1, AppendProperties DEF PacketTypes, RecvTypes
    <3>2. Append(recvq[h], Head(inbox[h]).pkt) \in Seq(Nat) BY <3>1, <1>2, NumbersAreNat
    <3> QED BY <2>2, <3>1, <3>2, <1>1 DEF PacketTypes, RecvTypes
  <2> QED BY <2>1, <2>2 DEF Receive
<1> QED BY <1>1, <1>5, <1>6 DEF PacketTypes, SendTypes

LEMMA FiniTypes ==
    ASSUME PacketTypes, NEW h \in Hosts, Fini(h) PROVE PacketTypes'
<1>1. /\ sendq' = [sendq EXCEPT ![h] = <<>>] /\ recvq' = [recvq EXCEPT ![h] = <<>>]
      /\ UNCHANGED <<nsent, got, inbox>>
  BY DEF Fini, serverVars
<1>2. \A S : <<>> \in Seq(S) BY EmptySeq
<1> QED BY <1>1, <1>2 DEF PacketTypes, SendTypes, RecvTypes, InboxTypes

LEMMA InitPackets == ASSUME Init PROVE PacketTypes
<1>1. \A S : <<>> \in Seq(S) BY EmptySeq
<1> QED BY <1>1, PeerFacts DEF Init, PacketTypes, SendTypes, RecvTypes, InboxTypes

LEMMA NextPackets == ASSUME PacketTypes, [Next]_vars PROVE PacketTypes'
<1>1. ASSUME UNCHANGED <<sendq, recvq, nsent, got, inbox>> PROVE PacketTypes'
  BY <1>1 DEF PacketTypes, SendTypes, RecvTypes, InboxTypes
<1>2. ASSUME NEW h \in Hosts,
             \/ Connect(h) \/ TestStop(h) \/ EventsDone(h) \/ SendDone(h) \/ Leave(h)
             \/ RunEnds(h) \/ TimerFires(h) \/ Established(h) \/ Failed(h)
             \/ Stop(h) \/ Release(h)
      PROVE  UNCHANGED <<sendq, recvq, nsent, got, inbox>>
  BY <1>2 DEF Connect, TestStop, EventsDone, SendDone, Leave, RunEnds, TimerFires,
       Established, Failed, Stop, Release, queueVars, serverVars
<1>3. CASE UNCHANGED vars
  BY <1>1, <1>3 DEF vars, queueVars, serverVars
<1> QED
  BY <1>1, <1>2, <1>3, EnqueueTypes, PktGetTypes, SendQueueTypes, LostTypes, ReceiveTypes,
     FiniTypes DEF Next, WorkStep, Event

(* Every variable keeps its type, and a host only holds packets that were  *)
(* handed over on the other one, for every number of packets.              *)
THEOREM TypeCorrect == Spec => []TypeOK
<1>1. Init => PacketTypes BY InitPackets
<1>2. PacketTypes /\ [Next]_vars => PacketTypes' BY NextPackets
<1>3. Spec => []PacketTypes BY <1>1, <1>2, PTL DEF Spec
<1>4. IInv /\ PacketTypes => TypeOK BY TypeOKParts DEF IInv
<1> QED BY <1>3, <1>4, Inductive, PTL

-----------------------------------------------------------------------------
(* The link is a FIFO.                                                     *)
(* The numbers of the packets in stanzas.                                  *)
Typed == Seq([pkt : Nat, delayed : BOOLEAN])

(* The numbers follow the stanzas in all that happens to them.             *)
LEMMA PacketsFacts ==
    ASSUME NEW q \in Typed
    PROVE  /\ Packets(q) \in Seq(Nat) /\ Len(Packets(q)) = Len(q)
           /\ Packets(Late(q)) = Packets(q) /\ Packets(<<>>) = <<>>
           /\ \A k \in Nat, late \in BOOLEAN :
                 Packets(Append(q, Stanza(k, late))) = Append(Packets(q), k)
           /\ \A n \in 0..Len(q) : Packets(SubSeq(q, 1, n)) = SubSeq(Packets(q), 1, n)
           /\ q # <<>> => /\ Packets(q) # <<>> /\ Packets(Tail(q)) = Tail(Packets(q))
                          /\ Head(Packets(q)) = Head(q).pkt
<1> DEFINE p == Packets(q)
<1>1. /\ Len(q) \in Nat /\ DOMAIN q = 1..Len(q)
      /\ \A i \in 1..Len(q) : q[i] \in [pkt : Nat, delayed : BOOLEAN]
  BY LenProperties, ElementOfSeq DEF Typed
<1>2. p = [i \in 1..Len(q) |-> q[i].pkt] BY <1>1 DEF Packets
<1>3. p \in Seq(Nat) /\ Len(p) = Len(q)
  <2>1. p \in [1..Len(q) -> Nat] BY <1>1, <1>2
  <2> QED BY <1>1, <2>1, SeqDef, LenProperties
<1>4. Packets(Late(q)) = p BY <1>1, <1>2 DEF Packets, Late, Stanza
<1>5. Packets(<<>>) = <<>> BY DEF Packets
<1> HIDE DEF p
<1>6. ASSUME NEW k \in Nat, NEW late \in BOOLEAN
      PROVE  Packets(Append(q, Stanza(k, late))) = Append(p, k)
  <2> DEFINE a == Append(q, Stanza(k, late))
             b == Append(p, k)
  <2>1. Stanza(k, late) \in [pkt : Nat, delayed : BOOLEAN] /\ Stanza(k, late).pkt = k
    BY DEF Stanza
  <2>2. /\ a \in Typed /\ Len(a) = Len(q) + 1 /\ a[Len(q) + 1] = Stanza(k, late)
        /\ \A i \in 1..Len(q) : a[i] = q[i]
    BY <2>1, AppendProperties DEF Typed
  <2>3. /\ b \in Seq(Nat) /\ Len(b) = Len(q) + 1 /\ b[Len(q) + 1] = k
        /\ \A i \in 1..Len(q) : b[i] = p[i]
    BY <1>3, AppendProperties
  <2>4. DOMAIN a = 1..(Len(q) + 1) /\ b = [i \in 1..(Len(q) + 1) |-> b[i]]
    BY <2>2, <2>3, LenProperties DEF Typed
  <2> HIDE DEF a, b
  <2>5. \A i \in 1..(Len(q) + 1) : a[i].pkt = b[i]
    <3>1. TAKE i \in 1..(Len(q) + 1)
    <3>2. i \in 1..Len(q) \/ i = Len(q) + 1 BY <1>1
    <3> QED BY <1>2, <2>1, <2>2, <2>3, <3>2
  <2>6. Packets(a) = [i \in 1..(Len(q) + 1) |-> a[i].pkt] BY <2>4 DEF Packets
  <2> QED BY <2>4, <2>5, <2>6 DEF a, b
<1>7. ASSUME NEW n \in 0..Len(q) PROVE Packets(SubSeq(q, 1, n)) = SubSeq(p, 1, n)
  <2>1. SubSeq(q, 1, n) = [i \in 1..n |-> q[i]] BY <1>1
  <2>2. SubSeq(p, 1, n) = [i \in 1..n |-> p[i]] BY <1>1, <1>3
  <2>3. \A i \in 1..n : i \in 1..Len(q) BY <1>1
  <2>4. Packets(SubSeq(q, 1, n)) = [i \in 1..n |-> q[i].pkt] BY <2>1 DEF Packets
  <2> QED BY <1>2, <2>2, <2>3, <2>4
<1>8. ASSUME q # <<>>
      PROVE  p # <<>> /\ Packets(Tail(q)) = Tail(p) /\ Head(p) = Head(q).pkt
  <2>1. Len(q) > 0 /\ p # <<>> BY <1>1, <1>3, <1>8, EmptySeq DEF Typed
  <2>2. /\ Tail(q) \in Typed /\ Len(Tail(q)) = Len(q) - 1
        /\ \A i \in 1..(Len(q) - 1) : Tail(q)[i] = q[i + 1]
    BY <1>8, HeadTailProperties DEF Typed
  <2>3. /\ Tail(p) \in Seq(Nat) /\ Len(Tail(p)) = Len(q) - 1
        /\ \A i \in 1..(Len(q) - 1) : Tail(p)[i] = p[i + 1]
    BY <1>3, <2>1, HeadTailProperties
  <2>4. /\ DOMAIN Tail(q) = 1..(Len(q) - 1)
        /\ Tail(p) = [i \in 1..(Len(q) - 1) |-> Tail(p)[i]]
    BY <2>2, <2>3, LenProperties DEF Typed
  <2>5. \A i \in 1..(Len(q) - 1) : i + 1 \in 1..Len(q) BY <1>1
  <2>6. Packets(Tail(q)) = [i \in 1..(Len(q) - 1) |-> Tail(q)[i].pkt] BY <2>4 DEF Packets
  <2>7. Packets(Tail(q)) = Tail(p) BY <1>2, <2>2, <2>3, <2>4, <2>5, <2>6
  <2>8. Head(p) = p[1] /\ Head(q) = q[1] /\ 1 \in 1..Len(q) BY <1>1, <2>1, <1>3 DEF Typed
  <2> QED BY <1>2, <2>1, <2>7, <2>8
<1> QED BY <1>3, <1>4, <1>5, <1>6, <1>7, <1>8 DEF p

-----------------------------------------------------------------------------
(* Where the packets of host g are.                                        *)
Arrived(g) == recvq[Peer(g)]
Served(g) == Packets(inbox[Peer(g)])

(* They are sequences of packets.                                          *)
LEMMA TransitIs ==
    ASSUME PacketTypes, NEW g \in Hosts
    PROVE  /\ Arrived(g) \in Seq(Nat) /\ Served(g) \in Seq(Nat) /\ sendq[g] \in Seq(Nat)
           /\ inbox[Peer(g)] \in Typed /\ nsent[g] \in Nat
           /\ Transit(g) = Arrived(g) \o Served(g) \o sendq[g] /\ Transit(g) \in Seq(Nat)
<1>1. Peer(g) \in Hosts BY PeerFacts
<1>2. inbox[Peer(g)] \in Typed /\ Arrived(g) \in Seq(Nat) /\ sendq[g] \in Seq(Nat)
      /\ nsent[g] \in Nat
  BY <1>1 DEF PacketTypes, SendTypes, RecvTypes, InboxTypes, Typed, Arrived
<1>3. Served(g) \in Seq(Nat) BY <1>2, PacketsFacts DEF Served
<1>4. Arrived(g) \o Served(g) \o sendq[g] \in Seq(Nat)
  BY <1>2, <1>3, ConcatProperties
<1> QED BY <1>2, <1>3, <1>4 DEF Transit, Arrived, Served

(* What one direction of the link may do.                                  *)
Accepts(g) ==
    /\ nsent'[g] = nsent[g] + 1 /\ got'[Peer(g)] = got[Peer(g)]
    /\ Transit(g)' = Append(Transit(g), nsent'[g])
Delivers(g) ==
    /\ nsent'[g] = nsent[g]
    /\ Transit(g) # <<>> /\ got'[Peer(g)] = Head(Transit(g))
    /\ Transit(g)' = Tail(Transit(g))
Drops(g) ==
    /\ nsent'[g] = nsent[g] /\ got'[Peer(g)] = got[Peer(g)]
    /\ Seqs!Remains(Transit(g)', Transit(g))

(* Packets that remain where they were are a part of those in transit.     *)
LEMMA DropsWhatIsGone ==
    ASSUME PacketTypes, NEW g \in Hosts,
           nsent'[g] = nsent[g], got'[Peer(g)] = got[Peer(g)],
           Seqs!Remains(recvq'[Peer(g)], Arrived(g)),
           Seqs!Remains(Packets(inbox'[Peer(g)]), Served(g)),
           Seqs!Remains(sendq'[g], sendq[g])
    PROVE  Drops(g)
<1> DEFINE r == recvq'[Peer(g)]
           p == Packets(inbox'[Peer(g)])
           s == sendq'[g]
<1>1. Arrived(g) \in Seq(Nat) /\ Served(g) \in Seq(Nat) /\ sendq[g] \in Seq(Nat)
      /\ Transit(g) = Arrived(g) \o Served(g) \o sendq[g]
  BY TransitIs
<1>2. Arrived(g) \o Served(g) \in Seq(Nat) BY <1>1, ConcatProperties
<1>3. Transit(g)' = r \o p \o s BY DEF Transit, Peer
<1> HIDE DEF r, p, s
<1>4. Seqs!Remains(r \o p, Arrived(g) \o Served(g)) BY <1>1, Seqs!RemainsOfBoth DEF r, p
<1>5. Seqs!Remains((r \o p) \o s, (Arrived(g) \o Served(g)) \o sendq[g])
  BY <1>1, <1>2, <1>4, Seqs!RemainsOfBoth DEF s
<1> QED BY <1>1, <1>3, <1>5 DEF Drops

(* A step that touches none of them drops none.                            *)
LEMMA NothingMoves ==
    ASSUME PacketTypes, NEW g \in Hosts,
           nsent'[g] = nsent[g], got'[Peer(g)] = got[Peer(g)], recvq'[Peer(g)] = recvq[Peer(g)],
           Packets(inbox'[Peer(g)]) = Served(g), sendq'[g] = sendq[g]
    PROVE  Drops(g)
<1>1. Arrived(g) \in Seq(Nat) /\ Served(g) \in Seq(Nat) /\ sendq[g] \in Seq(Nat)
  BY TransitIs
<1>2. /\ Seqs!Remains(Arrived(g), Arrived(g)) /\ Seqs!Remains(Served(g), Served(g))
      /\ Seqs!Remains(sendq[g], sendq[g])
  BY <1>1, Seqs!RemainsAll
<1> QED BY <1>2, DropsWhatIsGone DEF Arrived


(* One step of host h, seen by the direction of host g.                    *)
StepOf(g) == Accepts(g) \/ Delivers(g) \/ Drops(g)

(* A packet that is handed over is accepted.                               *)
LEMMA EnqueueStep ==
    ASSUME PacketTypes, NEW h \in Hosts, NEW g \in Hosts, Enqueue(h) PROVE StepOf(g)
<1>1. /\ nsent' = [nsent EXCEPT ![h] = @ + 1] /\ UNCHANGED <<recvq, got, inbox>>
      /\ sendq' = [sendq EXCEPT ![h] = Append(@, nsent'[h])]
  BY DEF Enqueue, serverVars
<1>2. nsent \in [Hosts -> Nat] /\ sendq \in [Hosts -> Seq(Nat)] BY DEF PacketTypes, SendTypes
<1>3. CASE g = h
  <2> DEFINE q == Arrived(g) \o Served(g)
             s == sendq[g]
             k == nsent'[g]
  <2>1. k = nsent[g] + 1 /\ k \in Nat /\ sendq'[g] = Append(s, k) BY <1>1, <1>2, <1>3
  <2>2. q \in Seq(Nat) /\ s \in Seq(Nat) /\ Transit(g) = q \o s
    BY TransitIs, ConcatProperties
  <2>3. Transit(g)' = q \o Append(s, k)
    BY <1>1, <2>1 DEF Transit, Arrived, Served, Peer
  <2> HIDE DEF q, s, k
  <2>4. q \o Append(s, k) = Append(q \o s, k) BY <2>1, <2>2
  <2>5. got'[Peer(g)] = got[Peer(g)] BY <1>1
  <2> QED BY <2>1, <2>2, <2>3, <2>4, <2>5 DEF StepOf, Accepts, k
<1>4. CASE g # h
  <2>1. nsent'[g] = nsent[g] /\ sendq'[g] = sendq[g] BY <1>1, <1>2, <1>4
  <2> QED BY <1>1, <2>1, NothingMoves DEF StepOf, Served
<1> QED BY <1>3, <1>4

(* The packet that is returned is the oldest one in transit.               *)
LEMMA PktGetStep ==
    ASSUME PacketTypes, NEW h \in Hosts, NEW g \in Hosts, PktGet(h) PROVE StepOf(g)
<1>1. /\ recvq[h] # <<>> /\ UNCHANGED <<sendq, nsent, inbox>>
      /\ recvq' = [recvq EXCEPT ![h] = Tail(@)] /\ got' = [got EXCEPT ![h] = Head(recvq[h])]
  BY DEF PktGet, serverVars
<1>2. recvq \in [Hosts -> Seq(Nat)] /\ got \in [Hosts -> Nat] /\ Peer(g) \in Hosts
  BY PeerFacts DEF PacketTypes, RecvTypes
<1>3. CASE h = Peer(g)
  <2> DEFINE r == Arrived(g)
             p == Served(g)
             s == sendq[g]
  <2>1. r # <<>> /\ recvq'[Peer(g)] = Tail(r) /\ got'[Peer(g)] = Head(r)
    BY <1>1, <1>2, <1>3 DEF Arrived
  <2>2. /\ r \in Seq(Nat) /\ p \in Seq(Nat) /\ s \in Seq(Nat)
        /\ Transit(g) = (r \o p) \o s
    BY TransitIs
  <2>3. Transit(g)' = (Tail(r) \o p) \o s
    BY <1>1, <2>1 DEF Transit, Served, Peer
  <2> HIDE DEF r, p, s
  <2>4. /\ r \o p \in Seq(Nat) /\ r \o p # <<>>
        /\ Head(r \o p) = Head(r) /\ Tail(r \o p) = Tail(r) \o p
    BY <2>1, <2>2, ConcatProperties, Seqs!FirstOfBoth
  <2>5. /\ (r \o p) \o s # <<>> /\ Head((r \o p) \o s) = Head(r)
        /\ Tail((r \o p) \o s) = (Tail(r) \o p) \o s
    <3> DEFINE q == r \o p
    <3>1. q \in Seq(Nat) /\ q # <<>> /\ Head(q) = Head(r) /\ Tail(q) = Tail(r) \o p
      BY <2>4
    <3> HIDE DEF q
    <3>2. q \o s # <<>> /\ Head(q \o s) = Head(q) /\ Tail(q \o s) = Tail(q) \o s
      BY <2>2, <3>1, Seqs!FirstOfBoth
    <3> QED BY <3>1, <3>2 DEF q
  <2>6. nsent'[g] = nsent[g] BY <1>1
  <2> QED BY <2>1, <2>2, <2>3, <2>5, <2>6 DEF StepOf, Delivers
<1>4. CASE h # Peer(g)
  <2>1. recvq'[Peer(g)] = recvq[Peer(g)] /\ got'[Peer(g)] = got[Peer(g)] BY <1>1, <1>2, <1>4
  <2> QED BY <1>1, <2>1, NothingMoves DEF StepOf, Served
<1> QED BY <1>3, <1>4

(* A packet that is sent changes its place, or is lost.                    *)
LEMMA SendStep ==
    ASSUME PacketTypes, NEW h \in Hosts, NEW g \in Hosts, Send(h) PROVE StepOf(g)
<1>1. /\ sendq[h] # <<>> /\ sendq' = [sendq EXCEPT ![h] = Tail(@)]
      /\ UNCHANGED <<recvq, nsent, got>>
  BY DEF Send
<1>2. /\ sendq \in [Hosts -> Seq(Nat)] /\ inbox \in [Hosts -> Typed]
      /\ Peer(g) \in Hosts /\ Peer(h) \in Hosts /\ (Peer(g) = Peer(h) => g = h)
  BY PeerFacts DEF PacketTypes, SendTypes, InboxTypes, Typed
<1>3. \/ UNCHANGED inbox
      \/ \E late \in BOOLEAN :
           inbox' = [inbox EXCEPT ![Peer(h)] = Append(@, Stanza(Head(sendq[h]), late))]
  BY DEF Send, ToServer
<1>4. CASE g # h
  <2>1. sendq'[g] = sendq[g] /\ inbox'[Peer(g)] = inbox[Peer(g)]
    BY <1>1, <1>2, <1>3, <1>4
  <2> QED BY <1>1, <2>1, NothingMoves DEF StepOf, Served
<1>5. CASE g = h /\ UNCHANGED inbox
  <2>1. sendq[g] \in Seq(Nat) /\ sendq[g] # <<>> /\ sendq'[g] = Tail(sendq[g])
    BY <1>1, <1>2, <1>5
  <2>2. Seqs!Remains(sendq'[g], sendq[g]) BY <2>1, Seqs!RemainsPart
  <2>3. Arrived(g) \in Seq(Nat) /\ Served(g) \in Seq(Nat) BY TransitIs
  <2>4. Seqs!Remains(Arrived(g), Arrived(g)) /\ Seqs!Remains(Served(g), Served(g))
    BY <2>3, Seqs!RemainsAll
  <2>5. recvq'[Peer(g)] = Arrived(g) /\ Packets(inbox'[Peer(g)]) = Served(g)
        /\ nsent'[g] = nsent[g] /\ got'[Peer(g)] = got[Peer(g)]
    BY <1>1, <1>5 DEF Arrived, Served
  <2> QED BY <2>2, <2>4, <2>5, DropsWhatIsGone DEF StepOf
<1>6. ASSUME g = h, NEW late \in BOOLEAN,
             inbox' = [inbox EXCEPT ![Peer(h)] = Append(@, Stanza(Head(sendq[h]), late))]
      PROVE  StepOf(g)
  <2> DEFINE r == Arrived(g)
             p == Served(g)
             s == sendq[g]
  <2>1. s # <<>> /\ sendq'[g] = Tail(s) BY <1>1, <1>2, <1>6
  <2>2. /\ r \in Seq(Nat) /\ p \in Seq(Nat) /\ s \in Seq(Nat) /\ inbox[Peer(g)] \in Typed
        /\ Transit(g) = (r \o p) \o s /\ Transit(g) \in Seq(Nat)
    BY TransitIs
  <2>3. Head(s) \in Nat /\ Tail(s) \in Seq(Nat) BY <2>1, <2>2, HeadTailProperties
  <2>4. inbox'[Peer(g)] = Append(inbox[Peer(g)], Stanza(Head(s), late)) BY <1>2, <1>6
  <2>5. Packets(inbox'[Peer(g)]) = Append(p, Head(s))
    <3>1. \A k \in Nat, l \in BOOLEAN :
            Packets(Append(inbox[Peer(g)], Stanza(k, l))) = Append(Packets(inbox[Peer(g)]), k)
      BY <2>2, PacketsFacts
    <3> QED BY <2>3, <2>4, <3>1 DEF Served
  <2>6. Transit(g)' = (r \o Append(p, Head(s))) \o Tail(s)
    BY <1>1, <2>1, <2>5 DEF Transit, Arrived, Peer
  <2> HIDE DEF r, p, s
  <2>7. r \o p \in Seq(Nat) /\ r \o Append(p, Head(s)) = Append(r \o p, Head(s))
    <3>1. r \o p \in Seq(Nat) BY <2>2, ConcatProperties
    <3>2. r \o Append(p, Head(s)) = Append(r \o p, Head(s))
      <4> DEFINE e == Head(s)
      <4>1. r \in Seq(Nat) /\ p \in Seq(Nat) /\ e \in Nat BY <2>2, <2>3
      <4> HIDE DEF e
      <4>2. r \o Append(p, e) = Append(r \o p, e) BY <4>1, Seqs!LastOfBoth
      <4> QED BY <4>2 DEF e
    <3> QED BY <3>1, <3>2
  <2>8. Append(r \o p, Head(s)) \o Tail(s) = (r \o p) \o s
    BY <2>1, <2>2, <2>7, Seqs!MovesOver
  <2>9. Transit(g)' = Transit(g) BY <2>2, <2>6, <2>7, <2>8
  <2>10. Seqs!Remains(Transit(g)', Transit(g)) BY <2>2, <2>9, Seqs!RemainsAll
  <2> QED BY <1>1, <2>10 DEF StepOf, Drops
<1> QED BY <1>3, <1>4, <1>5, <1>6

(* With a connection stanzas may be lost, in both directions.              *)
LEMMA LostStep ==
    ASSUME PacketTypes, NEW h \in Hosts, NEW g \in Hosts, Lost(h) PROVE StepOf(g)
<1>1. UNCHANGED <<sendq, recvq, nsent, got>> BY DEF Lost, queueVars
<1>2. PICK kept \in {<<>>, Late(inbox[h])}, n \in 0..Len(inbox[Peer(h)]) :
        inbox' = [inbox EXCEPT ![h] = kept, ![Peer(h)] = SubSeq(@, 1, n)]
  BY DEF Lost
<1>3. /\ inbox \in [Hosts -> Typed] /\ Peer(g) \in Hosts /\ Peer(h) \in Hosts /\ Peer(h) # h
      /\ (Peer(g) = h \/ Peer(g) = Peer(h))
  BY PeerFacts DEF PacketTypes, InboxTypes, Typed
<1>4. /\ inbox[Peer(g)] \in Typed /\ Arrived(g) \in Seq(Nat) /\ Served(g) \in Seq(Nat)
      /\ sendq[g] \in Seq(Nat)
  BY TransitIs
<1>5. Seqs!Remains(Packets(inbox'[Peer(g)]), Served(g))
  <2>1. CASE Peer(g) = h
    <3>1. inbox'[Peer(g)] = <<>> \/ inbox'[Peer(g)] = Late(inbox[Peer(g)])
      BY <1>2, <1>3, <2>1
    <3>2. Packets(inbox'[Peer(g)]) = <<>> \/ Packets(inbox'[Peer(g)]) = Served(g)
      BY <1>4, <3>1, PacketsFacts DEF Served
    <3> QED BY <1>4, <3>2, Seqs!RemainsAll
  <2>2. CASE Peer(g) = Peer(h)
    <3>1. inbox'[Peer(g)] = SubSeq(inbox[Peer(g)], 1, n) /\ n \in 0..Len(inbox[Peer(g)])
      BY <1>2, <1>3, <2>2
    <3>2. Packets(inbox'[Peer(g)]) = SubSeq(Served(g), 1, n) /\ n \in 0..Len(Served(g))
      BY <1>4, <3>1, PacketsFacts DEF Served
    <3> QED BY <1>4, <3>2, Seqs!RemainsPart
  <2> QED BY <1>3, <2>1, <2>2
<1>6. Seqs!Remains(Arrived(g), Arrived(g)) /\ Seqs!Remains(sendq[g], sendq[g])
  BY <1>4, Seqs!RemainsAll
<1>7. /\ recvq'[Peer(g)] = Arrived(g) /\ sendq'[g] = sendq[g]
      /\ nsent'[g] = nsent[g] /\ got'[Peer(g)] = got[Peer(g)]
  BY <1>1 DEF Arrived
<1> QED BY <1>5, <1>6, <1>7, DropsWhatIsGone DEF StepOf

(* A stanza that arrives changes its place, or is ignored.                 *)
LEMMA ReceiveStep ==
    ASSUME PacketTypes, NEW h \in Hosts, NEW g \in Hosts, Receive(h) PROVE StepOf(g)
<1>1. /\ inbox[h] # <<>> /\ inbox' = [inbox EXCEPT ![h] = Tail(@)]
      /\ UNCHANGED <<sendq, nsent, got>>
      /\ recvq' = recvq \/ recvq' = [recvq EXCEPT ![h] = Append(@, Head(inbox[h]).pkt)]
  BY DEF Receive
<1>2. /\ recvq \in [Hosts -> Seq(Nat)] /\ inbox \in [Hosts -> Typed] /\ Peer(g) \in Hosts
  BY PeerFacts DEF PacketTypes, RecvTypes, InboxTypes, Typed
<1>3. CASE h # Peer(g)
  <2>1. recvq'[Peer(g)] = recvq[Peer(g)] /\ inbox'[Peer(g)] = inbox[Peer(g)]
    BY <1>1, <1>2, <1>3
  <2> QED BY <1>1, <2>1, NothingMoves DEF StepOf, Served
<1>4. CASE h = Peer(g)
  <2> DEFINE r == Arrived(g)
             p == Served(g)
             s == sendq[g]
  <2>1. /\ r \in Seq(Nat) /\ p \in Seq(Nat) /\ s \in Seq(Nat) /\ inbox[Peer(g)] \in Typed
        /\ Transit(g) = (r \o p) \o s /\ Transit(g) \in Seq(Nat)
    BY TransitIs
  <2>2. inbox'[Peer(g)] = Tail(inbox[Peer(g)]) /\ inbox[Peer(g)] # <<>> BY <1>1, <1>2, <1>4
  <2>3. Packets(inbox'[Peer(g)]) = Tail(p) /\ p # <<>> /\ Head(p) = Head(inbox[Peer(g)]).pkt
    BY <2>1, <2>2, PacketsFacts DEF Served
  <2>4. CASE recvq' = recvq
    <3>1. Seqs!Remains(Tail(p), p) BY <2>1, <2>3, Seqs!RemainsPart
    <3>2. Seqs!Remains(r, r) /\ Seqs!Remains(s, s) BY <2>1, Seqs!RemainsAll
    <3>3. /\ recvq'[Peer(g)] = r /\ sendq'[g] = s
          /\ nsent'[g] = nsent[g] /\ got'[Peer(g)] = got[Peer(g)]
      BY <1>1, <2>4 DEF Arrived
    <3> HIDE DEF r, p, s
    <3> QED BY <2>3, <3>1, <3>2, <3>3, DropsWhatIsGone DEF StepOf, r, p, s
  <2>5. CASE recvq' = [recvq EXCEPT ![h] = Append(@, Head(inbox[h]).pkt)]
    <3>1. recvq'[Peer(g)] = Append(r, Head(p)) BY <1>2, <1>4, <2>3, <2>5 DEF Arrived
    <3>2. Transit(g)' = (Append(r, Head(p)) \o Tail(p)) \o s
      BY <1>1, <2>3, <3>1 DEF Transit, Peer
    <3> HIDE DEF r, p, s
    <3>3. Append(r, Head(p)) \o Tail(p) = r \o p BY <2>1, <2>3, Seqs!MovesOver
    <3>4. Transit(g)' = Transit(g) BY <2>1, <3>2, <3>3
    <3>5. Seqs!Remains(Transit(g)', Transit(g)) BY <2>1, <3>4, Seqs!RemainsAll
    <3> QED BY <1>1, <3>5 DEF StepOf, Drops
  <2> QED BY <1>1, <2>4, <2>5
<1> QED BY <1>3, <1>4

(* The queues are freed with what is in them.                              *)
LEMMA FiniStep ==
    ASSUME PacketTypes, NEW h \in Hosts, NEW g \in Hosts, Fini(h) PROVE StepOf(g)
<1>1. /\ sendq' = [sendq EXCEPT ![h] = <<>>] /\ recvq' = [recvq EXCEPT ![h] = <<>>]
      /\ UNCHANGED <<nsent, got, inbox>>
  BY DEF Fini, serverVars
<1>2. recvq \in [Hosts -> Seq(Nat)] /\ sendq \in [Hosts -> Seq(Nat)] /\ Peer(g) \in Hosts
  BY PeerFacts DEF PacketTypes, RecvTypes, SendTypes
<1>3. Arrived(g) \in Seq(Nat) /\ Served(g) \in Seq(Nat) /\ sendq[g] \in Seq(Nat)
  BY TransitIs
<1>4. /\ recvq'[Peer(g)] = <<>> \/ recvq'[Peer(g)] = Arrived(g)
      /\ sendq'[g] = <<>> \/ sendq'[g] = sendq[g]
  BY <1>1, <1>2 DEF Arrived
<1>5. Seqs!Remains(recvq'[Peer(g)], Arrived(g)) /\ Seqs!Remains(sendq'[g], sendq[g])
  BY <1>3, <1>4, Seqs!RemainsAll
<1>6. Seqs!Remains(Packets(inbox'[Peer(g)]), Served(g))
  BY <1>1, <1>3, Seqs!RemainsAll DEF Served
<1>7. nsent'[g] = nsent[g] /\ got'[Peer(g)] = got[Peer(g)] BY <1>1
<1> QED BY <1>5, <1>6, <1>7, DropsWhatIsGone DEF StepOf

(* Every step of the link is a step of the FIFO in each direction.         *)
LEMMA NextStep == ASSUME PacketTypes, [Next]_vars, NEW g \in Hosts PROVE StepOf(g)
<1>1. ASSUME UNCHANGED <<sendq, recvq, nsent, got, inbox>> PROVE StepOf(g)
  BY <1>1, NothingMoves DEF StepOf, Served
<1>2. ASSUME NEW h \in Hosts,
             \/ Connect(h) \/ TestStop(h) \/ EventsDone(h) \/ SendDone(h) \/ Leave(h)
             \/ RunEnds(h) \/ TimerFires(h) \/ Established(h) \/ Failed(h)
             \/ Stop(h) \/ Release(h)
      PROVE  UNCHANGED <<sendq, recvq, nsent, got, inbox>>
  BY <1>2 DEF Connect, TestStop, EventsDone, SendDone, Leave, RunEnds, TimerFires,
       Established, Failed, Stop, Release, queueVars, serverVars
<1>3. CASE UNCHANGED vars
  BY <1>1, <1>3 DEF vars, queueVars, serverVars
<1> QED
  BY <1>1, <1>2, <1>3, EnqueueStep, PktGetStep, SendStep, LostStep, ReceiveStep, FiniStep
  DEF Next, WorkStep, Event

(* In each direction the link loses packets at most: it never repeats or   *)
(* reorders them, whatever happens to the connections and whenever the     *)
(* hosts stop.                                                             *)
THEOREM LinkIsFifo == Spec => Fifo
<1>1. Init => Rightward!Init /\ Leftward!Init
  <2> SUFFICES ASSUME Init PROVE Rightward!Init /\ Leftward!Init
    OBVIOUS
  <2>1. \A g \in Hosts : Transit(g) = <<>> /\ nsent[g] = 0 /\ got[Peer(g)] = 0
    <3>1. ASSUME NEW g \in Hosts PROVE Transit(g) = <<>> /\ nsent[g] = 0 /\ got[Peer(g)] = 0
      <4>1. recvq[Peer(g)] = <<>> /\ inbox[Peer(g)] = <<>> /\ sendq[g] = <<>>
            /\ nsent[g] = 0 /\ got[Peer(g)] = 0
        BY PeerFacts DEF Init
      <4>2. Packets(<<>>) = <<>> BY DEF Packets
      <4>3. <<>> \o <<>> \o <<>> = <<>> OBVIOUS
      <4> QED BY <4>1, <4>2, <4>3 DEF Transit
    <3> QED BY <3>1
  <2>2. Left \in Hosts /\ Right \in Hosts /\ Peer(Left) = Right /\ Peer(Right) = Left
    BY XmppAssumption DEF Hosts, Peer, XmppAssumption
  <2> QED BY <2>1, <2>2 DEF Rightward!Init, Leftward!Init
<1>2. PacketTypes /\ [Next]_vars => [Rightward!Next]_Rightward!vars /\ [Leftward!Next]_Leftward!vars
  <2> SUFFICES ASSUME PacketTypes, [Next]_vars
               PROVE  [Rightward!Next]_Rightward!vars /\ [Leftward!Next]_Leftward!vars
    OBVIOUS
  <2>1. Left \in Hosts /\ Right \in Hosts /\ Peer(Left) = Right /\ Peer(Right) = Left
    BY XmppAssumption DEF Hosts, Peer, XmppAssumption
  <2>2. StepOf(Left) /\ StepOf(Right) BY <2>1, NextStep
  <2>3. [Rightward!Next]_Rightward!vars
    <3>1. CASE Accepts(Left) BY <2>1, <3>1 DEF Accepts, Rightward!Next, Rightward!Accept
    <3>2. CASE Delivers(Left) BY <2>1, <3>2 DEF Delivers, Rightward!Next, Rightward!Deliver
    <3>3. CASE Drops(Left)
      BY <2>1, <3>3 DEF Drops, Seqs!Remains, Rightward!Next, Rightward!Lose
    <3> QED BY <2>2, <3>1, <3>2, <3>3 DEF StepOf
  <2>4. [Leftward!Next]_Leftward!vars
    <3>1. CASE Accepts(Right) BY <2>1, <3>1 DEF Accepts, Leftward!Next, Leftward!Accept
    <3>2. CASE Delivers(Right) BY <2>1, <3>2 DEF Delivers, Leftward!Next, Leftward!Deliver
    <3>3. CASE Drops(Right)
      BY <2>1, <3>3 DEF Drops, Seqs!Remains, Leftward!Next, Leftward!Lose
    <3> QED BY <2>2, <3>1, <3>2, <3>3 DEF StepOf
  <2> QED BY <2>3, <2>4
<1>3. Init => PacketTypes BY InitPackets
<1>4. PacketTypes /\ [Next]_vars => PacketTypes' BY NextPackets
<1> QED BY <1>1, <1>2, <1>3, <1>4, PTL DEF Spec, Fifo, Rightward!Spec, Leftward!Spec
=============================================================================
