---------------------------- MODULE TpHttpProofs ----------------------------
(***************************************************************************)
(* Proofs about the HTTP transport, for any number of packets and parts, in*)
(* both modes and with hosts that stop: every variable keeps its type; as  *)
(* long as read() returns whole messages, the right to send is a token and *)
(* in normal mode each direction of the link is a FIFO; and in normal mode *)
(* no packet comes twice, even when messages are cut.  And about base64, in*)
(* which they are written: decoding gives what was encoded, for any data.  *)
(***************************************************************************)
EXTENDS TpHttp, SequenceTheorems, TLAPS

(* Facts about numbers and sequences that are proved there.                *)
Seqs == INSTANCE ListsProofs

(* The threads of the hosts, and the labels they can be at.                *)
LEMMA ActorFacts ==
    /\ \A h \in Hosts : Pipe(h) \in Actors /\ Work(h) \in Actors /\ Peer(h) \in Hosts
    /\ \A h, g \in Hosts : Pipe(h) # Work(g)
    /\ \A h, g \in Hosts : h # g => Pipe(h) # Pipe(g) /\ Work(h) # Work(g)
    /\ \A a \in Actors : Host(a) \in Hosts /\ Rest(a) \in Labels
    /\ \A h \in Hosts : /\ Host(Pipe(h)) = h /\ Host(Work(h)) = h
                        /\ Rest(Pipe(h)) = "idle" /\ Rest(Work(h)) = "poll"
    /\ \A a \in Actors : a = Pipe(Host(a)) \/ a = Work(Host(a))
BY DEF Pipe, Work, Actors, Hosts, Peer, Client, Server, Host, Rest, Labels

(* Each direction has a connection of its own.                             *)
LEMMA ConnFacts ==
    /\ \A h \in Hosts : DataConn(h) \in Conns /\ DataConn(h) # DataConn(Peer(h))
    /\ \A h \in Hosts : Peer(Peer(h)) = h /\ Peer(h) # h
    /\ \A h \in Hosts, c \in Conns : c = DataConn(h) \/ c = DataConn(Peer(h))
BY DEF DataConn, Conns, Hosts, Peer, Client, Server

(* Moving a thread to another label keeps the type of pc.                  *)
LEMMA GotoTypes ==
    ASSUME TypeOK, NEW a \in Actors, NEW label \in Labels, Goto(a, label)
    PROVE  pc' \in [Actors -> Labels]
BY DEF TypeOK, Goto

(* Failing an assertion keeps the type of failed.                          *)
LEMMA FailTypes ==
    ASSUME TypeOK, NEW h \in Hosts,
           NEW w \in Failures, Fail(h, w)
    PROVE  failed' \in [Hosts -> Failures]
BY DEF TypeOK, Fail

(* What the messages are.                                                  *)
LEMMA MessageFacts ==
    /\ Empty \in Messages /\ Empty.part = 0
    /\ \A k \in Nat : Data(k) \in Messages /\ Data(k) # Empty /\ Data(k).part = 1
BY DEF Empty, Data, Messages

(* What a write leaves of the types of net and failed.                     *)
LEMMA SendTypes ==
    ASSUME TypeOK, NEW h \in Hosts, NEW c \in Conns, NEW m \in Messages, Send(h, c, m)
    PROVE  /\ net' \in [Hosts -> [Conns -> Seq(Messages)]]
           /\ failed' \in [Hosts -> Failures]
<1>1. Peer(h) \in Hosts BY ActorFacts
<1>2. Append(net[Peer(h)][c], m) \in Seq(Messages)
  BY <1>1, AppendProperties DEF TypeOK
<1>3. CASE net' = [net EXCEPT ![Peer(h)][c] = Append(@, m)] /\ UNCHANGED failed
  BY <1>1, <1>2, <1>3 DEF TypeOK
<1>4. CASE UNCHANGED <<net, failed>>
  BY <1>4 DEF TypeOK
<1>5. CASE Fail(h, "write") /\ UNCHANGED net
  BY <1>5, FailTypes DEF TypeOK, Failures
<1> QED BY <1>3, <1>4, <1>5 DEF Send

(* What a read leaves of the type of net.                                  *)
LEMMA ConsumeTypes ==
    ASSUME TypeOK, NEW h \in Hosts, NEW c \in Conns, Consume(h, c)
    PROVE  net' \in [Hosts -> [Conns -> Seq(Messages)]]
<1>1. PICK n \in 1..Len(net[h][c]) :
        net' = [net EXCEPT ![h][c] = SubSeq(@, n + 1, Len(@))]
  BY DEF Consume
<1>2. net[h][c] \in Seq(Messages)
  BY DEF TypeOK
<1>3. SubSeq(net[h][c], n + 1, Len(net[h][c])) \in Seq(Messages)
  BY <1>2, SubSeqProperties, LenProperties
<1> QED BY <1>1, <1>3 DEF TypeOK

(* A packet takes at least one message.                                    *)
LEMMA PartsFacts == Parts \in Nat \ {0}
BY HttpAssumption DEF HttpAssumption, Parts

(* What the steps on the side channel leave alone.                         *)
LEMMA SideKeeps ==
    ASSUME NEW a, SideSend(a)
    PROVE  side /\ UNCHANGED <<side, recvq, nsent, got, ready, recvVars, fd>>
<1>1. ASSUME NEW from, NEW to, SideStep(a, from, to)
      PROVE  side /\ UNCHANGED <<side, recvq, nsent, got, ready, recvVars, fd>>
  BY <1>1 DEF SideStep
<1>2. CASE Astray(a) BY <1>2 DEF Astray, queueVars, sendVars
<1>3. CASE Compare(a) BY <1>1, <1>3 DEF Compare
<1>4. CASE Front(a) \/ Locate(a) \/ Measure(a) \/ Begin(a) \/ SideWrite(a)
  BY <1>1, <1>4 DEF Front, Locate, Measure, Begin, SideWrite
<1>5. CASE Load(a) \/ Store(a) \/ Reset(a) \/ Pop(a) \/ PutBack(a)
  BY <1>1, <1>5 DEF Load, Store, Reset, Pop, PutBack
<1> QED BY <1>2, <1>3, <1>4, <1>5 DEF SideSend

(* No step changes the mode, and so the number of parts.                   *)
LEMMA ModeStays ==
    ASSUME [Next]_vars
    PROVE  side' = side /\ Parts' = Parts /\ Messages' = Messages
<1>1. ASSUME NEW h \in Hosts, PipeStep(h) \/ WorkStep(h) PROVE side' = side
  BY <1>1, SideKeeps
  DEF PipeStep, WorkStep, SendNext, TestReady, Take, SetReady, Write,
      Reply, ReadEmpty, ReadData, ReadChunk
<1>2. side' = side
  BY <1>1
  DEF Next, vars, Enqueue, PktRecv, ReadFragment, ReadClosed, PipelineStopped, StopModule
<1>3. Parts' = Parts BY <1>2 DEF Parts
<1> QED BY <1>2, <1>3 DEF Messages

(* Every variable has its type in the initial state.                       *)
LEMMA InitTypes == ASSUME Init PROVE TypeOK
BY PartsFacts, ActorFacts, MessageFacts
DEF Init, TypeOK, Conns, Labels, Failures, Rest, Actors

(* The steps on the side channel keep every variable in its type.          *)
LEMMA SideTypes == ASSUME TypeOK, NEW a \in Actors, SideSend(a) PROVE TypeOK'
<1>a. /\ Host(a) \in Hosts /\ Rest(a) \in Labels /\ side' = side /\ Parts' = Parts
      /\ pkt[a] \in Nat /\ offset[Host(a)] \in Nat /\ sum[a] \in Nat /\ msg[a] \in Messages
      /\ sendq[Host(a)] \in Seq(Nat)
  <2>1. side' = side BY SideKeeps
  <2> QED BY <2>1, ActorFacts DEF TypeOK, Parts
<1> USE <1>a
<1>b. ASSUME NEW from, NEW to \in Labels, SideStep(a, from, to)
      PROVE  pc' \in [Actors -> Labels]
  BY <1>b, GotoTypes DEF SideStep
<1>1. CASE Front(a)
  <2>1. pc' \in [Actors -> Labels] BY <1>1, <1>b DEF Front, Labels
  <2>2. sendq[Host(a)] # <<>> => Head(sendq[Host(a)]) \in Nat OBVIOUS
  <2>3. pkt' \in [Actors -> Nat] BY <1>1, <2>2 DEF Front, TypeOK
  <2> QED BY <1>1, <2>1, <2>3 DEF Front, SideStep, TypeOK, recvVars, sideVars
<1>2. CASE Locate(a)
  <2>1. pc' \in [Actors -> Labels] BY <1>2, <1>b DEF Locate, Labels
  <2>2. [pkt |-> pkt[a], part |-> offset[Host(a)] + 1, head |-> FALSE] \in Messages
    BY DEF Messages
  <2>3. msg' \in [Actors -> Messages] BY <1>2, <2>2 DEF Locate, TypeOK
  <2> QED BY <1>2, <2>1, <2>3 DEF Locate, SideStep, TypeOK, recvVars
<1>3. CASE Measure(a)
  <2>1. pc' \in [Actors -> Labels] BY <1>3, <1>b DEF Measure, Labels
  <2>2. \A n \in Nat : [msg[a] EXCEPT !.part = n] \in Messages BY DEF Messages
  <2>3. msg[a].part \in Nat BY DEF Messages
  <2>4. msg' \in [Actors -> Messages] BY <1>3, <2>2, <2>3 DEF Measure, TypeOK
  <2> QED BY <1>3, <2>1, <2>4 DEF Measure, SideStep, TypeOK, recvVars
<1>4. CASE Begin(a)
  <2>1. pc' \in [Actors -> Labels] BY <1>4, <1>b DEF Begin, Labels
  <2>2. [msg[a] EXCEPT !.head = (offset[Host(a)] = 0)] \in Messages BY DEF Messages
  <2>3. msg' \in [Actors -> Messages] BY <1>4, <2>2 DEF Begin, TypeOK
  <2> QED BY <1>4, <2>1, <2>3 DEF Begin, SideStep, TypeOK, recvVars
<1>5. CASE SideWrite(a)
  <2>1. pc' \in [Actors -> Labels] BY <1>5, <1>b DEF SideWrite, Labels, Updating
  <2>2. SendConn(a) \in Conns BY ConnFacts DEF TypeOK, SendConn
  <2>3. net' \in [Hosts -> [Conns -> Seq(Messages)]] /\ failed' \in [Hosts -> Failures]
    BY <1>5, <2>2, SendTypes DEF SideWrite
  <2> QED BY <1>5, <2>1, <2>3 DEF SideWrite, SideStep, TypeOK, recvVars, sideVars
<1>6. CASE Load(a)
  <2>1. pc' \in [Actors -> Labels] BY <1>6, <1>b DEF Load, Labels, Updating
  <2>2. sum' \in [Actors -> Nat] BY <1>6 DEF Load, TypeOK
  <2> QED BY <1>6, <2>1, <2>2 DEF Load, SideStep, TypeOK, recvVars
<1>7. CASE Store(a)
  <2>1. pc' \in [Actors -> Labels] BY <1>7, <1>b DEF Store, Labels, Updating
  <2>2. offset' \in [Hosts -> Nat] BY <1>7 DEF Store, TypeOK
  <2> QED BY <1>7, <2>1, <2>2 DEF Store, SideStep, TypeOK, recvVars, sideVars
<1>c. ASSUME Done(a)
      PROVE  pkt' \in [Actors -> Nat] /\ msg' \in [Actors -> Messages] /\ sum' \in [Actors -> Nat]
  BY <1>c, MessageFacts DEF Done, TypeOK
<1>8. CASE Compare(a)
  <2>1. pc' \in [Actors -> Labels] BY <1>8, <1>b DEF Compare, Labels, Updating
  <2>2. pkt' \in [Actors -> Nat] /\ msg' \in [Actors -> Messages] /\ sum' \in [Actors -> Nat]
    <3>1. Done(a) \/ UNCHANGED <<pkt, msg, sum>> BY <1>8 DEF Compare
    <3> QED BY <1>c, <3>1 DEF TypeOK
  <2>3. UNCHANGED <<side, sendq, recvq, nsent, got, ready, offset, recvVars, net, returned, fd, failed>>
    BY <1>8 DEF Compare, SideStep
  <2> QED BY <2>1, <2>2, <2>3 DEF TypeOK, recvVars
<1>9. CASE Reset(a)
  <2>1. pc' \in [Actors -> Labels] BY <1>9, <1>b DEF Reset, Labels, Updating
  <2>2. offset' \in [Hosts -> Nat] BY <1>9 DEF Reset, TypeOK
  <2> QED BY <1>9, <2>1, <2>2 DEF Reset, SideStep, TypeOK, recvVars, sideVars
<1>10. CASE Pop(a)
  <2>1. pc' \in [Actors -> Labels] BY <1>10, <1>b DEF Pop, Labels, Updating
  <2>2. sendq[Host(a)] # <<>> => Tail(sendq[Host(a)]) \in Seq(Nat) OBVIOUS
  <2>3. sendq' \in [Hosts -> Seq(Nat)] BY <1>10, <2>2 DEF Pop, TypeOK
  <2> QED BY <1>10, <2>1, <2>3 DEF Pop, SideStep, TypeOK, recvVars, sideVars
<1>11. CASE PutBack(a)
  <2>1. pc' \in [Actors -> Labels] BY <1>11, <1>b DEF PutBack
  <2>2. returned' \in [Hosts -> SUBSET Nat] BY <1>11 DEF PutBack, TypeOK
  <2>3. pkt' \in [Actors -> Nat] /\ msg' \in [Actors -> Messages] /\ sum' \in [Actors -> Nat]
    BY <1>11, <1>c DEF PutBack
  <2> QED BY <1>11, <2>1, <2>2, <2>3 DEF PutBack, SideStep, TypeOK, recvVars
<1>12. CASE Astray(a)
  <2>1. failed' \in [Hosts -> Failures] BY <1>12, FailTypes DEF Astray, Failures
  <2> QED BY <1>12, <2>1 DEF Astray, TypeOK, queueVars, sendVars, recvVars, sideVars
<1> QED
  BY <1>1, <1>2, <1>3, <1>4, <1>5, <1>6, <1>7, <1>8, <1>9, <1>10, <1>11, <1>12 DEF SideSend

(* So does a message that is read on the side channel; a packet that is    *)
(* put together is never complete.                                         *)
LEMMA ChunkTypes ==
    ASSUME TypeOK, NEW h \in Hosts, NEW c \in Conns, ReadChunk(h, c)
    PROVE  TypeOK'
<1> DEFINE m == Head(net[h][c])
           target == IF m.head THEN m.pkt ELSE rpkt[h]
           parts == (IF m.head THEN 0 ELSE rparts[h]) + IF m.part = 0 THEN 0 ELSE 1
<1>1. net' \in [Hosts -> [Conns -> Seq(Messages)]]
  BY ConsumeTypes DEF ReadChunk
<1>2. net[h][c] \in Seq(Messages) /\ net[h][c] # <<>> BY DEF ReadChunk, TypeOK
<1>3. m \in Messages BY <1>2
<1>4. rparts[h] \in 0..(Parts - 1) /\ rpkt[h] \in Nat /\ Parts \in Nat \ {0}
  BY PartsFacts DEF TypeOK
<1>5. target \in Nat /\ parts \in Nat BY <1>3, <1>4 DEF Messages
<1>6. side' = side /\ Parts' = Parts BY DEF ReadChunk, Parts
<1>7. UNCHANGED <<sendq, nsent, got, sendVars, pkt, sideVars>> BY DEF ReadChunk
<1>8. CASE UNCHANGED <<fd, pc, recvq, recvVars>> /\ \E w \in {"recv_pkt", "pkt"} : Fail(h, w)
  <2>1. failed' \in [Hosts -> Failures] BY <1>8, FailTypes DEF Failures
  <2> QED BY <1>1, <1>6, <1>7, <1>8, <2>1 DEF TypeOK, sendVars, recvVars, sideVars
<1>9. CASE /\ recvq' = [recvq EXCEPT ![h] = IF Complete(parts) THEN Append(@, target) ELSE @]
           /\ rpkt' = [rpkt EXCEPT ![h] = IF Complete(parts) THEN 0 ELSE target]
           /\ rparts' = [rparts EXCEPT ![h] = IF Complete(parts) THEN 0 ELSE parts]
           /\ fd' = [fd EXCEPT ![h] = c]
           /\ Goto(Work(h), IF m.part = 0 THEN "next" ELSE "reply")
           /\ UNCHANGED failed
  <2> HIDE DEF target, parts
  <2>1. Append(recvq[h], target) \in Seq(Nat) BY <1>5, AppendProperties DEF TypeOK
  <2>2. recvq' \in [Hosts -> Seq(Nat)] BY <1>9, <2>1 DEF TypeOK
  <2>3. rpkt' \in [Hosts -> Nat] BY <1>5, <1>9 DEF TypeOK
  <2>4. ~Complete(parts) => parts \in 0..(Parts - 1) BY <1>4, <1>5 DEF Complete
  <2>5. 0 \in 0..(Parts - 1) BY <1>4
  <2>6. rparts' \in [Hosts -> 0..(Parts - 1)] BY <1>9, <2>4, <2>5 DEF TypeOK
  <2>7. fd' \in [Hosts -> Conns] BY <1>9 DEF TypeOK
  <2>8. pc' \in [Actors -> Labels] BY <1>9, ActorFacts, GotoTypes DEF Labels
  <2> QED BY <1>1, <1>6, <1>7, <1>9, <2>2, <2>3, <2>6, <2>7, <2>8 DEF TypeOK, sendVars, sideVars
<1> HIDE DEF m, target, parts
<1> QED BY <1>8, <1>9 DEF ReadChunk, m, target, parts

(* No step takes a variable out of its type.                               *)
LEMMA NextTypes == ASSUME TypeOK, [Next]_vars PROVE TypeOK'
<1>a. /\ side' = side /\ side \in Modes /\ Parts' = Parts /\ Messages' = Messages
      /\ Parts \in Nat \ {0}
  BY ModeStays, PartsFacts DEF TypeOK
<1> USE <1>a
<1>1. ASSUME NEW h \in Hosts, Enqueue(h) PROVE TypeOK'
  <2>1. nsent[h] + 1 \in Nat /\ sendq[h] \in Seq(Nat) BY DEF TypeOK
  <2>2. Append(sendq[h], nsent[h] + 1) \in Seq(Nat) BY <2>1, AppendProperties
  <2>3. nsent' \in [Hosts -> Nat] /\ nsent'[h] = nsent[h] + 1
    BY <1>1, <2>1 DEF Enqueue, TypeOK
  <2>4. sendq' \in [Hosts -> Seq(Nat)] BY <1>1, <2>2, <2>3 DEF Enqueue, TypeOK
  <2>5. pc' \in [Actors -> Labels]
    BY <1>1, ActorFacts, GotoTypes DEF Enqueue, Labels
  <2> QED BY <1>1, <2>3, <2>4, <2>5 DEF Enqueue, TypeOK, sendVars, recvVars, sideVars
<1>2. ASSUME NEW h \in Hosts, PktRecv(h) PROVE TypeOK'
  <2>1. recvq[h] \in Seq(Nat) BY DEF TypeOK
  <2>2. recvq[h] # <<>> => Tail(recvq[h]) \in Seq(Nat) /\ Head(recvq[h]) \in Nat
    BY <2>1
  <2>3. recvq' \in [Hosts -> Seq(Nat)] /\ got' \in [Hosts -> Nat]
    <3>1. CASE UNCHANGED <<recvq, got>> BY <3>1 DEF TypeOK
    <3>2. CASE /\ recvq' = [recvq EXCEPT ![h] = Tail(@)]
               /\ got' = [got EXCEPT ![h] = Head(recvq[h])] /\ recvq[h] # <<>>
      BY <2>2, <3>2 DEF TypeOK
    <3> QED BY <1>2, <3>1, <3>2 DEF PktRecv
  <2>4. UNCHANGED <<sendq, nsent, sendVars, recvVars, net, pc, pkt, sideVars, fd, failed>>
    BY <1>2 DEF PktRecv
  <2> QED BY <2>3, <2>4 DEF TypeOK, sendVars, recvVars, sideVars
<1>3. ASSUME NEW h \in Hosts, TestReady(h) PROVE TypeOK'
  <2>1. pc' \in [Actors -> Labels]
    BY <1>3, ActorFacts DEF TestReady, TypeOK, Goto, Labels
  <2>2. UNCHANGED <<queueVars, sendVars, recvVars, net, pkt, sideVars, fd, failed>>
    BY <1>3 DEF TestReady
  <2> QED BY <2>1, <2>2 DEF TypeOK, queueVars, sendVars, recvVars, sideVars
<1>4. ASSUME NEW a \in Actors, Take(a) PROVE TypeOK'
  <2>1. sendq[Host(a)] \in Seq(Nat) BY ActorFacts DEF TypeOK
  <2>2. sendq[Host(a)] # <<>> =>
          Tail(sendq[Host(a)]) \in Seq(Nat) /\ Head(sendq[Host(a)]) \in Nat
    BY <2>1
  <2>3. pkt' \in [Actors -> Nat] BY <1>4, <2>2 DEF Take, TypeOK
  <2>4. sendq' \in [Hosts -> Seq(Nat)] BY <1>4, <2>2, ActorFacts DEF Take, TypeOK
  <2> QED BY <1>4, <2>3, <2>4 DEF Take, TypeOK, Goto, Labels, sendVars, recvVars, sideVars
<1>5. ASSUME NEW a \in Actors, SetReady(a) PROVE TypeOK'
  <2>1. pc' \in [Actors -> Labels] /\ ready' \in [Hosts -> BOOLEAN]
    BY <1>5, ActorFacts DEF SetReady, TypeOK, Goto, Labels
  <2>2. UNCHANGED <<queueVars, offset, recvVars, net, pkt, sideVars, fd, failed>>
    BY <1>5 DEF SetReady
  <2> QED BY <2>1, <2>2 DEF TypeOK, queueVars, recvVars, sideVars
<1>6. ASSUME NEW a \in Actors, Write(a) PROVE TypeOK'
  <2>1. Data(pkt[a]) \in Messages BY MessageFacts DEF TypeOK
  <2>2. SendConn(a) \in Conns
    BY ActorFacts, ConnFacts DEF TypeOK, SendConn
  <2>3. net' \in [Hosts -> [Conns -> Seq(Messages)]] /\ failed' \in [Hosts -> Failures]
    BY <1>6, <2>1, <2>2, SendTypes, ActorFacts DEF Write
  <2>4. pkt' \in [Actors -> Nat] BY <1>6 DEF Write, TypeOK
  <2>5. pc' \in [Actors -> Labels] BY <1>6, ActorFacts, GotoTypes DEF Write
  <2> QED BY <1>6, <2>3, <2>4, <2>5 DEF Write, TypeOK, queueVars, sendVars, recvVars, sideVars
<1>7. ASSUME NEW a \in Actors, SideSend(a) PROVE TypeOK'
  BY <1>7, SideTypes
<1>8. ASSUME NEW h \in Hosts, Reply(h) PROVE TypeOK'
  <2>1. Empty \in Messages BY DEF Empty, Messages
  <2>2. /\ net' \in [Hosts -> [Conns -> Seq(Messages)]]
        /\ failed' \in [Hosts -> Failures]
    BY <1>8, <2>1, SendTypes DEF Reply, TypeOK
  <2>3. pc' \in [Actors -> Labels] BY <1>8, ActorFacts, GotoTypes DEF Reply, Labels
  <2>4. UNCHANGED <<queueVars, sendVars, recvVars, pkt, sideVars, fd>> BY <1>8 DEF Reply
  <2> QED BY <2>2, <2>3, <2>4 DEF TypeOK, queueVars, sendVars, recvVars, sideVars
<1>9. ASSUME NEW h \in Hosts, NEW c \in Conns, ReadEmpty(h, c) PROVE TypeOK'
  <2>1. net' \in [Hosts -> [Conns -> Seq(Messages)]]
    BY <1>9, ConsumeTypes DEF ReadEmpty
  <2>2. pc' \in [Actors -> Labels] BY <1>9, ActorFacts, GotoTypes DEF ReadEmpty, Labels
  <2>3. fd' \in [Hosts -> Conns] BY <1>9 DEF ReadEmpty, TypeOK
  <2>4. UNCHANGED <<queueVars, sendVars, recvVars, pkt, sideVars, failed>> BY <1>9 DEF ReadEmpty
  <2> QED BY <2>1, <2>2, <2>3, <2>4 DEF TypeOK, queueVars, sendVars, recvVars, sideVars
<1>10. ASSUME NEW h \in Hosts, NEW c \in Conns, ReadData(h, c) PROVE TypeOK'
  <2>1. net' \in [Hosts -> [Conns -> Seq(Messages)]]
    BY <1>10, ConsumeTypes DEF ReadData
  <2>2. net[h][c] \in Seq(Messages) /\ net[h][c] # <<>>
    BY <1>10 DEF ReadData, TypeOK
  <2>a. Head(net[h][c]) \in Messages BY <2>2
  <2>3. Head(net[h][c]).pkt \in Nat BY <2>a DEF Messages
  <2>4. CASE Fail(h, "base64") /\ UNCHANGED <<fd, pc, recvq>>
    <3>1. failed' \in [Hosts -> Failures] BY <2>4, FailTypes DEF Failures
    <3> QED BY <1>10, <2>1, <2>4, <3>1 DEF ReadData, TypeOK, sendVars, recvVars, sideVars
  <2>5. CASE /\ recvq' = [recvq EXCEPT ![h] = Append(@, Head(net[h][c]).pkt)]
             /\ fd' = [fd EXCEPT ![h] = c] /\ Goto(Work(h), "reply") /\ UNCHANGED failed
    <3>1. Append(recvq[h], Head(net[h][c]).pkt) \in Seq(Nat)
      BY <2>3, AppendProperties DEF TypeOK
    <3>2. pc' \in [Actors -> Labels] BY <2>5, ActorFacts, GotoTypes DEF Labels
    <3>3. recvq' \in [Hosts -> Seq(Nat)] /\ fd' \in [Hosts -> Conns]
      BY <2>5, <3>1 DEF TypeOK
    <3> QED BY <1>10, <2>1, <2>5, <3>2, <3>3 DEF ReadData, TypeOK, sendVars, recvVars, sideVars
  <2> QED BY <1>10, <2>4, <2>5 DEF ReadData
<1>16. ASSUME NEW h \in Hosts, NEW c \in Conns, ReadChunk(h, c) PROVE TypeOK'
  BY <1>16, ChunkTypes
<1>11. ASSUME NEW h \in Hosts, NEW c \in Conns, ReadFragment(h, c) PROVE TypeOK'
  <2>1. net[h][c] \in Seq(Messages) /\ net[h][c] # <<>>
    BY <1>11 DEF ReadFragment, TypeOK
  <2>2. /\ Tail(net[h][c]) \in Seq(Messages) /\ Head(net[h][c]) \in Messages
        /\ <<Empty>> \in Seq(Messages)
    <3>1. Empty \in Messages BY DEF Empty, Messages
    <3> QED BY <2>1, <3>1
  <2>3. <<Empty>> \o Tail(net[h][c]) \in Seq(Messages) /\ Head(net[h][c]).pkt \in Nat
    BY <2>2 DEF Messages
  <2>4. net' \in [Hosts -> [Conns -> Seq(Messages)]]
    <3>1. CASE UNCHANGED net BY <3>1 DEF TypeOK
    <3>2. CASE net' = [net EXCEPT ![h][c] = <<Empty>> \o Tail(@)]
      BY <2>3, <3>2 DEF TypeOK
    <3> QED BY <1>11, <3>1, <3>2 DEF ReadFragment
  <2>5. /\ pc' \in [Actors -> Labels] /\ recvq' \in [Hosts -> Seq(Nat)]
        /\ failed' \in [Hosts -> Failures]
    <3>1. Append(recvq[h], Head(net[h][c]).pkt) \in Seq(Nat)
      BY <2>3, AppendProperties DEF TypeOK
    <3>2. CASE Goto(Work(h), "next") /\ UNCHANGED <<recvq, failed>>
      BY <3>2, ActorFacts, GotoTypes DEF Labels, TypeOK
    <3>3. CASE Fail(h, "base64") /\ UNCHANGED <<recvq, pc>>
      BY <3>3, FailTypes DEF TypeOK, Failures
    <3>4. CASE /\ recvq' = [recvq EXCEPT ![h] = Append(@, Head(net[h][c]).pkt)]
               /\ Goto(Work(h), "reply") /\ UNCHANGED failed
      <4>1. pc' \in [Actors -> Labels] BY <3>4, ActorFacts, GotoTypes DEF Labels
      <4> QED BY <3>1, <3>4, <4>1 DEF TypeOK
    <3> QED BY <1>11, <3>2, <3>3, <3>4 DEF ReadFragment
  <2> QED BY <1>11, <2>4, <2>5 DEF ReadFragment, TypeOK, sendVars, recvVars, sideVars
<1>12. ASSUME NEW h \in Hosts, ReadClosed(h) PROVE TypeOK'
  BY <1>12 DEF ReadClosed, TypeOK, Fail, Failures, queueVars, sendVars, recvVars, sideVars
<1>13. ASSUME NEW h \in Hosts, PipelineStopped(h) PROVE TypeOK'
  <2>1. pc' \in [Actors -> Labels] BY <1>13, ActorFacts, GotoTypes DEF PipelineStopped, Labels
  <2>2. UNCHANGED <<queueVars, sendVars, recvVars, net, sideVars, fd, failed>>
        /\ pkt' \in [Actors -> Nat]
    BY <1>13 DEF PipelineStopped, TypeOK
  <2> QED BY <2>1, <2>2 DEF TypeOK, queueVars, sendVars, recvVars, sideVars
<1>14. ASSUME NEW h \in Hosts, StopModule(h) PROVE TypeOK'
  <2>1. pc' \in [Actors -> Labels] BY <1>14, ActorFacts, GotoTypes DEF StopModule, Labels
  <2>2. <<>> \in Seq(Messages) BY EmptySeq
  <2>3. net' \in [Hosts -> [Conns -> Seq(Messages)]]
    BY <1>14, <2>2 DEF StopModule, TypeOK
  <2> QED BY <1>14, <2>1, <2>3 DEF StopModule, TypeOK, queueVars, sendVars, recvVars, sideVars
<1>15. CASE UNCHANGED vars
  BY <1>15 DEF vars, TypeOK, queueVars, sendVars, recvVars, sideVars
<1> QED
  BY <1>1, <1>2, <1>3, <1>4, <1>5, <1>6, <1>7, <1>8, <1>9, <1>10, <1>11, <1>12,
     <1>13, <1>14, <1>15, <1>16, ActorFacts
  DEF Next, PipeStep, WorkStep, SendNext

(* Type correctness, for every value of the constants.                     *)
THEOREM TypeCorrect == Spec => []TypeOK
<1>1. Init => TypeOK BY InitTypes
<1>2. TypeOK /\ [Next]_vars => TypeOK' BY NextTypes
<1> QED BY <1>1, <1>2, PTL DEF Spec

-----------------------------------------------------------------------------
(* The token.                                                              *)

(* Where the right of host h to send can be; no two of them hold at once.  *)
Flag(h) == ready[h] /\ pc[Pipe(h)] \notin Sending
PipeSends(h) == pc[Pipe(h)] \in Sending
WorkSends(h) == pc[Work(h)] \in Sending
DataComes(h) == net[Peer(h)][DataConn(h)] # <<>>
PeerAnswers(h) == pc[Work(Peer(h))] = "reply" /\ fd[Peer(h)] = DataConn(h)
EmptyComes(h) == net[h][DataConn(h)] # <<>>

Exclusive(h) ==
    /\ Flag(h) => ~(WorkSends(h) \/ DataComes(h) \/ PeerAnswers(h) \/ EmptyComes(h))
    /\ PipeSends(h) => ~(WorkSends(h) \/ DataComes(h) \/ PeerAnswers(h) \/ EmptyComes(h))
    /\ WorkSends(h) => ~(DataComes(h) \/ PeerAnswers(h) \/ EmptyComes(h))
    /\ DataComes(h) => ~(PeerAnswers(h) \/ EmptyComes(h))
    /\ PeerAnswers(h) => ~EmptyComes(h)

(* A connection carries at most one message; host g gets the empty ones on *)
(* the connection it sends its data on, and the data on the other one.     *)
OneAt(g, c) ==
    \/ net[g][c] = <<>>
    \/ \E m : /\ net[g][c] = <<m>>
              /\ IF c = DataConn(g) THEN m = Empty ELSE m.part # 0

Nets == \A g \in Hosts, c \in Conns : OneAt(g, c)

(* While a thread updates the offset the other one does not send.          *)
HostInv(h) ==
    /\ Exclusive(h)
    /\ pc[Pipe(h)] \in (Sending \ {"next", "flag"}) \cup Updating => ~ready[h]
    /\ pc[Work(h)] \in Updating => ~ready[h]
    /\ pc[Pipe(h)] \in Updating => pc[Work(h)] \notin Sending \cup Updating
    /\ pc[Work(h)] \in Updating => pc[Pipe(h)] \notin Sending \cup Updating
    /\ WorkSends(h) => fd[h] = DataConn(h)
    /\ pc[Work(h)] = "reply" => fd[h] = DataConn(Peer(h))

(* Outside of these labels thc_send_offset is less than the packet's size, *)
(* so that a message which is measured is not without data.                *)
OffsetInv(h) ==
    /\ pc[Pipe(h)] \in Updating => side
    /\ \A a \in {Pipe(h), Work(h)} :
         /\ pc[a] = "compare" => sum[a] = offset[h]
         /\ side /\ pc[a] \in {"measure", "begin", "write"} => msg[a].part # 0
    /\ pc[Pipe(h)] \notin {"compare", "reset"} /\ pc[Work(h)] \notin {"compare", "reset"}
         => offset[h] < Parts

TokenInv ==
    TypeOK /\ Nets /\ \A h \in Hosts : HostInv(h) /\ OffsetInv(h)

(* In the initial state the client has the flag, and answers for the server*)
LEMMA InitToken == ASSUME Init PROVE TokenInv
<1>1. TypeOK BY InitTypes
<1>2. Nets BY DEF Init, Nets, OneAt
<1>3. ASSUME NEW h \in Hosts PROVE HostInv(h)
  BY ActorFacts, ConnFacts
     DEF Init, HostInv, Exclusive, Flag, PipeSends, WorkSends, DataComes,
         PeerAnswers, EmptyComes, Sending, Updating, Hosts, Client, Server, Peer, Pipe,
         Work, Actors, Rest, DataConn, Conns
<1>4. ASSUME NEW h \in Hosts PROVE OffsetInv(h)
  <2>1. pc[Pipe(h)] = "idle" /\ pc[Work(h)] \in {"poll", "reply"} /\ offset[h] = 0
    <3>1. Pipe(h) \in Actors /\ Work(h) \in Actors /\ Pipe(h) # Work(Client)
      BY ActorFacts DEF Hosts
    <3> QED BY <3>1, ActorFacts DEF Init
  <2> QED BY <2>1, PartsFacts DEF OffsetInv, Updating
<1> QED BY <1>1, <1>2, <1>3, <1>4 DEF TokenInv

(* A write onto an idle connection leaves at most one message on it.       *)
LEMMA SendNet ==
    ASSUME TypeOK, Nets, NEW h \in Hosts, NEW c \in Conns, NEW m \in Messages,
           Send(h, c, m), net[Peer(h)][c] = <<>>,
           IF c = DataConn(Peer(h)) THEN m = Empty ELSE m.part # 0
    PROVE  /\ Nets'
           /\ \A g \in Hosts, d \in Conns :
                g # Peer(h) \/ d # c => net'[g][d] = net[g][d]
<1>1. Peer(h) \in Hosts BY ActorFacts
<1>2. CASE UNCHANGED net BY <1>2 DEF Nets, OneAt
<1>3. CASE net' = [net EXCEPT ![Peer(h)][c] = Append(@, m)]
  <2>1. Append(<<>>, m) = <<m>> OBVIOUS
  <2>2. net'[Peer(h)][c] = <<m>> BY <1>1, <1>3, <2>1 DEF TypeOK
  <2>3. \A g \in Hosts, d \in Conns : g # Peer(h) \/ d # c => net'[g][d] = net[g][d]
    BY <1>1, <1>3 DEF TypeOK
  <2>4. ASSUME NEW g \in Hosts, NEW d \in Conns PROVE OneAt(g, d)'
    <3>1. CASE g = Peer(h) /\ d = c BY <2>2, <3>1 DEF OneAt
    <3>2. CASE g # Peer(h) \/ d # c BY <2>3, <3>2 DEF OneAt, Nets
    <3> QED BY <3>1, <3>2
  <2> QED BY <2>3, <2>4 DEF Nets
<1> QED BY <1>2, <1>3 DEF Send

(* A read takes the only message of its connection.                        *)
LEMMA ConsumeNet ==
    ASSUME TypeOK, Nets, NEW h \in Hosts, NEW c \in Conns, net[h][c] # <<>>, Consume(h, c)
    PROVE  /\ Nets' /\ net'[h][c] = <<>>
           /\ \A g \in Hosts, d \in Conns : g # h \/ d # c => net'[g][d] = net[g][d]
           /\ Head(net[h][c]) = Empty <=> c = DataConn(h)
           /\ Head(net[h][c]).part = 0 <=> c = DataConn(h)
<1>1. PICK m : /\ net[h][c] = <<m>>
               /\ (m = Empty) <=> (c = DataConn(h))
               /\ (m.part = 0) <=> (c = DataConn(h))
  BY MessageFacts DEF Nets, OneAt
<1>2. Len(net[h][c]) = 1 /\ Head(net[h][c]) = m /\ net[h][c] \in Seq(Messages)
  <2>1. net[h][c] \in Seq(Messages) BY DEF TypeOK
  <2> QED BY <1>1, <2>1
<1>3. PICK n \in 1..Len(net[h][c]) :
        net' = [net EXCEPT ![h][c] = SubSeq(@, n + 1, Len(@))]
  BY DEF Consume
<1>4. n = 1 /\ SubSeq(net[h][c], n + 1, Len(net[h][c])) = <<>>
  BY <1>2, SubSeqEmpty
<1>5. net' = [net EXCEPT ![h][c] = <<>>] BY <1>3, <1>4
<1>6. /\ net'[h][c] = <<>>
      /\ \A g \in Hosts, d \in Conns : g # h \/ d # c => net'[g][d] = net[g][d]
  BY <1>5 DEF TypeOK
<1>7. Nets' BY <1>6 DEF Nets, OneAt
<1> QED BY <1>1, <1>2, <1>6, <1>7

(* A step of one thread that neither sends nor receives touches the rights *)
(* of its own host only.                                                   *)
LEMMA LocalStep ==
    ASSUME TokenInv, NEW h \in Hosts, UNCHANGED <<net, fd, side>>,
           \A g \in Hosts : g # h => ready'[g] = ready[g],
           \A b \in Actors : Host(b) # h => pc'[b] = pc[b],
           pc'[Work(h)] = "reply" <=> pc[Work(h)] = "reply",
           HostInv(h)'
    PROVE  Nets' /\ \A g \in Hosts : HostInv(g)'
<1>1. Nets' BY DEF TokenInv, Nets, OneAt
<1>2. ASSUME NEW g \in Hosts, g # h PROVE HostInv(g)'
  <2>1. g = Peer(h) /\ Peer(g) = h BY <1>2 DEF Hosts, Peer
  <2>2. pc'[Pipe(g)] = pc[Pipe(g)] /\ pc'[Work(g)] = pc[Work(g)]
    BY <1>2, ActorFacts
  <2>3. HostInv(g) BY DEF TokenInv
  <2> QED BY <1>2, <2>1, <2>2, <2>3
    DEF HostInv, Exclusive, Flag, PipeSends, WorkSends, DataComes, PeerAnswers, EmptyComes
<1> QED BY <1>1, <1>2

(* What Goto() does to the labels of all threads.                          *)
LEMMA GotoFacts ==
    ASSUME TypeOK, NEW a \in Actors, NEW label, Goto(a, label)
    PROVE  pc'[a] = label /\ \A b \in Actors : b # a => pc'[b] = pc[b]
BY DEF TypeOK, Goto

(* No step gives a host a second right to send.                            *)
LEMMA NextToken ==
    ASSUME ~Fragmenting, TRUE \in Modes => FastAnswers = {}, TokenInv, [Next]_vars
    PROVE  Nets' /\ \A h \in Hosts : HostInv(h)'
<1> USE DEF Sending, Updating
<1>a. TypeOK /\ Nets /\ \A h \in Hosts : HostInv(h) BY DEF TokenInv
<1>b. ASSUME NEW h \in Hosts, NEW label, UNCHANGED <<net, fd, side, ready>>,
             Goto(Pipe(h), label), label \in Sending => pc[Pipe(h)] \in Sending \/ ready[h],
             label \in Updating => pc[Pipe(h)] \in Updating,
             label \in Sending \ {"next", "flag"} => ~ready[h],
             pc[Pipe(h)] \in {"next", "flag"} => label \in Sending
      PROVE  Nets' /\ \A g \in Hosts : HostInv(g)'
  <2>1. /\ pc'[Pipe(h)] = label /\ pc'[Work(h)] = pc[Work(h)]
        /\ \A b \in Actors : Host(b) # h => pc'[b] = pc[b]
    BY <1>a, <1>b, GotoFacts, ActorFacts
  <2>2. pc'[Work(Peer(h))] = pc[Work(Peer(h))]
    BY <2>1, ActorFacts, ConnFacts
  <2>3. HostInv(h)'
    BY <1>a, <1>b, <2>1, <2>2
    DEF HostInv, Exclusive, Flag, PipeSends, WorkSends, DataComes, PeerAnswers, EmptyComes
  <2> QED BY <1>b, <2>1, <2>3, LocalStep
<1>c. ASSUME NEW h \in Hosts, NEW label, UNCHANGED <<net, fd, side, ready>>,
             Goto(Work(h), label), label # "reply", pc[Work(h)] # "reply",
             label \in Sending => pc[Work(h)] \in Sending,
             label \in Updating => pc[Work(h)] \in Updating
      PROVE  Nets' /\ \A g \in Hosts : HostInv(g)'
  <2>1. /\ pc'[Work(h)] = label /\ pc'[Pipe(h)] = pc[Pipe(h)]
        /\ \A b \in Actors : Host(b) # h => pc'[b] = pc[b]
    BY <1>a, <1>c, GotoFacts, ActorFacts
  <2>2. pc'[Work(Peer(h))] = pc[Work(Peer(h))]
    BY <2>1, ActorFacts, ConnFacts
  <2>3. HostInv(h)'
    BY <1>a, <1>c, <2>1, <2>2
    DEF HostInv, Exclusive, Flag, PipeSends, WorkSends, DataComes, PeerAnswers, EmptyComes
  <2> QED BY <1>c, <2>1, <2>3, LocalStep
<1>1. ASSUME NEW h \in Hosts, Enqueue(h) PROVE Nets' /\ \A g \in Hosts : HostInv(g)'
  BY <1>1, <1>b DEF Enqueue, At, sendVars
<1>2. ASSUME NEW h \in Hosts, PktRecv(h) PROVE Nets' /\ \A g \in Hosts : HostInv(g)'
  BY <1>a, <1>2
  DEF PktRecv, Nets, OneAt, HostInv, Exclusive, Flag, PipeSends,
      WorkSends, DataComes, PeerAnswers, EmptyComes, sendVars, recvVars
<1>3. ASSUME NEW h \in Hosts, TestReady(h) PROVE Nets' /\ \A g \in Hosts : HostInv(g)'
  BY <1>3, <1>b DEF TestReady, At, sendVars
<1>4. ASSUME NEW a \in Actors, Take(a) PROVE Nets' /\ \A g \in Hosts : HostInv(g)'
  <2>1. Host(a) \in Hosts /\ (a = Pipe(Host(a)) \/ a = Work(Host(a))) BY ActorFacts
  <2>2. UNCHANGED <<net, fd, side, ready>> /\ Goto(a, "flag") /\ pc[a] = "next"
    BY <1>4 DEF Take, At, sendVars
  <2> QED BY <2>1, <2>2, <1>b, <1>c
<1>5. ASSUME NEW a \in Actors, SetReady(a) PROVE Nets' /\ \A g \in Hosts : HostInv(g)'
  <2> DEFINE h == Host(a)
  <2>1. h \in Hosts /\ (a = Pipe(h) \/ a = Work(h)) BY ActorFacts
  <2>2. /\ UNCHANGED <<net, fd, side>> /\ pc[a] = "flag"
        /\ ready'[h] = (pkt[a] = 0)
        /\ \A g \in Hosts : g # h => ready'[g] = ready[g]
        /\ pc'[a] = IF pkt[a] = 0 THEN Rest(a) ELSE IF side THEN "front" ELSE "write"
        /\ \A b \in Actors : b # a => pc'[b] = pc[b]
    BY <1>a, <1>5, <2>1 DEF SetReady, At, TypeOK, Goto
  <2>3. Rest(a) \in {"idle", "poll"} BY DEF Rest
  <2> HIDE DEF h
  <2>4. pc'[Work(Peer(h))] = pc[Work(Peer(h))]
    BY <2>1, <2>2, ActorFacts, ConnFacts
  <2>5. CASE a = Pipe(h)
    <3>1. pc'[Work(h)] = pc[Work(h)] BY <2>1, <2>2, <2>5, ActorFacts
    <3>2. HostInv(h)'
      BY <1>a, <2>1, <2>2, <2>3, <2>4, <2>5, <3>1
      DEF HostInv, Exclusive, Flag, PipeSends, WorkSends, DataComes, PeerAnswers, EmptyComes
    <3> QED BY <2>1, <2>2, <2>5, <3>1, <3>2, LocalStep, ActorFacts
  <2>6. CASE a = Work(h)
    <3>1. pc'[Pipe(h)] = pc[Pipe(h)] BY <2>1, <2>2, <2>6, ActorFacts
    <3>2. HostInv(h)'
      BY <1>a, <2>1, <2>2, <2>3, <2>4, <2>6, <3>1
      DEF HostInv, Exclusive, Flag, PipeSends, WorkSends, DataComes, PeerAnswers, EmptyComes
    <3>3. pc[Work(h)] # "reply" /\ pc'[Work(h)] # "reply" BY <2>2, <2>3, <2>6
    <3> QED BY <2>1, <2>2, <2>6, <3>2, <3>3, LocalStep, ActorFacts
  <2> QED BY <2>1, <2>5, <2>6
<1>6. ASSUME NEW a \in Actors, pc[a] = "write", UNCHANGED <<fd, ready>>,
             NEW m \in Messages, m.part # 0, Send(Host(a), SendConn(a), m),
             NEW label, Goto(a, label), label = IF side THEN "load" ELSE Rest(a)
      PROVE  Nets' /\ \A g \in Hosts : HostInv(g)'
  <2> DEFINE h == Host(a)
  <2>1. h \in Hosts /\ Peer(h) \in Hosts /\ Peer(Peer(h)) = h /\ Peer(h) # h
    BY ActorFacts, ConnFacts
  <2>3. SendConn(a) = DataConn(h)
    <3>1. CASE a[2] = "pipe" BY <3>1 DEF SendConn
    <3>2. CASE a[2] # "pipe"
      <4>1. a = Work(h) BY <3>2, <2>1, ActorFacts DEF Pipe, Work
      <4> QED BY <1>a, <1>6, <2>1, <3>2, <4>1 DEF SendConn, HostInv, WorkSends
    <3> QED BY <3>1, <3>2
  <2>4. net[Peer(h)][DataConn(h)] = <<>>
    BY <1>a, <1>6, <2>1, ActorFacts
    DEF HostInv, Exclusive, PipeSends, WorkSends, DataComes
  <2>5. DataConn(h) \in Conns /\ DataConn(h) # DataConn(Peer(h))
    BY <2>1, ConnFacts
  <2>6. /\ Nets'
        /\ \A g \in Hosts, d \in Conns :
             g # Peer(h) \/ d # DataConn(h) => net'[g][d] = net[g][d]
    <3>1. Send(h, DataConn(h), m) BY <1>6, <2>3
    <3> HIDE DEF h
    <3> QED BY <1>a, <1>6, <2>1, <2>4, <2>5, <3>1, SendNet
  <2>7. /\ EmptyComes(h)' <=> EmptyComes(h)
        /\ DataComes(Peer(h))' <=> DataComes(Peer(h))
        /\ EmptyComes(Peer(h))' <=> EmptyComes(Peer(h))
    BY <2>1, <2>5, <2>6, ConnFacts DEF EmptyComes, DataComes
  <2>8. /\ ready' = ready /\ fd' = fd /\ ~ready[h]
        /\ pc'[a] = (IF side THEN "load" ELSE Rest(a)) /\ Rest(a) \in {"idle", "poll"}
        /\ \A b \in Actors : b # a => pc'[b] = pc[b]
    <3>1. ~ready[h]
      <4>1. CASE a = Pipe(h) BY <1>a, <1>6, <2>1, <4>1 DEF HostInv
      <4>2. CASE a = Work(h) BY <1>a, <1>6, <2>1, <4>2
        DEF HostInv, Exclusive, WorkSends, PipeSends, Flag
      <4> QED BY <4>1, <4>2, ActorFacts
    <3>2. Rest(a) \in {"idle", "poll"} BY DEF Rest
    <3> QED BY <1>a, <1>6, <3>1, <3>2, GotoFacts
  <2>9. pc[a] = "write" BY <1>6
  <2> HIDE DEF h
  <2>10. HostInv(h)'
    BY <1>a, <2>1, <2>7, <2>8, <2>9, ActorFacts
    DEF HostInv, Exclusive, Flag, PipeSends, WorkSends, PeerAnswers, h
  <2>11. HostInv(Peer(h))'
    BY <1>a, <2>1, <2>7, <2>8, <2>9, ActorFacts
    DEF HostInv, Exclusive, Flag, PipeSends, WorkSends, PeerAnswers, h
  <2>12. \A g \in Hosts : g = h \/ g = Peer(h)
    BY <2>1 DEF Hosts, Peer
  <2> QED BY <2>6, <2>10, <2>11, <2>12
<1>7. ASSUME NEW a \in Actors, Write(a) PROVE Nets' /\ \A g \in Hosts : HostInv(g)'
  <2>1. Data(pkt[a]) \in Messages /\ Data(pkt[a]).part # 0
    BY <1>a, MessageFacts DEF TypeOK
  <2> QED BY <1>6, <1>7, <2>1 DEF Write, At, sendVars
<1>17. ASSUME NEW a \in Actors, SideSend(a) PROVE Nets' /\ \A g \in Hosts : HostInv(g)'
  <2>1. Host(a) \in Hosts /\ (a = Pipe(Host(a)) \/ a = Work(Host(a))) BY ActorFacts
  <2>2. side /\ UNCHANGED <<side, ready, fd>> BY <1>17, SideKeeps
  <2>3. Rest(a) \in {"idle", "poll"} BY DEF Rest
  <2>4. CASE SideWrite(a)
    <3>1. pc[a] = "write" /\ Goto(a, "load") /\ Send(Host(a), SendConn(a), msg[a])
      BY <2>4 DEF SideWrite, SideStep, At
    <3>2. msg[a] \in Messages /\ msg[a].part # 0
      BY <2>1, <2>2, <3>1 DEF TokenInv, TypeOK, OffsetInv
    <3> QED BY <1>6, <2>2, <3>1, <3>2
  <2>5. CASE Astray(a)
    BY <1>a, <2>2, <2>5
    DEF Astray, Nets, OneAt, HostInv, Exclusive, Flag, PipeSends, WorkSends,
        DataComes, PeerAnswers, EmptyComes
  <2>6. ASSUME NEW from \in (Sending \ {"next", "flag", "write"}) \cup Updating,
               NEW to, SideStep(a, from, to), UNCHANGED net,
               to \in (Sending \ {"next", "flag"}) \cup Updating \cup {"idle", "poll"},
               to \in Sending => from \in Sending, to \in Updating => from \in Updating
        PROVE  Nets' /\ \A g \in Hosts : HostInv(g)'
    <3>1. pc[a] = from /\ Goto(a, to) BY <2>6 DEF SideStep, At
    <3>2. a = Pipe(Host(a)) => ~ready[Host(a)]
      BY <1>a, <2>1, <2>6, <3>1 DEF HostInv
    <3> QED BY <1>b, <1>c, <2>1, <2>2, <2>6, <3>1, <3>2
  <2>7. CASE Front(a) BY <2>6, <2>7 DEF Front
  <2>8. CASE Locate(a) BY <2>6, <2>8 DEF Locate
  <2>9. CASE Measure(a) BY <2>6, <2>9 DEF Measure
  <2>10. CASE Begin(a) BY <2>6, <2>10 DEF Begin
  <2>11. CASE Load(a) BY <2>6, <2>11 DEF Load
  <2>12. CASE Store(a) BY <2>6, <2>12 DEF Store
  <2>13. CASE Compare(a) BY <2>3, <2>6, <2>13 DEF Compare
  <2>14. CASE Reset(a) BY <2>6, <2>14 DEF Reset
  <2>15. CASE Pop(a) BY <2>6, <2>15 DEF Pop
  <2>16. CASE PutBack(a) BY <2>3, <2>6, <2>16 DEF PutBack
  <2> QED
    BY <1>17, <2>4, <2>5, <2>7, <2>8, <2>9, <2>10, <2>11, <2>12, <2>13, <2>14, <2>15, <2>16
    DEF SideSend
<1>8. ASSUME NEW h \in Hosts, Reply(h) PROVE Nets' /\ \A g \in Hosts : HostInv(g)'
  <2>1. Peer(h) \in Hosts /\ Peer(Peer(h)) = h /\ Peer(h) # h BY ActorFacts, ConnFacts
  <2>2. pc[Work(h)] = "reply" /\ fd[h] = DataConn(Peer(h))
    BY <1>a, <1>8 DEF Reply, At, HostInv
  <2>3. net[Peer(h)][DataConn(Peer(h))] = <<>>
    BY <1>a, <2>1, <2>2 DEF HostInv, Exclusive, PeerAnswers, EmptyComes
  <2>4. DataConn(Peer(h)) \in Conns /\ DataConn(h) \in Conns /\ DataConn(h) # DataConn(Peer(h))
    BY <2>1, ConnFacts
  <2>5. /\ Nets'
        /\ \A g \in Hosts, d \in Conns :
             g # Peer(h) \/ d # DataConn(Peer(h)) => net'[g][d] = net[g][d]
    <3>1. Empty \in Messages BY MessageFacts
    <3>2. Send(h, DataConn(Peer(h)), Empty) BY <1>8, <2>2 DEF Reply
    <3> QED BY <1>a, <2>1, <2>3, <2>4, <3>1, <3>2, SendNet
  <2>6. /\ EmptyComes(h)' <=> EmptyComes(h)
        /\ DataComes(h)' <=> DataComes(h)
        /\ DataComes(Peer(h))' <=> DataComes(Peer(h))
    BY <2>1, <2>4, <2>5 DEF EmptyComes, DataComes
  <2>7. /\ ready' = ready /\ fd' = fd
        /\ pc'[Work(h)] = "poll"
        /\ \A b \in Actors : b # Work(h) => pc'[b] = pc[b]
    BY <1>a, <1>8, GotoFacts, ActorFacts DEF Reply, sendVars
  <2>8. HostInv(h)'
    BY <1>a, <2>1, <2>2, <2>6, <2>7, ActorFacts
    DEF HostInv, Exclusive, Flag, PipeSends, WorkSends, PeerAnswers
  <2>9. HostInv(Peer(h))'
    BY <1>a, <2>1, <2>2, <2>6, <2>7, ActorFacts
    DEF HostInv, Exclusive, Flag, PipeSends, WorkSends, PeerAnswers
  <2>10. \A g \in Hosts : g = h \/ g = Peer(h)
    BY <2>1 DEF Hosts, Peer
  <2> QED BY <2>5, <2>8, <2>9, <2>10
<1>d. ASSUME NEW h \in Hosts, NEW c \in Conns, pc[Work(h)] = "poll",
             net[h][c] # <<>>, Consume(h, c), UNCHANGED ready,
             \/ UNCHANGED <<fd, pc>>
             \/ /\ fd' = [fd EXCEPT ![h] = c]
                /\ Goto(Work(h), IF Head(net[h][c]) = Empty THEN "next" ELSE "reply")
                /\ Head(net[h][c]) = Empty => pc[Pipe(h)] \notin Updating
      PROVE  Nets' /\ \A g \in Hosts : HostInv(g)'
  <2>1. Peer(h) \in Hosts /\ Peer(Peer(h)) = h /\ Peer(h) # h BY ActorFacts, ConnFacts
  <2>2. /\ Nets' /\ net'[h][c] = <<>>
        /\ \A g \in Hosts, d \in Conns : g # h \/ d # c => net'[g][d] = net[g][d]
        /\ Head(net[h][c]) = Empty <=> c = DataConn(h)
    BY <1>a, <1>d, ConsumeNet
  <2>3. /\ DataConn(Peer(h)) \in Conns /\ DataConn(h) \in Conns
        /\ DataConn(h) # DataConn(Peer(h))
        /\ c = DataConn(h) \/ c = DataConn(Peer(h))
    BY <2>1, ConnFacts
  <2>4. /\ DataComes(h)' <=> DataComes(h)
        /\ EmptyComes(Peer(h))' <=> EmptyComes(Peer(h))
        /\ EmptyComes(h)' => EmptyComes(h)
        /\ DataComes(Peer(h))' => DataComes(Peer(h))
        /\ c = DataConn(h) => EmptyComes(h) /\ ~EmptyComes(h)'
        /\ c # DataConn(h) => DataComes(Peer(h)) /\ ~DataComes(Peer(h))'
    BY <1>d, <2>1, <2>2, <2>3 DEF EmptyComes, DataComes
  <2>5. /\ pc'[Pipe(h)] = pc[Pipe(h)]
        /\ pc'[Pipe(Peer(h))] = pc[Pipe(Peer(h))]
        /\ pc'[Work(Peer(h))] = pc[Work(Peer(h))]
        /\ fd'[Peer(h)] = fd[Peer(h)] /\ ready' = ready
        /\ \/ pc'[Work(h)] = "poll" /\ fd'[h] = fd[h]
           \/ /\ pc'[Work(h)] = "next" /\ fd'[h] = c /\ c = DataConn(h)
              /\ pc[Pipe(h)] \notin Updating
           \/ pc'[Work(h)] = "reply" /\ fd'[h] = c /\ c = DataConn(Peer(h))
    <3>1. CASE UNCHANGED <<fd, pc>> BY <1>d, <3>1
    <3>2. CASE /\ fd' = [fd EXCEPT ![h] = c]
               /\ Goto(Work(h), IF Head(net[h][c]) = Empty THEN "next" ELSE "reply")
               /\ Head(net[h][c]) = Empty => pc[Pipe(h)] \notin Updating
      <4>1. /\ pc'[Work(h)] = IF Head(net[h][c]) = Empty THEN "next" ELSE "reply"
            /\ \A b \in Actors : b # Work(h) => pc'[b] = pc[b]
        BY <1>a, <3>2, GotoFacts, ActorFacts
      <4>2. fd'[h] = c /\ fd'[Peer(h)] = fd[Peer(h)]
        BY <1>a, <2>1, <3>2 DEF TypeOK
      <4> QED BY <1>d, <2>1, <2>2, <2>3, <4>1, <4>2, ActorFacts
    <3> QED BY <1>d, <3>1, <3>2
  <2>6. HostInv(h) /\ HostInv(Peer(h)) BY <1>a, <2>1
  <2>7. HostInv(h)'
    BY <1>d, <2>1, <2>3, <2>4, <2>5, <2>6
    DEF HostInv, Exclusive, Flag, PipeSends, WorkSends, PeerAnswers
  <2>8. HostInv(Peer(h))'
    BY <1>d, <2>1, <2>3, <2>4, <2>5, <2>6
    DEF HostInv, Exclusive, Flag, PipeSends, WorkSends, PeerAnswers
  <2>9. \A g \in Hosts : g = h \/ g = Peer(h)
    BY <2>1 DEF Hosts, Peer
  <2> QED BY <2>2, <2>7, <2>8, <2>9
<1>9. ASSUME NEW h \in Hosts, NEW c \in Conns, ReadEmpty(h, c)
      PROVE  Nets' /\ \A g \in Hosts : HostInv(g)'
  <2>1. pc[Pipe(h)] \notin Updating
    BY <1>9 DEF ReadEmpty, TokenInv, OffsetInv, TypeOK
  <2> QED BY <1>9, <1>d, <2>1 DEF ReadEmpty, At, sendVars
<1>10. ASSUME NEW h \in Hosts, NEW c \in Conns, ReadData(h, c)
       PROVE  Nets' /\ \A g \in Hosts : HostInv(g)'
  <2>1. /\ pc[Work(h)] = "poll" /\ net[h][c] # <<>> /\ Consume(h, c)
        /\ Head(net[h][c]) # Empty /\ UNCHANGED ready
        /\ \/ UNCHANGED <<fd, pc>>
           \/ fd' = [fd EXCEPT ![h] = c] /\ Goto(Work(h), "reply")
    BY <1>10 DEF ReadData, At, sendVars
  <2> QED BY <2>1, <1>d
<1>18. ASSUME NEW h \in Hosts, NEW c \in Conns, ReadChunk(h, c)
       PROVE  Nets' /\ \A g \in Hosts : HostInv(g)'
  <2>1. /\ pc[Work(h)] = "poll" /\ net[h][c] # <<>> /\ Consume(h, c)
        /\ Head(net[h][c]) # Empty /\ UNCHANGED ready
    BY <1>18 DEF ReadChunk, At, sendVars
  <2>2. \/ UNCHANGED <<fd, pc>>
        \/ /\ fd' = [fd EXCEPT ![h] = c]
           /\ Goto(Work(h), IF Head(net[h][c]).part = 0 THEN "next" ELSE "reply")
    BY <1>18 DEF ReadChunk
  <2>3. Head(net[h][c]).part # 0 BY <1>a, <2>1, ConsumeNet
  <2> QED BY <2>1, <2>2, <2>3, <1>d
<1>11. ASSUME NEW h \in Hosts, NEW c \in Conns, ReadFragment(h, c)
       PROVE  Nets' /\ \A g \in Hosts : HostInv(g)'
  BY <1>11 DEF ReadFragment
<1>12. ASSUME NEW h \in Hosts, ReadClosed(h) PROVE Nets' /\ \A g \in Hosts : HostInv(g)'
  BY <1>a, <1>12
  DEF ReadClosed, Nets, OneAt, HostInv, Exclusive, Flag, PipeSends,
      WorkSends, DataComes, PeerAnswers, EmptyComes, sendVars
<1>13. ASSUME NEW h \in Hosts, PipelineStopped(h)
       PROVE  Nets' /\ \A g \in Hosts : HostInv(g)'
  BY <1>13, <1>b DEF PipelineStopped, At, sendVars
<1>14. ASSUME NEW h \in Hosts, StopModule(h) PROVE Nets' /\ \A g \in Hosts : HostInv(g)'
  <2>1. Peer(h) \in Hosts /\ Peer(Peer(h)) = h /\ Peer(h) # h BY ActorFacts, ConnFacts
  <2>2. /\ \A c \in Conns : net'[h][c] = <<>> /\ net'[Peer(h)][c] = net[Peer(h)][c]
        /\ ready' = ready /\ fd' = fd
        /\ pc'[Work(h)] = "gone" /\ pc[Work(h)] = "poll"
        /\ \A b \in Actors : b # Work(h) => pc'[b] = pc[b]
    <3>1. net' = [net EXCEPT ![h] = [c \in Conns |-> <<>>]] BY <1>14 DEF StopModule
    <3>2. \A c \in Conns : net'[h][c] = <<>> /\ net'[Peer(h)][c] = net[Peer(h)][c]
      BY <1>a, <2>1, <3>1 DEF TypeOK
    <3>3. Goto(Work(h), "gone") /\ pc[Work(h)] = "poll" /\ UNCHANGED <<ready, fd>>
      BY <1>14 DEF StopModule, At, sendVars
    <3> QED BY <1>a, <3>2, <3>3, GotoFacts, ActorFacts
  <2>3. \A g \in Hosts : g = h \/ g = Peer(h)
    BY <2>1 DEF Hosts, Peer
  <2>4. Nets' BY <1>a, <2>2, <2>3 DEF Nets, OneAt
  <2>5. DataConn(h) \in Conns /\ DataConn(Peer(h)) \in Conns BY <2>1, ConnFacts
  <2>6. /\ ~EmptyComes(h)' /\ ~DataComes(Peer(h))'
        /\ EmptyComes(Peer(h))' <=> EmptyComes(Peer(h))
        /\ DataComes(h)' <=> DataComes(h)
    BY <2>1, <2>2, <2>5 DEF EmptyComes, DataComes
  <2>7. /\ pc'[Pipe(h)] = pc[Pipe(h)]
        /\ pc'[Pipe(Peer(h))] = pc[Pipe(Peer(h))]
        /\ pc'[Work(Peer(h))] = pc[Work(Peer(h))]
    BY <2>1, <2>2, ActorFacts
  <2>8. HostInv(h) /\ HostInv(Peer(h)) BY <1>a, <2>1
  <2>9. HostInv(h)'
    BY <2>1, <2>2, <2>6, <2>7, <2>8
    DEF HostInv, Exclusive, Flag, PipeSends, WorkSends, PeerAnswers
  <2>10. HostInv(Peer(h))'
    BY <2>1, <2>2, <2>6, <2>7, <2>8
    DEF HostInv, Exclusive, Flag, PipeSends, WorkSends, PeerAnswers
  <2> QED BY <2>3, <2>4, <2>9, <2>10
<1>15. ASSUME UNCHANGED vars PROVE Nets' /\ \A g \in Hosts : HostInv(g)'
  <2>1. UNCHANGED <<net, pc, fd, ready>> BY <1>15 DEF vars, sendVars
  <2> QED
    BY <1>a, <2>1
    DEF Nets, OneAt, HostInv, Exclusive, Flag, PipeSends,
        WorkSends, DataComes, PeerAnswers, EmptyComes
<1>16. ASSUME Next PROVE Nets' /\ \A g \in Hosts : HostInv(g)'
  BY <1>16, <1>1, <1>2, <1>3, <1>4, <1>5, <1>7, <1>8, <1>9, <1>10, <1>11, <1>12,
     <1>13, <1>14, <1>17, <1>18, ActorFacts
  DEF Next, PipeStep, WorkStep, SendNext
<1> QED BY <1>15, <1>16

(* Only the steps on the side channel move the offset and what goes with   *)
(* it; the others leave it where it was, and no thread enters their labels *)
(* by another way.                                                         *)
LEMMA QuietOffset ==
    ASSUME TokenInv, UNCHANGED <<side, offset, msg, sum>>, NEW a \in Actors, NEW label,
           pc[a] \notin {"compare", "reset"}, Goto(a, label) \/ UNCHANGED pc,
           label \notin Updating \cup {"measure", "begin"}, label = "write" => ~side
    PROVE  \A h \in Hosts : OffsetInv(h)'
<1> SUFFICES ASSUME NEW h \in Hosts PROVE OffsetInv(h)'
  OBVIOUS
<1>1. OffsetInv(h) /\ Parts' = Parts BY DEF TokenInv, Parts
<1>2. Pipe(h) \in Actors /\ Work(h) \in Actors BY ActorFacts
<1>3. \A b \in Actors : pc'[b] = pc[b] \/ (b = a /\ pc'[b] = label)
  BY GotoFacts DEF TokenInv
<1> QED BY <1>1, <1>2, <1>3 DEF OffsetInv, Updating

(* A thread on the side channel never leaves the offset at the end of the  *)
(* packet where the other one could read it.                               *)
LEMMA SideOffset ==
    ASSUME TokenInv, NEW a \in Actors, SideSend(a)
    PROVE  \A h \in Hosts : OffsetInv(h)'
<1> DEFINE g == Host(a)
           b == IF a = Pipe(g) THEN Work(g) ELSE Pipe(g)
           Quiet == {"front", "locate", "load", "store", "pop", "put", "idle", "poll"}
<1>1. /\ g \in Hosts /\ b \in Actors /\ a # b
      /\ \/ a = Pipe(g) /\ b = Work(g)
         \/ a = Work(g) /\ b = Pipe(g)
      /\ HostInv(g) /\ OffsetInv(g) /\ TypeOK
  BY ActorFacts DEF TokenInv
<1>2. /\ side /\ side' = side /\ Parts' = Parts
      /\ Parts \in Nat \ {0} /\ offset[g] \in Nat /\ Rest(a) \in {"idle", "poll"}
      /\ msg[a] \in Messages /\ sum[a] \in Nat
  BY <1>1, SideKeeps, PartsFacts DEF Parts, TypeOK, Rest
<1>3. pc[a] \in Updating \cup (Sending \ {"next", "flag"}) => pc[b] \notin Updating \cup Sending
  BY <1>1 DEF HostInv, Exclusive, PipeSends, WorkSends
<1>4. ASSUME NEW from, NEW to, SideStep(a, from, to)
      PROVE  /\ pc[a] = from /\ pc'[a] = to
             /\ \A x \in Actors : x # a => pc'[x] = pc[x]
  BY <1>1, <1>4, GotoFacts DEF SideStep, At
<1>5. ASSUME \A x \in Actors : x # a => pc'[x] = pc[x] /\ sum'[x] = sum[x] /\ msg'[x] = msg[x],
             \A x \in Hosts : x # g => offset'[x] = offset[x],
             OffsetInv(g)'
      PROVE  \A h \in Hosts : OffsetInv(h)'
  <2> SUFFICES ASSUME NEW h \in Hosts, h # g PROVE OffsetInv(h)'
    BY <1>5
  <2>1. Pipe(h) \in Actors \ {a} /\ Work(h) \in Actors \ {a} BY <1>1, ActorFacts
  <2>2. OffsetInv(h) BY DEF TokenInv
  <2> HIDE DEF g
  <2> QED BY <1>2, <1>5, <2>1, <2>2 DEF OffsetInv
<1> HIDE DEF g, b
<1>6. CASE Front(a) \/ Load(a) \/ Pop(a) \/ PutBack(a)
  <2>1. /\ pc[a] \in Quiet /\ pc'[a] \in Quiet /\ pc[a] \in Updating \cup {"front"}
        /\ \A x \in Actors : x # a => pc'[x] = pc[x] /\ sum'[x] = sum[x] /\ msg'[x] = msg[x]
        /\ offset' = offset
    <3>1. CASE Front(a) BY <1>4, <3>1 DEF Front, sideVars
    <3>2. CASE Load(a) BY <1>1, <1>4, <3>2 DEF Load, TypeOK, Updating
    <3>3. CASE Pop(a) BY <1>4, <3>3 DEF Pop, sideVars, Updating
    <3>4. CASE PutBack(a)
      BY <1>1, <1>2, <1>4, <3>4 DEF PutBack, Done, TypeOK, Updating
    <3> QED BY <1>6, <3>1, <3>2, <3>3, <3>4
  <2>2. OffsetInv(g)'
    BY <1>1, <1>2, <1>3, <2>1 DEF OffsetInv, Updating, Sending
  <2> QED BY <1>5, <2>1, <2>2
<1>7. CASE Locate(a)
  <2>1. /\ pc[a] = "locate" /\ pc'[a] = "measure" /\ msg'[a].part = offset[g] + 1
        /\ \A x \in Actors : x # a => pc'[x] = pc[x] /\ sum'[x] = sum[x] /\ msg'[x] = msg[x]
        /\ offset' = offset
    BY <1>1, <1>4, <1>7 DEF Locate, TypeOK, g
  <2>2. OffsetInv(g)'
    BY <1>1, <1>2, <1>3, <2>1 DEF OffsetInv, Updating, Sending
  <2> QED BY <1>5, <2>1, <2>2
<1>8. CASE Measure(a)
  <2>1. /\ pc[a] = "measure" /\ pc'[a] = "begin"
        /\ offset[g] # Parts => msg'[a].part = msg[a].part
        /\ \A x \in Actors : x # a => pc'[x] = pc[x] /\ sum'[x] = sum[x] /\ msg'[x] = msg[x]
        /\ offset' = offset
    BY <1>1, <1>2, <1>4, <1>8 DEF Measure, TypeOK, Messages, g
  <2>2. offset[g] < Parts BY <1>1, <1>3, <2>1 DEF OffsetInv, Updating, Sending
  <2>3. OffsetInv(g)'
    BY <1>1, <1>2, <1>3, <2>1, <2>2 DEF OffsetInv, Updating, Sending
  <2> QED BY <1>5, <2>1, <2>3
<1>9. CASE Begin(a) \/ SideWrite(a)
  <2>1. /\ pc[a] \in {"begin", "write"} /\ pc'[a] \in {"write", "load"}
        /\ msg'[a].part = msg[a].part
        /\ \A x \in Actors : x # a => pc'[x] = pc[x] /\ sum'[x] = sum[x] /\ msg'[x] = msg[x]
        /\ offset' = offset
    <3>1. CASE Begin(a)
      BY <1>1, <1>2, <1>4, <3>1 DEF Begin, TypeOK, Messages
    <3>2. CASE SideWrite(a)
      BY <1>4, <3>2 DEF SideWrite, sideVars
    <3> QED BY <1>9, <3>1, <3>2
  <2>2. OffsetInv(g)'
    BY <1>1, <1>2, <1>3, <2>1 DEF OffsetInv, Updating, Sending
  <2> QED BY <1>5, <2>1, <2>2
<1>10. CASE Store(a)
  <2>1. /\ pc[a] = "store" /\ pc'[a] = "compare"
        /\ offset'[g] = sum[a] /\ UNCHANGED <<sum, msg>>
        /\ \A x \in Actors : x # a => pc'[x] = pc[x]
        /\ \A x \in Hosts : x # g => offset'[x] = offset[x]
    BY <1>1, <1>4, <1>10 DEF Store, TypeOK, sideVars, g
  <2>2. OffsetInv(g)'
    BY <1>1, <1>2, <1>3, <2>1 DEF OffsetInv, Updating, Sending
  <2> QED BY <1>5, <2>1, <2>2
<1>11. CASE Compare(a)
  <2>1. PICK all \in BOOLEAN :
          /\ SideStep(a, "compare", IF all THEN "reset" ELSE Rest(a))
          /\ \E seen \in {sum[a], offset[g]} : all <=> Complete(seen)
          /\ IF all THEN UNCHANGED <<pkt, msg, sum>> ELSE Done(a)
          /\ UNCHANGED <<sendq, offset, net, returned, failed>>
    BY <1>11 DEF Compare, g
  <2>2. /\ pc[a] = "compare" /\ pc'[a] = (IF all THEN "reset" ELSE Rest(a))
        /\ \A x \in Actors : x # a => pc'[x] = pc[x]
    BY <1>4, <2>1
  <2>3. \A x \in Actors : x # a => sum'[x] = sum[x] /\ msg'[x] = msg[x]
    <3>1. CASE UNCHANGED <<pkt, msg, sum>> BY <3>1
    <3>2. CASE Done(a) BY <1>1, <3>2 DEF Done, TypeOK
    <3> QED BY <2>1, <3>1, <3>2
  <2>4. sum[a] = offset[g] BY <1>1, <2>2 DEF OffsetInv
  <2>5. all \/ offset[g] < Parts
    <3>1. all \/ ~Complete(offset[g]) BY <2>1, <2>4
    <3> QED BY <1>2, <3>1 DEF Complete
  <2>6. OffsetInv(g)'
    BY <1>1, <1>2, <1>3, <2>1, <2>2, <2>3, <2>5 DEF OffsetInv, Updating, Sending
  <2> QED BY <1>5, <2>1, <2>2, <2>3, <2>6
<1>12. CASE Reset(a)
  <2>1. /\ pc[a] = "reset" /\ pc'[a] = "pop"
        /\ offset'[g] = 0 /\ UNCHANGED <<sum, msg>>
        /\ \A x \in Actors : x # a => pc'[x] = pc[x]
        /\ \A x \in Hosts : x # g => offset'[x] = offset[x]
    BY <1>1, <1>4, <1>12 DEF Reset, TypeOK, sideVars, g
  <2>2. OffsetInv(g)'
    BY <1>1, <1>2, <1>3, <2>1 DEF OffsetInv, Updating, Sending
  <2> QED BY <1>5, <2>1, <2>2
<1>13. CASE Astray(a)
  <2>1. UNCHANGED <<pc, sum, msg, offset>> BY <1>13 DEF Astray, sideVars, sendVars
  <2>2. OffsetInv(g)' BY <1>1, <1>2, <2>1 DEF OffsetInv
  <2> QED BY <1>5, <2>1, <2>2
<1> QED BY <1>6, <1>7, <1>8, <1>9, <1>10, <1>11, <1>12, <1>13 DEF SideSend

(* No step takes the offset out of the invariant.                          *)
LEMMA NextOffset ==
    ASSUME TokenInv, [Next]_vars PROVE \A h \in Hosts : OffsetInv(h)'
<1>1. ASSUME NEW h \in Hosts, TestReady(h) \/ Enqueue(h) \/ PipelineStopped(h)
      PROVE  \A g \in Hosts : OffsetInv(g)'
  <2>1. /\ UNCHANGED <<side, offset, msg, sum>> /\ pc[Pipe(h)] \in {"idle", "test", "write"}
        /\ \E label \in {"idle", "test", "next", "gone"} : Goto(Pipe(h), label)
    BY <1>1 DEF TestReady, Enqueue, PipelineStopped, At, sendVars, sideVars
  <2> QED BY <2>1, QuietOffset, ActorFacts DEF Updating
<1>2. ASSUME NEW a \in Actors, Take(a) PROVE \A g \in Hosts : OffsetInv(g)'
  BY <1>2, QuietOffset DEF Take, At, sendVars, sideVars, Updating
<1>3. ASSUME NEW a \in Actors, SetReady(a) PROVE \A g \in Hosts : OffsetInv(g)'
  <2>1. PICK label \in {"idle", "poll", "front", "write"} :
          Goto(a, label) /\ (label = "write" => ~side)
    BY <1>3 DEF SetReady, Rest
  <2> QED BY <1>3, <2>1, QuietOffset DEF SetReady, At, sideVars, Updating
<1>4. ASSUME NEW a \in Actors, Write(a) PROVE \A g \in Hosts : OffsetInv(g)'
  <2>1. Rest(a) \in {"idle", "poll"} BY DEF Rest
  <2> QED BY <1>4, <2>1, QuietOffset DEF Write, At, sendVars, sideVars, Updating
<1>5. ASSUME NEW h \in Hosts, Reply(h) \/ StopModule(h) PROVE \A g \in Hosts : OffsetInv(g)'
  <2>1. /\ UNCHANGED <<side, offset, msg, sum>> /\ pc[Work(h)] \in {"reply", "poll"}
        /\ \E label \in {"poll", "gone"} : Goto(Work(h), label)
    BY <1>5 DEF Reply, StopModule, At, sendVars, sideVars
  <2> QED BY <2>1, QuietOffset, ActorFacts DEF Updating
<1>6. ASSUME NEW h \in Hosts, NEW c \in Conns,
             ReadEmpty(h, c) \/ ReadData(h, c) \/ ReadChunk(h, c) \/ ReadFragment(h, c)
      PROVE  \A g \in Hosts : OffsetInv(g)'
  <2>1. UNCHANGED <<side, offset, msg, sum>> /\ pc[Work(h)] = "poll"
    BY <1>6 DEF ReadEmpty, ReadData, ReadChunk, ReadFragment, At, sendVars, sideVars
  <2>2. UNCHANGED pc \/ \E label \in {"next", "reply"} : Goto(Work(h), label)
    BY <1>6 DEF ReadEmpty, ReadData, ReadChunk, ReadFragment
  <2> QED BY <2>1, <2>2, QuietOffset, ActorFacts DEF Updating
<1>7. ASSUME UNCHANGED <<side, offset, msg, sum, pc>> PROVE \A g \in Hosts : OffsetInv(g)'
  BY <1>7 DEF TokenInv, OffsetInv, Parts
<1>8. ASSUME NEW h \in Hosts, PktRecv(h) \/ ReadClosed(h) PROVE \A g \in Hosts : OffsetInv(g)'
  BY <1>7, <1>8 DEF PktRecv, ReadClosed, sendVars, sideVars
<1>9. CASE UNCHANGED vars
  BY <1>7, <1>9 DEF vars, sendVars, sideVars
<1> QED
  BY <1>1, <1>2, <1>3, <1>4, <1>5, <1>6, <1>8, <1>9, SideOffset, ActorFacts
  DEF Next, PipeStep, WorkStep, SendNext

(* The invariant is inductive when read() returns whole messages.          *)
LEMMA TokenInductive ==
    ASSUME ~Fragmenting, TRUE \in Modes => FastAnswers = {}
    PROVE  Spec => []TokenInv
<1>1. Init => TokenInv BY InitToken
<1>2. TokenInv /\ [Next]_vars => TokenInv'
  BY NextToken, NextOffset, NextTypes DEF TokenInv
<1> QED BY <1>1, <1>2, PTL DEF Spec

(* The threads of a host never both send, nor before the peer answered:    *)
(* thc_send_ready hands the right to send over without a lock, in both     *)
(* modes, whatever the number of packets, and while hosts stop.            *)
THEOREM SendingIsExclusive ==
    ASSUME ~Fragmenting, TRUE \in Modes => FastAnswers = {}
    PROVE  Spec => []OneToken
<1>1. TokenInv => OneToken
  <2> SUFFICES ASSUME TokenInv, NEW h \in Hosts, NEW p \in Places, NEW q \in Places,
                      Token(h, p), Token(h, q)
               PROVE  p = q
    BY DEF OneToken
  <2>1. Exclusive(h) BY DEF TokenInv, HostInv
  <2>2. ASSUME NEW r \in Places, Token(h, r)
        PROVE  /\ r = "flag" => Flag(h)
               /\ r = "pipe" => PipeSends(h)
               /\ r = "worker" => WorkSends(h)
               /\ r = "data" => DataComes(h)
               /\ r = "answer" => PeerAnswers(h)
               /\ r = "empty" => EmptyComes(h)
    BY <2>2 DEF Token, Flag, PipeSends, WorkSends, DataComes, PeerAnswers, EmptyComes, Sending
  <2>3. Flag(h) => ~PipeSends(h) BY DEF Flag, PipeSends
  <2> QED BY <2>1, <2>2, <2>3 DEF Exclusive, Places
<1> QED BY <1>1, TokenInductive, PTL

(* So that read() finds at most one message on a connection, which is what *)
(* the worker's parsing relies on.                                         *)
THEOREM ReadsOneMessage ==
    ASSUME ~Fragmenting, TRUE \in Modes => FastAnswers = {}
    PROVE  Spec => []OneMessage
<1>1. TokenInv => OneMessage
  <2> SUFFICES ASSUME TokenInv, NEW h \in Hosts, NEW c \in Conns
               PROVE  Len(net[h][c]) <= 1
    BY DEF OneMessage
  <2>1. CASE net[h][c] = <<>> BY <2>1
  <2>2. ASSUME NEW m, net[h][c] = <<m>> PROVE Len(net[h][c]) <= 1
    BY <2>2
  <2> QED BY <2>1, <2>2 DEF TokenInv, Nets, OneAt
<1> QED BY <1>1, TokenInductive, PTL

-----------------------------------------------------------------------------
(* The offsets of both hosts.                                              *)

(* The packet that is the head of the send queue of host h, the messages   *)
(* that carry it, and how many parts of it were sent and have come.        *)
First(h) == IF sendq[h] = <<>> THEN 0 ELSE Head(sendq[h])
Incoming(h) == net[Peer(h)][DataConn(h)]
JustSent == {"load", "store"}
Sent(h) ==
    offset[h] + IF pc[Pipe(h)] \in JustSent \/ pc[Work(h)] \in JustSent THEN 1 ELSE 0
Received(h) == rparts[Peer(h)] + Len(Incoming(h))
Round(n) == IF n = Parts THEN 0 ELSE n

(* Both ends agree on the number of parts, and on the packet if there are  *)
(* some but not all of them.                                               *)
LinkInv(h) ==
    side /\ ~Closed(Peer(h)) =>
        /\ Received(h) <= Parts /\ Round(Sent(h)) = Round(Received(h))
        /\ rparts[Peer(h)] = 0 => rpkt[Peer(h)] = 0
        /\ 0 < Received(h) /\ Received(h) < Parts =>
             /\ First(h) # 0
             /\ First(h) = IF Incoming(h) = <<>> THEN rpkt[Peer(h)] ELSE Head(Incoming(h)).pkt
        /\ Incoming(h) # <<>> =>
             /\ Head(Incoming(h)).part = rparts[Peer(h)] + 1
             /\ Head(Incoming(h)).head <=> rparts[Peer(h)] = 0
             /\ ~Head(Incoming(h)).head => Head(Incoming(h)).pkt = rpkt[Peer(h)]

(* What a thread has found out about the packet is right when it sends.    *)
ThreadInv(a) ==
    side =>
        /\ pc[a] \in {"locate", "measure", "begin", "write"} /\ pkt[a] # 0 =>
             First(Host(a)) = pkt[a]
        /\ pc[a] \in {"measure", "begin", "write"} =>
             pkt[a] # 0 /\ msg[a].pkt = pkt[a] /\ msg[a].part = offset[Host(a)] + 1
        /\ pc[a] = "write" => (msg[a].head <=> offset[Host(a)] = 0)
        /\ pc[a] = "load" => msg[a].part # 0
        /\ pc[a] = "store" => sum[a] = offset[Host(a)] + 1
        /\ pc[a] = "compare" => offset[Host(a)] <= Parts
        /\ pc[a] = "reset" => offset[Host(a)] = Parts
        /\ pc[a] = "pop" => offset[Host(a)] = 0

(* A host that has stopped has closed its connections.                     *)
GoneInv(h) == pc[Work(h)] = "gone" => \A c \in Conns : net[h][c] = <<>>

SyncInv ==
    /\ TokenInv
    /\ \A h \in Hosts : LinkInv(h) /\ GoneInv(h)
    /\ \A a \in Actors : ThreadInv(a)

(* What a closed host is like later: it stays closed.                      *)
LEMMA ClosedStays ==
    ASSUME TypeOK, [Next]_vars, NEW g \in Hosts, Closed(g) PROVE Closed(g)'
<1>a. Work(g) \in Actors BY ActorFacts
<1>b. ASSUME NEW h \in Hosts, NEW w \in Failures \ {"none"}, Fail(h, w),
             pc'[Work(g)] = pc[Work(g)]
      PROVE  Closed(g)'
  BY <1>b DEF Fail, TypeOK, Closed, Up
<1>c. ASSUME UNCHANGED failed, pc[Work(g)] = "gone" => pc'[Work(g)] = "gone"
      PROVE  Closed(g)'
  BY <1>c DEF Closed, Up
<1>d. ASSUME UNCHANGED failed, NEW a \in Actors, NEW label, Goto(a, label), pc[a] # "gone"
      PROVE  Closed(g)'
  BY <1>a, <1>c, <1>d, GotoFacts
<1>e. ASSUME NEW h \in Hosts, NEW c \in Conns, NEW m, Send(h, c, m),
             NEW a \in Actors, NEW label, Goto(a, label), pc[a] # "gone"
      PROVE  Closed(g)'
  <2>1. CASE UNCHANGED failed BY <1>d, <1>e, <2>1
  <2>2. CASE Fail(h, "write")
    <3>1. pc[Work(g)] = "gone" => pc'[Work(g)] = "gone" BY <1>a, <1>e, GotoFacts
    <3>2. ~Up(g) => ~Up(g)' BY <2>2 DEF Fail, TypeOK, Up
    <3> QED BY <3>1, <3>2 DEF Closed
  <2> QED BY <1>e, <2>1, <2>2 DEF Send
<1>1. ASSUME NEW h \in Hosts, TestReady(h) \/ Enqueue(h) \/ PipelineStopped(h) PROVE Closed(g)'
  <2>1. /\ UNCHANGED failed /\ pc[Pipe(h)] \in {"idle", "test", "write"}
        /\ \E label : Goto(Pipe(h), label)
    BY <1>1 DEF TestReady, Enqueue, PipelineStopped, At
  <2> QED BY <1>d, <2>1, ActorFacts
<1>2. ASSUME NEW a \in Actors, Take(a) \/ SetReady(a) PROVE Closed(g)'
  <2>1. UNCHANGED failed /\ pc[a] \in {"next", "flag"} /\ \E label : Goto(a, label)
    BY <1>2 DEF Take, SetReady, At
  <2> QED BY <1>d, <2>1
<1>3. ASSUME NEW a \in Actors, Write(a) \/ SideWrite(a) PROVE Closed(g)'
  <2>1. /\ pc[a] = "write" /\ Host(a) \in Hosts
        /\ \E m : Send(Host(a), SendConn(a), m)
        /\ \E label : Goto(a, label)
    BY <1>3, ActorFacts DEF Write, SideWrite, SideStep, At
  <2>2. SendConn(a) \in Conns BY <2>1, ConnFacts DEF SendConn, TypeOK
  <2> QED BY <1>e, <2>1, <2>2
<1>4. ASSUME NEW h \in Hosts, Reply(h) PROVE Closed(g)'
  <2>1. fd[h] \in Conns BY DEF TypeOK
  <2> QED BY <1>4, <1>e, <2>1, ActorFacts DEF Reply, At
<1>5. ASSUME NEW h \in Hosts, StopModule(h) PROVE Closed(g)'
  BY <1>5, <1>d, ActorFacts DEF StopModule, At
<1>6. ASSUME NEW h \in Hosts, NEW c \in Conns,
             ReadEmpty(h, c) \/ ReadData(h, c) \/ ReadChunk(h, c) \/ ReadFragment(h, c)
      PROVE  Closed(g)'
  <2>1. /\ pc[Work(h)] = "poll"
        /\ \/ UNCHANGED failed /\ \E label : Goto(Work(h), label)
           \/ UNCHANGED pc /\ \E w \in {"base64", "recv_pkt", "pkt"} : Fail(h, w)
    BY <1>6 DEF ReadEmpty, ReadData, ReadChunk, ReadFragment, At
  <2> QED BY <1>b, <1>d, <2>1, ActorFacts DEF Failures
<1>7. ASSUME NEW h \in Hosts, ReadClosed(h) PROVE Closed(g)'
  BY <1>7, <1>b DEF ReadClosed, Failures
<1>8. ASSUME NEW a \in Actors, Astray(a) PROVE Closed(g)'
  BY <1>8, <1>b, ActorFacts DEF Astray, Failures
<1>9. ASSUME NEW a \in Actors, SideSend(a), ~SideWrite(a), ~Astray(a) PROVE Closed(g)'
  <2>1. UNCHANGED failed /\ pc[a] # "gone" /\ \E label : Goto(a, label)
    <3>1. ASSUME NEW from \in Labels \ {"gone"}, NEW to, SideStep(a, from, to)
          PROVE  pc[a] # "gone" /\ \E label : Goto(a, label)
      BY <3>1 DEF SideStep, At
    <3>2. CASE Front(a) \/ Locate(a) \/ Measure(a) \/ Begin(a) \/ Load(a) \/ Store(a)
      BY <3>1, <3>2 DEF Front, Locate, Measure, Begin, Load, Store, Labels, Updating
    <3>3. CASE Reset(a) \/ Pop(a) \/ PutBack(a)
      BY <3>1, <3>3 DEF Reset, Pop, PutBack, Labels, Updating
    <3>4. CASE Compare(a) BY <3>1, <3>4 DEF Compare, Labels, Updating
    <3> QED BY <1>9, <3>2, <3>3, <3>4 DEF SideSend
  <2> QED BY <1>d, <2>1
<1>10. ASSUME NEW h \in Hosts, PktRecv(h) PROVE Closed(g)'
  BY <1>10, <1>c DEF PktRecv
<1>11. CASE UNCHANGED vars BY <1>11, <1>c DEF vars
<1> QED
  BY <1>1, <1>2, <1>3, <1>4, <1>5, <1>6, <1>7, <1>8, <1>9, <1>10, <1>11, ActorFacts
  DEF Next, PipeStep, WorkStep, SendNext

(* Nobody writes to a host that has stopped.                               *)
LEMMA NextGone ==
    ASSUME TypeOK, \A h \in Hosts : GoneInv(h), [Next]_vars, NEW g \in Hosts
    PROVE  GoneInv(g)'
<1> SUFFICES ASSUME pc'[Work(g)] = "gone", NEW c \in Conns PROVE net'[g][c] = <<>>
  BY DEF GoneInv
<1>a. Work(g) \in Actors BY ActorFacts
<1>b. ASSUME UNCHANGED net, UNCHANGED pc PROVE net'[g][c] = <<>>
  BY <1>b DEF GoneInv
<1>c. ASSUME NEW a \in Actors, NEW label, Goto(a, label), label # "gone" \/ a # Work(g)
      PROVE  pc[Work(g)] = "gone"
  BY <1>a, <1>c, GotoFacts
<1>d. ASSUME UNCHANGED net, NEW a \in Actors, NEW label, Goto(a, label),
             label # "gone" \/ a # Work(g)
      PROVE  net'[g][c] = <<>>
  BY <1>c, <1>d DEF GoneInv
<1>e. ASSUME NEW h \in Hosts, NEW d \in Conns, NEW m, Send(h, d, m), pc[Work(g)] = "gone"
      PROVE  net'[g][c] = <<>>
  <2>1. net[g][c] = <<>> BY <1>e DEF GoneInv
  <2>2. CASE UNCHANGED net BY <2>1, <2>2
  <2>3. CASE ~Closed(Peer(h)) /\ net' = [net EXCEPT ![Peer(h)][d] = Append(@, m)]
    <3>1. g # Peer(h) BY <1>e, <2>3 DEF Closed
    <3> QED BY <2>1, <2>3, <3>1 DEF TypeOK
  <2> QED BY <1>e, <2>2, <2>3 DEF Send
<1>1. ASSUME NEW h \in Hosts, TestReady(h) \/ Enqueue(h) \/ PipelineStopped(h)
      PROVE  net'[g][c] = <<>>
  <2>1. UNCHANGED net /\ \E label : Goto(Pipe(h), label)
    BY <1>1 DEF TestReady, Enqueue, PipelineStopped
  <2> QED BY <1>d, <2>1, ActorFacts
<1>2. ASSUME NEW a \in Actors, Take(a) \/ SetReady(a) PROVE net'[g][c] = <<>>
  <2>1. UNCHANGED net /\ \E label \in Labels \ {"gone"} : Goto(a, label)
    BY <1>2 DEF Take, SetReady, Labels, Rest
  <2> QED BY <1>d, <2>1
<1>3. ASSUME NEW a \in Actors, Write(a) \/ SideWrite(a) PROVE net'[g][c] = <<>>
  <2>1. /\ Host(a) \in Hosts /\ \E m : Send(Host(a), SendConn(a), m)
        /\ \E label \in Labels \ {"gone"} : Goto(a, label)
    BY <1>3, ActorFacts DEF Write, SideWrite, SideStep, Labels, Rest, Updating
  <2>2. SendConn(a) \in Conns BY <2>1, ConnFacts DEF SendConn, TypeOK
  <2> QED BY <1>c, <1>e, <2>1, <2>2
<1>4. ASSUME NEW h \in Hosts, Reply(h) PROVE net'[g][c] = <<>>
  <2>1. fd[h] \in Conns BY DEF TypeOK
  <2> QED BY <1>4, <1>c, <1>e, <2>1, ActorFacts DEF Reply
<1>5. ASSUME NEW h \in Hosts, StopModule(h) PROVE net'[g][c] = <<>>
  <2>1. net' = [net EXCEPT ![h] = [d \in Conns |-> <<>>]] /\ Goto(Work(h), "gone")
    BY <1>5 DEF StopModule
  <2>2. CASE g = h BY <2>1, <2>2 DEF TypeOK
  <2>3. CASE g # h
    <3>1. pc[Work(g)] = "gone" BY <1>c, <2>1, <2>3, ActorFacts
    <3> QED BY <2>1, <2>3, <3>1 DEF TypeOK, GoneInv
  <2> QED BY <2>2, <2>3
<1>6. ASSUME NEW h \in Hosts, NEW d \in Conns,
             ReadEmpty(h, d) \/ ReadData(h, d) \/ ReadChunk(h, d) \/ ReadFragment(h, d)
      PROVE  net'[g][c] = <<>>
  <2>1. /\ pc[Work(h)] = "poll"
        /\ UNCHANGED pc \/ \E label \in {"next", "reply"} : Goto(Work(h), label)
        /\ \/ UNCHANGED net \/ Consume(h, d)
           \/ net' = [net EXCEPT ![h][d] = <<Empty>> \o Tail(@)]
    BY <1>6 DEF ReadEmpty, ReadData, ReadChunk, ReadFragment, At
  <2>2. pc[Work(g)] = "gone" /\ g # h
    BY <1>a, <2>1, GotoFacts, ActorFacts
  <2>3. net[g][c] = <<>> BY <2>2 DEF GoneInv
  <2> QED BY <2>1, <2>2, <2>3 DEF TypeOK, Consume
<1>7. ASSUME NEW h \in Hosts, ReadClosed(h) \/ PktRecv(h) PROVE net'[g][c] = <<>>
  BY <1>7, <1>b DEF ReadClosed, PktRecv
<1>8. ASSUME NEW a \in Actors, Astray(a) PROVE net'[g][c] = <<>>
  BY <1>8, <1>b DEF Astray
<1>9. ASSUME NEW a \in Actors, SideSend(a), ~SideWrite(a), ~Astray(a)
      PROVE  net'[g][c] = <<>>
  <2>1. UNCHANGED net /\ \E label \in Labels \ {"gone"} : Goto(a, label)
    <3>1. ASSUME NEW from, NEW to \in Labels \ {"gone"}, SideStep(a, from, to)
          PROVE  \E label \in Labels \ {"gone"} : Goto(a, label)
      BY <3>1 DEF SideStep
    <3>2. Rest(a) \in Labels \ {"gone"} BY DEF Rest, Labels
    <3>3. CASE Front(a) \/ Locate(a) \/ Measure(a) \/ Begin(a) \/ Load(a) \/ Store(a)
      BY <3>1, <3>3 DEF Front, Locate, Measure, Begin, Load, Store, Labels, Updating
    <3>4. CASE Reset(a) \/ Pop(a) \/ PutBack(a)
      BY <3>1, <3>2, <3>4 DEF Reset, Pop, PutBack, Labels, Updating
    <3>5. CASE Compare(a) BY <3>1, <3>2, <3>5 DEF Compare, Labels, Updating
    <3> QED BY <1>9, <3>3, <3>4, <3>5 DEF SideSend
  <2> QED BY <1>d, <2>1
<1>10. CASE UNCHANGED vars BY <1>10, <1>b DEF vars
<1> QED
  BY <1>1, <1>2, <1>3, <1>4, <1>5, <1>6, <1>7, <1>8, <1>9, <1>10, ActorFacts
  DEF Next, PipeStep, WorkStep, SendNext

(* Both counts are numbers.                                                *)
LEMMA SyncTypes ==
    ASSUME TypeOK, NEW h \in Hosts
    PROVE  /\ Received(h) \in Nat /\ Sent(h) \in Nat /\ Parts \in Nat \ {0}
           /\ offset[h] \in Nat /\ rparts[Peer(h)] \in 0..(Parts - 1)
           /\ Incoming(h) \in Seq(Messages)
<1>1. Peer(h) \in Hosts /\ DataConn(h) \in Conns BY ActorFacts, ConnFacts
<1>2. Incoming(h) \in Seq(Messages) BY <1>1 DEF TypeOK, Incoming
<1>3. Len(Incoming(h)) \in Nat BY <1>2
<1>4. offset[h] \in Nat /\ rparts[Peer(h)] \in 0..(Parts - 1) BY <1>1 DEF TypeOK
<1>5. Sent(h) \in Nat BY <1>4 DEF Sent
<1>6. Received(h) \in Nat BY <1>3, <1>4, PartsFacts DEF Received
<1> QED BY <1>2, <1>4, <1>5, <1>6, PartsFacts

(* A direction is left alone when its receiver is and its sender has still *)
(* the same packet, or none of which some but not all parts were sent.     *)
LEMMA LinkQuiet ==
    ASSUME TypeOK, NEW h \in Hosts, LinkInv(h), side' = side,
           rpkt'[Peer(h)] = rpkt[Peer(h)], rparts'[Peer(h)] = rparts[Peer(h)],
           Incoming(h)' = Incoming(h),
           Round(Sent(h))' = Round(Sent(h)),
           Closed(Peer(h)) => Closed(Peer(h))',
           First(h) # 0 /\ Round(Sent(h)) # 0 => First(h)' = First(h)
    PROVE  LinkInv(h)'
<1> SUFFICES ASSUME side, ~Closed(Peer(h))' PROVE LinkInv(h)'
  BY DEF LinkInv
<1>1. Parts' = Parts BY DEF Parts
<1>2. Received(h)' = Received(h) BY DEF Received
<1>3. Round(Received(h))' = Round(Received(h)) BY <1>1, <1>2 DEF Round
<1>4. /\ Received(h) <= Parts /\ Round(Sent(h)) = Round(Received(h))
      /\ rparts[Peer(h)] = 0 => rpkt[Peer(h)] = 0
      /\ 0 < Received(h) /\ Received(h) < Parts =>
           /\ First(h) # 0
           /\ First(h) = IF Incoming(h) = <<>> THEN rpkt[Peer(h)] ELSE Head(Incoming(h)).pkt
      /\ Incoming(h) # <<>> =>
           /\ Head(Incoming(h)).part = rparts[Peer(h)] + 1
           /\ Head(Incoming(h)).head <=> rparts[Peer(h)] = 0
           /\ ~Head(Incoming(h)).head => Head(Incoming(h)).pkt = rpkt[Peer(h)]
  BY DEF LinkInv
<1>5. 0 < Received(h) /\ Received(h) < Parts => First(h)' = First(h)
  <2>1. 0 < Received(h) /\ Received(h) < Parts => Round(Received(h)) # 0
    BY SyncTypes DEF Round
  <2> QED BY <1>4, <2>1
<1> QED BY <1>1, <1>2, <1>3, <1>4, <1>5 DEF LinkInv

(* A thread that does not move is not disturbed by another packet behind   *)
(* the one that it has.                                                    *)
LEMMA ThreadQuiet ==
    ASSUME NEW a \in Actors, ThreadInv(a), UNCHANGED side,
           pc'[a] = pc[a], pkt'[a] = pkt[a], msg'[a] = msg[a], sum'[a] = sum[a],
           offset'[Host(a)] = offset[Host(a)],
           First(Host(a)) # 0 => First(Host(a))' = First(Host(a))
    PROVE  ThreadInv(a)'
BY DEF ThreadInv, Parts

(* The labels at which ThreadInv says something.                           *)
Engaged == {"locate", "measure", "begin", "write", "load", "store", "compare", "reset", "pop"}

(* A step that has nothing to do with the side channel.                    *)
LEMMA QuietSync ==
    ASSUME SyncInv, side, UNCHANGED <<side, offset, rpkt, rparts, msg, sum>>,
           NEW a \in Actors, NEW label,
           \/ UNCHANGED <<pc, pkt>>
           \/ /\ Goto(a, label) /\ pc[a] \notin JustSent /\ label \notin Engaged
              /\ \A x \in Actors : x # a => pkt'[x] = pkt[x],
           \A h \in Hosts : First(h) # 0 => First(h)' = First(h),
           \A h \in Hosts : Closed(h) => Closed(h)',
           \A h \in Hosts : Incoming(h)' = Incoming(h) \/ Closed(Peer(h))'
    PROVE  (\A h \in Hosts : LinkInv(h)') /\ (\A x \in Actors : ThreadInv(x)')
<1>1. \A x \in Actors : \/ pc'[x] = pc[x] /\ pkt'[x] = pkt[x]
                        \/ x = a /\ pc[x] \notin JustSent /\ pc'[x] \notin Engaged
  BY GotoFacts DEF SyncInv, TokenInv
<1>2. ASSUME NEW h \in Hosts PROVE LinkInv(h)'
  <2>1. Pipe(h) \in Actors /\ Work(h) \in Actors /\ Peer(h) \in Hosts BY ActorFacts
  <2>2. Sent(h)' = Sent(h) BY <1>1, <2>1 DEF Sent, JustSent, Engaged
  <2>3. Round(Sent(h))' = Round(Sent(h)) BY <2>2 DEF Round, Parts
  <2>4. CASE Closed(Peer(h))' BY <2>4 DEF LinkInv
  <2>5. CASE Incoming(h)' = Incoming(h)
    BY <2>1, <2>3, <2>5, LinkQuiet DEF SyncInv, TokenInv
  <2> QED BY <2>4, <2>5
<1>3. ASSUME NEW x \in Actors PROVE ThreadInv(x)'
  <2>1. CASE pc'[x] = pc[x] /\ pkt'[x] = pkt[x]
    BY <2>1, ThreadQuiet, ActorFacts DEF SyncInv
  <2>2. CASE pc'[x] \notin Engaged BY <2>2 DEF ThreadInv, Engaged
  <2> QED BY <1>1, <2>1, <2>2
<1> QED BY <1>2, <1>3

(* A part that comes is the next one of the packet, or the first one.      *)
LEMMA ChunkSync ==
    ASSUME SyncInv, NEW g \in Hosts, NEW c \in Conns, ReadChunk(g, c),
           \A h \in Hosts : Closed(h) => Closed(h)'
    PROVE  (\A h \in Hosts : LinkInv(h)') /\ (\A x \in Actors : ThreadInv(x)')
<1> DEFINE h == Peer(g)
           m == Head(net[g][c])
           target == IF m.head THEN m.pkt ELSE rpkt[g]
           parts == (IF m.head THEN 0 ELSE rparts[g]) + IF m.part = 0 THEN 0 ELSE 1
<1>1. h \in Hosts /\ Peer(h) = g /\ g # h BY ActorFacts, ConnFacts
<1>2. /\ side /\ Up(g) /\ pc[Work(g)] = "poll" /\ net[g][c] # <<>> /\ m # Empty
      /\ Consume(g, c)
      /\ UNCHANGED <<side, sendq, offset, msg, sum, pkt>>
  BY <1>1, ActorFacts DEF ReadChunk, At, sendVars, sideVars
<1>3. /\ net'[g][c] = <<>> /\ m.part # 0 /\ c # DataConn(g)
      /\ \A x \in Hosts, d \in Conns : x # g \/ d # c => net'[x][d] = net[x][d]
  BY <1>2, ConsumeNet DEF SyncInv, TokenInv
<1>4. c = DataConn(h) /\ Incoming(h) = net[g][c] /\ Incoming(h)' = <<>>
  BY <1>1, <1>3, ConnFacts DEF Incoming
<1>5. Incoming(g)' = Incoming(g) BY <1>1, <1>3, ConnFacts DEF Incoming
<1>6. \A x \in Hosts : First(x)' = First(x) BY <1>2 DEF First
<1>7. \A x \in Hosts : x = g \/ x = h BY <1>1 DEF Hosts, Peer
<1>8. CASE UNCHANGED <<pc, recvVars>> /\ \E w \in Failures \ {"none"} : Fail(g, w)
  <2>1. Closed(g)' BY <1>8 DEF Fail, Closed, Up, SyncInv, TokenInv, TypeOK
  <2>2. \A x \in Hosts : Incoming(x)' = Incoming(x) \/ Closed(Peer(x))'
    BY <1>1, <1>5, <1>7, <2>1
  <2> QED BY <1>2, <1>6, <1>8, <2>2, QuietSync, ActorFacts DEF recvVars
<1>9. CASE /\ ~(m.head /\ g = Server /\ rpkt[g] # 0) /\ target # 0
           /\ rpkt' = [rpkt EXCEPT ![g] = IF Complete(parts) THEN 0 ELSE target]
           /\ rparts' = [rparts EXCEPT ![g] = IF Complete(parts) THEN 0 ELSE parts]
           /\ Goto(Work(g), IF m.part = 0 THEN "next" ELSE "reply")
  <2>1. /\ TypeOK /\ LinkInv(h) /\ LinkInv(g) /\ Nets
        /\ Pipe(h) \in Actors /\ Work(h) \in Actors /\ Pipe(g) \in Actors /\ Work(g) \in Actors
    BY <1>1, ActorFacts DEF SyncInv, TokenInv
  <2>2. /\ pc'[Work(g)] = "reply"
        /\ \A x \in Actors : x # Work(g) => pc'[x] = pc[x]
    BY <1>3, <1>9, <2>1, GotoFacts
  <2>3. /\ Sent(h)' = Sent(h) /\ Sent(g)' = Sent(g) /\ Parts' = Parts
        /\ Round(Sent(h))' = Round(Sent(h)) /\ Round(Sent(g))' = Round(Sent(g))
    BY <1>1, <1>2, <2>1, <2>2, ActorFacts DEF Sent, JustSent, Parts, Round
  <2>4. LinkInv(g)'
    <3>1. rpkt'[h] = rpkt[h] /\ rparts'[h] = rparts[h] BY <1>1, <1>9, <2>1 DEF TypeOK
    <3> HIDE DEF h
    <3> QED BY <1>1, <1>2, <1>5, <1>6, <2>1, <2>3, <3>1, LinkQuiet DEF h
  <2>5. ~Closed(g) BY <1>2 DEF Closed
  <2>6. /\ Received(h) <= Parts /\ Round(Sent(h)) = Round(Received(h))
        /\ rparts[g] = 0 => rpkt[g] = 0
        /\ 0 < Received(h) /\ Received(h) < Parts => First(h) # 0 /\ First(h) = m.pkt
        /\ m.part = rparts[g] + 1
        /\ m.head <=> rparts[g] = 0
        /\ ~m.head => m.pkt = rpkt[g]
    BY <1>1, <1>2, <1>4, <2>1, <2>5 DEF LinkInv
  <2>7. Received(h) = rparts[g] + 1
    <3>1. PICK k : net[g][c] = <<k>> BY <1>2, <2>1 DEF Nets, OneAt
    <3> QED BY <1>1, <1>4, <3>1 DEF Received
  <2>8. rparts[g] \in Nat /\ Parts \in Nat \ {0} BY <1>1, <2>1, SyncTypes
  <2>9. parts = Received(h) /\ target = m.pkt BY <1>3, <2>6, <2>7, <2>8
  <2>10. Complete(parts) <=> Received(h) = Parts BY <2>6, <2>7, <2>8, <2>9 DEF Complete
  <2>11. /\ rpkt'[g] = IF Received(h) = Parts THEN 0 ELSE m.pkt
         /\ rparts'[g] = Round(Received(h))
    BY <1>9, <2>1, <2>9, <2>10 DEF TypeOK, Round
  <2>12. Received(h)' = Round(Received(h)) /\ Round(Received(h))' = Round(Received(h))
    <3>1. Received(h)' = rparts'[g] + 0 BY <1>1, <1>4 DEF Received
    <3>2. Round(Received(h)) \in Nat BY <2>7, <2>8 DEF Round
    <3> QED BY <2>3, <2>7, <2>8, <2>11, <3>1, <3>2 DEF Round
  <2>13. LinkInv(h)'
    <3>1. Round(Received(h)) \in Nat /\ Round(Received(h)) < Parts /\ (Round(Received(h)) = 0 => Received(h) = Parts)
          /\ (Received(h) # Parts => Round(Received(h)) = Received(h))
      BY <2>6, <2>7, <2>8 DEF Round
    <3>2. /\ Received(h)' <= Parts' /\ Round(Sent(h))' = Round(Received(h))'
      BY <2>3, <2>6, <2>8, <2>12, <3>1
    <3>3. rparts'[g] = 0 => rpkt'[g] = 0 BY <2>11, <3>1
    <3>4. 0 < Received(h)' /\ Received(h)' < Parts' => First(h)' # 0 /\ First(h)' = rpkt'[g]
      <4>1. Received(h) \in Nat BY <2>7, <2>8
      <4>2. 0 < Received(h)' => Received(h) # Parts /\ 0 < Received(h)
        BY <2>8, <2>12, <3>1, <4>1 DEF Round
      <4>3. 0 < Received(h)' => First(h) # 0 /\ First(h) = m.pkt /\ rpkt'[g] = m.pkt
        BY <2>6, <2>8, <2>11, <4>1, <4>2
      <4> QED BY <1>1, <1>6, <4>3
    <3> HIDE DEF h, m
    <3> QED BY <1>1, <1>4, <3>2, <3>3, <3>4 DEF LinkInv
  <2>14. ASSUME NEW x \in Actors PROVE ThreadInv(x)'
    <3>1. CASE x = Work(g) BY <2>2, <3>1 DEF ThreadInv
    <3>2. CASE x # Work(g)
      BY <1>2, <1>6, <2>2, <3>2, ThreadQuiet, ActorFacts DEF SyncInv
    <3> QED BY <3>1, <3>2
  <2> QED BY <1>7, <2>4, <2>13, <2>14
<1> QED BY <1>8, <1>9 DEF ReadChunk, Failures

(* The steps of a thread that sends on the side channel.                   *)
LEMMA SideSync ==
    ASSUME SyncInv, NEW a \in Actors, SideSend(a),
           \A h \in Hosts : Closed(h) => Closed(h)'
    PROVE  (\A h \in Hosts : LinkInv(h)') /\ (\A x \in Actors : ThreadInv(x)')
<1> DEFINE g == Host(a)
           b == IF a = Pipe(g) THEN Work(g) ELSE Pipe(g)
<1>1. /\ g \in Hosts /\ Peer(g) \in Hosts /\ Peer(Peer(g)) = g /\ Peer(g) # g
      /\ b \in Actors /\ a # b /\ Host(b) = g
      /\ (a = Pipe(g) /\ b = Work(g)) \/ (a = Work(g) /\ b = Pipe(g))
      /\ HostInv(g) /\ OffsetInv(g) /\ TypeOK /\ Nets /\ LinkInv(g) /\ ThreadInv(a)
  BY ActorFacts, ConnFacts DEF SyncInv, TokenInv
<1>2. /\ side /\ side' = side /\ Parts' = Parts /\ UNCHANGED <<rpkt, rparts>>
      /\ Parts \in Nat \ {0} /\ offset[g] \in Nat /\ Rest(a) \in {"idle", "poll"}
      /\ msg[a] \in Messages /\ sum[a] \in Nat
  BY <1>1, SideKeeps, PartsFacts DEF Parts, TypeOK, Rest, recvVars
<1>3. pc[a] \in Engaged \cup Updating \cup {"front"} => pc[b] \notin Updating \cup Sending
  BY <1>1 DEF HostInv, Exclusive, PipeSends, WorkSends, Engaged, Updating, Sending
<1>4. ASSUME NEW from, NEW to, SideStep(a, from, to)
      PROVE  pc[a] = from /\ pc'[a] = to /\ \A x \in Actors : x # a => pc'[x] = pc[x]
  BY <1>1, <1>4, GotoFacts DEF SideStep, At
<1>5. \A x \in Actors : x # a /\ x # b => Host(x) # g
  BY <1>1, ActorFacts
<1>6. pc[b] \notin Updating \cup Sending =>
        Sent(g) = offset[g] + IF pc[a] \in JustSent THEN 1 ELSE 0
  BY <1>1 DEF Sent, JustSent, Updating
<1>7. pc'[b] \notin Updating \cup Sending =>
        Sent(g)' = offset'[g] + IF pc'[a] \in JustSent THEN 1 ELSE 0
  BY <1>1 DEF Sent, JustSent, Updating
<1> HIDE DEF b
(* Only the thread itself and its direction have to be looked at.          *)
<1>8. ASSUME pc[a] \in Engaged \cup Updating \cup {"front"},
             \A x \in Actors : x # a => /\ pc'[x] = pc[x] /\ pkt'[x] = pkt[x]
                                        /\ sum'[x] = sum[x] /\ msg'[x] = msg[x],
             \A x \in Hosts : x # g => offset'[x] = offset[x] /\ First(x)' = First(x),
             Incoming(Peer(g))' = Incoming(Peer(g)),
             LinkInv(g)', ThreadInv(a)'
      PROVE  (\A h \in Hosts : LinkInv(h)') /\ (\A x \in Actors : ThreadInv(x)')
  <2>1. ASSUME NEW x \in Actors PROVE ThreadInv(x)'
    <3>1. CASE x = a BY <1>8, <3>1
    <3>2. CASE x = b
      BY <1>1, <1>3, <1>8, <3>2 DEF ThreadInv, Sending, Updating
    <3>3. CASE x # a /\ x # b
      BY <1>2, <1>5, <1>8, <3>3, ThreadQuiet, ActorFacts DEF SyncInv
    <3> QED BY <3>1, <3>2, <3>3
  <2>2. LinkInv(Peer(g))'
    <3>1. Pipe(Peer(g)) \in Actors \ {a} /\ Work(Peer(g)) \in Actors \ {a}
      BY <1>1, ActorFacts
    <3>2. Sent(Peer(g))' = Sent(Peer(g)) BY <1>1, <1>8, <3>1 DEF Sent
    <3>3. Round(Sent(Peer(g)))' = Round(Sent(Peer(g))) BY <1>2, <3>2 DEF Round
    <3> HIDE DEF g
    <3> QED BY <1>1, <1>2, <1>8, <3>3, LinkQuiet DEF SyncInv
  <2>3. \A h \in Hosts : h = g \/ h = Peer(g) BY <1>1 DEF Hosts, Peer
  <2> QED BY <1>8, <2>1, <2>2, <2>3
(* A step that changes neither the count nor, in the middle of a packet,   *)
(* the head of the queue.                                                  *)
<1>9. ASSUME UNCHANGED net, Round(Sent(g))' = Round(Sent(g)),
             First(g) # 0 /\ Round(Sent(g)) # 0 => First(g)' = First(g)
      PROVE  LinkInv(g)' /\ Incoming(Peer(g))' = Incoming(Peer(g))
  BY <1>1, <1>2, <1>9, LinkQuiet DEF Incoming
<1>10. ASSUME UNCHANGED sendq PROVE \A x \in Hosts : First(x)' = First(x)
  BY <1>10 DEF First
<1> HIDE DEF g
<1>11. CASE Front(a)
  <2>1. /\ pc[a] = "front" /\ pc'[a] = "locate" /\ pkt'[a] = First(g)
        /\ UNCHANGED <<sendq, offset, net, msg, sum>>
        /\ \A x \in Actors : x # a => pc'[x] = pc[x] /\ pkt'[x] = pkt[x]
    BY <1>1, <1>4, <1>11 DEF Front, sideVars, TypeOK, First, g
  <2>2. \A x \in Hosts : First(x)' = First(x) BY <1>10, <2>1
  <2>3. ThreadInv(a)' BY <1>1, <2>1, <2>2 DEF ThreadInv, g
  <2>4. Sent(g)' = Sent(g) BY <1>1, <1>3, <1>6, <1>7, <2>1 DEF JustSent
  <2>5. Round(Sent(g))' = Round(Sent(g)) BY <1>2, <2>4 DEF Round
  <2> QED BY <1>1, <1>8, <1>9, <2>1, <2>2, <2>3, <2>5
<1>12. CASE Locate(a) \/ Measure(a) \/ Begin(a)
  <2>1. /\ pc[a] \in {"locate", "measure", "begin"} /\ pc'[a] \in {"measure", "begin", "write"}
        /\ UNCHANGED <<sendq, offset, net, pkt, sum>> /\ pkt[a] # 0
        /\ \A x \in Actors : x # a => pc'[x] = pc[x] /\ msg'[x] = msg[x]
    <3>1. pkt[a] # 0 BY <1>12 DEF Locate, Measure, Begin, Valid
    <3>2. CASE Locate(a) BY <1>1, <1>4, <3>1, <3>2 DEF Locate, TypeOK
    <3>3. CASE Measure(a) BY <1>1, <1>4, <3>1, <3>3 DEF Measure, TypeOK
    <3>4. CASE Begin(a) BY <1>1, <1>4, <3>1, <3>4 DEF Begin, TypeOK
    <3> QED BY <1>12, <3>2, <3>3, <3>4
  <2>2. \A x \in Hosts : First(x)' = First(x) BY <1>10, <2>1
  <2>3. offset[g] < Parts
    BY <1>1, <1>2, <1>3, <2>1 DEF OffsetInv, Engaged, Updating
  <2>4. /\ msg'[a].pkt = pkt[a] /\ msg'[a].part = offset[g] + 1
        /\ pc'[a] = "write" => (msg'[a].head <=> offset[g] = 0)
    <3>1. CASE Locate(a)
      <4>1. /\ pc'[a] = "measure"
            /\ msg' = [msg EXCEPT ![a] = [pkt |-> pkt[a], part |-> offset[g] + 1, head |-> FALSE]]
        BY <1>4, <3>1 DEF Locate, g
      <4>2. msg'[a] = [pkt |-> pkt[a], part |-> offset[g] + 1, head |-> FALSE]
        BY <1>1, <4>1 DEF TypeOK
      <4> QED BY <4>1, <4>2
    <3>2. CASE Measure(a)
      <4>1. /\ pc[a] = "measure" /\ pc'[a] = "begin"
            /\ msg' = [msg EXCEPT ![a].part = IF offset[g] = Parts THEN 0 ELSE @]
        BY <1>4, <3>2 DEF Measure, g
      <4>2. msg' = msg BY <1>1, <1>2, <2>3, <4>1 DEF TypeOK, Messages
      <4>3. msg[a].pkt = pkt[a] /\ msg[a].part = offset[g] + 1
        BY <1>2, <1>1, <4>1 DEF ThreadInv, g
      <4> QED BY <4>1, <4>2, <4>3
    <3>3. CASE Begin(a)
      BY <1>1, <1>2, <1>4, <3>3 DEF Begin, TypeOK, ThreadInv, Messages, g
    <3> QED BY <1>12, <3>1, <3>2, <3>3
  <2>5. First(g) = pkt[a] BY <1>1, <1>2, <2>1 DEF ThreadInv, g
  <2>6. ThreadInv(a)' BY <1>1, <2>1, <2>2, <2>4, <2>5 DEF ThreadInv, g
  <2>7. Sent(g)' = Sent(g)
    BY <1>1, <1>3, <1>6, <1>7, <2>1 DEF JustSent, Engaged
  <2>8. Round(Sent(g))' = Round(Sent(g)) BY <1>2, <2>7 DEF Round
  <2> QED BY <1>1, <1>8, <1>9, <2>1, <2>2, <2>6, <2>8 DEF Engaged
<1>13. CASE SideWrite(a)
  <2>1. /\ pc[a] = "write" /\ pc'[a] = "load"
        /\ UNCHANGED <<sendq, offset, pkt, msg, sum>>
        /\ \A x \in Actors : x # a => pc'[x] = pc[x]
        /\ Send(g, SendConn(a), msg[a])
    BY <1>4, <1>13 DEF SideWrite, sideVars, g
  <2>2. \A x \in Hosts : First(x)' = First(x) BY <1>10, <2>1
  <2>3. /\ pkt[a] # 0 /\ First(g) = pkt[a]
        /\ msg[a].pkt = pkt[a] /\ msg[a].part = offset[g] + 1
        /\ msg[a].head <=> offset[g] = 0
    BY <1>1, <1>2, <2>1 DEF ThreadInv, g
  <2>4. offset[g] < Parts
    BY <1>1, <1>2, <1>3, <2>1 DEF OffsetInv, Engaged, Updating
  <2>5. SendConn(a) = DataConn(g)
    <3>1. CASE a = Pipe(g) BY <1>1, <3>1 DEF SendConn, Pipe, g
    <3>2. CASE a = Work(g)
      BY <1>1, <2>1, <3>2 DEF SendConn, Work, HostInv, WorkSends, Sending, g
    <3> QED BY <1>1, <3>1, <3>2
  <2>6. Incoming(g) = <<>>
    BY <1>1, <2>1 DEF HostInv, Exclusive, PipeSends, WorkSends, DataComes, Sending, Incoming
  <2>7. Sent(g) = offset[g] /\ Sent(g)' = offset[g] + 1
    BY <1>1, <1>2, <1>3, <1>6, <1>7, <2>1 DEF JustSent, Engaged
  <2>8. DataConn(g) \in Conns /\ DataConn(Peer(g)) \in Conns /\ DataConn(g) # DataConn(Peer(g))
    BY <1>1, ConnFacts
  <2>9. Incoming(Peer(g))' = Incoming(Peer(g))
    <3>1. /\ Incoming(Peer(g)) = net[g][DataConn(Peer(g))]
          /\ Incoming(Peer(g))' = net'[g][DataConn(Peer(g))]
      BY <1>1 DEF Incoming
    <3>2. CASE UNCHANGED net BY <3>1, <3>2
    <3>3. CASE net' = [net EXCEPT ![Peer(g)][DataConn(g)] = Append(@, msg[a])]
      <4>1. net'[g] = net[g] BY <1>1, <3>3 DEF TypeOK
      <4> QED BY <3>1, <4>1
    <3> QED BY <2>1, <2>5, <3>2, <3>3 DEF Send
  <2>10. LinkInv(g)'
    <3>1. CASE Closed(Peer(g)) BY <1>1, <3>1 DEF LinkInv
    <3>2. CASE ~Closed(Peer(g))
      <4>1. net' = [net EXCEPT ![Peer(g)][DataConn(g)] = Append(@, msg[a])]
        BY <2>1, <2>5, <3>2 DEF Send
      <4>2. Incoming(g)' = Append(Incoming(g), msg[a])
        BY <1>1, <2>8, <4>1 DEF Incoming, TypeOK
      <4>3. Incoming(g)' = <<msg[a]>> BY <2>6, <4>2
      <4>4. /\ Received(g) <= Parts /\ Round(Sent(g)) = Round(Received(g))
            /\ rparts[Peer(g)] = 0 => rpkt[Peer(g)] = 0
            /\ 0 < Received(g) /\ Received(g) < Parts => First(g) = rpkt[Peer(g)]
        BY <1>1, <1>2, <2>6, <3>2 DEF LinkInv
      <4>5. /\ rparts[Peer(g)] \in Nat /\ rparts[Peer(g)] < Parts
            /\ Received(g) = rparts[Peer(g)]
        BY <1>1, <1>2, <2>6, SyncTypes DEF Received
      <4>6. rparts[Peer(g)] = offset[g]
        BY <1>2, <2>4, <2>7, <4>4, <4>5 DEF Round
      <4>7. Received(g)' = offset[g] + 1
        BY <1>2, <4>3, <4>6 DEF Received
      <4>8. Round(Sent(g))' = Round(Received(g))' BY <2>7, <4>7 DEF Round
      <4>9. offset[g] # 0 => pkt[a] = rpkt[Peer(g)]
        BY <1>2, <2>3, <2>4, <4>4, <4>5, <4>6
      <4>10. Received(g)' <= Parts' BY <1>2, <2>4, <4>7
      <4>11. Head(<<msg[a]>>) = msg[a] /\ <<msg[a]>> # <<>> OBVIOUS
      <4> QED
        BY <1>1, <1>2, <2>2, <2>3, <4>3, <4>4, <4>6, <4>8, <4>9, <4>10, <4>11 DEF LinkInv
    <3> QED BY <3>1, <3>2
  <2>11. ThreadInv(a)' BY <1>2, <2>1, <2>3 DEF ThreadInv
  <2> QED BY <1>8, <2>1, <2>2, <2>9, <2>10, <2>11 DEF Engaged
<1>14. CASE Load(a)
  <2>1. /\ pc[a] = "load" /\ pc'[a] = "store"
        /\ UNCHANGED <<sendq, offset, pkt, msg, net>>
        /\ sum'[a] = offset[g] + IF msg[a].part = 0 THEN 0 ELSE 1
        /\ \A x \in Actors : x # a => pc'[x] = pc[x] /\ sum'[x] = sum[x]
    BY <1>1, <1>4, <1>14 DEF Load, TypeOK, g
  <2>2. \A x \in Hosts : First(x)' = First(x) BY <1>10, <2>1
  <2>3. ThreadInv(a)' BY <1>1, <1>2, <2>1 DEF ThreadInv, g
  <2>4. Sent(g)' = Sent(g)
    BY <1>1, <1>3, <1>6, <1>7, <2>1 DEF JustSent, Engaged
  <2>5. Round(Sent(g))' = Round(Sent(g)) BY <1>2, <2>4 DEF Round
  <2> QED BY <1>1, <1>8, <1>9, <2>1, <2>2, <2>3, <2>5 DEF Engaged
<1>15. CASE Store(a)
  <2>1. /\ pc[a] = "store" /\ pc'[a] = "compare"
        /\ UNCHANGED <<sendq, pkt, msg, sum, net>>
        /\ offset'[g] = sum[a] /\ \A x \in Hosts : x # g => offset'[x] = offset[x]
        /\ \A x \in Actors : x # a => pc'[x] = pc[x]
    BY <1>1, <1>4, <1>15 DEF Store, TypeOK, sideVars, g
  <2>2. \A x \in Hosts : First(x)' = First(x) BY <1>10, <2>1
  <2>3. sum[a] = offset[g] + 1 BY <1>1, <1>2, <2>1 DEF ThreadInv, g
  <2>4. offset[g] < Parts
    BY <1>1, <1>2, <1>3, <2>1 DEF OffsetInv, Engaged, Updating
  <2>5. ThreadInv(a)' BY <1>2, <2>1, <2>3, <2>4 DEF ThreadInv, g
  <2>6. Sent(g)' = Sent(g)
    BY <1>1, <1>2, <1>3, <1>6, <1>7, <2>1, <2>3 DEF JustSent, Engaged
  <2>7. Round(Sent(g))' = Round(Sent(g)) BY <1>2, <2>6 DEF Round
  <2> QED BY <1>1, <1>8, <1>9, <2>1, <2>2, <2>5, <2>7 DEF Engaged
<1>16. CASE Compare(a)
  <2>1. PICK all \in BOOLEAN :
          /\ SideStep(a, "compare", IF all THEN "reset" ELSE Rest(a))
          /\ \E seen \in {sum[a], offset[g]} : all <=> Complete(seen)
          /\ IF all THEN UNCHANGED <<pkt, msg, sum>> ELSE Done(a)
          /\ UNCHANGED <<sendq, offset, net>>
    BY <1>16 DEF Compare, g
  <2>2. /\ pc[a] = "compare" /\ pc'[a] = (IF all THEN "reset" ELSE Rest(a))
        /\ \A x \in Actors : x # a => pc'[x] = pc[x]
    BY <1>4, <2>1
  <2>3. \A x \in Actors : x # a =>
          pkt'[x] = pkt[x] /\ sum'[x] = sum[x] /\ msg'[x] = msg[x]
    <3>1. CASE UNCHANGED <<pkt, msg, sum>> BY <3>1
    <3>2. CASE Done(a) BY <1>1, <3>2 DEF Done, TypeOK
    <3> QED BY <2>1, <3>1, <3>2
  <2>4. \A x \in Hosts : First(x)' = First(x) BY <1>10, <2>1
  <2>5. sum[a] = offset[g] /\ offset[g] <= Parts
    BY <1>1, <1>2, <2>2 DEF OffsetInv, ThreadInv, g
  <2>6. all => offset[g] = Parts
    <3>1. all => Complete(offset[g]) BY <2>1, <2>5
    <3> QED BY <1>2, <2>5, <3>1 DEF Complete
  <2>7. ThreadInv(a)' BY <1>2, <2>1, <2>2, <2>6 DEF ThreadInv, g
  <2>8. Sent(g)' = Sent(g)
    BY <1>1, <1>2, <1>3, <1>6, <1>7, <2>1, <2>2 DEF JustSent, Engaged
  <2>9. Round(Sent(g))' = Round(Sent(g)) BY <1>2, <2>8 DEF Round
  <2> QED BY <1>1, <1>8, <1>9, <2>1, <2>2, <2>3, <2>4, <2>7, <2>9 DEF Engaged
<1>17. CASE Reset(a)
  <2>1. /\ pc[a] = "reset" /\ pc'[a] = "pop"
        /\ UNCHANGED <<sendq, pkt, msg, sum, net>>
        /\ offset'[g] = 0 /\ \A x \in Hosts : x # g => offset'[x] = offset[x]
        /\ \A x \in Actors : x # a => pc'[x] = pc[x]
    BY <1>1, <1>4, <1>17 DEF Reset, TypeOK, sideVars, g
  <2>2. \A x \in Hosts : First(x)' = First(x) BY <1>10, <2>1
  <2>3. offset[g] = Parts BY <1>1, <1>2, <2>1 DEF ThreadInv, g
  <2>4. ThreadInv(a)' BY <1>2, <2>1 DEF ThreadInv, g
  <2>5. Sent(g) = Parts /\ Sent(g)' = 0
    BY <1>1, <1>2, <1>3, <1>6, <1>7, <2>1, <2>3 DEF JustSent, Engaged
  <2>6. Round(Sent(g))' = Round(Sent(g)) BY <1>2, <2>5 DEF Round
  <2> QED BY <1>1, <1>8, <1>9, <2>1, <2>2, <2>4, <2>6 DEF Engaged
<1>18. CASE Pop(a)
  <2>1. /\ pc[a] = "pop" /\ pc'[a] = "put"
        /\ UNCHANGED <<offset, pkt, msg, sum, net>>
        /\ \A x \in Hosts : x # g => sendq'[x] = sendq[x]
        /\ \A x \in Actors : x # a => pc'[x] = pc[x]
    BY <1>1, <1>4, <1>18 DEF Pop, TypeOK, sideVars, g
  <2>2. \A x \in Hosts : x # g => First(x)' = First(x) BY <2>1 DEF First
  <2>3. offset[g] = 0 BY <1>1, <1>2, <2>1 DEF ThreadInv, g
  <2>4. ThreadInv(a)' BY <2>1 DEF ThreadInv
  <2>5. Sent(g) = 0 /\ Sent(g)' = 0
    BY <1>1, <1>2, <1>3, <1>6, <1>7, <2>1, <2>3 DEF JustSent, Engaged
  <2>6. Round(Sent(g))' = 0 /\ Round(Sent(g)) = 0 BY <1>2, <2>5 DEF Round
  <2> QED BY <1>1, <1>8, <1>9, <2>1, <2>2, <2>4, <2>6 DEF Engaged
<1>19. CASE PutBack(a)
  <2>1. /\ pc[a] = "put" /\ pc'[a] = Rest(a)
        /\ UNCHANGED <<sendq, offset, net>>
        /\ \A x \in Actors : x # a => /\ pc'[x] = pc[x] /\ pkt'[x] = pkt[x]
                                      /\ sum'[x] = sum[x] /\ msg'[x] = msg[x]
    BY <1>1, <1>4, <1>19 DEF PutBack, Done, TypeOK
  <2>2. \A x \in Hosts : First(x)' = First(x) BY <1>10, <2>1
  <2>3. ThreadInv(a)' BY <1>2, <2>1 DEF ThreadInv
  <2>4. Sent(g)' = Sent(g)
    BY <1>1, <1>2, <1>3, <1>6, <1>7, <2>1 DEF JustSent, Updating
  <2>5. Round(Sent(g))' = Round(Sent(g)) BY <1>2, <2>4 DEF Round
  <2> QED BY <1>1, <1>8, <1>9, <2>1, <2>2, <2>3, <2>5 DEF Updating
<1>20. CASE Astray(a)
  <2>1. UNCHANGED <<side, offset, rpkt, rparts, msg, sum, pc, pkt, sendq, net>>
    BY <1>20 DEF Astray, queueVars, sendVars, recvVars, sideVars
  <2>2. \A h \in Hosts : First(h)' = First(h) /\ Incoming(h)' = Incoming(h)
    BY <2>1 DEF First, Incoming
  <2> QED BY <1>2, <2>1, <2>2, QuietSync
<1> QED BY <1>11, <1>12, <1>13, <1>14, <1>15, <1>16, <1>17, <1>18, <1>19, <1>20 DEF SideSend

(* At first there is nothing to agree on.                                  *)
LEMMA InitSync == ASSUME Init PROVE SyncInv
<1>1. TokenInv BY InitToken
<1>2. \A a \in Actors : pc[a] \in {"reply", "idle", "poll"}
  BY DEF Init, Rest
<1>3. \A a \in Actors : ThreadInv(a) BY <1>2 DEF ThreadInv
<1>4. ASSUME NEW h \in Hosts PROVE LinkInv(h) /\ GoneInv(h)
  <2>1. /\ Pipe(h) \in Actors /\ Work(h) \in Actors /\ Peer(h) \in Hosts
        /\ DataConn(h) \in Conns
    BY ActorFacts, ConnFacts
  <2>2. Incoming(h) = <<>> /\ rparts[Peer(h)] = 0 /\ rpkt[Peer(h)] = 0 /\ offset[h] = 0
    BY <2>1 DEF Init, Incoming
  <2>3. Sent(h) = 0 /\ Received(h) = 0
    BY <1>2, <2>1, <2>2 DEF Sent, Received, JustSent
  <2>4. LinkInv(h) BY <2>2, <2>3, PartsFacts DEF LinkInv, Round
  <2>5. GoneInv(h) BY <1>2, <2>1 DEF GoneInv
  <2> QED BY <2>4, <2>5
<1> QED BY <1>1, <1>3, <1>4 DEF SyncInv

(* Every step of either host keeps the offsets in step.                    *)
LEMMA NextSync ==
    ASSUME ~Fragmenting, TRUE \in Modes => FastAnswers = {}, SyncInv, [Next]_vars
    PROVE  SyncInv'
<1>1. TypeOK /\ TokenInv /\ \A h \in Hosts : GoneInv(h) BY DEF SyncInv, TokenInv
<1>2. TokenInv' BY <1>1, NextToken, NextOffset, NextTypes DEF TokenInv
<1>3. \A h \in Hosts : Closed(h) => Closed(h)' BY <1>1, ClosedStays
<1>4. \A h \in Hosts : GoneInv(h)' BY <1>1, NextGone
<1>5. side' = side BY ModeStays
<1> DEFINE Agree == (\A h \in Hosts : LinkInv(h)') /\ (\A x \in Actors : ThreadInv(x)')
<1>6. CASE ~side
  <2>1. Agree BY <1>5, <1>6 DEF LinkInv, ThreadInv
  <2> QED BY <1>2, <1>4, <2>1 DEF SyncInv
<1>7. CASE side
  <2>a. ASSUME UNCHANGED sendq PROVE \A h \in Hosts : First(h)' = First(h)
    BY <2>a DEF First
  <2>b. ASSUME UNCHANGED net PROVE \A h \in Hosts : Incoming(h)' = Incoming(h)
    BY <2>b DEF Incoming
  <2>1. ASSUME NEW h \in Hosts, TestReady(h) PROVE Agree
    <3>1. PICK label \in {"next", "idle"} : Goto(Pipe(h), label)
      BY <2>1 DEF TestReady
    <3>2. /\ pc[Pipe(h)] = "test"
          /\ UNCHANGED <<side, offset, rpkt, rparts, msg, sum, pkt, sendq, net>>
      BY <2>1 DEF TestReady, At, queueVars, sendVars, recvVars, sideVars
    <3> QED
      BY <1>3, <1>7, <2>a, <2>b, <3>1, <3>2, QuietSync, ActorFacts DEF JustSent, Engaged
  <2>2. ASSUME NEW h \in Hosts, Enqueue(h) PROVE Agree
    <3>1. /\ pc[Pipe(h)] = "idle" /\ Goto(Pipe(h), "test")
          /\ UNCHANGED <<side, offset, rpkt, rparts, msg, sum, pkt, net>>
          /\ sendq' = [sendq EXCEPT ![h] = Append(@, nsent'[h])]
      BY <2>2 DEF Enqueue, At, sendVars, recvVars, sideVars
    <3>2. ASSUME NEW x \in Hosts, First(x) # 0 PROVE First(x)' = First(x)
      <4>1. sendq[x] \in Seq(Nat) /\ sendq[x] # <<>> BY <1>1, <3>2 DEF TypeOK, First
      <4>2. sendq'[x] = sendq[x] \/ sendq'[x] = Append(sendq[x], nsent'[h])
        BY <1>1, <3>1 DEF TypeOK
      <4>3. Head(Append(sendq[x], nsent'[h])) = Head(sendq[x])
            /\ Append(sendq[x], nsent'[h]) # <<>>
        BY <4>1
      <4> QED BY <4>1, <4>2, <4>3 DEF First
    <3> QED
      BY <1>3, <1>7, <2>b, <3>1, <3>2, QuietSync, ActorFacts DEF JustSent, Engaged
  <2>3. ASSUME NEW h \in Hosts, PipelineStopped(h) PROVE Agree
    <3>1. /\ pc[Pipe(h)] \in {"idle", "write"} /\ Goto(Pipe(h), "gone")
          /\ UNCHANGED <<side, offset, rpkt, rparts, msg, sum, sendq, net>>
          /\ \A x \in Actors : x # Pipe(h) => pkt'[x] = pkt[x]
      BY <1>1, <2>3 DEF PipelineStopped, At, queueVars, sendVars, recvVars, sideVars, TypeOK
    <3> QED
      BY <1>3, <1>7, <2>a, <2>b, <3>1, QuietSync, ActorFacts DEF JustSent, Engaged
  <2>4. ASSUME NEW a \in Actors, Take(a) PROVE Agree
    <3>1. /\ pc[a] = "next" /\ Goto(a, "flag")
          /\ UNCHANGED <<side, offset, rpkt, rparts, msg, sum, sendq, net>>
          /\ \A x \in Actors : x # a => pkt'[x] = pkt[x]
      BY <1>1, <1>7, <2>4 DEF Take, At, sendVars, recvVars, sideVars, TypeOK
    <3> QED BY <1>3, <1>7, <2>a, <2>b, <3>1, QuietSync DEF JustSent, Engaged
  <2>5. ASSUME NEW a \in Actors, SetReady(a) PROVE Agree
    <3>1. PICK label \in {"idle", "poll", "front"} : Goto(a, label)
      BY <1>7, <2>5 DEF SetReady, Rest
    <3>2. /\ pc[a] = "flag"
          /\ UNCHANGED <<side, offset, rpkt, rparts, msg, sum, pkt, sendq, net>>
      BY <2>5 DEF SetReady, At, queueVars, recvVars, sideVars
    <3> QED BY <1>3, <1>7, <2>a, <2>b, <3>1, <3>2, QuietSync DEF JustSent, Engaged
  <2>6. ASSUME NEW a \in Actors, Write(a) PROVE Agree
    BY <1>7, <2>6 DEF Write
  <2>7. ASSUME NEW a \in Actors, SideSend(a) PROVE Agree
    BY <1>3, <2>7, SideSync
  <2>8. ASSUME NEW h \in Hosts, Reply(h) PROVE Agree
    <3>1. /\ pc[Work(h)] = "reply" /\ Goto(Work(h), "poll") /\ Send(h, fd[h], Empty)
          /\ UNCHANGED <<side, offset, rpkt, rparts, msg, sum, pkt, sendq>>
      BY <2>8 DEF Reply, At, queueVars, sendVars, recvVars, sideVars
    <3>2. fd[h] = DataConn(Peer(h)) /\ Peer(h) \in Hosts /\ fd[h] # DataConn(h)
      BY <1>1, <3>1, ActorFacts, ConnFacts DEF TokenInv, HostInv
    <3>3. ASSUME NEW x \in Hosts PROVE Incoming(x)' = Incoming(x)
      <4>1. CASE UNCHANGED net BY <2>b, <4>1
      <4>2. CASE net' = [net EXCEPT ![Peer(h)][fd[h]] = Append(@, Empty)]
        <5>1. x = h \/ x = Peer(h) BY DEF Hosts, Peer
        <5>2. net'[Peer(h)][DataConn(h)] = net[Peer(h)][DataConn(h)]
          BY <1>1, <3>2, <4>2, ConnFacts DEF TypeOK
        <5>3. net'[h][DataConn(Peer(h))] = net[h][DataConn(Peer(h))]
          BY <1>1, <3>2, <4>2, ConnFacts DEF TypeOK
        <5> QED BY <5>1, <5>2, <5>3, ConnFacts DEF Incoming
      <4> QED BY <3>1, <4>1, <4>2 DEF Send
    <3> QED BY <1>3, <1>7, <2>a, <3>1, <3>3, QuietSync, ActorFacts DEF JustSent, Engaged
  <2>9. ASSUME NEW h \in Hosts, NEW c \in Conns, ReadEmpty(h, c) PROVE Agree
    <3>1. /\ pc[Work(h)] = "poll" /\ Goto(Work(h), "next") /\ Consume(h, c)
          /\ net[h][c] # <<>> /\ Head(net[h][c]) = Empty
          /\ UNCHANGED <<side, offset, rpkt, rparts, msg, sum, pkt, sendq>>
      BY <2>9 DEF ReadEmpty, At, queueVars, sendVars, recvVars, sideVars
    <3>2. c = DataConn(h) /\ \A g \in Hosts, d \in Conns :
                               g # h \/ d # c => net'[g][d] = net[g][d]
      BY <1>1, <3>1, ConsumeNet DEF TokenInv
    <3>3. ASSUME NEW x \in Hosts PROVE Incoming(x)' = Incoming(x)
      <4>1. Peer(x) \in Hosts /\ DataConn(x) \in Conns /\ (Peer(x) = h => DataConn(x) # c)
        BY <3>2, ActorFacts, ConnFacts
      <4> QED BY <3>2, <4>1 DEF Incoming
    <3> QED BY <1>3, <1>7, <2>a, <3>1, <3>3, QuietSync, ActorFacts DEF JustSent, Engaged
  <2>10. ASSUME NEW h \in Hosts, NEW c \in Conns, ReadData(h, c) PROVE Agree
    BY <1>7, <2>10 DEF ReadData
  <2>11. ASSUME NEW h \in Hosts, NEW c \in Conns, ReadChunk(h, c) PROVE Agree
    BY <1>3, <2>11, ChunkSync
  <2>12. ASSUME NEW h \in Hosts, StopModule(h) PROVE Agree
    <3>1. /\ pc[Work(h)] = "poll" /\ Goto(Work(h), "gone")
          /\ UNCHANGED <<side, offset, rpkt, rparts, msg, sum, pkt, sendq>>
          /\ net' = [net EXCEPT ![h] = [c \in Conns |-> <<>>]]
      BY <2>12 DEF StopModule, At, queueVars, sendVars, recvVars, sideVars
    <3>2. Closed(h)' BY <1>1, <3>1, GotoFacts, ActorFacts DEF Closed
    <3>3. ASSUME NEW x \in Hosts PROVE Incoming(x)' = Incoming(x) \/ Closed(Peer(x))'
      <4>1. CASE Peer(x) = h BY <3>2, <4>1
      <4>2. CASE Peer(x) # h BY <1>1, <3>1, <4>2, ActorFacts DEF Incoming, TypeOK
      <4> QED BY <4>1, <4>2
    <3> QED BY <1>3, <1>7, <2>a, <3>1, <3>3, QuietSync, ActorFacts DEF JustSent, Engaged
  <2>13. ASSUME UNCHANGED <<side, offset, rpkt, rparts, msg, sum, pc, pkt, sendq, net>>
         PROVE  Agree
    <3>1. PICK a \in Actors : TRUE BY ActorFacts DEF Hosts
    <3>2. \A h \in Hosts : First(h)' = First(h) /\ Incoming(h)' = Incoming(h)
      BY <2>13, <2>a, <2>b
    <3>3. UNCHANGED <<side, offset, rpkt, rparts, msg, sum>> /\ UNCHANGED <<pc, pkt>>
      BY <2>13
    <3> QED BY <1>3, <1>7, <3>1, <3>2, <3>3, QuietSync
  <2>14. ASSUME NEW h \in Hosts, PktRecv(h) \/ ReadClosed(h) PROVE Agree
    BY <2>13, <2>14 DEF PktRecv, ReadClosed, queueVars, sendVars, recvVars, sideVars
  <2>15. ASSUME UNCHANGED vars PROVE Agree
    BY <2>13, <2>15 DEF vars, queueVars, sendVars, recvVars, sideVars
  <2>16. ASSUME NEW h \in Hosts, NEW c \in Conns, ReadFragment(h, c) PROVE Agree
    BY <2>16 DEF ReadFragment
  <2> HIDE DEF Agree
  <2>17. Agree
    BY <2>1, <2>2, <2>3, <2>4, <2>5, <2>6, <2>7, <2>8, <2>9, <2>10, <2>11, <2>12, <2>14,
       <2>15, <2>16, ActorFacts
    DEF Next, PipeStep, WorkStep, SendNext
  <2> QED BY <1>2, <1>4, <2>17 DEF SyncInv, Agree
<1> QED BY <1>6, <1>7

(* The sender's offset and the receiver's stay in step on the side channel,*)
(* for any number of parts to a packet and whenever a host stops, as long  *)
(* as no answer comes before the offset is set.                            *)
THEOREM OffsetsAgree ==
    ASSUME ~Fragmenting, TRUE \in Modes => FastAnswers = {}
    PROVE  Spec => []InStep
<1>1. Init => SyncInv BY InitSync
<1>2. SyncInv /\ [Next]_vars => SyncInv' BY NextSync
<1>3. SyncInv => InStep
  <2> SUFFICES ASSUME SyncInv, side, NEW h \in Hosts, NEW c \in Conns,
                      Up(h), net[h][c] # <<>>, Head(net[h][c]) # Empty
               PROVE  LET m == Head(net[h][c]) IN
                      IF m.head THEN m.part = 1 /\ rpkt[h] = 0
                      ELSE m.pkt = rpkt[h] /\ m.part = rparts[h] + 1
    BY DEF InStep
  <2>1. TypeOK /\ Nets /\ GoneInv(h) BY DEF SyncInv, TokenInv
  <2>2. c # DataConn(h)
    <3>1. PICK m : net[h][c] = <<m>> /\ (c = DataConn(h) => m = Empty)
      BY <2>1 DEF Nets, OneAt
    <3> QED BY <3>1
  <2>3. c = DataConn(Peer(h)) /\ Peer(h) \in Hosts /\ Peer(Peer(h)) = h
    BY <2>2, ActorFacts, ConnFacts
  <2>4. ~Closed(h) BY <2>1 DEF GoneInv, Closed
  <2>5. LinkInv(Peer(h)) /\ Incoming(Peer(h)) = net[h][c]
    BY <2>3 DEF SyncInv, Incoming
  <2> QED BY <2>3, <2>4, <2>5 DEF LinkInv
<1> QED BY <1>1, <1>2, <1>3, PTL DEF Spec

-----------------------------------------------------------------------------
(* The first n steps of collecting the packets of q                        *)
Collects(f, q, n) ==
    f = [i \in 0..n |-> IF i = 0 THEN <<>>
                        ELSE IF q[i].pkt = 0 THEN f[i - 1]
                        ELSE Append(f[i - 1], q[i].pkt)]

(* exist,                                                                  *)
LEMMA CollectionExists ==
    ASSUME NEW q, NEW n \in Nat
    PROVE  \E f : Collects(f, q, n)
<1> DEFINE Way(f, m) == Collects(f, q, m)
           T == {m \in Nat : ~ \E f : Way(f, m)}
<1>1. SUFFICES ASSUME T # {} PROVE FALSE
  OBVIOUS
<1>2. PICK m \in T : \A k \in T : m <= k
  <2>1. T \in SUBSET Nat OBVIOUS
  <2> HIDE DEF T
  <2> QED BY <1>1, <2>1, Seqs!LeastNat
<1>3. CASE m = 0
  <2>1. Way([i \in 0..0 |-> <<>>], 0) BY DEF Collects
  <2> QED BY <1>2, <1>3, <2>1
<1>4. CASE m # 0
  <2>1. m - 1 \in Nat /\ m - 1 \notin T
    <3>1. m \in Nat BY <1>2
    <3>2. m - 1 \in Nat /\ ~ (m <= m - 1) BY <1>4, <3>1
    <3> HIDE DEF T
    <3> QED BY <1>2, <3>2
  <2>2. PICK f : Way(f, m - 1) BY <2>1
  <2> DEFINE step(g, i) == IF q[i].pkt = 0 THEN g[i - 1] ELSE Append(g[i - 1], q[i].pkt)
             g == [i \in 0..m |-> IF i = m THEN step(f, m) ELSE f[i]]
  <2>3. \A i \in 0..(m - 1) : g[i] = f[i] BY <2>1
  <2>4. \A i \in 0..m : g[i] = IF i = 0 THEN <<>> ELSE step(g, i)
    <3>1. TAKE i \in 0..m
    <3>2. CASE i = m
      BY <1>4, <2>1, <2>3, <3>2
    <3>3. CASE i # m
      <4>1. i \in 0..(m - 1) /\ (i # 0 => i - 1 \in 0..(m - 1)) BY <3>3, <2>1
      <4>2. f[i] = IF i = 0 THEN <<>> ELSE step(f, i) BY <2>2, <4>1 DEF Collects
      <4> QED BY <2>3, <4>1, <4>2
    <3> QED BY <3>2, <3>3
  <2>5. Way(g, m) BY <2>4 DEF Collects
  <2> QED BY <2>5
<1> QED BY <1>3, <1>4

(* and Carried takes them.                                                 *)
LEMMA CarriedCollects ==
    ASSUME NEW q, Len(q) \in Nat
    PROVE  \E f : Collects(f, q, Len(q)) /\ Carried(q) = f[Len(q)]
<1> DEFINE F == CHOOSE f : Collects(f, q, Len(q))
<1>1. Collects(F, q, Len(q)) BY CollectionExists
<1>2. Carried(q) = F[Len(q)] BY DEF Carried, Collects
<1> QED BY <1>1, <1>2

(* A connection with at most one message.                                  *)
LEMMA CarriedFew ==
    /\ Carried(<<>>) = <<>>
    /\ \A m : Carried(<<m>>) = IF m.pkt = 0 THEN <<>> ELSE <<m.pkt>>
<1>1. Carried(<<>>) = <<>>
  <2>1. PICK f : Collects(f, <<>>, 0) /\ Carried(<<>>) = f[0] BY CarriedCollects
  <2>2. f[0] = <<>> BY <2>1 DEF Collects
  <2> QED BY <2>1, <2>2
<1>2. ASSUME NEW m PROVE Carried(<<m>>) = IF m.pkt = 0 THEN <<>> ELSE <<m.pkt>>
  <2>0. Len(<<m>>) = 1 OBVIOUS
  <2>1. PICK g : Collects(g, <<m>>, 1) /\ Carried(<<m>>) = g[1]
    <3> DEFINE q == <<m>>
    <3>1. \E f : Collects(f, q, Len(q)) /\ Carried(q) = f[Len(q)]
      <4>1. Len(q) \in Nat OBVIOUS
      <4> HIDE DEF q
      <4> QED BY <4>1, CarriedCollects
    <3> QED BY <2>0, <3>1
  <2>2. g[0] = <<>> /\ g[1] = IF m.pkt = 0 THEN g[0] ELSE Append(g[0], m.pkt)
    BY <2>1 DEF Collects
  <2>3. Append(<<>>, m.pkt) = <<m.pkt>> OBVIOUS
  <2> QED BY <2>1, <2>2, <2>3
<1> QED BY <1>1, <1>2

(* Where a packet of host h can be before its peer's pipeline has it, and  *)
(* the packets that are there; 0 is none.                                  *)
Stages == {"recv", "zero", "one", "work", "pipe", "send"}
(* Stage of a connection, and of what a thread holds.                      *)
ConnStage(c) == IF c = 0 THEN "zero" ELSE "one"
ActorStage(a) == IF a = Pipe(Host(a)) THEN "pipe" ELSE "work"
(* The packets of messages, and the packets of host h at each stage.       *)
Pkts(q) == [i \in DOMAIN q |-> q[i].pkt]
Lines(h) ==
    [x \in Stages |->
        CASE x = "recv" -> recvq[Peer(h)]
          [] x = "zero" -> Pkts(net[Peer(h)][0])
          [] x = "one"  -> Pkts(net[Peer(h)][1])
          [] x = "work" -> <<pkt[Work(h)]>>
          [] x = "pipe" -> <<pkt[Pipe(h)]>>
          [] x = "send" -> sendq[h]]

(* No packet is twice on the lines L, and none has a number above n.       *)
Once(L) ==
    \A x, y \in Stages : \A i \in DOMAIN L[x], j \in DOMAIN L[y] :
        L[x][i] # 0 /\ L[x][i] = L[y][j] => x = y /\ i = j
(* All of them are among the first n.                                      *)
Below(L, n) == \A x \in Stages : \A i \in DOMAIN L[x] : L[x][i] \in 0..n

(* What Once says of two places.                                           *)
LEMMA OnceMeans ==
    ASSUME NEW L, Once(L), NEW x \in Stages, NEW y \in Stages,
           NEW i \in DOMAIN L[x], NEW j \in DOMAIN L[y], L[x][i] # 0, L[x][i] = L[y][j]
    PROVE  x = y /\ i = j
BY DEF Once

(* It stays so when every line keeps or loses packets,                     *)
LEMMA LosingIsSafe ==
    ASSUME NEW L, NEW M, NEW n \in Nat, Once(L), Below(L, n),
           NEW shift \in [Stages -> Nat],
           \A x \in Stages : \A i \in DOMAIN M[x] :
               i \in Nat /\ (M[x][i] = 0 \/ (i + shift[x] \in DOMAIN L[x] /\ M[x][i] = L[x][i + shift[x]]))
    PROVE  Once(M) /\ Below(M, n)
<1>1. Below(M, n)
  <2> SUFFICES ASSUME NEW x \in Stages, NEW i \in DOMAIN M[x] PROVE M[x][i] \in 0..n
    BY DEF Below
  <2>1. CASE M[x][i] = 0 BY <2>1
  <2>2. CASE M[x][i] # 0
    <3>1. i + shift[x] \in DOMAIN L[x] /\ M[x][i] = L[x][i + shift[x]] BY <2>2
    <3> QED BY <3>1 DEF Below
  <2> QED BY <2>1, <2>2
<1>2. Once(M)
  <2> SUFFICES ASSUME NEW x \in Stages, NEW y \in Stages,
                      NEW i \in DOMAIN M[x], NEW j \in DOMAIN M[y],
                      M[x][i] # 0, M[x][i] = M[y][j]
               PROVE  x = y /\ i = j
    BY DEF Once
  <2>1. /\ i + shift[x] \in DOMAIN L[x] /\ M[x][i] = L[x][i + shift[x]]
        /\ j + shift[y] \in DOMAIN L[y] /\ M[y][j] = L[y][j + shift[y]]
        /\ i \in Nat /\ j \in Nat
    OBVIOUS
  <2>a. L[x][i + shift[x]] # 0 /\ L[x][i + shift[x]] = L[y][j + shift[y]] BY <2>1
  <2>2. x = y /\ i + shift[x] = j + shift[y]
    <3> DEFINE u == i + shift[x]
               v == j + shift[y]
    <3>1. u \in DOMAIN L[x] /\ v \in DOMAIN L[y] /\ L[x][u] # 0 /\ L[x][u] = L[y][v] BY <2>1, <2>a
    <3> HIDE DEF u, v
    <3>2. x = y /\ u = v BY <3>1, OnceMeans
    <3> QED BY <3>2 DEF u, v
  <2> QED BY <2>1, <2>2
<1> QED BY <1>1, <1>2

(* Line r has what line q has, but not its first packet, which line t gets.*)
LeavesFirst(q, r) ==
    \E s \in Nat : \A i \in DOMAIN r :
        i \in Nat /\ (r[i] = 0 \/ (i + s # 1 /\ i + s \in DOMAIN q /\ r[i] = q[i + s]))
Gets(t, u, q) ==
    \E k \in Nat : \A j \in DOMAIN u :
        \/ u[j] = 0
        \/ j # k /\ j \in DOMAIN t /\ u[j] = t[j]
        \/ j = k /\ 1 \in DOMAIN q /\ u[j] = q[1]

(* when one moves from the front of line z to line w,                      *)
LEMMA MovingIsSafe ==
    ASSUME NEW L, NEW M, NEW n \in Nat, Once(L), Below(L, n),
           NEW z \in Stages, NEW w \in Stages, z # w,
           \A x \in Stages : x # z /\ x # w => M[x] = L[x],
           LeavesFirst(L[z], M[z]), Gets(L[w], M[w], L[z])
    PROVE  Once(M) /\ Below(M, n)
<1>s. PICK s \in Nat : \A i \in DOMAIN M[z] :
        i \in Nat /\ (M[z][i] = 0 \/ (i + s # 1 /\ i + s \in DOMAIN L[z] /\ M[z][i] = L[z][i + s]))
  BY DEF LeavesFirst
<1>k. PICK k \in Nat : \A j \in DOMAIN M[w] :
        \/ M[w][j] = 0
        \/ j # k /\ j \in DOMAIN L[w] /\ M[w][j] = L[w][j]
        \/ j = k /\ 1 \in DOMAIN L[z] /\ M[w][j] = L[z][1]
  BY DEF Gets
<1>1. Below(M, n)
  <2> SUFFICES ASSUME NEW x \in Stages, NEW i \in DOMAIN M[x] PROVE M[x][i] \in 0..n
    BY DEF Below
  <2>1. CASE x # z /\ x # w BY <2>1 DEF Below
  <2>2. CASE x = z BY <1>s, <2>2 DEF Below
  <2>3. CASE x = w BY <1>k, <2>3 DEF Below
  <2> QED BY <2>1, <2>2, <2>3
<1> DEFINE Source(x, i) == IF x = w /\ i = k THEN z ELSE x
           Place(x, i) == IF x = w /\ i = k THEN 1 ELSE IF x = z THEN i + s ELSE i
<1>2. ASSUME NEW x \in Stages, NEW i \in DOMAIN M[x], M[x][i] # 0
      PROVE  /\ Source(x, i) \in Stages /\ Place(x, i) \in DOMAIN L[Source(x, i)]
             /\ M[x][i] = L[Source(x, i)][Place(x, i)]
  BY <1>2, <1>s, <1>k
<1>3. ASSUME NEW x \in Stages, NEW y \in Stages, NEW i \in DOMAIN M[x], NEW j \in DOMAIN M[y],
             M[x][i] # 0, M[y][j] # 0, Source(x, i) = Source(y, j), Place(x, i) = Place(y, j)
      PROVE  x = y /\ i = j
  <2>1. x = z => i + s # 1 /\ i \in Nat BY <1>3, <1>s
  <2>2. y = z => j + s # 1 /\ j \in Nat BY <1>3, <1>s
  <2>3. CASE x = w /\ i = k BY <1>3, <2>2, <2>3
  <2>4. CASE y = w /\ j = k BY <1>3, <2>1, <2>4
  <2>5. CASE ~(x = w /\ i = k) /\ ~(y = w /\ j = k) BY <1>3, <2>1, <2>2, <2>5
  <2> QED BY <2>3, <2>4, <2>5
<1>4. Once(M)
  <2> SUFFICES ASSUME NEW x \in Stages, NEW y \in Stages,
                      NEW i \in DOMAIN M[x], NEW j \in DOMAIN M[y],
                      M[x][i] # 0, M[x][i] = M[y][j]
               PROVE  x = y /\ i = j
    BY DEF Once
  <2>1. Source(x, i) = Source(y, j) /\ Place(x, i) = Place(y, j)
    <3>1. /\ Source(x, i) \in Stages /\ Place(x, i) \in DOMAIN L[Source(x, i)]
          /\ M[x][i] = L[Source(x, i)][Place(x, i)]
          /\ Source(y, j) \in Stages /\ Place(y, j) \in DOMAIN L[Source(y, j)]
          /\ M[y][j] = L[Source(y, j)][Place(y, j)]
      BY <1>2
    <3> HIDE DEF Source, Place
    <3>2. LET u == L[Source(x, i)][Place(x, i)] IN u # 0 /\ u = L[Source(y, j)][Place(y, j)]
      BY <3>1
    <3> QED BY <3>1, <3>2, OnceMeans
  <2> HIDE DEF Source, Place
  <2> QED BY <2>1, <1>3
<1> QED BY <1>1, <1>4

(* and when a new one joins the queue to send.                             *)
LEMMA JoiningIsSafe ==
    ASSUME NEW L, NEW M, NEW n \in Nat, Once(L), Below(L, n),
           \A x \in Stages : x # "send" => M[x] = L[x],
           L["send"] \in Seq(Nat), M["send"] = Append(L["send"], n + 1)
    PROVE  Once(M) /\ Below(M, n + 1)
<1>1. /\ DOMAIN M["send"] = 1..(Len(L["send"]) + 1) /\ DOMAIN L["send"] = 1..Len(L["send"])
      /\ \A i \in DOMAIN L["send"] : M["send"][i] = L["send"][i]
      /\ M["send"][Len(L["send"]) + 1] = n + 1
  BY AppendProperties
<1>2. ASSUME NEW x \in Stages, NEW i \in DOMAIN M[x]
      PROVE  \/ i \in DOMAIN L[x] /\ M[x][i] = L[x][i] /\ M[x][i] \in 0..n
             \/ x = "send" /\ i = Len(L["send"]) + 1 /\ M[x][i] = n + 1
  <2>1. CASE x # "send" BY <1>2, <2>1 DEF Below
  <2>2. CASE x = "send"
    <3>1. i \in DOMAIN L["send"] \/ i = Len(L["send"]) + 1
      <4>1. Len(L["send"]) \in Nat BY LenProperties
      <4>2. i \in 1..(Len(L["send"]) + 1) BY <1>1, <1>2, <2>2
      <4>3. i \in 1..Len(L["send"]) \/ i = Len(L["send"]) + 1 BY <4>1, <4>2
      <4> QED BY <1>1, <4>3
    <3>2. i \in DOMAIN L["send"] => L["send"][i] \in 0..n
      BY DEF Below, Stages
    <3> QED BY <1>1, <2>2, <3>1, <3>2
  <2> QED BY <2>1, <2>2
<1>3. Below(M, n + 1)
  <2>1. \A v : v \in 0..n \/ v = n + 1 => v \in 0..(n + 1) OBVIOUS
  <2> QED BY <1>2, <2>1 DEF Below
<1>4. Once(M)
  <2> SUFFICES ASSUME NEW x \in Stages, NEW y \in Stages,
                      NEW i \in DOMAIN M[x], NEW j \in DOMAIN M[y],
                      M[x][i] # 0, M[x][i] = M[y][j]
               PROVE  x = y /\ i = j
    BY DEF Once
  <2>0. n + 1 \notin 0..n OBVIOUS
  <2>1. CASE M[x][i] = n + 1
    <3>1. M[x][i] \notin 0..n /\ M[y][j] \notin 0..n BY <2>0, <2>1
    <3>2. x = "send" /\ i = Len(L["send"]) + 1 BY <1>2, <3>1
    <3>3. y = "send" /\ j = Len(L["send"]) + 1 BY <1>2, <3>1
    <3> QED BY <3>2, <3>3
  <2>2. CASE M[x][i] # n + 1
    <3>1. i \in DOMAIN L[x] /\ M[x][i] = L[x][i] /\ j \in DOMAIN L[y] /\ M[y][j] = L[y][j]
      <4>1. i \in DOMAIN L[x] /\ M[x][i] = L[x][i] BY <1>2, <2>2
      <4>2. j \in DOMAIN L[y] /\ M[y][j] = L[y][j] BY <1>2, <2>2
      <4> QED BY <4>1, <4>2
    <3>2. L[x][i] # 0 /\ L[x][i] = L[y][j] BY <3>1
    <3> QED BY <3>1, <3>2, OnceMeans
  <2> QED BY <2>1, <2>2
<1> QED BY <1>3, <1>4

(* In normal mode the queues hold packets, a message is empty or carries   *)
(* one whole packet, nothing is put together, and whoever writes has one.  *)
Whole == {Empty} \cup [pkt : Nat \ {0}, part : {1}, head : {TRUE}]
Full ==
    /\ sendq \in [Hosts -> Seq(Nat \ {0})] /\ recvq \in [Hosts -> Seq(Nat \ {0})]
    /\ net \in [Hosts -> [Conns -> Seq(Whole)]]
    /\ \A h \in Hosts : rpkt[h] = 0
    /\ \A a \in Actors : pc[a] = "write" => pkt[a] # 0

(* Such a message has the number of a packet, or 0.                        *)
LEMMA WholeFacts == \A m \in Whole : m.pkt \in Nat
<1> SUFFICES ASSUME NEW m \in Whole PROVE m.pkt \in Nat
  OBVIOUS
<1>1. CASE m = Empty BY <1>1 DEF Empty
<1>2. CASE m \in [pkt : Nat \ {0}, part : {1}, head : {TRUE}] BY <1>2
<1> QED BY <1>1, <1>2 DEF Whole

(* What a write leaves of the messages.                                    *)
LEMMA SendFull ==
    ASSUME Full, NEW h \in Hosts, NEW c \in Conns, NEW m \in Whole, Send(h, c, m)
    PROVE  net' \in [Hosts -> [Conns -> Seq(Whole)]]
<1>1. Peer(h) \in Hosts BY ActorFacts
<1>2. Append(net[Peer(h)][c], m) \in Seq(Whole)
  BY <1>1, AppendProperties DEF Full
<1>3. CASE net' = [net EXCEPT ![Peer(h)][c] = Append(@, m)]
  BY <1>1, <1>2, <1>3 DEF Full
<1>4. CASE UNCHANGED net BY <1>4 DEF Full
<1> QED BY <1>3, <1>4 DEF Send

(* What a read leaves of them.                                             *)
LEMMA ConsumeFull ==
    ASSUME Full, NEW h \in Hosts, NEW c \in Conns, Consume(h, c)
    PROVE  net' \in [Hosts -> [Conns -> Seq(Whole)]]
<1>1. PICK n \in 1..Len(net[h][c]) :
        net' = [net EXCEPT ![h][c] = SubSeq(@, n + 1, Len(@))]
  BY DEF Consume
<1>2. net[h][c] \in Seq(Whole)
  BY DEF Full
<1>3. SubSeq(net[h][c], n + 1, Len(net[h][c])) \in Seq(Whole)
  BY <1>2, SubSeqProperties, LenProperties
<1> QED BY <1>1, <1>3 DEF Full

(* A label other than "write" needs no packet.                             *)
LEMMA GotoFull ==
    ASSUME TypeOK, Full, NEW a \in Actors, NEW label, Goto(a, label), label # "write",
           \A b \in Actors : b # a => pkt'[b] = pkt[b]
    PROVE  \A b \in Actors : pc'[b] = "write" => pkt'[b] # 0
BY GotoFacts DEF Full

(* A thread at rest writes nothing.                                        *)
LEMMA RestFacts == ASSUME NEW a PROVE Rest(a) # "write"
BY DEF Rest

(* In normal mode no step breaks that.                                     *)
LEMMA NextFull == ASSUME TypeOK, Full, ~side, [Next]_vars PROVE Full'
<1>1. ASSUME NEW h \in Hosts, Enqueue(h) PROVE Full'
  <2>1. nsent[h] + 1 \in Nat \ {0} /\ sendq[h] \in Seq(Nat \ {0}) BY DEF TypeOK, Full
  <2>2. Append(sendq[h], nsent[h] + 1) \in Seq(Nat \ {0}) BY <2>1, AppendProperties
  <2>3. nsent'[h] = nsent[h] + 1 BY <1>1, <2>1 DEF Enqueue, TypeOK
  <2>4. sendq' \in [Hosts -> Seq(Nat \ {0})] BY <1>1, <2>2, <2>3 DEF Enqueue, Full
  <2>5. \A b \in Actors : pc'[b] = "write" => pkt'[b] # 0
    BY <1>1, ActorFacts, GotoFull DEF Enqueue
  <2> QED BY <1>1, <2>4, <2>5 DEF Enqueue, Full, recvVars
<1>2. ASSUME NEW h \in Hosts, PktRecv(h) PROVE Full'
  <2>1. recvq[h] \in Seq(Nat \ {0}) BY DEF Full
  <2>2. recvq[h] # <<>> => Tail(recvq[h]) \in Seq(Nat \ {0}) BY <2>1
  <2>3. CASE recvq' = recvq BY <1>2, <2>3 DEF PktRecv, Full, recvVars
  <2>4. CASE recvq[h] # <<>> /\ recvq' = [recvq EXCEPT ![h] = Tail(@)]
    <3>1. recvq' \in [Hosts -> Seq(Nat \ {0})] BY <2>2, <2>4 DEF Full
    <3> QED BY <1>2, <3>1 DEF PktRecv, Full, recvVars
  <2> QED BY <1>2, <2>3, <2>4 DEF PktRecv
<1>3. ASSUME NEW h \in Hosts, TestReady(h) PROVE Full'
  <2>1. \A b \in Actors : pc'[b] = "write" => pkt'[b] # 0
    BY <1>3, ActorFacts, GotoFull DEF TestReady
  <2> QED BY <1>3, <2>1 DEF TestReady, Full, queueVars, recvVars
<1>4. ASSUME NEW a \in Actors, Take(a) PROVE Full'
  <2>1. Host(a) \in Hosts /\ sendq[Host(a)] \in Seq(Nat \ {0}) BY ActorFacts DEF Full
  <2>2. sendq[Host(a)] # <<>> => Tail(sendq[Host(a)]) \in Seq(Nat \ {0}) BY <2>1
  <2>3. \/ sendq' = sendq
        \/ sendq[Host(a)] # <<>> /\ sendq' = [sendq EXCEPT ![Host(a)] = Tail(@)]
    BY <1>4 DEF Take
  <2>4. sendq' \in [Hosts -> Seq(Nat \ {0})] BY <2>1, <2>2, <2>3 DEF Full
  <2>5. \A b \in Actors : b # a => pkt'[b] = pkt[b] BY <1>4 DEF Take, TypeOK
  <2>6. \A b \in Actors : pc'[b] = "write" => pkt'[b] # 0
    BY <1>4, <2>5, GotoFull DEF Take
  <2> QED BY <1>4, <2>4, <2>6 DEF Take, Full, recvVars
<1>5. ASSUME NEW a \in Actors, SetReady(a) PROVE Full'
  <2>1. \A b \in Actors : pc'[b] = "write" => pkt'[b] # 0
    BY <1>5, GotoFacts, RestFacts DEF SetReady, Full
  <2> QED BY <1>5, <2>1 DEF SetReady, Full, queueVars, recvVars
<1>6. ASSUME NEW a \in Actors, Write(a) PROVE Full'
  <2>1. Host(a) \in Hosts BY ActorFacts
  <2>2. Data(pkt[a]) \in Whole
    <3>1. pkt[a] \in Nat \ {0} BY <1>6 DEF Write, At, TypeOK, Full
    <3> QED BY <3>1 DEF Data, Whole
  <2>3. SendConn(a) \in Conns BY ActorFacts, ConnFacts DEF TypeOK, SendConn
  <2>4. net' \in [Hosts -> [Conns -> Seq(Whole)]]
    BY <1>6, <2>1, <2>2, <2>3, SendFull DEF Write
  <2>5. \A b \in Actors : pc'[b] = "write" => pkt'[b] # 0
    <3>1. \A b \in Actors : b # a => pkt'[b] = pkt[b] BY <1>6 DEF Write, TypeOK
    <3>2. Goto(a, Rest(a)) BY <1>6 DEF Write
    <3> QED BY <3>1, <3>2, RestFacts, GotoFull
  <2> QED BY <1>6, <2>4, <2>5 DEF Write, Full, queueVars, recvVars
<1>7. ASSUME NEW a \in Actors, SideSend(a) PROVE Full'
  BY <1>7, SideKeeps
<1>8. ASSUME NEW h \in Hosts, Reply(h) PROVE Full'
  <2>1. fd[h] \in Conns /\ Empty \in Whole BY DEF TypeOK, Whole
  <2>2. net' \in [Hosts -> [Conns -> Seq(Whole)]] BY <1>8, <2>1, SendFull DEF Reply
  <2>3. \A b \in Actors : pc'[b] = "write" => pkt'[b] # 0
    BY <1>8, ActorFacts, GotoFull DEF Reply
  <2> QED BY <1>8, <2>2, <2>3 DEF Reply, Full, queueVars, recvVars
<1>9. ASSUME NEW h \in Hosts, NEW c \in Conns, ReadEmpty(h, c) PROVE Full'
  <2>1. net' \in [Hosts -> [Conns -> Seq(Whole)]] BY <1>9, ConsumeFull DEF ReadEmpty
  <2>2. \A b \in Actors : pc'[b] = "write" => pkt'[b] # 0
    BY <1>9, ActorFacts, GotoFull DEF ReadEmpty
  <2> QED BY <1>9, <2>1, <2>2 DEF ReadEmpty, Full, queueVars, recvVars
<1>10. ASSUME NEW h \in Hosts, NEW c \in Conns, ReadData(h, c) PROVE Full'
  <2> DEFINE m == Head(net[h][c])
  <2>1. net' \in [Hosts -> [Conns -> Seq(Whole)]] BY <1>10, ConsumeFull DEF ReadData
  <2>2. net[h][c] \in Seq(Whole) /\ net[h][c] # <<>> BY <1>10 DEF ReadData, Full
  <2>3. m \in Whole /\ m # Empty BY <1>10, <2>2 DEF ReadData
  <2>4. Append(recvq[h], m.pkt) \in Seq(Nat \ {0})
    <3>1. m.pkt \in Nat \ {0} BY <2>3 DEF Whole
    <3> QED BY <3>1, AppendProperties DEF Full
  <2>5. /\ UNCHANGED <<recvq, pc>> \/
           (recvq' = [recvq EXCEPT ![h] = Append(@, m.pkt)] /\ Goto(Work(h), "reply"))
        /\ UNCHANGED <<sendq, pkt, rpkt>>
    <3> HIDE DEF m
    <3> QED BY <1>10 DEF ReadData, recvVars, m
  <2> HIDE DEF m
  <2>6. recvq' \in [Hosts -> Seq(Nat \ {0})]
    BY <2>4, <2>5 DEF Full
  <2>7. \A b \in Actors : pc'[b] = "write" => pkt'[b] # 0
    <3>1. CASE UNCHANGED pc BY <2>5, <3>1 DEF Full
    <3>2. CASE Goto(Work(h), "reply") BY <2>5, <3>2, ActorFacts, GotoFull
    <3> QED BY <2>5, <3>1, <3>2
  <2> QED BY <2>1, <2>5, <2>6, <2>7 DEF Full
<1>11. ASSUME NEW h \in Hosts, NEW c \in Conns, ReadFragment(h, c) PROVE Full'
  <2>1. net[h][c] \in Seq(Whole) /\ net[h][c] # <<>> BY <1>11 DEF ReadFragment, Full
  <2>2. Tail(net[h][c]) \in Seq(Whole) /\ Head(net[h][c]) \in Whole BY <2>1
  <2>3. <<Empty>> \o Tail(net[h][c]) \in Seq(Whole)
    <3>1. <<Empty>> \in Seq(Whole) BY DEF Whole
    <3> QED BY <2>2, <3>1, ConcatProperties
  <2>4. net' \in [Hosts -> [Conns -> Seq(Whole)]]
    <3>1. CASE UNCHANGED net BY <3>1 DEF Full
    <3>2. CASE net' = [net EXCEPT ![h][c] = <<Empty>> \o Tail(@)]
      BY <2>3, <3>2 DEF Full
    <3> QED BY <1>11, <3>1, <3>2 DEF ReadFragment
  <2>5. recvq' \in [Hosts -> Seq(Nat \ {0})]
    <3>1. CASE UNCHANGED recvq BY <3>1 DEF Full
    <3>2. CASE /\ recvq' = [recvq EXCEPT ![h] = Append(@, Head(net[h][c]).pkt)]
               /\ Head(net[h][c]) # Empty
      <4>1. Head(net[h][c]).pkt \in Nat \ {0} BY <2>2, <3>2 DEF Whole
      <4>2. Append(recvq[h], Head(net[h][c]).pkt) \in Seq(Nat \ {0})
        BY <4>1, AppendProperties DEF Full
      <4> QED BY <3>2, <4>2 DEF Full
    <3> QED BY <1>11, <3>1, <3>2 DEF ReadFragment
  <2>6. \A b \in Actors : pc'[b] = "write" => pkt'[b] # 0
    <3>1. UNCHANGED pkt /\ (UNCHANGED pc \/ \E label \in {"next", "reply"} : Goto(Work(h), label))
      BY <1>11 DEF ReadFragment
    <3>2. CASE UNCHANGED pc BY <3>1, <3>2 DEF Full
    <3>3. ASSUME NEW label \in {"next", "reply"}, Goto(Work(h), label)
          PROVE  \A b \in Actors : pc'[b] = "write" => pkt'[b] # 0
      BY <3>1, <3>3, ActorFacts, GotoFull
    <3> QED BY <3>1, <3>2, <3>3
  <2> QED BY <1>11, <2>4, <2>5, <2>6 DEF ReadFragment, Full, recvVars
<1>12. ASSUME NEW h \in Hosts, ReadClosed(h) PROVE Full'
  BY <1>12 DEF ReadClosed, Full, queueVars, recvVars
<1>13. ASSUME NEW h \in Hosts, PipelineStopped(h) PROVE Full'
  <2>1. \A b \in Actors : pc'[b] = "write" => pkt'[b] # 0
    <3>1. \A b \in Actors : b # Pipe(h) => pkt'[b] = pkt[b] BY <1>13 DEF PipelineStopped, TypeOK
    <3> QED BY <1>13, <3>1, ActorFacts, GotoFull DEF PipelineStopped
  <2> QED BY <1>13, <2>1 DEF PipelineStopped, Full, queueVars, recvVars
<1>14. ASSUME NEW h \in Hosts, StopModule(h) PROVE Full'
  <2>1. \A b \in Actors : pc'[b] = "write" => pkt'[b] # 0
    BY <1>14, ActorFacts, GotoFull DEF StopModule
  <2>2. <<>> \in Seq(Whole) BY EmptySeq
  <2>3. net' \in [Hosts -> [Conns -> Seq(Whole)]] BY <1>14, <2>2 DEF StopModule, Full
  <2> QED BY <1>14, <2>1, <2>3 DEF StopModule, Full, queueVars, recvVars
<1>15. CASE UNCHANGED vars BY <1>15 DEF vars, Full, queueVars, recvVars
<1>16. ASSUME NEW h \in Hosts, NEW c \in Conns, ReadChunk(h, c) PROVE Full'
  BY <1>16 DEF ReadChunk
<1> QED
  BY <1>1, <1>2, <1>3, <1>4, <1>5, <1>6, <1>7, <1>8, <1>9, <1>10, <1>11, <1>12,
     <1>13, <1>14, <1>15, <1>16, ActorFacts
  DEF Next, PipeStep, WorkStep, SendNext

(* No packet of host h is at two places, and none was not yet sent.        *)
Safe(h) == Once(Lines(h)) /\ Below(Lines(h), nsent[h])

(* Line r has what line q has from some place on, or less.                 *)
Loses(q, r) ==
    \E s \in Nat : \A i \in DOMAIN r :
        i \in Nat /\ (r[i] = 0 \/ (i + s \in DOMAIN q /\ r[i] = q[i + s]))

(* Packets of messages are in the order of the messages.                   *)
LEMMA PktsFacts ==
    \A q \in Seq(Whole) :
        DOMAIN Pkts(q) = 1..Len(q) /\ \A i \in 1..Len(q) : Pkts(q)[i] = q[i].pkt
BY DEF Pkts

(* What a read leaves behind, and what it leaves when it cuts a message.   *)
LEMMA RestOf ==
    ASSUME NEW q \in Seq(Whole), NEW n \in 1..Len(q)
    PROVE  LET r == SubSeq(q, n + 1, Len(q)) IN
           r \in Seq(Whole) /\ Len(r) = Len(q) - n /\ \A i \in 1..Len(r) : r[i] = q[i + n]
<1> DEFINE r == SubSeq(q, n + 1, Len(q))
<1>1. n + 1 \in 1..(Len(q) + 1) /\ Len(q) \in (n + 1 - 1)..Len(q) /\ Len(q) \in Nat OBVIOUS
<1>2. r \in Seq(Whole) BY <1>1, SubSeqProperties
<1>3. Len(r) = IF n + 1 <= Len(q) THEN Len(q) - (n + 1) + 1 ELSE 0
  BY <1>1, SubSeqProperties
<1>4. \A i \in 1..(Len(q) - (n + 1) + 1) : r[i] = q[(n + 1) + i - 1]
  BY <1>1, SubSeqProperties
<1>5. \A i \in 1..Len(r) : i \in 1..(Len(q) - (n + 1) + 1) /\ (n + 1) + i - 1 = i + n
  BY <1>1, <1>3
<1>6. Len(r) = Len(q) - n BY <1>1, <1>3
<1> HIDE DEF r
<1>7. r \in Seq(Whole) /\ Len(r) = Len(q) - n /\ \A i \in 1..Len(r) : r[i] = q[i + n]
  BY <1>2, <1>4, <1>5, <1>6
<1> QED BY <1>7 DEF r

(* The first message is replaced by an empty one when its rest is lost.    *)
LEMMA EmptyFirst ==
    ASSUME NEW q \in Seq(Whole), q # <<>>
    PROVE  LET r == <<Empty>> \o Tail(q) IN
           /\ r \in Seq(Whole) /\ Len(r) = Len(q) /\ r[1] = Empty
           /\ \A i \in 2..Len(q) : r[i] = q[i]
<1> DEFINE r == <<Empty>> \o Tail(q)
<1>1. <<Empty>> \in Seq(Whole) /\ Len(<<Empty>>) = 1 /\ <<Empty>>[1] = Empty BY DEF Whole
<1>2. Tail(q) \in Seq(Whole) /\ Len(Tail(q)) = Len(q) - 1
      /\ \A i \in 1..(Len(q) - 1) : Tail(q)[i] = q[i + 1]
  BY HeadTailProperties
<1>3. r \in Seq(Whole) /\ Len(r) = 1 + (Len(q) - 1)
      /\ \A i \in 1..Len(r) : r[i] = IF i <= 1 THEN <<Empty>>[i] ELSE Tail(q)[i - 1]
  BY <1>1, <1>2, ConcatProperties
<1>4. Len(q) \in Nat \ {0} BY EmptySeq
<1> HIDE DEF r
<1>5. r \in Seq(Whole) /\ Len(r) = Len(q) /\ r[1] = Empty
      /\ \A i \in 2..Len(q) : r[i] = q[i]
  BY <1>1, <1>2, <1>3, <1>4
<1> QED BY <1>5 DEF r

(* The steps of a line that lose packets, and add none.                   *)
LEMMA LoseFacts ==
    /\ \A q \in Seq(Nat) :
         Loses(q, q) /\ (q # <<>> => Loses(q, Tail(q)))
    /\ \A v : Loses(<<v>>, <<v>>) /\ Loses(<<v>>, <<0>>)
    /\ \A q \in Seq(Whole) :
         /\ Loses(Pkts(q), Pkts(q)) /\ Loses(Pkts(q), Pkts(<<>>))
         /\ Loses(Pkts(q), Pkts(Append(q, Empty)))
         /\ \A n \in 1..Len(q) : Loses(Pkts(q), Pkts(SubSeq(q, n + 1, Len(q))))
         /\ q # <<>> => Loses(Pkts(q), Pkts(<<Empty>> \o Tail(q)))
<1>a. \A q, r : (\A i \in DOMAIN r : i \in Nat /\ (r[i] = 0 \/ (i + 0 \in DOMAIN q /\ r[i] = q[i + 0])))
                => Loses(q, r)
  BY DEF Loses
<1>1. ASSUME NEW q \in Seq(Nat) PROVE Loses(q, q) /\ (q # <<>> => Loses(q, Tail(q)))
  <2>1. Loses(q, q) BY <1>a
  <2>2. ASSUME q # <<>> PROVE Loses(q, Tail(q))
    <3>1. \A i \in DOMAIN Tail(q) : i \in Nat /\ i + 1 \in DOMAIN q /\ Tail(q)[i] = q[i + 1]
      BY <2>2, HeadTailProperties
    <3> QED BY <3>1 DEF Loses
  <2> QED BY <2>1, <2>2
<1>2. ASSUME NEW v PROVE Loses(<<v>>, <<v>>) /\ Loses(<<v>>, <<0>>)
  <2>1. /\ DOMAIN <<v>> = 1..1 /\ DOMAIN <<0>> = 1..1
        /\ \A i \in 1..1 : i \in Nat /\ i + 0 = i /\ <<0>>[i] = 0
    OBVIOUS
  <2> QED BY <2>1, <1>a
<1>3. ASSUME NEW q \in Seq(Whole)
      PROVE  /\ Loses(Pkts(q), Pkts(q)) /\ Loses(Pkts(q), Pkts(<<>>))
             /\ Loses(Pkts(q), Pkts(Append(q, Empty)))
             /\ \A n \in 1..Len(q) : Loses(Pkts(q), Pkts(SubSeq(q, n + 1, Len(q))))
             /\ q # <<>> => Loses(Pkts(q), Pkts(<<Empty>> \o Tail(q)))
  <2>1. DOMAIN Pkts(q) = 1..Len(q) /\ (\A i \in 1..Len(q) : Pkts(q)[i] = q[i].pkt) /\ Len(q) \in Nat
    BY PktsFacts
  <2>2. Loses(Pkts(q), Pkts(q)) BY <1>a, <2>1
  <2>3. Loses(Pkts(q), Pkts(<<>>))
    <3>1. DOMAIN Pkts(<<>>) = {} BY DEF Pkts
    <3> QED BY <3>1, <1>a
  <2>4. Loses(Pkts(q), Pkts(Append(q, Empty)))
    <3> DEFINE r == Append(q, Empty)
    <3>1. r \in Seq(Whole) /\ Len(r) = Len(q) + 1 /\ r[Len(q) + 1] = Empty
          /\ \A i \in 1..Len(q) : r[i] = q[i]
      <4>1. Empty \in Whole BY DEF Whole
      <4> QED BY <4>1, AppendProperties
    <3> HIDE DEF r
    <3>2. DOMAIN Pkts(r) = 1..(Len(q) + 1) /\ \A i \in 1..(Len(q) + 1) : Pkts(r)[i] = r[i].pkt
      BY <3>1, PktsFacts
    <3>3. ASSUME NEW i \in 1..(Len(q) + 1)
          PROVE  i \in Nat /\ (Pkts(r)[i] = 0 \/ (i + 0 \in DOMAIN Pkts(q) /\ Pkts(r)[i] = Pkts(q)[i + 0]))
      <4>1. CASE i = Len(q) + 1 BY <2>1, <3>1, <3>2, <4>1 DEF Empty
      <4>2. CASE i \in 1..Len(q) BY <2>1, <3>1, <3>2, <4>2
      <4> QED BY <2>1, <4>1, <4>2
    <3>4. Loses(Pkts(q), Pkts(r)) BY <3>2, <3>3, <1>a
    <3> QED BY <3>4 DEF r
  <2>5. ASSUME NEW n \in 1..Len(q) PROVE Loses(Pkts(q), Pkts(SubSeq(q, n + 1, Len(q))))
    <3> DEFINE r == SubSeq(q, n + 1, Len(q))
    <3>1. r \in Seq(Whole) /\ Len(r) = Len(q) - n /\ \A i \in 1..Len(r) : r[i] = q[i + n]
      BY RestOf
    <3> HIDE DEF r
    <3>2. DOMAIN Pkts(r) = 1..Len(r) /\ \A i \in 1..Len(r) : Pkts(r)[i] = r[i].pkt
      BY <3>1, PktsFacts
    <3>3. ASSUME NEW i \in 1..Len(r)
          PROVE  i \in Nat /\ i + n \in DOMAIN Pkts(q) /\ Pkts(r)[i] = Pkts(q)[i + n]
      <4>1. i \in Nat /\ i + n \in 1..Len(q) BY <2>1, <3>1
      <4>2. r[i] = q[i + n] /\ Pkts(r)[i] = r[i].pkt BY <3>1, <3>2
      <4>3. Pkts(q)[i + n] = q[i + n].pkt BY <2>1, <4>1
      <4> QED BY <2>1, <4>1, <4>2, <4>3
    <3>4. n \in Nat /\ \A i \in DOMAIN Pkts(r) :
            i \in Nat /\ i + n \in DOMAIN Pkts(q) /\ Pkts(r)[i] = Pkts(q)[i + n]
      BY <2>1, <3>2, <3>3
    <3>5. Loses(Pkts(q), Pkts(r)) BY <3>4, Zenon DEF Loses
    <3> QED BY <3>5 DEF r
  <2>6. ASSUME q # <<>> PROVE Loses(Pkts(q), Pkts(<<Empty>> \o Tail(q)))
    <3> DEFINE r == <<Empty>> \o Tail(q)
    <3>1. r \in Seq(Whole) /\ Len(r) = Len(q) /\ r[1] = Empty
          /\ \A i \in 2..Len(q) : r[i] = q[i]
      BY <2>6, EmptyFirst
    <3> HIDE DEF r
    <3>2. DOMAIN Pkts(r) = 1..Len(q) /\ \A i \in 1..Len(q) : Pkts(r)[i] = r[i].pkt
      BY <3>1, PktsFacts
    <3>3. ASSUME NEW i \in 1..Len(q)
          PROVE  i \in Nat /\ (Pkts(r)[i] = 0 \/ (i + 0 \in DOMAIN Pkts(q) /\ Pkts(r)[i] = Pkts(q)[i + 0]))
      <4>1. CASE i = 1 BY <2>1, <3>1, <3>2, <4>1 DEF Empty
      <4>2. CASE i \in 2..Len(q) BY <2>1, <3>1, <3>2, <4>2
      <4> QED BY <2>1, <4>1, <4>2
    <3>4. Loses(Pkts(q), Pkts(r)) BY <3>2, <3>3, <1>a
    <3> QED BY <3>4 DEF r
  <2> QED BY <2>2, <2>3, <2>4, <2>5, <2>6
<1> QED BY <1>1, <1>2, <1>3

(* The stages one by one, before and after a step.                         *)
LEMMA LinesAre ==
    ASSUME NEW h \in Hosts
    PROVE  /\ Lines(h)["recv"] = recvq[Peer(h)] /\ Lines(h)'["recv"] = recvq'[Peer(h)]
           /\ Lines(h)["send"] = sendq[h] /\ Lines(h)'["send"] = sendq'[h]
           /\ \A c \in Conns : /\ Lines(h)[ConnStage(c)] = Pkts(net[Peer(h)][c])
                               /\ Lines(h)'[ConnStage(c)] = Pkts(net'[Peer(h)][c])
                               /\ ConnStage(c) \in Stages
           /\ \A a \in Actors : Host(a) = h =>
                 /\ Lines(h)[ActorStage(a)] = <<pkt[a]>>
                 /\ Lines(h)'[ActorStage(a)] = <<pkt'[a]>>
                 /\ ActorStage(a) \in Stages
<1>1. ASSUME NEW c \in Conns
      PROVE  /\ Lines(h)[ConnStage(c)] = Pkts(net[Peer(h)][c])
             /\ Lines(h)'[ConnStage(c)] = Pkts(net'[Peer(h)][c])
             /\ ConnStage(c) \in Stages
  <2>1. CASE c = 0 BY <2>1 DEF Lines, Stages, ConnStage
  <2>2. CASE c = 1 BY <2>2 DEF Lines, Stages, ConnStage
  <2> QED BY <2>1, <2>2 DEF Conns
<1>2. ASSUME NEW a \in Actors, Host(a) = h
      PROVE  /\ Lines(h)[ActorStage(a)] = <<pkt[a]>>
             /\ Lines(h)'[ActorStage(a)] = <<pkt'[a]>>
             /\ ActorStage(a) \in Stages
  <2>1. CASE a = Pipe(h) BY <1>2, <2>1 DEF Lines, Stages, ActorStage
  <2>2. CASE a = Work(h) /\ a # Pipe(h) BY <1>2, <2>2 DEF Lines, Stages, ActorStage
  <2> QED BY <1>2, <2>1, <2>2, ActorFacts
<1> QED BY <1>1, <1>2 DEF Lines, Stages

(* The stages other than two of them.                                      *)
LEMMA StageNames ==
    /\ \A x \in Stages : \/ x \in {"recv", "send"} \/ \E c \in Conns : x = ConnStage(c)
                         \/ \A h \in Hosts : x = ActorStage(Pipe(h))
                         \/ \A h \in Hosts : x = ActorStage(Work(h))
    /\ \A c, d \in Conns : c # d => ConnStage(c) # ConnStage(d)
    /\ \A h \in Hosts : ActorStage(Pipe(h)) # ActorStage(Work(h))
    /\ \A c \in Conns, a \in Actors : /\ ConnStage(c) \notin {"recv", "send", ActorStage(a)}
                                      /\ ActorStage(a) \notin {"recv", "send"}
    /\ {"recv", "send"} \subseteq Stages
<1>1. \A h \in Hosts : ActorStage(Pipe(h)) = "pipe" /\ ActorStage(Work(h)) = "work"
  BY ActorFacts DEF ActorStage
<1>2. \A a \in Actors : ActorStage(a) \in {"pipe", "work"} BY DEF ActorStage
<1>3. ConnStage(0) = "zero" /\ ConnStage(1) = "one" BY DEF ConnStage
<1> QED BY <1>1, <1>2, <1>3 DEF Stages, Conns

(* A direction stays safe when its lines lose packets.                     *)
LEMMA LossKeepsSafe ==
    ASSUME TypeOK, NEW h \in Hosts, Safe(h), nsent'[h] = nsent[h],
           Loses(recvq[Peer(h)], recvq'[Peer(h)]), Loses(sendq[h], sendq'[h]),
           \A c \in Conns : Loses(Pkts(net[Peer(h)][c]), Pkts(net'[Peer(h)][c])),
           Loses(<<pkt[Pipe(h)]>>, <<pkt'[Pipe(h)]>>), Loses(<<pkt[Work(h)]>>, <<pkt'[Work(h)]>>)
    PROVE  Safe(h)'
<1> DEFINE L == Lines(h)
           M == Lines(h)'
<1>1. \A x \in Stages : Loses(L[x], M[x])
  <2> HIDE DEF L, M
  <2>1. Loses(L["recv"], M["recv"]) BY LinesAre DEF L, M
  <2>2. Loses(L["send"], M["send"]) BY LinesAre DEF L, M
  <2>3. \A c \in Conns : Loses(L[ConnStage(c)], M[ConnStage(c)]) BY LinesAre DEF L, M
  <2>4. Loses(L[ActorStage(Pipe(h))], M[ActorStage(Pipe(h))]) BY LinesAre, ActorFacts DEF L, M
  <2>5. Loses(L[ActorStage(Work(h))], M[ActorStage(Work(h))]) BY LinesAre, ActorFacts DEF L, M
  <2> QED BY <2>1, <2>2, <2>3, <2>4, <2>5, StageNames
<1>2. nsent[h] \in Nat BY DEF TypeOK
<1>3. Once(L) /\ Below(L, nsent[h]) BY DEF Safe
<1> HIDE DEF L, M
<1> DEFINE Fits(x, s) == \A i \in DOMAIN M[x] :
               i \in Nat /\ (M[x][i] = 0 \/ (i + s \in DOMAIN L[x] /\ M[x][i] = L[x][i + s]))
           shift == [x \in Stages |-> CHOOSE s \in Nat : Fits(x, s)]
<1>4. \A x \in Stages : \E s \in Nat : Fits(x, s) BY <1>1 DEF Loses
<1>5. \A x \in Stages : shift[x] \in Nat /\ Fits(x, shift[x])
  <2> TAKE x \in Stages
  <2> HIDE DEF Fits
  <2> QED BY <1>4
<1>6. shift \in [Stages -> Nat] BY <1>5
<1> HIDE DEF shift
<1>7. \A x \in Stages : \A i \in DOMAIN M[x] :
        i \in Nat /\ (M[x][i] = 0 \/ (i + shift[x] \in DOMAIN L[x] /\ M[x][i] = L[x][i + shift[x]]))
  BY <1>5
<1>8. Once(M) /\ Below(M, nsent[h])
  <2> DEFINE n == nsent[h]
  <2>1. n \in Nat /\ Once(L) /\ Below(L, n) BY <1>2, <1>3
  <2> HIDE DEF n
  <2>2. Once(M) /\ Below(M, n) BY ONLY <2>1, <1>6, <1>7, LosingIsSafe
  <2> QED BY <2>2 DEF n
<1> QED BY <1>8 DEF Safe, M

(* The lines of a host that takes no part in a step.                       *)
LEMMA OthersStaySafe ==
    ASSUME TypeOK, Full, NEW h \in Hosts, Safe(h), nsent'[h] = nsent[h],
           recvq'[Peer(h)] = recvq[Peer(h)], sendq'[h] = sendq[h],
           \A c \in Conns : net'[Peer(h)][c] = net[Peer(h)][c],
           pkt'[Pipe(h)] = pkt[Pipe(h)], pkt'[Work(h)] = pkt[Work(h)]
    PROVE  Safe(h)'
<1>1. Peer(h) \in Hosts BY ActorFacts
<1>2. Loses(recvq[Peer(h)], recvq'[Peer(h)]) /\ Loses(sendq[h], sendq'[h])
  BY <1>1, LoseFacts DEF TypeOK
<1>3. \A c \in Conns : Loses(Pkts(net[Peer(h)][c]), Pkts(net'[Peer(h)][c]))
  BY <1>1, LoseFacts DEF Full
<1>4. Loses(<<pkt[Pipe(h)]>>, <<pkt'[Pipe(h)]>>) /\ Loses(<<pkt[Work(h)]>>, <<pkt'[Work(h)]>>)
  BY LoseFacts
<1> QED BY <1>2, <1>3, <1>4, LossKeepsSafe

(* There are two hosts.                                                    *)
LEMMA TwoHosts ==
    \A g, h \in Hosts : h # g => h = Peer(g) /\ g = Peer(h) /\ Peer(g) # g
BY DEF Hosts, Peer

(* What does not change loses nothing.                                     *)
LEMMA SameLoses ==
    ASSUME TypeOK, Full
    PROVE  /\ recvq' = recvq => \A g \in Hosts : Loses(recvq[g], recvq'[g])
           /\ sendq' = sendq => \A g \in Hosts : Loses(sendq[g], sendq'[g])
           /\ net' = net => \A g \in Hosts, c \in Conns : Loses(Pkts(net[g][c]), Pkts(net'[g][c]))
           /\ pkt' = pkt => \A a \in Actors : Loses(<<pkt[a]>>, <<pkt'[a]>>)
<1>1. \A g \in Hosts : Loses(recvq[g], recvq[g]) /\ Loses(sendq[g], sendq[g])
  BY LoseFacts DEF TypeOK
<1>2. \A g \in Hosts, c \in Conns : Loses(Pkts(net[g][c]), Pkts(net[g][c]))
  BY LoseFacts DEF Full
<1>3. \A a \in Actors : Loses(<<pkt[a]>>, <<pkt[a]>>) BY LoseFacts
<1> QED BY <1>1, <1>2, <1>3

(* Both directions stay safe when nothing but losses happens.              *)
LEMMA LossesKeepSafe ==
    ASSUME TypeOK, \A h \in Hosts : Safe(h), nsent' = nsent,
           \A g \in Hosts : Loses(recvq[g], recvq'[g]) /\ Loses(sendq[g], sendq'[g]),
           \A g \in Hosts, c \in Conns : Loses(Pkts(net[g][c]), Pkts(net'[g][c])),
           \A a \in Actors : Loses(<<pkt[a]>>, <<pkt'[a]>>)
    PROVE  \A h \in Hosts : Safe(h)'
BY LossKeepsSafe, ActorFacts

(* A direction stays safe when a packet moves from one line to another.    *)
LEMMA MoveKeepsSafe ==
    ASSUME TypeOK, NEW h \in Hosts, Safe(h), nsent'[h] = nsent[h],
           NEW z \in Stages, NEW w \in Stages, z # w,
           \A x \in Stages : x # z /\ x # w => Lines(h)'[x] = Lines(h)[x],
           LeavesFirst(Lines(h)[z], Lines(h)'[z]),
           Gets(Lines(h)[w], Lines(h)'[w], Lines(h)[z])
    PROVE  Safe(h)'
<1> DEFINE L == Lines(h)
           M == Lines(h)'
<1>1. Once(L) /\ Below(L, nsent[h]) /\ nsent[h] \in Nat BY DEF Safe, TypeOK
<1>2. /\ \A x \in Stages : x # z /\ x # w => M[x] = L[x]
      /\ LeavesFirst(L[z], M[z]) /\ Gets(L[w], M[w], L[z])
  OBVIOUS
<1> HIDE DEF L, M
<1>3. Once(M) /\ Below(M, nsent[h]) BY <1>1, <1>2, MovingIsSafe
<1> QED BY <1>3 DEF Safe, M

(* The ways in which lines do so.                                          *)
LEMMA MoveFacts ==
    /\ \A q \in Seq(Nat) : q # <<>> =>
         LeavesFirst(q, Tail(q)) /\ \A v : Gets(<<v>>, <<Head(q)>>, q)
    /\ \A v : LeavesFirst(<<v>>, <<0>>)
    /\ \A q \in Seq(Whole), m \in Whole : Gets(Pkts(q), Pkts(Append(q, m)), <<m.pkt>>)
    /\ \A q \in Seq(Whole) : q # <<>> =>
         /\ \A n \in 1..Len(q) : LeavesFirst(Pkts(q), Pkts(SubSeq(q, n + 1, Len(q))))
         /\ LeavesFirst(Pkts(q), Pkts(<<Empty>> \o Tail(q)))
         /\ \A t \in Seq(Nat) : Gets(t, Append(t, Head(q).pkt), Pkts(q))
<1>1. ASSUME NEW q \in Seq(Nat), q # <<>>
      PROVE  LeavesFirst(q, Tail(q)) /\ \A v : Gets(<<v>>, <<Head(q)>>, q)
  <2>1. \A i \in DOMAIN Tail(q) :
          i \in Nat /\ i + 1 # 1 /\ i + 1 \in DOMAIN q /\ Tail(q)[i] = q[i + 1]
    BY <1>1, HeadTailProperties
  <2>2. LeavesFirst(q, Tail(q)) BY <2>1 DEF LeavesFirst
  <2>3. ASSUME NEW v PROVE Gets(<<v>>, <<Head(q)>>, q)
    <3>1. \A j \in DOMAIN <<Head(q)>> : j = 1 /\ 1 \in DOMAIN q /\ <<Head(q)>>[j] = q[1]
      BY <1>1
    <3> QED BY <3>1 DEF Gets
  <2> QED BY <2>2, <2>3
<1>2. ASSUME NEW v PROVE LeavesFirst(<<v>>, <<0>>)
  <2>1. \A i \in DOMAIN <<0>> : i \in Nat /\ <<0>>[i] = 0 OBVIOUS
  <2> QED BY <2>1 DEF LeavesFirst
<1>3. ASSUME NEW q \in Seq(Whole), NEW m \in Whole
      PROVE  Gets(Pkts(q), Pkts(Append(q, m)), <<m.pkt>>)
  <2> DEFINE k == Len(q) + 1
             r == Append(q, m)
  <2>1. /\ Len(q) \in Nat /\ DOMAIN Pkts(q) = 1..Len(q)
        /\ \A j \in 1..Len(q) : Pkts(q)[j] = q[j].pkt
    BY PktsFacts
  <2>2. r \in Seq(Whole) /\ Len(r) = k /\ r[k] = m /\ \A j \in 1..Len(q) : r[j] = q[j]
    BY AppendProperties
  <2> HIDE DEF r
  <2>3. DOMAIN Pkts(r) = 1..k /\ \A j \in 1..k : Pkts(r)[j] = r[j].pkt
    BY <2>2, PktsFacts
  <2>4. ASSUME NEW j \in 1..k
        PROVE  \/ j # k /\ j \in DOMAIN Pkts(q) /\ Pkts(r)[j] = Pkts(q)[j]
               \/ j = k /\ 1 \in DOMAIN <<m.pkt>> /\ Pkts(r)[j] = <<m.pkt>>[1]
    <3>1. CASE j = k BY <2>2, <2>3, <3>1
    <3>2. CASE j # k
      <4>1. j \in 1..Len(q) BY <2>1, <3>2
      <4> QED BY <2>1, <2>2, <2>3, <3>2, <4>1
    <3> QED BY <3>1, <3>2
  <2>5. k \in Nat BY <2>1
  <2> HIDE DEF k
  <2>6. Gets(Pkts(q), Pkts(r), <<m.pkt>>) BY <2>3, <2>4, <2>5 DEF Gets
  <2> QED BY <2>6 DEF r
<1>4. ASSUME NEW q \in Seq(Whole), q # <<>>
      PROVE  /\ \A n \in 1..Len(q) : LeavesFirst(Pkts(q), Pkts(SubSeq(q, n + 1, Len(q))))
             /\ LeavesFirst(Pkts(q), Pkts(<<Empty>> \o Tail(q)))
             /\ \A t \in Seq(Nat) : Gets(t, Append(t, Head(q).pkt), Pkts(q))
  <2>1. /\ DOMAIN Pkts(q) = 1..Len(q) /\ (\A i \in 1..Len(q) : Pkts(q)[i] = q[i].pkt)
        /\ Len(q) \in Nat
    BY PktsFacts
  <2>2. ASSUME NEW n \in 1..Len(q) PROVE LeavesFirst(Pkts(q), Pkts(SubSeq(q, n + 1, Len(q))))
    <3> DEFINE r == SubSeq(q, n + 1, Len(q))
    <3>1. r \in Seq(Whole) /\ Len(r) = Len(q) - n /\ \A i \in 1..Len(r) : r[i] = q[i + n]
      BY <2>1, RestOf
    <3> HIDE DEF r
    <3>2. DOMAIN Pkts(r) = 1..Len(r) /\ \A i \in 1..Len(r) : Pkts(r)[i] = r[i].pkt
      BY <3>1, PktsFacts
    <3>3. ASSUME NEW i \in 1..Len(r)
          PROVE  i \in Nat /\ i + n # 1 /\ i + n \in DOMAIN Pkts(q) /\ Pkts(r)[i] = Pkts(q)[i + n]
      <4>1. i \in Nat /\ i + n \in 1..Len(q) /\ i + n # 1 BY <2>1, <3>1
      <4>2. r[i] = q[i + n] /\ Pkts(r)[i] = r[i].pkt BY <3>1, <3>2
      <4>3. Pkts(q)[i + n] = q[i + n].pkt BY <2>1, <4>1
      <4> QED BY <2>1, <4>1, <4>2, <4>3
    <3>4. n \in Nat /\ \A i \in DOMAIN Pkts(r) :
            i \in Nat /\ i + n # 1 /\ i + n \in DOMAIN Pkts(q) /\ Pkts(r)[i] = Pkts(q)[i + n]
      BY <2>1, <3>2, <3>3
    <3>5. LeavesFirst(Pkts(q), Pkts(r)) BY <3>4, Zenon DEF LeavesFirst
    <3> QED BY <3>5 DEF r
  <2>3. LeavesFirst(Pkts(q), Pkts(<<Empty>> \o Tail(q)))
    <3> DEFINE r == <<Empty>> \o Tail(q)
    <3>1. r \in Seq(Whole) /\ Len(r) = Len(q) /\ r[1] = Empty
          /\ \A i \in 2..Len(q) : r[i] = q[i]
      BY <1>4, EmptyFirst
    <3> HIDE DEF r
    <3>2. DOMAIN Pkts(r) = 1..Len(q) /\ \A i \in 1..Len(q) : Pkts(r)[i] = r[i].pkt
      BY <3>1, PktsFacts
    <3>3. ASSUME NEW i \in 1..Len(q)
          PROVE  i \in Nat /\ (Pkts(r)[i] = 0 \/
                   (i + 0 # 1 /\ i + 0 \in DOMAIN Pkts(q) /\ Pkts(r)[i] = Pkts(q)[i + 0]))
      <4>1. CASE i = 1 BY <2>1, <3>1, <3>2, <4>1 DEF Empty
      <4>2. CASE i \in 2..Len(q) BY <2>1, <3>1, <3>2, <4>2
      <4> QED BY <2>1, <4>1, <4>2
    <3>4. LeavesFirst(Pkts(q), Pkts(r)) BY <3>2, <3>3 DEF LeavesFirst
    <3> QED BY <3>4 DEF r
  <2>4. ASSUME NEW t \in Seq(Nat) PROVE Gets(t, Append(t, Head(q).pkt), Pkts(q))
    <3> DEFINE k == Len(t) + 1
               v == Head(q).pkt
    <3>1. 1 \in DOMAIN Pkts(q) /\ Pkts(q)[1] = v
      <4>1. Len(q) >= 1 /\ Head(q) = q[1] BY <1>4, <2>1
      <4> QED BY <2>1, <4>1
    <3> HIDE DEF v
    <3>2. /\ DOMAIN Append(t, v) = 1..k /\ Append(t, v)[k] = v /\ DOMAIN t = 1..Len(t)
          /\ \A j \in 1..Len(t) : Append(t, v)[j] = t[j]
      OBVIOUS
    <3>3. ASSUME NEW j \in 1..k
          PROVE  \/ j # k /\ j \in DOMAIN t /\ Append(t, v)[j] = t[j]
                 \/ j = k /\ 1 \in DOMAIN Pkts(q) /\ Append(t, v)[j] = Pkts(q)[1]
      <4>1. CASE j = k BY <3>1, <3>2, <4>1
      <4>2. CASE j # k
        <5>1. j \in 1..Len(t) BY <4>2
        <5> QED BY <3>2, <4>2, <5>1
      <4> QED BY <4>1, <4>2
    <3>4. k \in Nat OBVIOUS
    <3> HIDE DEF k
    <3>5. Gets(t, Append(t, v), Pkts(q)) BY <3>2, <3>3, <3>4 DEF Gets
    <3> QED BY <3>5 DEF v
  <2> QED BY <2>2, <2>3, <2>4
<1> QED BY <1>1, <1>2, <1>3, <1>4

(* A packet is handed over.                                                *)
LEMMA EnqueueKeepsSafe ==
    ASSUME TypeOK, Full, \A h \in Hosts : Safe(h), NEW g \in Hosts, Enqueue(g)
    PROVE  \A h \in Hosts : Safe(h)'
<1>1. /\ nsent'[g] = nsent[g] + 1 /\ sendq'[g] = Append(sendq[g], nsent[g] + 1)
      /\ \A h \in Hosts : h # g => nsent'[h] = nsent[h] /\ sendq'[h] = sendq[h]
      /\ UNCHANGED <<recvq, net, pkt>>
  BY DEF Enqueue, TypeOK
<1>2. ASSUME NEW h \in Hosts, h # g PROVE Safe(h)'
  BY <1>1, <1>2, ActorFacts, OthersStaySafe
<1>3. Safe(g)'
  <2> DEFINE L == Lines(g)
             M == Lines(g)'
  <2>1. \A x \in Stages : x # "send" => M[x] = L[x]
    BY <1>1 DEF Lines
  <2>2. L["send"] \in Seq(Nat) /\ M["send"] = Append(L["send"], nsent[g] + 1)
    BY <1>1, LinesAre DEF TypeOK
  <2>3. Once(L) /\ Below(L, nsent[g]) /\ nsent[g] \in Nat BY DEF Safe, TypeOK
  <2> HIDE DEF L, M
  <2>4. Once(M) /\ Below(M, nsent[g] + 1) BY <2>1, <2>2, <2>3, JoiningIsSafe
  <2> QED BY <1>1, <2>4 DEF Safe, M
<1> QED BY <1>2, <1>3

(* A thread takes the first packet off the queue.                          *)
LEMMA TakeKeepsSafe ==
    ASSUME TypeOK, Full, ~side, \A h \in Hosts : Safe(h), NEW a \in Actors, Take(a)
    PROVE  \A h \in Hosts : Safe(h)'
<1> DEFINE g == Host(a)
<1>1. g \in Hosts /\ UNCHANGED <<recvq, net, nsent>> BY ActorFacts DEF Take
<1>2. CASE sendq[g] = <<>>
  <2>1. sendq' = sendq /\ pkt' = [pkt EXCEPT ![a] = 0] BY <1>2 DEF Take
  <2>2. \A b \in Actors : Loses(<<pkt[b]>>, <<pkt'[b]>>)
    <3>1. \A b \in Actors : pkt'[b] = pkt[b] \/ pkt'[b] = 0 BY <2>1 DEF TypeOK
    <3> QED BY <3>1, LoseFacts
  <2> QED BY <1>1, <2>1, <2>2, SameLoses, LossesKeepSafe
<1>3. CASE sendq[g] # <<>>
  <2>1. /\ pkt'[a] = Head(sendq[g]) /\ sendq'[g] = Tail(sendq[g])
        /\ \A b \in Actors : b # a => pkt'[b] = pkt[b]
        /\ \A h \in Hosts : h # g => sendq'[h] = sendq[h]
    BY <1>1, <1>3 DEF Take, TypeOK
  <2>2. ASSUME NEW h \in Hosts, h # g PROVE Safe(h)'
    <3>1. Pipe(h) # a /\ Work(h) # a BY <2>2, ActorFacts
    <3> HIDE DEF g
    <3> QED BY <1>1, <2>1, <2>2, <3>1, ActorFacts, OthersStaySafe
  <2>3. Safe(g)'
    <3> DEFINE L == Lines(g)
               M == Lines(g)'
               w == ActorStage(a)
    <3>1. L["send"] = sendq[g] /\ M["send"] = Tail(sendq[g])
      BY <1>1, <2>1, LinesAre
    <3>a. L[w] = <<pkt[a]>> /\ M[w] = <<Head(sendq[g])>> /\ w \in Stages
      BY <1>1, <2>1, LinesAre
    <3>b. w # "send" /\ "send" \in Stages BY StageNames DEF Conns
    <3>2. \A x \in Stages : x # "send" /\ x # w => M[x] = L[x]
      <4>1. CASE a = Pipe(g)
        <5>1. Work(g) # a /\ w = "pipe" /\ pkt'[Work(g)] = pkt[Work(g)] BY <1>1, <2>1, <4>1, ActorFacts DEF ActorStage
        <5> HIDE DEF g, w
        <5> QED BY <1>1, <5>1 DEF Lines
      <4>2. CASE a = Work(g)
        <5>1. Pipe(g) # a /\ w = "work" /\ pkt'[Pipe(g)] = pkt[Pipe(g)] BY <1>1, <2>1, <4>2, ActorFacts DEF ActorStage
        <5> HIDE DEF g, w
        <5> QED BY <1>1, <5>1 DEF Lines
      <4> QED BY <4>1, <4>2, ActorFacts
    <3>3. LeavesFirst(L["send"], M["send"]) /\ Gets(L[w], M[w], L["send"])
      <4>1. sendq[g] \in Seq(Nat) BY <1>1 DEF TypeOK
      <4> HIDE DEF L, M, w, g
      <4> QED BY <1>3, <3>1, <3>a, <4>1, MoveFacts
    <3>4. Safe(g) /\ nsent'[g] = nsent[g] BY <1>1
    <3> HIDE DEF w, g
    <3> QED BY <1>1, <3>a, <3>b, <3>2, <3>3, <3>4, MoveKeepsSafe
  <2> QED BY <2>2, <2>3
<1> QED BY <1>2, <1>3

(* A thread writes its packet, whether or not the peer is still there.     *)
LEMMA WriteKeepsSafe ==
    ASSUME TypeOK, Full, ~side, \A h \in Hosts : Safe(h), NEW a \in Actors, Write(a)
    PROVE  \A h \in Hosts : Safe(h)'
<1> DEFINE g == Host(a)
           c == SendConn(a)
           m == Data(pkt[a])
<1>1. /\ g \in Hosts /\ Peer(g) \in Hosts /\ c \in Conns
      /\ UNCHANGED <<recvq, sendq, nsent>> /\ pkt'[a] = 0
      /\ \A b \in Actors : b # a => pkt'[b] = pkt[b]
  <2>1. c \in Conns BY ActorFacts, ConnFacts DEF TypeOK, SendConn
  <2> QED BY <2>1, ActorFacts DEF Write, TypeOK, queueVars
<1>2. m.pkt = pkt[a] /\ m \in Whole
  <2>1. pkt[a] \in Nat \ {0} BY DEF Write, At, TypeOK, Full
  <2> QED BY <2>1 DEF Data, Whole
<1>3. UNCHANGED net \/ net' = [net EXCEPT ![Peer(g)][c] = Append(@, m)] BY DEF Write, Send
<1> HIDE DEF g, c, m
<1>4. CASE UNCHANGED net
  <2>1. \A b \in Actors : Loses(<<pkt[b]>>, <<pkt'[b]>>)
    <3>1. \A b \in Actors : pkt'[b] = pkt[b] \/ pkt'[b] = 0 BY <1>1
    <3> QED BY <3>1, LoseFacts
  <2> QED BY <1>1, <1>4, <2>1, SameLoses, LossesKeepSafe
<1>5. CASE net' = [net EXCEPT ![Peer(g)][c] = Append(@, m)]
  <2>1. /\ net'[Peer(g)][c] = Append(net[Peer(g)][c], m)
        /\ \A d \in Conns : d # c => net'[Peer(g)][d] = net[Peer(g)][d]
        /\ \A h \in Hosts : h # Peer(g) => net'[h] = net[h]
    BY <1>1, <1>5 DEF TypeOK
  <2>2. ASSUME NEW h \in Hosts, h # g PROVE Safe(h)'
    <3>1. Pipe(h) # a /\ Work(h) # a BY <2>2, ActorFacts DEF g
    <3>2. Peer(h) \in Hosts /\ Peer(h) # Peer(g) BY <1>1, <2>2, TwoHosts
    <3> QED BY <1>1, <2>1, <2>2, <3>1, <3>2, ActorFacts, OthersStaySafe
  <2>3. Safe(g)'
    <3> DEFINE L == Lines(g)
               M == Lines(g)'
               z == ActorStage(a)
               w == ConnStage(c)
               q == net[Peer(g)][c]
    <3>1. L[z] = <<pkt[a]>> /\ M[z] = <<0>> /\ z \in Stages
      BY <1>1, LinesAre DEF g
    <3>a. L[w] = Pkts(q) /\ M[w] = Pkts(Append(q, m)) /\ w \in Stages
      <4>1. L[w] = Pkts(q) /\ M[w] = Pkts(net'[Peer(g)][c]) /\ w \in Stages
        BY <1>1, LinesAre
      <4> QED BY <2>1, <4>1
    <3>b. z # w BY <1>1, StageNames
    <3>2. \A x \in Stages : x # z /\ x # w => M[x] = L[x]
      <4>1. M["recv"] = L["recv"] /\ M["send"] = L["send"] BY <1>1, LinesAre
      <4>2. \A d \in Conns : d # c => M[ConnStage(d)] = L[ConnStage(d)]
        BY <1>1, <2>1, LinesAre
      <4>3. \A b \in Actors : Host(b) = g /\ b # a => M[ActorStage(b)] = L[ActorStage(b)]
        BY <1>1, LinesAre
      <4>4. Host(Pipe(g)) = g /\ Host(Work(g)) = g /\ Pipe(g) \in Actors /\ Work(g) \in Actors
        BY <1>1, ActorFacts
      <4> HIDE DEF L, M
      <4> QED BY <1>1, <4>1, <4>2, <4>3, <4>4, StageNames
    <3>3. LeavesFirst(L[z], M[z]) /\ Gets(L[w], M[w], L[z])
      <4>1. q \in Seq(Whole) BY <1>1 DEF Full
      <4> HIDE DEF L, M, z, w, q
      <4> QED BY <1>2, <3>1, <3>a, <4>1, MoveFacts
    <3>4. Safe(g) /\ nsent'[g] = nsent[g] BY <1>1
    <3> HIDE DEF z, w
    <3> QED BY <1>1, <3>1, <3>a, <3>b, <3>2, <3>3, <3>4, MoveKeepsSafe
  <2> QED BY <2>2, <2>3
<1> QED BY <1>3, <1>4, <1>5

(* A message is taken off a connection, and its packet is queued.          *)
LEMMA DeliveryKeepsSafe ==
    ASSUME TypeOK, Full, \A h \in Hosts : Safe(h), NEW g \in Hosts, NEW c \in Conns,
           net[g][c] # <<>>, UNCHANGED <<sendq, nsent, pkt>>,
           \A h \in Hosts, d \in Conns : h # g \/ d # c => net'[h][d] = net[h][d],
           \/ \E n \in 1..Len(net[g][c]) :
                net'[g][c] = SubSeq(net[g][c], n + 1, Len(net[g][c]))
           \/ net'[g][c] = <<Empty>> \o Tail(net[g][c]),
           recvq' = [recvq EXCEPT ![g] = Append(@, Head(net[g][c]).pkt)]
    PROVE  \A h \in Hosts : Safe(h)'
<1> DEFINE p == Peer(g)
           q == net[g][c]
<1>1. p \in Hosts /\ Peer(p) = g /\ p # g BY ActorFacts, ConnFacts
<1>2. /\ recvq'[g] = Append(recvq[g], Head(q).pkt)
      /\ \A h \in Hosts : h # g => recvq'[h] = recvq[h]
  BY DEF TypeOK
<1>3. q \in Seq(Whole) /\ q # <<>> /\ recvq[g] \in Seq(Nat) BY DEF Full, TypeOK
<1> HIDE DEF p
<1>4. ASSUME NEW h \in Hosts, h # p PROVE Safe(h)'
  <2>1. Peer(h) \in Hosts /\ Peer(h) # g BY <1>1, <1>4, TwoHosts
  <2> HIDE DEF q
  <2> QED BY <1>2, <2>1, ActorFacts, OthersStaySafe
<1>5. Safe(p)'
  <2> DEFINE L == Lines(p)
             M == Lines(p)'
             z == ConnStage(c)
  <2>1. /\ L[z] = Pkts(q) /\ M[z] = Pkts(net'[g][c]) /\ z \in Stages
        /\ L["recv"] = recvq[g] /\ M["recv"] = Append(recvq[g], Head(q).pkt)
    <3>1. L[z] = Pkts(q) /\ M[z] = Pkts(net'[g][c]) /\ z \in Stages
      BY <1>1, LinesAre
    <3>2. L["recv"] = recvq[g] /\ M["recv"] = recvq'[g] BY <1>1, LinesAre
    <3> QED BY <1>2, <3>1, <3>2
  <2>2. z # "recv" /\ "recv" \in Stages BY StageNames, ActorFacts
  <2>3. \A x \in Stages : x # z /\ x # "recv" => M[x] = L[x]
    <3>1. M["send"] = L["send"] BY <1>1, LinesAre
    <3>2. \A d \in Conns : d # c => M[ConnStage(d)] = L[ConnStage(d)]
      BY <1>1, LinesAre
    <3>3. \A b \in Actors : Host(b) = p => M[ActorStage(b)] = L[ActorStage(b)]
      BY <1>1, LinesAre
    <3>4. Host(Pipe(p)) = p /\ Host(Work(p)) = p /\ Pipe(p) \in Actors /\ Work(p) \in Actors
      BY <1>1, ActorFacts
    <3> HIDE DEF L, M
    <3> QED BY <1>1, <3>1, <3>2, <3>3, <3>4, StageNames
  <2>4. LeavesFirst(L[z], M[z]) /\ Gets(L["recv"], M["recv"], L[z])
    <3> HIDE DEF L, M, z
    <3>1. LeavesFirst(Pkts(q), Pkts(net'[g][c])) BY <1>3, MoveFacts
    <3>2. Gets(recvq[g], Append(recvq[g], Head(q).pkt), Pkts(q)) BY <1>3, MoveFacts
    <3> QED BY <2>1, <3>1, <3>2
  <2>5. Safe(p) /\ nsent'[p] = nsent[p] BY <1>1
  <2> HIDE DEF z, q
  <2> QED BY <1>1, <2>1, <2>2, <2>3, <2>4, <2>5, MoveKeepsSafe
<1> QED BY <1>4, <1>5

(* In normal mode no step lets a packet be in two places.                  *)
LEMMA NextSafe ==
    ASSUME TypeOK, Full, ~side, \A h \in Hosts : Safe(h), [Next]_vars
    PROVE  \A h \in Hosts : Safe(h)'
<1>a. \A g \in Hosts, c \in Conns : net[g][c] \in Seq(Whole) BY DEF Full
<1>b. ASSUME UNCHANGED <<recvq, sendq, net, pkt, nsent>>
      PROVE  \A h \in Hosts : Safe(h)'
  BY <1>b, SameLoses, LossesKeepSafe
<1>c. ASSUME UNCHANGED <<recvq, sendq, pkt, nsent>>,
             \A g \in Hosts, c \in Conns : Loses(Pkts(net[g][c]), Pkts(net'[g][c]))
      PROVE  \A h \in Hosts : Safe(h)'
  BY <1>c, SameLoses, LossesKeepSafe
<1>d. ASSUME NEW h \in Hosts, NEW c \in Conns, Consume(h, c)
      PROVE  /\ \A g \in Hosts, d \in Conns : g # h \/ d # c => net'[g][d] = net[g][d]
             /\ \E n \in 1..Len(net[h][c]) :
                  net'[h][c] = SubSeq(net[h][c], n + 1, Len(net[h][c]))
             /\ \A g \in Hosts, d \in Conns : Loses(Pkts(net[g][d]), Pkts(net'[g][d]))
  <2>1. PICK n \in 1..Len(net[h][c]) :
          net' = [net EXCEPT ![h][c] = SubSeq(@, n + 1, Len(@))]
    BY <1>d DEF Consume
  <2>2. /\ \A g \in Hosts, d \in Conns : g # h \/ d # c => net'[g][d] = net[g][d]
        /\ net'[h][c] = SubSeq(net[h][c], n + 1, Len(net[h][c]))
    BY <2>1 DEF TypeOK
  <2>3. Loses(Pkts(net[h][c]), Pkts(SubSeq(net[h][c], n + 1, Len(net[h][c]))))
    BY <1>a, LoseFacts
  <2>4. \A g \in Hosts, d \in Conns : Loses(Pkts(net[g][d]), Pkts(net[g][d]))
    BY <1>a, LoseFacts
  <2> QED BY <2>2, <2>3, <2>4
<1>1. ASSUME NEW h \in Hosts, Enqueue(h) PROVE \A g \in Hosts : Safe(g)'
  BY <1>1, EnqueueKeepsSafe
<1>2. ASSUME NEW h \in Hosts, PktRecv(h) PROVE \A g \in Hosts : Safe(g)'
  <2>1. UNCHANGED <<sendq, net, pkt, nsent>> BY <1>2 DEF PktRecv
  <2>2. CASE recvq' = recvq BY <2>1, <2>2, <1>b
  <2>3. CASE recvq[h] # <<>> /\ recvq' = [recvq EXCEPT ![h] = Tail(@)]
    <3>1. recvq'[h] = Tail(recvq[h]) /\ \A g \in Hosts : g # h => recvq'[g] = recvq[g]
      BY <2>3 DEF TypeOK
    <3>2. \A g \in Hosts : recvq[g] \in Seq(Nat) BY DEF TypeOK
    <3>3. \A g \in Hosts : Loses(recvq[g], recvq'[g])
      BY <2>3, <3>1, <3>2, LoseFacts
    <3> QED BY <2>1, <3>3, SameLoses, LossesKeepSafe
  <2> QED BY <1>2, <2>2, <2>3 DEF PktRecv
<1>3. ASSUME NEW h \in Hosts, TestReady(h) PROVE \A g \in Hosts : Safe(g)'
  BY <1>3, <1>b DEF TestReady, queueVars
<1>4. ASSUME NEW a \in Actors, Take(a) PROVE \A g \in Hosts : Safe(g)'
  BY <1>4, TakeKeepsSafe
<1>5. ASSUME NEW a \in Actors, SetReady(a) PROVE \A g \in Hosts : Safe(g)'
  BY <1>5, <1>b DEF SetReady, queueVars
<1>6. ASSUME NEW a \in Actors, Write(a) PROVE \A g \in Hosts : Safe(g)'
  BY <1>6, WriteKeepsSafe
<1>7. ASSUME NEW a \in Actors, SideSend(a) PROVE \A g \in Hosts : Safe(g)'
  BY <1>7, SideKeeps
<1>8. ASSUME NEW h \in Hosts, Reply(h) PROVE \A g \in Hosts : Safe(g)'
  <2>1. UNCHANGED <<recvq, sendq, pkt, nsent>> /\ Peer(h) \in Hosts /\ fd[h] \in Conns
    BY <1>8, ActorFacts DEF Reply, queueVars, TypeOK
  <2>2. \A g \in Hosts, c \in Conns :
          net'[g][c] = net[g][c] \/ net'[g][c] = Append(net[g][c], Empty)
    <3>1. CASE UNCHANGED net BY <3>1
    <3>2. CASE net' = [net EXCEPT ![Peer(h)][fd[h]] = Append(@, Empty)]
      BY <2>1, <3>2 DEF TypeOK
    <3> QED BY <1>8, <3>1, <3>2 DEF Reply, Send
  <2>3. \A g \in Hosts, c \in Conns : Loses(Pkts(net[g][c]), Pkts(net'[g][c]))
    BY <1>a, <2>2, LoseFacts
  <2> QED BY <2>1, <2>3, <1>c
<1>9. ASSUME NEW h \in Hosts, NEW c \in Conns, ReadEmpty(h, c)
      PROVE  \A g \in Hosts : Safe(g)'
  BY <1>9, <1>c, <1>d DEF ReadEmpty, queueVars
<1>10. ASSUME NEW h \in Hosts, NEW c \in Conns, ReadData(h, c)
       PROVE  \A g \in Hosts : Safe(g)'
  <2> DEFINE m == Head(net[h][c])
  <2>1. /\ Consume(h, c) /\ net[h][c] # <<>> /\ m # Empty /\ UNCHANGED <<sendq, nsent, pkt>>
        /\ m \in Whole
    BY <1>10, <1>a DEF ReadData
  <2>2. UNCHANGED recvq \/ recvq' = [recvq EXCEPT ![h] = Append(@, m.pkt)]
    <3> HIDE DEF m
    <3> QED BY <1>10 DEF ReadData, m
  <2>3. CASE UNCHANGED recvq BY <2>1, <2>3, <1>c, <1>d
  <2>4. CASE recvq' = [recvq EXCEPT ![h] = Append(@, m.pkt)]
    BY <2>1, <2>4, <1>d, DeliveryKeepsSafe
  <2> QED BY <2>2, <2>3, <2>4
<1>11. ASSUME NEW h \in Hosts, NEW c \in Conns, ReadFragment(h, c)
       PROVE  \A g \in Hosts : Safe(g)'
  <2>1. UNCHANGED <<sendq, nsent, pkt>> /\ net[h][c] # <<>>
    BY <1>11 DEF ReadFragment
  <2>2. CASE UNCHANGED <<net, recvq>> BY <2>1, <2>2, <1>b
  <2>3. ASSUME net' = [net EXCEPT ![h][c] = <<Empty>> \o Tail(@)]
        PROVE  /\ \A g \in Hosts, d \in Conns : g # h \/ d # c => net'[g][d] = net[g][d]
               /\ net'[h][c] = <<Empty>> \o Tail(net[h][c])
    BY <2>3 DEF TypeOK
  <2>4. CASE net' = [net EXCEPT ![h][c] = <<Empty>> \o Tail(@)] /\ UNCHANGED recvq
    <3>1. \A g \in Hosts, d \in Conns : Loses(Pkts(net[g][d]), Pkts(net'[g][d]))
      BY <1>a, <2>1, <2>3, <2>4, LoseFacts
    <3> QED BY <2>1, <2>4, <3>1, <1>c
  <2>5. CASE /\ net' = [net EXCEPT ![h][c] = <<Empty>> \o Tail(@)]
             /\ recvq' = [recvq EXCEPT ![h] = Append(@, Head(net[h][c]).pkt)]
    BY <2>1, <2>3, <2>5, DeliveryKeepsSafe
  <2> QED BY <1>11, <2>2, <2>4, <2>5 DEF ReadFragment
<1>12. ASSUME NEW h \in Hosts, ReadClosed(h) PROVE \A g \in Hosts : Safe(g)'
  BY <1>12, <1>b DEF ReadClosed, queueVars
<1>13. ASSUME NEW h \in Hosts, PipelineStopped(h) PROVE \A g \in Hosts : Safe(g)'
  <2>1. \A b \in Actors : Loses(<<pkt[b]>>, <<pkt'[b]>>)
    <3>1. \A b \in Actors : pkt'[b] = pkt[b] \/ pkt'[b] = 0 BY <1>13 DEF PipelineStopped, TypeOK
    <3> QED BY <3>1, LoseFacts
  <2> QED BY <1>13, <2>1, SameLoses, LossesKeepSafe DEF PipelineStopped, queueVars
<1>14. ASSUME NEW h \in Hosts, StopModule(h) PROVE \A g \in Hosts : Safe(g)'
  <2>1. \A g \in Hosts, c \in Conns : net'[g][c] = net[g][c] \/ net'[g][c] = <<>>
    BY <1>14 DEF StopModule, TypeOK
  <2>2. \A g \in Hosts, c \in Conns : Loses(Pkts(net[g][c]), Pkts(net'[g][c]))
    BY <1>a, <2>1, LoseFacts
  <2> QED BY <1>14, <2>2, <1>c DEF StopModule, queueVars
<1>15. CASE UNCHANGED vars BY <1>15, <1>b DEF vars, queueVars
<1>16. ASSUME NEW h \in Hosts, NEW c \in Conns, ReadChunk(h, c)
       PROVE  \A g \in Hosts : Safe(g)'
  BY <1>16 DEF ReadChunk
<1> QED
  BY <1>1, <1>2, <1>3, <1>4, <1>5, <1>6, <1>7, <1>8, <1>9, <1>10, <1>11, <1>12,
     <1>13, <1>14, <1>15, <1>16, ActorFacts
  DEF Next, PipeStep, WorkStep, SendNext

(* p has packets of the stages X of the lines L, each once.                *)
From(L, X, p) ==
    /\ p \in Seq(Nat) /\ IsInjective(p)
    /\ \A k \in DOMAIN p : p[k] # 0 /\ \E x \in X : \E i \in DOMAIN L[x] : p[k] = L[x][i]

(* Packets of different stages can be joined.                              *)
LEMMA JoinFrom ==
    ASSUME NEW L, Once(L), NEW X \in SUBSET Stages, NEW Y \in SUBSET Stages,
           X \cap Y = {}, NEW p, NEW q, From(L, X, p), From(L, Y, q)
    PROVE  From(L, X \cup Y, p \o q)
<1> DEFINE r == p \o q
<1>1. p \in Seq(Nat) /\ q \in Seq(Nat) BY DEF From
<1>2. /\ r \in Seq(Nat) /\ Len(r) = Len(p) + Len(q) /\ Len(p) \in Nat /\ Len(q) \in Nat
      /\ \A i \in 1..Len(r) : r[i] = IF i <= Len(p) THEN p[i] ELSE q[i - Len(p)]
      /\ DOMAIN r = 1..Len(r) /\ DOMAIN p = 1..Len(p) /\ DOMAIN q = 1..Len(q)
  BY <1>1, ConcatProperties
<1>3. ASSUME NEW i \in DOMAIN p, NEW j \in DOMAIN q PROVE p[i] # q[j]
  <2>1. PICK x \in X : p[i] # 0 /\ \E k \in DOMAIN L[x] : p[i] = L[x][k] BY DEF From
  <2>2. PICK k \in DOMAIN L[x] : p[i] = L[x][k] BY <2>1
  <2>3. PICK y \in Y : \E l \in DOMAIN L[y] : q[j] = L[y][l] BY DEF From
  <2>4. PICK l \in DOMAIN L[y] : q[j] = L[y][l] BY <2>3
  <2>5. x # y /\ x \in Stages /\ y \in Stages BY <2>1, <2>3
  <2> QED BY <2>1, <2>2, <2>4, <2>5, OnceMeans
<1> HIDE DEF r
<1>4. ASSUME NEW k \in DOMAIN r
      PROVE  r[k] # 0 /\ \E x \in X \cup Y : \E i \in DOMAIN L[x] : r[k] = L[x][i]
  <2>1. CASE k <= Len(p)
    <3>1. k \in DOMAIN p /\ r[k] = p[k] BY <1>2, <2>1
    <3> QED BY <3>1 DEF From
  <2>2. CASE ~(k <= Len(p))
    <3>1. k - Len(p) \in DOMAIN q /\ r[k] = q[k - Len(p)] BY <1>2, <2>2
    <3> QED BY <3>1 DEF From
  <2> QED BY <2>1, <2>2
<1>5. IsInjective(r)
  <2> SUFFICES ASSUME NEW a \in DOMAIN r, NEW b \in DOMAIN r, r[a] = r[b] PROVE a = b
    BY DEF IsInjective
  <2>1. ASSUME NEW z \in DOMAIN r
        PROVE  /\ z \in Nat
               /\ \/ z \in DOMAIN p /\ r[z] = p[z]
                  \/ z - Len(p) \in DOMAIN q /\ r[z] = q[z - Len(p)]
    <3>1. CASE z <= Len(p) BY <1>2, <3>1
    <3>2. CASE ~(z <= Len(p)) BY <1>2, <3>2
    <3> QED BY <3>1, <3>2
  <2>2. CASE a \in DOMAIN p /\ b \in DOMAIN p /\ p[a] = p[b] BY <2>2 DEF From, IsInjective
  <2>3. CASE /\ a - Len(p) \in DOMAIN q /\ b - Len(p) \in DOMAIN q
             /\ q[a - Len(p)] = q[b - Len(p)]
    <3>1. a - Len(p) = b - Len(p) BY <2>3 DEF From, IsInjective
    <3>2. a \in Nat /\ b \in Nat BY <2>1
    <3> QED BY <1>2, <3>1, <3>2
  <2>4. \/ a \in DOMAIN p /\ r[a] = p[a]
        \/ a - Len(p) \in DOMAIN q /\ r[a] = q[a - Len(p)]
    BY <2>1
  <2>5. \/ b \in DOMAIN p /\ r[b] = p[b]
        \/ b - Len(p) \in DOMAIN q /\ r[b] = q[b - Len(p)]
    BY <2>1
  <2> QED BY <1>3, <2>2, <2>3, <2>4, <2>5
<1> QED BY <1>2, <1>4, <1>5 DEF From, r

(* What a connection carries.                                              *)
LEMMA CarriedFrom ==
    ASSUME NEW L, Once(L), NEW x \in Stages, NEW q \in Seq(Whole), L[x] = Pkts(q)
    PROVE  From(L, {x}, Carried(q))
<1>1. DOMAIN L[x] = 1..Len(q) /\ (\A i \in 1..Len(q) : L[x][i] = q[i].pkt) /\ Len(q) \in Nat
  BY PktsFacts
<1>2. PICK f : Collects(f, q, Len(q)) /\ Carried(q) = f[Len(q)] BY <1>1, CarriedCollects
<1>3. /\ f[0] = <<>>
      /\ \A n \in 1..Len(q) : f[n] = IF q[n].pkt = 0 THEN f[n - 1] ELSE Append(f[n - 1], q[n].pkt)
  <2>1. f = [i \in 0..Len(q) |-> IF i = 0 THEN <<>>
                                  ELSE IF q[i].pkt = 0 THEN f[i - 1]
                                  ELSE Append(f[i - 1], q[i].pkt)]
    BY <1>2 DEF Collects
  <2>2. 0 \in 0..Len(q) BY <1>1
  <2>3. ASSUME NEW n \in 1..Len(q) PROVE n \in 0..Len(q) /\ n # 0 BY <1>1
  <2> QED BY <2>1, <2>2, <2>3
<1> DEFINE Good(n) ==
      /\ f[n] \in Seq(Nat) /\ IsInjective(f[n])
      /\ \A k \in DOMAIN f[n] : f[n][k] # 0 /\ \E i \in 1..n : f[n][k] = q[i].pkt
           T == {n \in 0..Len(q) : ~Good(n)}
<1>4. Good(0)
  <2>1. <<>> \in Seq(Nat) /\ DOMAIN <<>> = {} OBVIOUS
  <2> QED BY <1>3, <2>1 DEF IsInjective
<1>5. ASSUME NEW n \in 1..Len(q), Good(n - 1) PROVE Good(n)
  <2>1. n - 1 \in Nat /\ \A i \in 1..(n - 1) : i \in 1..n /\ i # n BY <1>1
  <2>2. CASE q[n].pkt = 0 BY <1>3, <1>5, <2>1, <2>2
  <2>3. CASE q[n].pkt # 0
    <3> DEFINE g == f[n - 1]
               v == q[n].pkt
               e == Len(g) + 1
    <3>1. g \in Seq(Nat) /\ v \in Nat /\ f[n] = Append(g, v)
      <4>1. q[n] \in Whole BY <1>1
      <4>2. v \in Nat BY <4>1, WholeFacts
      <4> QED BY <1>3, <1>5, <2>3, <4>2
    <3>2. /\ Append(g, v) \in Seq(Nat) /\ DOMAIN Append(g, v) = 1..e /\ DOMAIN g = 1..Len(g)
          /\ Append(g, v)[e] = v /\ \A k \in 1..Len(g) : Append(g, v)[k] = g[k]
          /\ Len(g) \in Nat
      <4> HIDE DEF g, v
      <4> QED BY <3>1, AppendProperties
    <3>3. \A k \in DOMAIN g : g[k] # 0 /\ \E i \in 1..(n - 1) : g[k] = q[i].pkt BY <1>5
    <3>4. ASSUME NEW k \in DOMAIN g PROVE g[k] # v
      <4>1. PICK i \in 1..(n - 1) : g[k] = q[i].pkt BY <3>3
      <4>2. i \in 1..Len(q) /\ n \in 1..Len(q) /\ i # n BY <1>1, <2>1
      <4>3. L[x][i] = g[k] /\ L[x][n] = v /\ g[k] # 0 BY <1>1, <3>3, <4>1, <4>2
      <4> HIDE DEF g, v
      <4> QED BY <1>1, <4>2, <4>3, OnceMeans
    <3>5. IsInjective(g) BY <1>5
    <3> HIDE DEF g
    <3>6. IsInjective(Append(g, v))
      <4> SUFFICES ASSUME NEW a \in 1..e, NEW b \in 1..e, Append(g, v)[a] = Append(g, v)[b]
                   PROVE  a = b
        BY <3>2 DEF IsInjective
      <4>1. a \in 1..Len(g) \/ a = e BY <3>2
      <4>2. b \in 1..Len(g) \/ b = e BY <3>2
      <4>3. CASE a \in 1..Len(g) /\ b \in 1..Len(g)
        <5>1. g[a] = g[b] BY <3>2, <4>3
        <5> QED BY <3>2, <3>5, <4>3, <5>1 DEF IsInjective
      <4> HIDE DEF e, v
      <4> QED BY <3>2, <3>4, <4>1, <4>2, <4>3
    <3>7. ASSUME NEW k \in 1..e
          PROVE  Append(g, v)[k] # 0 /\ \E i \in 1..n : Append(g, v)[k] = q[i].pkt
      <4>1. CASE k = e BY <1>1, <2>3, <3>2, <4>1
      <4>2. CASE k # e
        <5>1. k \in 1..Len(g) BY <3>2, <4>2
        <5> HIDE DEF v
        <5> QED BY <2>1, <3>2, <3>3, <5>1
      <4> QED BY <4>1, <4>2
    <3> QED BY <3>1, <3>2, <3>6, <3>7
  <2> QED BY <2>2, <2>3
<1> HIDE DEF Good
<1>6. T = {}
  <2> SUFFICES ASSUME T # {} PROVE FALSE
    OBVIOUS
  <2>1. PICK m \in T : \A k \in T : m <= k
    <3>1. T \in SUBSET Nat BY <1>1
    <3> HIDE DEF T
    <3> QED BY <3>1, Seqs!LeastNat
  <2>2. m \in 1..Len(q) /\ ~Good(m) BY <1>1, <1>4, <2>1
  <2>3. m - 1 \notin T /\ m - 1 \in 0..Len(q)
    <3>1. m - 1 \in 0..Len(q) /\ ~(m <= m - 1) BY <1>1, <2>2
    <3> HIDE DEF T
    <3> QED BY <2>1, <3>1
  <2> QED BY <1>5, <2>2, <2>3
<1>7. Good(Len(q)) BY <1>1, <1>6
<1>8. Carried(q) \in Seq(Nat) /\ IsInjective(Carried(q)) BY <1>2, <1>7 DEF Good
<1>9. ASSUME NEW k \in DOMAIN Carried(q)
      PROVE  Carried(q)[k] # 0 /\ \E i \in DOMAIN L[x] : Carried(q)[k] = L[x][i]
  <2>1. k \in DOMAIN f[Len(q)] /\ Carried(q)[k] = f[Len(q)][k] BY <1>2
  <2>2. f[Len(q)][k] # 0 /\ \E i \in 1..Len(q) : f[Len(q)][k] = q[i].pkt
    BY <1>7, <2>1 DEF Good
  <2>3. PICK i \in 1..Len(q) : f[Len(q)][k] = q[i].pkt BY <2>2
  <2> QED BY <1>1, <2>1, <2>2, <2>3
<1> QED BY <1>8, <1>9 DEF From

(* A packet that is nowhere twice is not twice in transit.                 *)
LEMMA SafeTransit ==
    ASSUME TypeOK, Full, ~side, NEW h \in Hosts, Safe(h)
    PROVE  IsInjective(Transit(h))
<1> DEFINE L == Lines(h)
           p == Peer(h)
           c == DataConn(h)
           d == 1 - DataConn(h)
           w == ActorStage(Work(h))
           a == ActorStage(Pipe(h))
<1>1. Once(L) BY DEF Safe
<1>2. /\ p \in Hosts /\ c \in Conns /\ d \in Conns /\ c # d
      /\ Work(h) \in Actors /\ Pipe(h) \in Actors
  BY ActorFacts DEF DataConn, Conns
<1>3. /\ L["recv"] = recvq[p] /\ L["send"] = sendq[h]
      /\ L[ConnStage(c)] = Pkts(net[p][c]) /\ L[ConnStage(d)] = Pkts(net[p][d])
      /\ L[w] = <<pkt[Work(h)]>> /\ L[a] = <<pkt[Pipe(h)]>>
      /\ {"recv", "send", ConnStage(c), ConnStage(d), w, a} \subseteq Stages
  <2>1. L["recv"] = recvq[p] /\ L["send"] = sendq[h] BY LinesAre
  <2>2. L[ConnStage(c)] = Pkts(net[p][c]) /\ L[ConnStage(d)] = Pkts(net[p][d]) BY <1>2, LinesAre
  <2>3. L[w] = <<pkt[Work(h)]>> /\ L[a] = <<pkt[Pipe(h)]>> BY <1>2, LinesAre, ActorFacts
  <2>4. ConnStage(c) \in Stages /\ ConnStage(d) \in Stages BY <1>2, LinesAre
  <2>5. w \in Stages /\ a \in Stages BY <1>2, LinesAre, ActorFacts
  <2> QED BY <2>1, <2>2, <2>3, <2>4, <2>5, StageNames
<1>4. /\ ConnStage(c) # ConnStage(d) /\ w # a
      /\ ConnStage(c) \notin {"recv", "send", w, a} /\ ConnStage(d) \notin {"recv", "send", w, a}
      /\ w \notin {"recv", "send"} /\ a \notin {"recv", "send"}
  BY <1>2, StageNames
<1>5. /\ net[p][c] \in Seq(Whole) /\ net[p][d] \in Seq(Whole)
      /\ recvq[p] \in Seq(Nat \ {0}) /\ sendq[h] \in Seq(Nat \ {0})
      /\ pkt[Work(h)] \in Nat /\ pkt[Pipe(h)] \in Nat
  BY <1>2 DEF Full, TypeOK
<1>6. Transit(h) = recvq[p] \o Carried(net[p][c]) \o Carried(net[p][d])
                     \o Held(Work(h)) \o Held(Pipe(h)) \o sendq[h]
  BY DEF Transit
<1> HIDE DEF L, p, c, d, w, a
<1>7. ASSUME NEW x \in Stages, L[x] \in Seq(Nat \ {0}) PROVE From(L, {x}, L[x])
  <2>1. L[x] \in Seq(Nat) /\ \A k \in DOMAIN L[x] : L[x][k] # 0 BY <1>7
  <2>2. IsInjective(L[x]) BY <1>1, <2>1, OnceMeans DEF IsInjective
  <2> QED BY <2>1, <2>2 DEF From
<1>8. ASSUME NEW b \in {Work(h), Pipe(h)}, NEW x \in Stages, L[x] = <<pkt[b]>>
      PROVE  From(L, {x}, Held(b))
  <2>1. CASE pkt[b] = 0
    <3>1. Held(b) = <<>> /\ <<>> \in Seq(Nat) /\ DOMAIN <<>> = {} BY <2>1 DEF Held
    <3> QED BY <3>1 DEF From, IsInjective
  <2>2. CASE pkt[b] # 0
    <3>1. Held(b) = L[x] /\ L[x] \in Seq(Nat \ {0}) BY <1>5, <1>8, <2>2 DEF Held
    <3> QED BY <1>7, <3>1
  <2> QED BY <2>1, <2>2
<1>9. From(L, {"recv"}, recvq[p]) /\ From(L, {"send"}, sendq[h])
  <2>1. "recv" \in Stages /\ "send" \in Stages BY <1>3
  <2> QED BY <1>3, <1>5, <1>7, <2>1
<1>10. /\ From(L, {ConnStage(c)}, Carried(net[p][c]))
       /\ From(L, {ConnStage(d)}, Carried(net[p][d]))
  BY <1>1, <1>3, <1>5, CarriedFrom
<1>11. From(L, {w}, Held(Work(h))) /\ From(L, {a}, Held(Pipe(h)))
  BY <1>3, <1>8
<1> DEFINE X1 == {"recv"} \cup {ConnStage(c)}
           X2 == X1 \cup {ConnStage(d)}
           X3 == X2 \cup {w}
           X4 == X3 \cup {a}
           T1 == recvq[p] \o Carried(net[p][c])
           T2 == T1 \o Carried(net[p][d])
           T3 == T2 \o Held(Work(h))
           T4 == T3 \o Held(Pipe(h))
<1>12. From(L, X1, T1)
  <2>1. {"recv"} \in SUBSET Stages /\ {ConnStage(c)} \in SUBSET Stages
        /\ {"recv"} \cap {ConnStage(c)} = {}
    BY <1>3, <1>4
  <2> QED BY <1>1, <1>9, <1>10, <2>1, JoinFrom
<1>13. From(L, X2, T2)
  <2>1. X1 \in SUBSET Stages /\ {ConnStage(d)} \in SUBSET Stages /\ X1 \cap {ConnStage(d)} = {}
    BY <1>3, <1>4
  <2> HIDE DEF X1, T1
  <2> QED BY <1>1, <1>10, <1>12, <2>1, JoinFrom
<1>14. From(L, X3, T3)
  <2>1. X2 \in SUBSET Stages /\ {w} \in SUBSET Stages /\ X2 \cap {w} = {} BY <1>3, <1>4
  <2> HIDE DEF X2, T2
  <2> QED BY <1>1, <1>11, <1>13, <2>1, JoinFrom
<1>15. From(L, X4, T4)
  <2>1. X3 \in SUBSET Stages /\ {a} \in SUBSET Stages /\ X3 \cap {a} = {} BY <1>3, <1>4
  <2> HIDE DEF X3, T3
  <2> QED BY <1>1, <1>11, <1>14, <2>1, JoinFrom
<1>16. From(L, X4 \cup {"send"}, T4 \o sendq[h])
  <2>1. X4 \in SUBSET Stages /\ {"send"} \in SUBSET Stages /\ X4 \cap {"send"} = {}
    BY <1>3, <1>4
  <2> HIDE DEF X4, T4
  <2> QED BY <1>1, <1>9, <1>15, <2>1, JoinFrom
<1> QED BY <1>6, <1>16 DEF From

(* The invariant: types, and in normal mode what was said above.           *)
OnceInv == TypeOK /\ (~side => Full /\ \A h \in Hosts : Safe(h))

(* It holds when the program starts,                                       *)
LEMMA InitOnce == ASSUME Init PROVE OnceInv
<1>1. TypeOK BY InitTypes
<1>2. Full
  <2>1. \A a \in Actors : pc[a] # "write" BY DEF Init, Rest
  <2> QED BY <2>1 DEF Init, Full
<1>3. ASSUME NEW h \in Hosts PROVE Safe(h)
  <2>1. Peer(h) \in Hosts /\ Pipe(h) \in Actors /\ Work(h) \in Actors BY ActorFacts
  <2>2. \A x \in Stages : Lines(h)[x] = <<0>> \/ DOMAIN Lines(h)[x] = {}
    BY <2>1 DEF Init, Lines, Stages, Pkts, Conns
  <2>3. \A x \in Stages : \A i \in DOMAIN Lines(h)[x] : Lines(h)[x][i] = 0
    BY <2>2
  <2>4. nsent[h] = 0 BY DEF Init
  <2> QED BY <2>3, <2>4 DEF Safe, Once, Below
<1> QED BY <1>1, <1>2, <1>3 DEF OnceInv

(* In normal mode no packet is ever delivered or sent a second time: a host*)
(* may stop and messages may be cut anywhere, for any number of packets.   *)
THEOREM PacketsComeOnce == Spec => []AtMostOnce
<1>1. Init => OnceInv BY InitOnce
<1>2. OnceInv /\ [Next]_vars => OnceInv'
  <2> SUFFICES ASSUME OnceInv, [Next]_vars PROVE OnceInv'
    OBVIOUS
  <2>1. TypeOK' /\ side' = side BY NextTypes, ModeStays DEF OnceInv
  <2>2. ASSUME ~side PROVE Full' /\ \A h \in Hosts : Safe(h)'
    BY <2>2, NextFull, NextSafe DEF OnceInv
  <2> QED BY <2>1, <2>2 DEF OnceInv
<1>3. OnceInv => AtMostOnce
  BY SafeTransit DEF OnceInv, AtMostOnce
<1> QED BY <1>1, <1>2, <1>3, PTL DEF Spec

-----------------------------------------------------------------------------
(* The link is a FIFO.                                                     *)

(* In normal mode a thread that has a packet is about to send it,          *)
Holding ==
    \A a \in Actors : pkt[a] # 0 => pc[a] \in {"flag", "write"}

(* and while nothing stops the hosts both go on.                           *)
Serves(h) == Up(h) /\ pc[Pipe(h)] # "gone" /\ pc[Work(h)] # "gone"

OrderInv ==
    /\ TokenInv /\ ~side /\ Full /\ Holding
    /\ ~Stops => \A h \in Hosts : Serves(h)

(* It holds when the program starts.                                       *)
LEMMA InitOrder == ASSUME Init, TRUE \notin Modes PROVE OrderInv
<1>1. TokenInv BY InitToken
<1>2. ~side BY DEF Init
<1>3. Full BY <1>2, InitOnce DEF OnceInv
<1>4. Holding BY DEF Init, Holding, Rest
<1>5. ASSUME NEW h \in Hosts PROVE Serves(h)
  BY ActorFacts DEF Init, Serves, Up, Rest, Work, Client
<1> QED BY <1>1, <1>2, <1>3, <1>4, <1>5 DEF OrderInv

(* A thread that moves on with nothing in its hands.                       *)
LEMMA GotoHolding ==
    ASSUME TypeOK, Holding, NEW a \in Actors, NEW label, Goto(a, label),
           pkt'[a] # 0 => label \in {"flag", "write"},
           \A b \in Actors : b # a => pkt'[b] = pkt[b]
    PROVE  Holding'
BY GotoFacts DEF Holding

(* A read takes a whole message, and never fails; what follows.            *)
LEMMA ReadDataFacts ==
    ASSUME OrderInv, NEW h \in Hosts, NEW c \in Conns, ReadData(h, c)
    PROVE  LET m == Head(net[h][c]) IN
           /\ net[h][c] # <<>> /\ net[h][c] = <<m>> /\ m \in Whole /\ m # Empty
           /\ c = DataConn(Peer(h)) /\ net'[h][c] = <<>>
           /\ \A g \in Hosts, d \in Conns : g # h \/ d # c => net'[g][d] = net[g][d]
           /\ recvq' = [recvq EXCEPT ![h] = Append(@, m.pkt)]
           /\ Goto(Work(h), "reply") /\ UNCHANGED <<sendq, nsent, got, pkt, failed>>
<1> DEFINE m == Head(net[h][c])
<1>1. net[h][c] # <<>> /\ m # Empty /\ Consume(h, c) BY DEF ReadData
<1>2. net[h][c] \in Seq(Whole) BY DEF OrderInv, Full
<1>3. m \in Whole BY <1>1, <1>2
<1>4. /\ net'[h][c] = <<>> /\ (m = Empty <=> c = DataConn(h))
      /\ \A g \in Hosts, d \in Conns : g # h \/ d # c => net'[g][d] = net[g][d]
  BY <1>1, ConsumeNet DEF OrderInv, TokenInv
<1>5. c = DataConn(Peer(h)) BY <1>1, <1>4, ConnFacts
<1>6. net[h][c] = <<m>> /\ Len(net[h][c]) = 1
  <2>1. PICK k : net[h][c] = <<k>> BY <1>1 DEF OrderInv, TokenInv, Nets, OneAt
  <2> QED BY <2>1
<1>7. /\ recvq' = [recvq EXCEPT ![h] = Append(@, m.pkt)]
      /\ Goto(Work(h), "reply") /\ UNCHANGED <<sendq, nsent, got, pkt, failed>>
  <2> HIDE DEF m
  <2> QED BY <1>6 DEF ReadData, m
<1> QED BY <1>1, <1>3, <1>4, <1>5, <1>6, <1>7

(* A message is written, or the peer has closed.                           *)
LEMMA SendCases ==
    ASSUME TypeOK, NEW h \in Hosts, NEW c \in Conns, NEW m, Send(h, c, m)
    PROVE  \/ /\ net'[Peer(h)][c] = Append(net[Peer(h)][c], m) /\ failed' = failed
              /\ \A g \in Hosts, d \in Conns : g # Peer(h) \/ d # c => net'[g][d] = net[g][d]
           \/ Closed(Peer(h)) /\ net' = net
<1>1. Peer(h) \in Hosts BY ActorFacts
<1>2. CASE net' = [net EXCEPT ![Peer(h)][c] = Append(@, m)] /\ failed' = failed
  BY <1>1, <1>2 DEF TypeOK
<1> QED BY <1>2 DEF Send

(* While hosts are not stopped a write succeeds.                           *)
LEMMA ServesOpen == ASSUME NEW h \in Hosts, Serves(h) PROVE ~Closed(h)
BY DEF Serves, Closed

(* No step takes a packet out of the hands of a thread that sends.         *)
LEMMA NextHolding ==
    ASSUME ~Fragmenting, OrderInv, [Next]_vars PROVE Holding'
<1>a. TypeOK /\ Holding /\ ~side BY DEF OrderInv, TokenInv
<1>b. \A a \in Actors : Rest(a) \notin {"flag", "write"} BY DEF Rest
<1>1. ASSUME NEW h \in Hosts, Enqueue(h) PROVE Holding'
  <2>1. pkt[Pipe(h)] = 0 BY <1>a, <1>1, ActorFacts DEF Enqueue, At, Holding
  <2> QED BY <1>a, <1>1, <2>1, ActorFacts, GotoHolding DEF Enqueue
<1>2. ASSUME NEW h \in Hosts, PktRecv(h) PROVE Holding' BY <1>a, <1>2 DEF PktRecv, Holding
<1>3. ASSUME NEW h \in Hosts, TestReady(h) PROVE Holding'
  <2>1. pkt[Pipe(h)] = 0 BY <1>a, <1>3, ActorFacts DEF TestReady, At, Holding
  <2> QED BY <1>a, <1>3, <2>1, ActorFacts, GotoHolding DEF TestReady
<1>4. ASSUME NEW a \in Actors, Take(a) PROVE Holding'
  <2>1. \A b \in Actors : b # a => pkt'[b] = pkt[b] BY <1>a, <1>4 DEF Take, TypeOK
  <2> QED BY <1>a, <1>4, <2>1, GotoHolding DEF Take
<1>5. ASSUME NEW a \in Actors, SetReady(a) PROVE Holding'
  BY <1>a, <1>b, <1>5, GotoHolding DEF SetReady
<1>6. ASSUME NEW a \in Actors, Write(a) PROVE Holding'
  <2>1. pkt'[a] = 0 /\ \A b \in Actors : b # a => pkt'[b] = pkt[b]
    BY <1>a, <1>6 DEF Write, TypeOK
  <2> QED BY <1>a, <1>b, <1>6, <2>1, GotoHolding DEF Write
<1>7. ASSUME NEW a \in Actors, SideSend(a) PROVE Holding'
  BY <1>a, <1>7, SideKeeps
<1>8. ASSUME NEW h \in Hosts, Reply(h) PROVE Holding'
  <2>1. pkt[Work(h)] = 0 BY <1>a, <1>8, ActorFacts DEF Reply, At, Holding
  <2> QED BY <1>a, <1>8, <2>1, ActorFacts, GotoHolding DEF Reply
<1>9. ASSUME NEW h \in Hosts, NEW c \in Conns, ReadEmpty(h, c) PROVE Holding'
  <2>1. pkt[Work(h)] = 0 BY <1>a, <1>9, ActorFacts DEF ReadEmpty, At, Holding
  <2> QED BY <1>a, <1>9, <2>1, ActorFacts, GotoHolding DEF ReadEmpty
<1>10. ASSUME NEW h \in Hosts, NEW c \in Conns, ReadData(h, c) PROVE Holding'
  <2>1. pkt[Work(h)] = 0 BY <1>a, <1>10, ActorFacts DEF ReadData, At, Holding
  <2>2. Goto(Work(h), "reply") /\ pkt' = pkt BY <1>10, ReadDataFacts
  <2> QED BY <1>a, <2>1, <2>2, ActorFacts, GotoHolding
<1>11. ASSUME NEW h \in Hosts, NEW c \in Conns, ReadFragment(h, c) PROVE Holding'
  BY <1>11 DEF ReadFragment
<1>12. ASSUME NEW h \in Hosts, ReadClosed(h) PROVE Holding' BY <1>a, <1>12 DEF ReadClosed, Holding
<1>13. ASSUME NEW h \in Hosts, PipelineStopped(h) PROVE Holding'
  <2>1. pkt'[Pipe(h)] = 0 /\ \A b \in Actors : b # Pipe(h) => pkt'[b] = pkt[b]
    BY <1>a, <1>13, ActorFacts DEF PipelineStopped, TypeOK
  <2> QED BY <1>a, <1>13, <2>1, ActorFacts, GotoHolding DEF PipelineStopped
<1>14. ASSUME NEW h \in Hosts, StopModule(h) PROVE Holding'
  <2>1. pkt[Work(h)] = 0 BY <1>a, <1>14, ActorFacts DEF StopModule, At, Holding
  <2> QED BY <1>a, <1>14, <2>1, ActorFacts, GotoHolding DEF StopModule
<1>15. CASE UNCHANGED vars BY <1>a, <1>15 DEF vars, Holding
<1>16. ASSUME NEW h \in Hosts, NEW c \in Conns, ReadChunk(h, c) PROVE Holding'
  BY <1>a, <1>16 DEF ReadChunk
<1> QED
  BY <1>1, <1>2, <1>3, <1>4, <1>5, <1>6, <1>7, <1>8, <1>9, <1>10, <1>11, <1>12,
     <1>13, <1>14, <1>15, <1>16, ActorFacts
  DEF Next, PipeStep, WorkStep, SendNext

(* No step fails or ends a thread while nothing stops the hosts.           *)
LEMMA NextServes ==
    ASSUME ~Fragmenting, ~Stops, OrderInv, [Next]_vars PROVE \A h \in Hosts : Serves(h)'
<1>a. TypeOK /\ (\A h \in Hosts : Serves(h) /\ ~Closed(h)) /\ ~side
  BY ServesOpen DEF OrderInv, TokenInv
<1>b. ASSUME NEW a \in Actors, NEW label, Goto(a, label), label # "gone", failed' = failed
      PROVE  \A h \in Hosts : Serves(h)'
  BY <1>a, <1>b, GotoFacts, ActorFacts DEF Serves, Up
<1>c. ASSUME UNCHANGED <<pc, failed>> PROVE \A h \in Hosts : Serves(h)'
  BY <1>a, <1>c DEF Serves, Up
<1>d. ASSUME NEW h \in Hosts, NEW c, NEW m, Send(h, c, m) PROVE failed' = failed
  BY <1>a, <1>d, ActorFacts DEF Send
<1>e. \A a \in Actors : Rest(a) # "gone" BY DEF Rest
<1>1. ASSUME NEW h \in Hosts, Enqueue(h) PROVE \A g \in Hosts : Serves(g)'
  BY <1>1, <1>b, ActorFacts DEF Enqueue
<1>2. ASSUME NEW h \in Hosts, PktRecv(h) PROVE \A g \in Hosts : Serves(g)'
  BY <1>2, <1>c DEF PktRecv
<1>3. ASSUME NEW h \in Hosts, TestReady(h) PROVE \A g \in Hosts : Serves(g)'
  BY <1>3, <1>b, ActorFacts DEF TestReady
<1>4. ASSUME NEW a \in Actors, Take(a) PROVE \A g \in Hosts : Serves(g)'
  BY <1>4, <1>b DEF Take
<1>5. ASSUME NEW a \in Actors, SetReady(a) PROVE \A g \in Hosts : Serves(g)'
  BY <1>5, <1>b, <1>e DEF SetReady
<1>6. ASSUME NEW a \in Actors, Write(a) PROVE \A g \in Hosts : Serves(g)'
  <2>1. failed' = failed BY <1>6, <1>d, ActorFacts DEF Write
  <2> QED BY <1>a, <1>6, <1>b, <1>e, <2>1 DEF Write
<1>7. ASSUME NEW a \in Actors, SideSend(a) PROVE \A g \in Hosts : Serves(g)'
  BY <1>a, <1>7, SideKeeps
<1>8. ASSUME NEW h \in Hosts, Reply(h) PROVE \A g \in Hosts : Serves(g)'
  <2>1. failed' = failed BY <1>8, <1>d DEF Reply
  <2> QED BY <1>8, <1>b, <2>1, ActorFacts DEF Reply
<1>9. ASSUME NEW h \in Hosts, NEW c \in Conns, ReadEmpty(h, c) PROVE \A g \in Hosts : Serves(g)'
  BY <1>9, <1>b, ActorFacts DEF ReadEmpty
<1>10. ASSUME NEW h \in Hosts, NEW c \in Conns, ReadData(h, c) PROVE \A g \in Hosts : Serves(g)'
  <2>1. Goto(Work(h), "reply") /\ failed' = failed BY <1>10, ReadDataFacts
  <2> QED BY <1>b, <2>1, ActorFacts
<1>11. ASSUME NEW h \in Hosts, NEW c \in Conns, ReadFragment(h, c)
       PROVE  \A g \in Hosts : Serves(g)'
  BY <1>11 DEF ReadFragment
<1>12. ASSUME NEW h \in Hosts, ReadClosed(h) PROVE \A g \in Hosts : Serves(g)'
  BY <1>a, <1>12, ActorFacts DEF ReadClosed
<1>13. ASSUME NEW h \in Hosts, PipelineStopped(h) PROVE \A g \in Hosts : Serves(g)'
  BY <1>13 DEF PipelineStopped
<1>14. ASSUME NEW h \in Hosts, StopModule(h) PROVE \A g \in Hosts : Serves(g)'
  BY <1>a, <1>14 DEF StopModule, Serves
<1>15. CASE UNCHANGED vars BY <1>15, <1>c DEF vars
<1>16. ASSUME NEW h \in Hosts, NEW c \in Conns, ReadChunk(h, c) PROVE \A g \in Hosts : Serves(g)'
  BY <1>a, <1>16 DEF ReadChunk
<1> QED
  BY <1>1, <1>2, <1>3, <1>4, <1>5, <1>6, <1>7, <1>8, <1>9, <1>10, <1>11, <1>12,
     <1>13, <1>14, <1>15, <1>16, ActorFacts
  DEF Next, PipeStep, WorkStep, SendNext

(* The invariant is inductive.                                             *)
LEMMA NextOrder ==
    ASSUME ~Fragmenting, TRUE \notin Modes, OrderInv, [Next]_vars
    PROVE  OrderInv'
<1>1. TokenInv'
  BY NextTypes, NextToken, NextOffset DEF OrderInv, TokenInv
<1>2. ~side' BY ModeStays DEF OrderInv
<1>3. Full' BY NextFull DEF OrderInv, TokenInv
<1>4. Stops' = Stops OBVIOUS
<1> QED BY <1>1, <1>2, <1>3, <1>4, NextHolding, NextServes DEF OrderInv

(* The packet between the queues of host h and its peer, if there is one.  *)
Moving(h) ==
    LET in == net[Peer(h)][DataConn(h)] IN
    IF in # <<>> THEN <<Head(in).pkt>>
    ELSE IF pkt[Work(h)] # 0 THEN <<pkt[Work(h)]>> ELSE Held(Pipe(h))

(* A thread that holds a packet has the right to send, and nothing else    *)
(* moves.                                                                  *)
LEMMA HoldersSend ==
    ASSUME OrderInv, NEW a \in Actors, pc[a] \in Sending
    PROVE  /\ net[Peer(Host(a))][DataConn(Host(a))] = <<>>
           /\ \A b \in Actors : Host(b) = Host(a) /\ b # a => pkt[b] = 0
<1> DEFINE h == Host(a)
<1>1. Exclusive(h) /\ Holding BY ActorFacts DEF OrderInv, TokenInv, HostInv
<1>2. CASE a = Pipe(h)
  <2>1. PipeSends(h) BY <1>2 DEF PipeSends
  <2>2. ~DataComes(h) /\ ~WorkSends(h) BY <1>1, <2>1 DEF Exclusive
  <2>3. pkt[Work(h)] = 0 BY <1>1, <2>2, ActorFacts DEF Holding, WorkSends, Sending
  <2> QED BY <1>2, <2>2, <2>3, ActorFacts DEF DataComes
<1>3. CASE a = Work(h)
  <2>1. WorkSends(h) BY <1>3 DEF WorkSends
  <2>2. ~DataComes(h) /\ ~PipeSends(h) BY <1>1, <2>1 DEF Exclusive
  <2>3. pkt[Pipe(h)] = 0 BY <1>1, <2>2, ActorFacts DEF Holding, PipeSends, Sending
  <2> QED BY <1>3, <2>2, <2>3, ActorFacts DEF DataComes
<1> QED BY <1>2, <1>3, ActorFacts

(* While a message is on its way no thread holds a packet.                 *)
LEMMA MessageAlone ==
    ASSUME OrderInv, NEW h \in Hosts, net[Peer(h)][DataConn(h)] # <<>>
    PROVE  pkt[Pipe(h)] = 0 /\ pkt[Work(h)] = 0
<1>1. Holding BY DEF OrderInv
<1> QED BY <1>1, HoldersSend, ActorFacts DEF Holding, Sending

(* What a host's message to its peer is.                                   *)
LEMMA MessageIs ==
    ASSUME OrderInv, NEW h \in Hosts
    PROVE  LET in == net[Peer(h)][DataConn(h)] IN
           /\ in # <<>> => /\ in = <<Head(in)>> /\ Head(in).pkt \in Nat \ {0}
           /\ Carried(in) = IF in = <<>> THEN <<>> ELSE <<Head(in).pkt>>
           /\ Carried(net[Peer(h)][1 - DataConn(h)]) = <<>>
<1> DEFINE in == net[Peer(h)][DataConn(h)]
           other == net[Peer(h)][1 - DataConn(h)]
<1>1. /\ Peer(h) \in Hosts /\ DataConn(h) \in Conns /\ 1 - DataConn(h) = DataConn(Peer(h))
      /\ DataConn(h) # DataConn(Peer(h)) /\ DataConn(Peer(h)) \in Conns
  BY DEF DataConn, Peer, Hosts, Client, Server, Conns
<1>2. OneAt(Peer(h), DataConn(h)) /\ OneAt(Peer(h), DataConn(Peer(h)))
      /\ in \in Seq(Whole)
  BY <1>1 DEF OrderInv, TokenInv, Nets, Full
<1>3. Carried(other) = <<>>
  <2>1. CASE other = <<>> BY <2>1, CarriedFew
  <2>2. CASE other = <<Empty>>
    <3>1. Carried(<<Empty>>) = <<>>
      <4>1. Empty.pkt = 0 BY DEF Empty
      <4> QED BY <4>1, CarriedFew
    <3> QED BY <2>2, <3>1
  <2> QED BY <1>1, <1>2, <2>1, <2>2 DEF OneAt
<1>4. ASSUME in # <<>>
      PROVE  in = <<Head(in)>> /\ Head(in).pkt \in Nat \ {0} /\ Carried(in) = <<Head(in).pkt>>
  <2>1. PICK m : in = <<m>> /\ m.part # 0 BY <1>1, <1>2, <1>4 DEF OneAt
  <2>2. Head(in) = m BY <2>1
  <2>3. m \in Whole BY <1>2, <1>4, <2>2
  <2>4. m.pkt \in Nat \ {0} BY <2>1, <2>3, MessageFacts DEF Whole
  <2>5. Carried(<<m>>) = <<m.pkt>> BY <2>4, CarriedFew
  <2> QED BY <2>1, <2>2, <2>4, <2>5
<1> QED BY <1>3, <1>4, CarriedFew

(* The packets in transit are those of the queues and the one between them.*)
LEMMA TransitParts ==
    OrderInv => \A h \in Hosts :
        /\ Transit(h) = recvq[Peer(h)] \o Moving(h) \o sendq[h]
        /\ recvq[Peer(h)] \in Seq(Nat) /\ Moving(h) \in Seq(Nat) /\ sendq[h] \in Seq(Nat)
<1> SUFFICES ASSUME OrderInv, NEW h \in Hosts
             PROVE  /\ Transit(h) = recvq[Peer(h)] \o Moving(h) \o sendq[h]
                    /\ recvq[Peer(h)] \in Seq(Nat) /\ Moving(h) \in Seq(Nat)
                    /\ sendq[h] \in Seq(Nat)
  OBVIOUS
<1> DEFINE in == net[Peer(h)][DataConn(h)]
           R == recvq[Peer(h)]
           S == sendq[h]
           C == Carried(in)
           D == Carried(net[Peer(h)][1 - DataConn(h)])
           W == Held(Work(h))
           P == Held(Pipe(h))
           M == Moving(h)
<1>1. Transit(h) = ((((R \o C) \o D) \o W) \o P) \o S BY DEF Transit, OrderInv
<1>2. /\ R \in Seq(Nat) /\ S \in Seq(Nat) /\ pkt[Work(h)] \in Nat /\ pkt[Pipe(h)] \in Nat
  BY ActorFacts DEF OrderInv, TokenInv, TypeOK
<1>3. D = <<>> /\ C = (IF in = <<>> THEN <<>> ELSE <<Head(in).pkt>>)
      /\ (in # <<>> => Head(in).pkt \in Nat \ {0})
  BY MessageIs
<1>4. W \in Seq(Nat) /\ P \in Seq(Nat) /\ C \in Seq(Nat)
  BY <1>2, <1>3 DEF Held
<1>5. \/ M = C /\ W = <<>> /\ P = <<>>
      \/ M = W /\ C = <<>> /\ P = <<>>
      \/ M = P /\ C = <<>> /\ W = <<>>
  <2>1. CASE in # <<>> BY <1>3, <2>1, MessageAlone DEF Moving, Held
  <2>2. CASE in = <<>> /\ pkt[Work(h)] # 0
    <3>1. pc[Work(h)] \in Sending /\ Work(h) \in Actors /\ Pipe(h) \in Actors
          /\ Host(Work(h)) = h /\ Host(Pipe(h)) = h /\ Work(h) # Pipe(h)
      BY <2>2, ActorFacts DEF OrderInv, Holding, Sending
    <3>2. pkt[Pipe(h)] = 0 BY <3>1, HoldersSend
    <3> QED BY <1>3, <2>2, <3>2 DEF Moving, Held
  <2>3. CASE in = <<>> /\ pkt[Work(h)] = 0 BY <1>3, <2>3 DEF Moving, Held
  <2> QED BY <2>1, <2>2, <2>3
<1> HIDE DEF R, S, C, D, W, P, M
<1>6. M \in Seq(Nat) BY <1>4, <1>5
<1>7. (R \o C) \o D = R \o C
  <2>1. R \o C \in Seq(Nat) BY <1>2, <1>4, ConcatProperties
  <2> QED BY <1>3, <2>1, ConcatEmptySeq
<1>8. ((R \o C) \o W) \o P = R \o M
  <2>1. \A s \in Seq(Nat) : s \o <<>> = s BY ConcatEmptySeq
  <2>2. R \o M \in Seq(Nat) BY <1>2, <1>6, ConcatProperties
  <2>3. CASE M = C /\ W = <<>> /\ P = <<>> BY <2>1, <2>2, <2>3
  <2>4. CASE M = W /\ C = <<>> /\ P = <<>> BY <1>2, <2>1, <2>2, <2>4
  <2>5. CASE M = P /\ C = <<>> /\ W = <<>> BY <1>2, <2>1, <2>5
  <2> QED BY <1>5, <2>3, <2>4, <2>5
<1>9. Transit(h) = (R \o M) \o S BY <1>1, <1>7, <1>8
<1> QED BY <1>2, <1>6, <1>9 DEF R, M, S

(* The same for the next state.                                            *)
LEMMA TransitPartsNext ==
    OrderInv' => \A h \in Hosts :
        /\ Transit(h)' = recvq'[Peer(h)] \o Moving(h)' \o sendq'[h]
        /\ recvq'[Peer(h)] \in Seq(Nat) /\ Moving(h)' \in Seq(Nat) /\ sendq'[h] \in Seq(Nat)
<1>1. (OrderInv => \A h \in Hosts :
        /\ Transit(h) = recvq[Peer(h)] \o Moving(h) \o sendq[h]
        /\ recvq[Peer(h)] \in Seq(Nat) /\ Moving(h) \in Seq(Nat) /\ sendq[h] \in Seq(Nat))'
  BY TransitParts, PTL
<1> QED BY <1>1 DEF Peer

(* What the direction of host g may do in a step: accept a packet, deliver *)
(* one, keep them all, or lose some when hosts stop.                       *)
Accepts(g) ==
    /\ nsent'[g] = nsent[g] + 1 /\ got'[Peer(g)] = got[Peer(g)]
    /\ Transit(g)' = Append(Transit(g), nsent'[g])
Delivers(g) ==
    /\ nsent'[g] = nsent[g]
    /\ Transit(g) # <<>> /\ got'[Peer(g)] = Head(Transit(g))
    /\ Transit(g)' = Tail(Transit(g))
Keeps(g) ==
    /\ nsent'[g] = nsent[g] /\ got'[Peer(g)] = got[Peer(g)] /\ Transit(g)' = Transit(g)
Drops(g) ==
    /\ Stops
    /\ nsent'[g] = nsent[g] /\ got'[Peer(g)] = got[Peer(g)]
    /\ Seqs!Remains(Transit(g)', Transit(g))
LinkStep(g) == Accepts(g) \/ Delivers(g) \/ Keeps(g) \/ Drops(g)

(* What moves stays the same where neither the connection nor what the     *)
(* threads hold changes.                                                   *)
LEMMA MovingStays ==
    ASSUME NEW g \in Hosts, net'[Peer(g)][DataConn(g)] = net[Peer(g)][DataConn(g)],
           pkt'[Work(g)] = pkt[Work(g)], pkt'[Pipe(g)] = pkt[Pipe(g)]
    PROVE  Moving(g)' = Moving(g)
BY DEF Moving, Held, Peer, DataConn, Work, Pipe

(* A direction whose queues and messages do not change keeps its packets,  *)
LEMMA KeepsAll ==
    ASSUME OrderInv, OrderInv', NEW g \in Hosts, nsent'[g] = nsent[g],
           got'[Peer(g)] = got[Peer(g)], recvq'[Peer(g)] = recvq[Peer(g)],
           Moving(g)' = Moving(g), sendq'[g] = sendq[g]
    PROVE  LinkStep(g)
BY TransitParts, TransitPartsNext DEF LinkStep, Keeps

(* and loses what was between the queues at most.                          *)
LEMMA LosesMoving ==
    ASSUME OrderInv, OrderInv', Stops, NEW g \in Hosts, nsent'[g] = nsent[g],
           got'[Peer(g)] = got[Peer(g)], recvq'[Peer(g)] = recvq[Peer(g)],
           Moving(g)' \in {<<>>, Moving(g)}, sendq'[g] = sendq[g]
    PROVE  LinkStep(g)
<1> DEFINE R == recvq[Peer(g)]
           S == sendq[g]
           M == Moving(g)
           N == Moving(g)'
<1>1. /\ Transit(g) = (R \o M) \o S /\ Transit(g)' = (R \o N) \o S
      /\ R \in Seq(Nat) /\ M \in Seq(Nat) /\ S \in Seq(Nat) /\ N \in {<<>>, M}
  BY TransitParts, TransitPartsNext
<1> HIDE DEF R, S, M, N
<1>2. Seqs!Remains(R, R) /\ Seqs!Remains(S, S) /\ Seqs!Remains(N, M)
  BY <1>1, Seqs!RemainsAll
<1>3. Seqs!Remains(R \o N, R \o M) /\ R \o M \in Seq(Nat)
  BY <1>1, <1>2, Seqs!RemainsOfBoth, ConcatProperties
<1>4. Seqs!Remains((R \o N) \o S, (R \o M) \o S)
  <2> DEFINE q == R \o N
             r == R \o M
  <2>1. Seqs!Remains(q, r) /\ r \in Seq(Nat) BY <1>3
  <2> HIDE DEF q, r
  <2>2. Seqs!Remains(q \o S, r \o S) BY <1>1, <1>2, <2>1, Seqs!RemainsOfBoth
  <2> QED BY <2>2 DEF q, r
<1>5. Seqs!Remains(Transit(g)', Transit(g)) BY <1>1, <1>4
<1> QED BY <1>5 DEF LinkStep, Drops

(* A packet that is handed over is accepted.                               *)
LEMMA EnqueueStep ==
    ASSUME OrderInv, OrderInv', NEW h \in Hosts, NEW g \in Hosts, Enqueue(h)
    PROVE  LinkStep(g)
<1>1. /\ nsent' = [nsent EXCEPT ![h] = @ + 1] /\ UNCHANGED <<recvq, got, net, pkt>>
      /\ sendq' = [sendq EXCEPT ![h] = Append(@, nsent'[h])]
  BY DEF Enqueue
<1>2. nsent \in [Hosts -> Nat] /\ sendq \in [Hosts -> Seq(Nat)]
  BY DEF OrderInv, TokenInv, TypeOK
<1>3. Moving(g)' = Moving(g) BY <1>1, MovingStays
<1>4. CASE g = h
  <2> DEFINE R == recvq[Peer(g)]
             S == sendq[g]
             M == Moving(g)
             k == nsent'[g]
  <2>1. k = nsent[g] + 1 /\ k \in Nat /\ sendq'[g] = Append(S, k) BY <1>1, <1>2, <1>4
  <2>2. /\ Transit(g) = (R \o M) \o S /\ Transit(g)' = (R \o M) \o Append(S, k)
        /\ R \in Seq(Nat) /\ M \in Seq(Nat) /\ S \in Seq(Nat)
    BY <1>1, <1>3, <2>1, TransitParts, TransitPartsNext
  <2> HIDE DEF R, S, M, k
  <2>3. (R \o M) \o Append(S, k) = Append((R \o M) \o S, k)
    <3> DEFINE q == R \o M
    <3>1. q \in Seq(Nat) BY <2>2, ConcatProperties
    <3> HIDE DEF q
    <3>2. S \in Seq(Nat) /\ k \in Nat BY <2>1, <2>2
    <3>3. \A e \in Nat : q \o Append(S, e) = Append(q \o S, e) BY <3>1, <3>2, Seqs!LastOfBoth
    <3>4. q \o Append(S, k) = Append(q \o S, k) BY <3>2, <3>3
    <3> QED BY <3>4 DEF q
  <2> QED BY <1>1, <2>1, <2>2, <2>3 DEF LinkStep, Accepts, k
<1>5. CASE g # h
  <2>1. nsent'[g] = nsent[g] /\ sendq'[g] = sendq[g] BY <1>1, <1>2, <1>5
  <2> QED BY <1>1, <1>3, <2>1, KeepsAll
<1> QED BY <1>4, <1>5

(* The packet that is returned is the oldest one in transit.               *)
LEMMA PktRecvStep ==
    ASSUME OrderInv, OrderInv', NEW h \in Hosts, NEW g \in Hosts, PktRecv(h)
    PROVE  LinkStep(g)
<1>1. UNCHANGED <<sendq, nsent, net, pkt>> BY DEF PktRecv
<1>2. recvq \in [Hosts -> Seq(Nat)] /\ got \in [Hosts -> Nat] /\ Peer(g) \in Hosts
  BY ActorFacts DEF OrderInv, TokenInv, TypeOK
<1>3. Moving(g)' = Moving(g) BY <1>1, MovingStays
<1>4. CASE UNCHANGED <<recvq, got>> BY <1>1, <1>3, <1>4, KeepsAll
<1>5. CASE /\ recvq[h] # <<>> /\ recvq' = [recvq EXCEPT ![h] = Tail(@)]
           /\ got' = [got EXCEPT ![h] = Head(recvq[h])]
  <2>1. CASE h # Peer(g)
    <3>1. recvq'[Peer(g)] = recvq[Peer(g)] /\ got'[Peer(g)] = got[Peer(g)]
      BY <1>2, <1>5, <2>1
    <3> QED BY <1>1, <1>3, <3>1, KeepsAll
  <2>2. CASE h = Peer(g)
    <3> DEFINE R == recvq[Peer(g)]
               S == sendq[g]
               M == Moving(g)
    <3>1. R # <<>> /\ recvq'[Peer(g)] = Tail(R) /\ got'[Peer(g)] = Head(R)
      BY <1>2, <1>5, <2>2
    <3>2. /\ Transit(g) = (R \o M) \o S /\ Transit(g)' = (Tail(R) \o M) \o S
          /\ R \in Seq(Nat) /\ M \in Seq(Nat) /\ S \in Seq(Nat)
      BY <1>1, <1>3, <3>1, TransitParts, TransitPartsNext
    <3> HIDE DEF R, S, M
    <3>3. /\ R \o M # <<>> /\ Head(R \o M) = Head(R) /\ Tail(R \o M) = Tail(R) \o M
          /\ R \o M \in Seq(Nat)
      BY <3>1, <3>2, Seqs!FirstOfBoth, ConcatProperties
    <3>4. /\ (R \o M) \o S # <<>> /\ Head((R \o M) \o S) = Head(R)
          /\ Tail((R \o M) \o S) = (Tail(R) \o M) \o S
      <4> DEFINE q == R \o M
      <4>1. q \in Seq(Nat) /\ q # <<>> /\ Head(q) = Head(R) /\ Tail(q) = Tail(R) \o M
        BY <3>3
      <4> HIDE DEF q
      <4>2. q \o S # <<>> /\ Head(q \o S) = Head(q) /\ Tail(q \o S) = Tail(q) \o S
        BY <3>2, <4>1, Seqs!FirstOfBoth
      <4> QED BY <4>1, <4>2 DEF q
    <3> QED BY <1>1, <3>1, <3>2, <3>4 DEF LinkStep, Delivers
  <2> QED BY <2>1, <2>2
<1> QED BY <1>4, <1>5 DEF PktRecv

(* A packet that is taken off the queue is between the queues.             *)
LEMMA TakeStep ==
    ASSUME OrderInv, OrderInv', NEW a \in Actors, NEW g \in Hosts, Take(a)
    PROVE  LinkStep(g)
<1>1. /\ UNCHANGED <<recvq, nsent, got, net>> /\ pc[a] = "next" /\ ~side
      /\ pkt' = [pkt EXCEPT ![a] = IF sendq[Host(a)] = <<>> THEN 0 ELSE Head(sendq[Host(a)])]
      /\ sendq' = IF sendq[Host(a)] = <<>> THEN sendq
                  ELSE [sendq EXCEPT ![Host(a)] = Tail(sendq[Host(a)])]
  BY DEF Take, At, OrderInv
<1>2. /\ sendq \in [Hosts -> Seq(Nat)] /\ pkt \in [Actors -> Nat] /\ Host(a) \in Hosts
      /\ sendq[Host(a)] \in Seq(Nat \ {0})
  BY ActorFacts DEF OrderInv, TokenInv, TypeOK, Full
<1>3. /\ net[Peer(Host(a))][DataConn(Host(a))] = <<>> /\ pkt[a] = 0
      /\ \A b \in Actors : Host(b) = Host(a) => pkt[b] = 0
  <2>1. pkt[a] = 0 BY <1>1 DEF OrderInv, Holding
  <2> QED BY <1>1, <2>1, HoldersSend DEF Sending
<1>4. CASE g # Host(a)
  <2>1. Pipe(g) # a /\ Work(g) # a /\ Pipe(g) \in Actors /\ Work(g) \in Actors
    BY <1>4, ActorFacts
  <2>2. pkt'[Pipe(g)] = pkt[Pipe(g)] /\ pkt'[Work(g)] = pkt[Work(g)]
    BY <1>1, <1>2, <2>1
  <2>3. sendq'[g] = sendq[g] BY <1>1, <1>2, <1>4
  <2> QED BY <1>1, <2>2, <2>3, MovingStays, KeepsAll
<1>5. CASE g = Host(a) /\ sendq[g] = <<>>
  <2>1. pkt' = pkt BY <1>1, <1>2, <1>3, <1>5
  <2> QED BY <1>1, <1>5, <2>1, MovingStays, KeepsAll
<1>6. CASE g = Host(a) /\ sendq[g] # <<>>
  <2> DEFINE R == recvq[Peer(g)]
             S == sendq[g]
  <2>1. S # <<>> /\ sendq'[g] = Tail(S) /\ Head(S) \in Nat \ {0} /\ S \in Seq(Nat)
        /\ R \in Seq(Nat) /\ pkt'[a] = Head(S) /\ \A b \in Actors : b # a => pkt'[b] = pkt[b]
    <3>1. Head(S) \in Nat \ {0} BY <1>2, <1>6
    <3> QED BY <1>1, <1>2, <1>6, <3>1, TransitParts
  <2>2. Moving(g) = <<>> BY <1>3, <1>6, ActorFacts DEF Moving, Held
  <2>3. Moving(g)' = <<Head(S)>>
    <3>1. net'[Peer(g)][DataConn(g)] = <<>> BY <1>1, <1>3, <1>6
    <3>2. Pipe(g) \in Actors /\ Work(g) \in Actors /\ Pipe(g) # Work(g)
          /\ Host(Pipe(g)) = g /\ Host(Work(g)) = g /\ (a = Pipe(g) \/ a = Work(g))
      BY <1>6, ActorFacts
    <3>3. Moving(g)' = IF pkt'[Work(g)] # 0 THEN <<pkt'[Work(g)]>>
                       ELSE IF pkt'[Pipe(g)] = 0 THEN <<>> ELSE <<pkt'[Pipe(g)]>>
      BY <3>1 DEF Moving, Held, Peer, DataConn, Work, Pipe
    <3> QED BY <1>3, <1>6, <2>1, <3>2, <3>3
  <2>4. Transit(g) = (R \o <<>>) \o S /\ Transit(g)' = (R \o <<Head(S)>>) \o Tail(S)
    BY <1>1, <2>1, <2>2, <2>3, TransitParts, TransitPartsNext
  <2> HIDE DEF R, S
  <2>5. R \o <<>> = R /\ R \o <<Head(S)>> = Append(R, Head(S))
    BY <2>1, ConcatEmptySeq, AppendIsConcat
  <2>6. Append(R, Head(S)) \o Tail(S) = R \o S BY <2>1, Seqs!MovesOver
  <2>7. Transit(g)' = Transit(g) BY <2>4, <2>5, <2>6
  <2> QED BY <1>1, <2>7 DEF LinkStep, Keeps
<1> QED BY <1>4, <1>5, <1>6

(* A message carries what the thread held, unless the peer has closed.     *)
LEMMA WriteStep ==
    ASSUME OrderInv, OrderInv', NEW a \in Actors, NEW g \in Hosts, Write(a)
    PROVE  LinkStep(g)
<1> DEFINE h == Host(a)
           m == Data(pkt[a])
           c == SendConn(a)
<1>1. /\ h \in Hosts /\ Peer(h) \in Hosts /\ UNCHANGED <<recvq, sendq, nsent, got>>
      /\ pc[a] = "write" /\ pkt[a] \in Nat \ {0} /\ Send(h, c, m)
      /\ pkt' = [pkt EXCEPT ![a] = 0] /\ TypeOK
  <2>1. pkt[a] \in Nat \ {0} BY DEF Write, At, OrderInv, TokenInv, TypeOK, Full
  <2> QED BY <2>1, ActorFacts DEF Write, At, OrderInv, TokenInv, queueVars
<1>2. c = DataConn(h) /\ c \in Conns
  <2>1. CASE a = Pipe(h) BY <1>1, <2>1, ConnFacts DEF SendConn, Pipe
  <2>2. CASE a = Work(h)
    <3>1. HostInv(h) /\ WorkSends(h) BY <1>1, <2>2 DEF OrderInv, TokenInv, WorkSends, Sending
    <3> QED BY <1>1, <2>2, <3>1, ConnFacts DEF HostInv, SendConn, Work
  <2> QED BY <2>1, <2>2, ActorFacts
<1>3. m.pkt = pkt[a] BY DEF Data
<1>4. /\ net[Peer(h)][c] = <<>> /\ \A b \in Actors : Host(b) = h /\ b # a => pkt[b] = 0
  BY <1>1, <1>2, HoldersSend DEF Sending
<1>5. /\ pkt'[a] = 0 /\ \A b \in Actors : b # a => pkt'[b] = pkt[b]
  BY <1>1 DEF TypeOK
<1>6. \/ /\ net'[Peer(h)][c] = Append(net[Peer(h)][c], m)
         /\ \A k \in Hosts, d \in Conns : k # Peer(h) \/ d # c => net'[k][d] = net[k][d]
      \/ Closed(Peer(h)) /\ net' = net
  BY <1>1, <1>2, SendCases
<1> HIDE DEF h, m, c
<1>7. CASE g # h
  <2>1. Pipe(g) # a /\ Work(g) # a /\ Pipe(g) \in Actors /\ Work(g) \in Actors
    BY <1>7, ActorFacts DEF h
  <2>2. Peer(g) \in Hosts /\ Peer(g) # Peer(h) /\ DataConn(g) \in Conns
    BY <1>1, <1>7, TwoHosts, ActorFacts, ConnFacts
  <2>3. net'[Peer(g)][DataConn(g)] = net[Peer(g)][DataConn(g)] BY <1>6, <2>2
  <2> QED BY <1>1, <1>5, <2>1, <2>3, MovingStays, KeepsAll
<1>8. CASE g = h
  <2>1. /\ Pipe(g) \in Actors /\ Work(g) \in Actors /\ Pipe(g) # Work(g)
        /\ Host(Pipe(g)) = g /\ Host(Work(g)) = g /\ (a = Pipe(g) \/ a = Work(g))
    BY <1>8, ActorFacts DEF h
  <2>2. Moving(g) = <<pkt[a]>>
    BY <1>1, <1>2, <1>4, <1>8, <2>1 DEF Moving, Held
  <2>3. pkt'[Pipe(g)] = 0 /\ pkt'[Work(g)] = 0 BY <1>4, <1>5, <1>8, <2>1
  <2>4. Moving(g)' = LET in == net'[Peer(g)][DataConn(g)] IN
                     IF in # <<>> THEN <<Head(in).pkt>> ELSE <<>>
    BY <2>3 DEF Moving, Held, Peer, DataConn, Work, Pipe
  <2>5. CASE net'[Peer(h)][c] = Append(net[Peer(h)][c], m)
    <3>1. net'[Peer(g)][DataConn(g)] = <<m>>
      <4>1. Append(<<>>, m) = <<m>> OBVIOUS
      <4> QED BY <1>2, <1>4, <1>8, <2>5, <4>1
    <3>2. Moving(g)' = <<m.pkt>> BY <2>4, <3>1
    <3> QED BY <1>1, <1>3, <2>2, <3>2, KeepsAll
  <2>6. CASE Closed(Peer(h)) /\ net' = net
    <3>1. Stops BY <1>1, <2>6, ServesOpen DEF OrderInv
    <3>2. Moving(g)' = <<>> BY <1>2, <1>4, <1>8, <2>4, <2>6
    <3> QED BY <1>1, <3>1, <3>2, LosesMoving
  <2> QED BY <1>6, <2>5, <2>6
<1> QED BY <1>7, <1>8

(* An answer carries no packet.                                            *)
LEMMA ReplyStep ==
    ASSUME OrderInv, OrderInv', NEW h \in Hosts, NEW g \in Hosts, Reply(h)
    PROVE  LinkStep(g)
<1>1. /\ UNCHANGED <<recvq, sendq, nsent, got, pkt>> /\ Send(h, fd[h], Empty) /\ TypeOK
      /\ fd[h] = DataConn(Peer(h)) /\ fd[h] \in Conns /\ Peer(h) \in Hosts
  <2>1. HostInv(h) /\ pc[Work(h)] = "reply" BY DEF Reply, At, OrderInv, TokenInv
  <2> QED BY <2>1, ActorFacts, ConnFacts DEF Reply, HostInv, OrderInv, TokenInv, queueVars
<1>2. \A k \in Hosts, d \in Conns : k # Peer(h) \/ d # fd[h] => net'[k][d] = net[k][d]
  BY <1>1, SendCases
<1>3. Peer(g) \in Hosts /\ DataConn(g) \in Conns /\ (Peer(g) # Peer(h) \/ DataConn(g) # fd[h])
  BY <1>1 DEF Peer, DataConn, Hosts, Conns, Client, Server
<1> QED BY <1>1, <1>2, <1>3, MovingStays, KeepsAll

(* Nor does an answer that is read.                                        *)
LEMMA ReadEmptyStep ==
    ASSUME OrderInv, OrderInv', NEW h \in Hosts, NEW c \in Conns, NEW g \in Hosts,
           ReadEmpty(h, c)
    PROVE  LinkStep(g)
<1>1. /\ UNCHANGED <<recvq, sendq, nsent, got, pkt>> /\ net[h][c] # <<>>
      /\ Head(net[h][c]) = Empty /\ Consume(h, c) /\ TypeOK /\ Nets
  BY DEF ReadEmpty, OrderInv, TokenInv, queueVars
<1>2. c = DataConn(h) /\ \A k \in Hosts, d \in Conns : k # h \/ d # c => net'[k][d] = net[k][d]
  BY <1>1, ConsumeNet
<1>3. Peer(g) \in Hosts /\ DataConn(g) \in Conns /\ (Peer(g) # h \/ DataConn(g) # c)
  BY <1>2 DEF Peer, DataConn, Hosts, Conns, Client, Server
<1> QED BY <1>1, <1>2, <1>3, MovingStays, KeepsAll

(* A packet that is read is queued for the pipeline.                       *)
LEMMA ReadDataStep ==
    ASSUME OrderInv, OrderInv', NEW h \in Hosts, NEW c \in Conns, NEW g \in Hosts,
           ReadData(h, c)
    PROVE  LinkStep(g)
<1> DEFINE m == Head(net[h][c])
<1>1. /\ net[h][c] # <<>> /\ c = DataConn(Peer(h)) /\ net'[h][c] = <<>>
      /\ \A k \in Hosts, d \in Conns : k # h \/ d # c => net'[k][d] = net[k][d]
      /\ recvq' = [recvq EXCEPT ![h] = Append(@, m.pkt)]
      /\ UNCHANGED <<sendq, nsent, got, pkt>>
  BY ReadDataFacts
<1>2. recvq \in [Hosts -> Seq(Nat)] /\ Peer(g) \in Hosts /\ DataConn(g) \in Conns
  BY ActorFacts, ConnFacts DEF OrderInv, TokenInv, TypeOK
<1>3. CASE Peer(g) # h
  <2>1. recvq'[Peer(g)] = recvq[Peer(g)] /\ net'[Peer(g)][DataConn(g)] = net[Peer(g)][DataConn(g)]
    BY <1>1, <1>2, <1>3
  <2> QED BY <1>1, <2>1, MovingStays, KeepsAll
<1>4. CASE Peer(g) = h
  <2> DEFINE R == recvq[Peer(g)]
             S == sendq[g]
             k == m.pkt
  <2>1. c = DataConn(g) BY <1>1, <1>4, ConnFacts
  <2>2. k \in Nat \ {0} /\ pkt[Pipe(g)] = 0 /\ pkt[Work(g)] = 0 /\ Moving(g) = <<k>>
    BY <1>1, <1>4, <2>1, MessageIs, MessageAlone DEF Moving
  <2>3. Moving(g)' = <<>>
    <3>1. pkt'[Pipe(g)] = 0 /\ pkt'[Work(g)] = 0 /\ net'[Peer(g)][DataConn(g)] = <<>>
      BY <1>1, <1>4, <2>1, <2>2
    <3> QED BY <3>1 DEF Moving, Held, Peer, DataConn, Work, Pipe
  <2>4. recvq'[Peer(g)] = Append(R, k) BY <1>1, <1>2, <1>4
  <2>5. /\ Transit(g) = (R \o <<k>>) \o S /\ Transit(g)' = (Append(R, k) \o <<>>) \o S
        /\ R \in Seq(Nat) /\ S \in Seq(Nat)
    BY <1>1, <2>2, <2>3, <2>4, TransitParts, TransitPartsNext
  <2> HIDE DEF R, S, k
  <2>6. R \o <<k>> = Append(R, k) /\ Append(R, k) \in Seq(Nat)
    BY <2>2, <2>5, AppendIsConcat, AppendProperties
  <2>7. Append(R, k) \o <<>> = Append(R, k) BY <2>6, ConcatEmptySeq
  <2>8. Transit(g)' = Transit(g) BY <2>5, <2>6, <2>7
  <2> QED BY <1>1, <2>8 DEF LinkStep, Keeps
<1> QED BY <1>3, <1>4

(* A host that is stopped loses what a thread holds, then what has not yet *)
(* been read.                                                              *)
LEMMA StopSteps ==
    ASSUME OrderInv, OrderInv', NEW h \in Hosts, NEW g \in Hosts,
           PipelineStopped(h) \/ StopModule(h)
    PROVE  LinkStep(g)
<1>1. UNCHANGED <<sendq, recvq, nsent, got>> BY DEF PipelineStopped, StopModule, queueVars
<1>2. /\ Pipe(g) \in Actors /\ Work(g) \in Actors /\ Peer(g) \in Hosts /\ DataConn(g) \in Conns
      /\ TypeOK /\ Pipe(h) # Work(g)
  BY ActorFacts, ConnFacts DEF OrderInv, TokenInv
<1>3. CASE PipelineStopped(h)
  <2>1. Stops /\ UNCHANGED net /\ pkt' = [pkt EXCEPT ![Pipe(h)] = 0]
    BY <1>3 DEF PipelineStopped
  <2>2. pkt'[Work(g)] = pkt[Work(g)] /\ pkt'[Pipe(g)] \in {0, pkt[Pipe(g)]}
    BY <1>2, <2>1 DEF TypeOK
  <2>3. Moving(g)' \in {<<>>, Moving(g)}
    <3>1. CASE pkt'[Pipe(g)] = pkt[Pipe(g)] BY <2>1, <2>2, <3>1, MovingStays
    <3>2. CASE pkt'[Pipe(g)] = 0
      BY <2>1, <2>2, <3>2 DEF Moving, Held, Peer, DataConn, Work, Pipe
    <3> QED BY <2>2, <3>1, <3>2
  <2> QED BY <1>1, <2>1, <2>3, LosesMoving
<1>4. CASE StopModule(h)
  <2>1. Stops /\ UNCHANGED pkt /\ net' = [net EXCEPT ![h] = [c \in Conns |-> <<>>]]
    BY <1>4 DEF StopModule, OrderInv, Serves
  <2>2. net'[Peer(g)][DataConn(g)] \in {<<>>, net[Peer(g)][DataConn(g)]}
    BY <1>2, <2>1 DEF TypeOK
  <2>3. Moving(g)' \in {<<>>, Moving(g)}
    <3>1. CASE net'[Peer(g)][DataConn(g)] = net[Peer(g)][DataConn(g)]
      BY <2>1, <3>1, MovingStays
    <3>2. CASE net[Peer(g)][DataConn(g)] # <<>> /\ net'[Peer(g)][DataConn(g)] = <<>>
      <4>1. pkt'[Work(g)] = 0 /\ pkt'[Pipe(g)] = 0 BY <2>1, <3>2, MessageAlone
      <4> QED BY <3>2, <4>1 DEF Moving, Held, Peer, DataConn, Work, Pipe
    <3> QED BY <2>2, <3>1, <3>2
  <2> QED BY <1>1, <2>1, <2>3, LosesMoving
<1> QED BY <1>3, <1>4

(* Every step of the hosts is a step of the FIFO in each direction.        *)
LEMMA NextLink ==
    ASSUME ~Fragmenting, OrderInv, OrderInv', [Next]_vars, NEW g \in Hosts PROVE LinkStep(g)
<1>a. ASSUME UNCHANGED <<recvq, sendq, nsent, got, net, pkt>> PROVE LinkStep(g)
  BY <1>a, MovingStays, KeepsAll
<1>1. ASSUME NEW h \in Hosts, TestReady(h) \/ ReadClosed(h) PROVE LinkStep(g)
  BY <1>1, <1>a DEF TestReady, ReadClosed, queueVars
<1>2. ASSUME NEW a \in Actors, SetReady(a) PROVE LinkStep(g)
  BY <1>2, <1>a DEF SetReady, queueVars
<1>3. ASSUME NEW a \in Actors, SideSend(a) PROVE LinkStep(g)
  BY <1>3, SideKeeps DEF OrderInv
<1>4. ASSUME NEW h \in Hosts, NEW c \in Conns, ReadFragment(h, c) PROVE LinkStep(g)
  BY <1>4 DEF ReadFragment
<1>5. CASE UNCHANGED vars BY <1>5, <1>a DEF vars, queueVars
<1>6. ASSUME NEW h \in Hosts, NEW c \in Conns, ReadChunk(h, c) PROVE LinkStep(g)
  BY <1>6 DEF ReadChunk, OrderInv
<1> QED
  BY <1>1, <1>2, <1>3, <1>4, <1>5, <1>6, EnqueueStep, PktRecvStep, TakeStep, WriteStep, ReplyStep,
     ReadEmptyStep, ReadDataStep, StopSteps, ActorFacts
  DEF Next, PipeStep, WorkStep, SendNext

(* In normal mode, as long as read() returns whole messages, each direction*)
(* delivers all packets, in order and once, however the threads of the two *)
(* hosts interleave; hosts that stop lose packets, but none is repeated or *)
(* overtaken.                                                              *)
THEOREM LinkIsFifo == ASSUME ~Fragmenting, TRUE \notin Modes PROVE Spec => Fifo
<1>0. Client \in Hosts /\ Server \in Hosts /\ Peer(Client) = Server /\ Peer(Server) = Client
  BY DEF Hosts, Peer, Client, Server
<1>1. Init => Upstream!Init /\ Downstream!Init
  <2> SUFFICES ASSUME Init PROVE Upstream!Init /\ Downstream!Init
    OBVIOUS
  <2>1. OrderInv BY InitOrder
  <2>2. ASSUME NEW g \in Hosts PROVE Transit(g) = <<>> /\ nsent[g] = 0 /\ got[Peer(g)] = 0
    <3>1. recvq[Peer(g)] = <<>> /\ sendq[g] = <<>> /\ nsent[g] = 0 /\ got[Peer(g)] = 0
      BY ActorFacts DEF Init
    <3>2. Moving(g) = <<>> BY ActorFacts, ConnFacts DEF Init, Moving, Held
    <3>3. <<>> \o <<>> \o <<>> = <<>> OBVIOUS
    <3> QED BY <2>1, <3>1, <3>2, <3>3, TransitParts
  <2> QED BY <1>0, <2>2 DEF Upstream!Init, Downstream!Init
<1>2. OrderInv /\ OrderInv' /\ [Next]_vars
        => [Upstream!Next]_Upstream!vars /\ [Downstream!Next]_Downstream!vars
  <2> SUFFICES ASSUME OrderInv, OrderInv', [Next]_vars
               PROVE  [Upstream!Next]_Upstream!vars /\ [Downstream!Next]_Downstream!vars
    OBVIOUS
  <2>1. LinkStep(Client) /\ LinkStep(Server) BY <1>0, NextLink
  <2>2. [Upstream!Next]_Upstream!vars
    BY <1>0, <2>1 DEF LinkStep, Accepts, Delivers, Keeps, Drops, Seqs!Remains,
         Upstream!Next, Upstream!Accept, Upstream!Deliver, Upstream!Lose, Upstream!vars
  <2>3. [Downstream!Next]_Downstream!vars
    BY <1>0, <2>1 DEF LinkStep, Accepts, Delivers, Keeps, Drops, Seqs!Remains,
         Downstream!Next, Downstream!Accept, Downstream!Deliver, Downstream!Lose,
         Downstream!vars
  <2> QED BY <2>2, <2>3
<1>3. Init => OrderInv BY InitOrder
<1>4. OrderInv /\ [Next]_vars => OrderInv' BY NextOrder
<1> QED BY <1>1, <1>2, <1>3, <1>4, PTL DEF Spec, Fifo, Upstream!Spec, Downstream!Spec

-----------------------------------------------------------------------------
(* The bodies of messages: base64.                                         *)

(* Three bytes become four symbols, the last of which may be missing.      *)
LEMMA Groups ==
    ASSUME NEW n \in Nat
    PROVE  /\ EncLen(n) \in Nat /\ Lacking(n) \in 0..2 /\ EncLen(n) % 4 = 0
           /\ 3 * (EncLen(n) \div 4) - Lacking(n) = n
           /\ n > 0 => EncLen(n) >= 4
BY DEF EncLen, Lacking

(* A symbol has a place in a group of four,                                *)
LEMMA Place4 ==
    ASSUME NEW k \in Nat \ {0}
    PROVE  \E g \in Nat, i \in 1..4 : /\ k = 4 * g + i /\ (k - 1) \div 4 = g
                                      /\ i = 4 => k % 4 = 0
                                      /\ i # 4 => k % 4 = i
<1> DEFINE g == (k - 1) \div 4
<1>1. g \in Nat /\ k - 4 * g \in 1..4 OBVIOUS
<1>2. k - 4 * g = 4 => k % 4 = 0 OBVIOUS
<1>3. k - 4 * g # 4 => k % 4 = k - 4 * g OBVIOUS
<1> QED BY <1>1, <1>2, <1>3

(* a byte one in a group of three.                                         *)
LEMMA Place3 ==
    ASSUME NEW k \in Nat \ {0}
    PROVE  \E g \in Nat, i \in 1..3 : /\ k = 3 * g + i /\ (k - 1) \div 3 = g
                                      /\ i = 3 => k % 3 = 0
                                      /\ i # 3 => k % 3 = i
<1> DEFINE g == (k - 1) \div 3
<1>1. g \in Nat /\ k - 3 * g \in 1..3 OBVIOUS
<1>2. k - 3 * g = 3 => k % 3 = 0 OBVIOUS
<1>3. k - 3 * g # 3 => k % 3 = k - 3 * g OBVIOUS
<1> QED BY <1>1, <1>2, <1>3

(* The bits of three bytes are all in four symbols.                        *)
LEMMA Bits ==
    ASSUME NEW a \in Bytes, NEW b \in Bytes, NEW c \in Bytes
    PROVE  LET s1 == a \div 4
               s2 == (b \div 16) + ((a * 16) % 64)
               s3 == (c \div 64) + ((b * 4) % 64)
               s4 == c % 64
           IN  /\ s1 \in Alphabet /\ s2 \in Alphabet /\ s3 \in Alphabet /\ s4 \in Alphabet
               /\ ((s1 * 4) % 256) + (s2 \div 16) = a
               /\ ((s2 * 16) % 256) + (s3 \div 4) = b
               /\ ((s3 * 64) % 256) + s4 = c
<1> DEFINE p == a \div 4  q == a % 4
           r == b \div 16  s == b % 16
           u == c \div 64  v == c % 64
<1>1. /\ a = 4 * p + q /\ p \in 0..63 /\ q \in 0..3
      /\ b = 16 * r + s /\ r \in 0..15 /\ s \in 0..15
      /\ c = 64 * u + v /\ u \in 0..3 /\ v \in 0..63
  BY DEF Bytes
<1>2. (a * 16) % 64 = 16 * q /\ (b * 4) % 64 = 4 * s
  <2> HIDE DEF p, q, r, s
  <2>1. a * 16 = 64 * p + 16 * q /\ 16 * q \in 0..63 BY <1>1
  <2>2. b * 4 = 64 * r + 4 * s /\ 4 * s \in 0..63 BY <1>1
  <2> QED BY <1>1, <2>1, <2>2
<1> HIDE DEF q, r, s, u
<1>3. /\ r + 16 * q \in Alphabet /\ u + 4 * s \in Alphabet
      /\ p \in Alphabet /\ v \in Alphabet
  BY <1>1 DEF Alphabet
<1>4. /\ (p * 4) % 256 = 4 * p /\ (r + 16 * q) \div 16 = q
      /\ ((r + 16 * q) * 16) % 256 = 16 * r /\ (u + 4 * s) \div 4 = s
      /\ ((u + 4 * s) * 64) % 256 = 64 * u
  <2> HIDE DEF p, v
  <2>1. (p * 4) % 256 = 4 * p /\ (r + 16 * q) \div 16 = q /\ (u + 4 * s) \div 4 = s
    BY <1>1
  <2>2. (r + 16 * q) * 16 = 256 * q + 16 * r /\ 16 * r \in 0..255 BY <1>1
  <2>3. (u + 4 * s) * 64 = 256 * s + 64 * u /\ 64 * u \in 0..255 BY <1>1
  <2> QED BY <1>1, <2>1, <2>2, <2>3
<1> QED BY <1>1, <1>2, <1>3, <1>4 DEF p, r, u, v

(* The byte at a position, or what stands for one that lacks.              *)
ByteAt(data, j) == IF j \in DOMAIN data THEN data[j] ELSE 0

(* It is a byte in any case.                                               *)
LEMMA ByteInBytes ==
    ASSUME NEW data \in Seq(Bytes), NEW j \in Nat
    PROVE  ByteAt(data, j) \in Bytes
<1>1. \A i \in DOMAIN data : data[i] \in Bytes OBVIOUS
<1> QED BY <1>1 DEF ByteAt, Bytes

(* The symbols of a group.                                                 *)
LEMMA SextetIs ==
    ASSUME NEW data \in Seq(Bytes), NEW g \in Nat
    PROVE  LET a == ByteAt(data, 3 * g + 1)
               b == ByteAt(data, 3 * g + 2)
               c == ByteAt(data, 3 * g + 3)
           IN  /\ Sextet(data, 4 * g + 1) = a \div 4
               /\ Sextet(data, 4 * g + 2) = (b \div 16) + ((a * 16) % 64)
               /\ Sextet(data, 4 * g + 3) = (c \div 64) + ((b * 4) % 64)
               /\ Sextet(data, 4 * g + 4) = c % 64
<1> DEFINE a == ByteAt(data, 3 * g + 1)
           b == ByteAt(data, 3 * g + 2)
           c == ByteAt(data, 3 * g + 3)
<1>1. ASSUME NEW i \in 1..4 PROVE (4 * g + i - 1) \div 4 = g
  OBVIOUS
<1>2. (4 * g + 1) % 4 = 1 /\ (4 * g + 2) % 4 = 2 /\ (4 * g + 3) % 4 = 3 /\ (4 * g + 4) % 4 = 0
  OBVIOUS
<1>3. Sextet(data, 4 * g + 1) = a \div 4
  <2>1. ((4 * g + 1) - 1) \div 4 = g OBVIOUS
  <2> QED BY <1>2, <2>1 DEF Sextet, ByteAt
<1>4. Sextet(data, 4 * g + 2) = (b \div 16) + ((a * 16) % 64)
  <2> DEFINE k == 4 * g + 2
  <2>1. (k - 1) \div 4 = g OBVIOUS
  <2>2. k % 4 = 2 BY <1>2
  <2> HIDE DEF a, b, c, k
  <2>3. /\ (IF 3 * g + 1 \in DOMAIN data THEN data[3 * g + 1] ELSE 0) = a
        /\ (IF 3 * g + 2 \in DOMAIN data THEN data[3 * g + 2] ELSE 0) = b
    BY DEF a, b, ByteAt
  <2>4. Sextet(data, k) = (b \div 16) + ((a * 16) % 64)
    BY <2>1, <2>2, <2>3 DEF Sextet
  <2> QED BY <2>4 DEF k
<1>5. Sextet(data, 4 * g + 3) = (c \div 64) + ((b * 4) % 64)
  <2>1. ((4 * g + 3) - 1) \div 4 = g OBVIOUS
  <2> QED BY <1>2, <2>1 DEF Sextet, ByteAt
<1>6. Sextet(data, 4 * g + 4) = c % 64
  <2>1. ((4 * g + 4) - 1) \div 4 = g OBVIOUS
  <2> QED BY <1>2, <2>1 DEF Sextet, ByteAt
<1> QED BY <1>3, <1>4, <1>5, <1>6

(* All of them are in the alphabet.                                        *)
LEMMA SextetInAlphabet ==
    ASSUME NEW data \in Seq(Bytes), NEW k \in Nat \ {0}
    PROVE  Sextet(data, k) \in Alphabet
<1>1. PICK g \in Nat, i \in 1..4 : k = 4 * g + i BY Place4
<1> DEFINE a == ByteAt(data, 3 * g + 1)
           b == ByteAt(data, 3 * g + 2)
           c == ByteAt(data, 3 * g + 3)
<1>2. a \in Bytes /\ b \in Bytes /\ c \in Bytes BY ByteInBytes
<1>3. /\ Sextet(data, 4 * g + 1) = a \div 4
      /\ Sextet(data, 4 * g + 2) = (b \div 16) + ((a * 16) % 64)
      /\ Sextet(data, 4 * g + 3) = (c \div 64) + ((b * 4) % 64)
      /\ Sextet(data, 4 * g + 4) = c % 64
  BY SextetIs
<1> HIDE DEF a, b, c
<1>4. /\ (a \div 4) \in Alphabet /\ (b \div 16) + ((a * 16) % 64) \in Alphabet
      /\ (c \div 64) + ((b * 4) % 64) \in Alphabet /\ c % 64 \in Alphabet
  BY <1>2, Bits
<1>5. i = 1 \/ i = 2 \/ i = 3 \/ i = 4 OBVIOUS
<1> QED BY <1>1, <1>3, <1>4, <1>5

(* The symbols of a body that was cut.                                     *)
LEMMA CutBody ==
    ASSUME NEW data \in Seq(Bytes), NEW n \in 0..EncLen(Len(data))
    PROVE  LET body == SubSeq(Enc(data), 1, n)
               full == EncLen(Len(data)) - Lacking(Len(data))
           IN  /\ Len(body) = n
               /\ \A k \in 1..n : k > full => body[k] = Pad
               /\ \A k \in 1..n : k <= full => body[k] = Sextet(data, k) /\ body[k] \in Alphabet
<1> DEFINE N == EncLen(Len(data))
           full == N - Lacking(Len(data))
           e == Enc(data)
           body == SubSeq(e, 1, n)
<1>1. Len(data) \in Nat /\ N \in Nat /\ Lacking(Len(data)) \in 0..2 BY Groups
<1>2. e = [k \in 1..N |-> IF k > full THEN Pad ELSE Sextet(data, k)]
  BY DEF Enc
<1> HIDE DEF N, full, e
<1>3. \A k \in 1..N : Sextet(data, k) \in Alphabet
  BY <1>1, SextetInAlphabet
<1>4. e \in Seq(Alphabet \cup {Pad}) /\ Len(e) = N
  <2>1. \A k \in 1..N : (IF k > full THEN Pad ELSE Sextet(data, k)) \in Alphabet \cup {Pad}
    BY <1>3
  <2> QED BY <1>1, <1>2, <2>1
<1>5. n \in 0..N BY DEF N
<1>6. Len(body) = n /\ \A k \in 1..n : body[k] = e[k]
  BY <1>1, <1>4, <1>5
<1>7. \A k \in 1..n : k \in 1..N BY <1>1, <1>5
<1>8. full \in Int BY <1>1 DEF full
<1>9. \A k \in 1..n : k > full => body[k] = Pad
  BY <1>2, <1>6, <1>7
<1>10. \A k \in 1..n : k <= full => body[k] = Sextet(data, k) /\ body[k] \in Alphabet
  BY <1>2, <1>3, <1>6, <1>7, <1>8
<1> QED BY <1>6, <1>9, <1>10 DEF N, full, e

(* The lengths of what is left of the text, and of what it decodes to.     *)
LEMMA CutLengths ==
    ASSUME NEW L \in Nat, NEW n \in 0..EncLen(L), n % 4 = 0
    PROVE  LET D == IF n = EncLen(L) THEN L ELSE 3 * (n \div 4)
               full == EncLen(L) - Lacking(L)
           IN  /\ D \in 0..L
               /\ n = EncLen(L) => 3 * (n \div 4) - Lacking(L) = D
               /\ n # EncLen(L) => n <= full - 2
               /\ Used(D) \in 0..n /\ Used(D) <= full
               /\ n > 0 => n >= 4
               /\ n <= EncLen(L)
<1> DEFINE N == EncLen(L)  lack == Lacking(L)
<1>1. /\ N \in Nat /\ lack \in 0..2 /\ N % 4 = 0 /\ 3 * (N \div 4) - lack = L
  BY Groups
<1> HIDE DEF N, lack
<1>2. n \in 0..N BY DEF N
<1>3. CASE n = N
  <2>1. 4 * (n \div 4) = n BY <1>1, <1>3
  <2>2. Used(L) = n - lack BY <1>1, <1>3, <2>1 DEF Used
  <2>3. n > 0 => n >= 4 BY <2>1, <1>1, <1>3
  <2>4. lack <= n BY <1>1, <1>3, <2>1
  <2> QED BY <1>1, <1>3, <2>1, <2>2, <2>3, <2>4 DEF N, lack
<1>4. CASE n # N
  <2>1. 4 * (n \div 4) = n /\ 4 * (N \div 4) = N BY <1>1, <1>2
  <2>2. n <= N - 4 /\ (n > 0 => n >= 4) BY <1>1, <1>2, <1>4, <2>1
  <2>3. Used(3 * (n \div 4)) = n BY <1>2, <2>1 DEF Used
  <2>4. 3 * (n \div 4) \in 0..L BY <1>1, <1>2, <2>1, <2>2
  <2> QED BY <1>1, <1>2, <1>4, <2>2, <2>3, <2>4 DEF N, lack
<1> QED BY <1>3, <1>4

(* Which symbols a byte is from.                                           *)
LEMMA ByteIs ==
    ASSUME NEW text, NEW j \in Nat, NEW g \in Nat, (j - 1) \div 3 = g
    PROVE  /\ j % 3 = 1 =>
                  Byte(text, j) = ((text[4 * g + 1] * 4) % 256) + (text[4 * g + 2] \div 16)
           /\ j % 3 = 2 =>
                  Byte(text, j) = ((text[4 * g + 2] * 16) % 256) + (text[4 * g + 3] \div 4)
           /\ j % 3 = 0 =>
                  Byte(text, j) = ((text[4 * g + 3] * 64) % 256) + text[4 * g + 4]
BY DEF Byte

(* Each byte that is complete is the byte that was encoded.                *)
LEMMA BytesAreBack ==
    ASSUME NEW data \in Seq(Bytes), NEW text, NEW D \in 0..Len(data),
           \A k \in 1..Used(D) : text[k] = Sextet(data, k),
           NEW j \in 1..D
    PROVE  Byte(text, j) = data[j]
<1>1. PICK g \in Nat, i \in 1..3 : /\ j = 3 * g + i /\ (j - 1) \div 3 = g
                                   /\ i = 3 => j % 3 = 0
                                   /\ i # 3 => j % 3 = i
  BY Place3
<1> DEFINE a == ByteAt(data, 3 * g + 1)
           b == ByteAt(data, 3 * g + 2)
           c == ByteAt(data, 3 * g + 3)
           s1 == Sextet(data, 4 * g + 1)
           s2 == Sextet(data, 4 * g + 2)
           s3 == Sextet(data, 4 * g + 3)
           s4 == Sextet(data, 4 * g + 4)
<1>2. a \in Bytes /\ b \in Bytes /\ c \in Bytes BY ByteInBytes
<1>3. /\ s1 = a \div 4 /\ s2 = (b \div 16) + ((a * 16) % 64)
      /\ s3 = (c \div 64) + ((b * 4) % 64) /\ s4 = c % 64
  BY SextetIs
<1>4. /\ i = 1 => data[j] = a
      /\ i = 2 => data[j] = b
      /\ i = 3 => data[j] = c
  BY <1>1 DEF ByteAt
<1> HIDE DEF a, b, c
<1>5. /\ ((s1 * 4) % 256) + (s2 \div 16) = a
      /\ ((s2 * 16) % 256) + (s3 \div 4) = b
      /\ ((s3 * 64) % 256) + s4 = c
  <2> HIDE DEF s1, s2, s3, s4
  <2> QED BY <1>2, <1>3, Bits
<1>6. /\ 4 * g + i \in 1..Used(D) /\ 4 * g + i + 1 \in 1..Used(D)
  BY <1>1 DEF Used
<1>7. text[4 * g + i] = Sextet(data, 4 * g + i) /\ text[4 * g + i + 1] = Sextet(data, 4 * g + i + 1)
  BY <1>6
<1>8. CASE i = 1
  <2>1. text[4 * g + 1] = s1 /\ text[4 * g + 2] = s2 BY <1>7, <1>8
  <2>2. Byte(text, j) = ((text[4 * g + 1] * 4) % 256) + (text[4 * g + 2] \div 16)
    <3>1. j % 3 = 1 /\ (j - 1) \div 3 = g BY <1>1, <1>8
    <3> QED BY <3>1, ByteIs
  <2> QED BY <1>4, <1>5, <1>8, <2>1, <2>2
<1>9. CASE i = 2
  <2>1. text[4 * g + 2] = s2 /\ text[4 * g + 3] = s3 BY <1>7, <1>9
  <2>2. Byte(text, j) = ((text[4 * g + 2] * 16) % 256) + (text[4 * g + 3] \div 4)
    <3>1. j % 3 = 2 /\ (j - 1) \div 3 = g BY <1>1, <1>9
    <3> QED BY <3>1, ByteIs
  <2> QED BY <1>4, <1>5, <1>9, <2>1, <2>2
<1>10. CASE i = 3
  <2>1. text[4 * g + 3] = s3 /\ text[4 * g + 4] = s4 BY <1>7, <1>10
  <2>2. Byte(text, j) = ((text[4 * g + 3] * 64) % 256) + text[4 * g + 4]
    <3>1. j % 3 = 0 /\ (j - 1) \div 3 = g BY <1>1, <1>10
    <3> QED BY <3>1, ByteIs
  <2> QED BY <1>4, <1>5, <1>10, <2>1, <2>2
<1> QED BY <1>8, <1>9, <1>10

(* Decoding inverts encoding for data of any length (base64.c), and a text *)
(* that is cut anywhere decodes to a beginning of the data or is not valid.*)
THEOREM TextSurvivesCuts ==
    ASSUME NEW data \in Seq(Bytes) PROVE SurvivesCuts(data)
<1> SUFFICES ASSUME NEW n \in 0..EncLen(Len(data))
             PROVE  LET body == SubSeq(Enc(data), 1, n)
                    IN  /\ IsValid(body) <=> n % 4 = 0
                        /\ IsValid(body) =>
                              Dec(body) = IF n = EncLen(Len(data)) THEN data
                                          ELSE SubSeq(data, 1, 3 * (n \div 4))
  BY DEF SurvivesCuts
<1> DEFINE L == Len(data)
           N == EncLen(L)
           lack == Lacking(L)
           full == N - lack
           body == SubSeq(Enc(data), 1, n)
           D == IF n = N THEN L ELSE 3 * (n \div 4)
<1>1. L \in Nat /\ N \in Nat /\ lack \in 0..2 BY Groups
<1>2. /\ Len(body) = n
      /\ \A k \in 1..n : k > full => body[k] = Pad
      /\ \A k \in 1..n : k <= full => body[k] = Sextet(data, k) /\ body[k] \in Alphabet
  BY CutBody
<1>3. IsValid(body) => n % 4 = 0 BY <1>2 DEF IsValid
<1>4. ASSUME n % 4 = 0
      PROVE  /\ D \in 0..L
             /\ n = N => 3 * (n \div 4) - lack = D
             /\ n # N => n <= full - 2
             /\ Used(D) \in 0..n /\ Used(D) <= full
             /\ n > 0 => n >= 4
             /\ n <= N
  BY <1>1, <1>4, CutLengths
<1> HIDE DEF L, N, lack, full, body
<1>5. full \in Int /\ n \in Nat /\ full = N - lack BY <1>1 DEF full, N
<1>6. ASSUME n % 4 = 0, n > 0
      PROVE  /\ body[n] = Pad <=> (n = N /\ lack >= 1)
             /\ body[n - 1] = Pad <=> (n = N /\ lack = 2)
             /\ n - 1 > 0
             /\ n = N /\ lack = 2 => body[n - 2] # Pad
  <2>1. n \in 1..n /\ n - 1 \in 1..n /\ n - 2 \in 1..n BY <1>4, <1>5, <1>6
  <2>2. \A k \in 1..n : body[k] = Pad <=> k > full
    <3> TAKE k \in 1..n
    <3>1. CASE k > full BY <1>2, <3>1
    <3>2. CASE k <= full
      <4>1. body[k] \in 0..63 BY <1>2, <3>2 DEF Alphabet
      <4>2. \A x \in 0..63 : x # Pad BY DEF Pad
      <4>3. body[k] # Pad BY <4>1, <4>2
      <4>4. ~ (k > full) BY <1>5, <3>2
      <4> QED BY <4>3, <4>4
    <3> QED BY <1>5, <3>1, <3>2
  <2> QED BY <1>1, <1>4, <1>5, <1>6, <2>1, <2>2
<1>7. ASSUME n % 4 = 0 PROVE IsValid(body)
  <2> DEFINE strip(m) == IF m > 0 /\ body[m] = Pad THEN m - 1 ELSE m
  <2>1. strip(strip(n)) <= full /\ strip(strip(n)) \in 0..n
    <3>1. CASE n = 0
      <4>1. full >= 0 BY <1>1, <1>4, <1>5, <1>7, <3>1 DEF Used
      <4> QED BY <3>1, <4>1
    <3>2. CASE n > 0
      BY <1>1, <1>4, <1>5, <1>6, <1>7, <3>2
    <3> QED BY <1>5, <3>1, <3>2
  <2>2. \A i \in 1..strip(strip(n)) : body[i] \in Alphabet
    <3> HIDE DEF strip
    <3> QED BY <1>2, <1>5, <2>1
  <2> QED BY <1>2, <1>7, <2>2 DEF IsValid
<1>8. ASSUME n % 4 = 0 PROVE DecLen(body) = D
  <2>1. CASE n = 0 BY <1>1, <1>2, <1>4, <1>5, <1>8, <2>1 DEF DecLen
  <2>2. CASE n > 0
    BY <1>1, <1>2, <1>4, <1>5, <1>6, <1>8, <2>2 DEF DecLen
  <2> QED BY <1>5, <2>1, <2>2
<1>9. ASSUME n % 4 = 0
      PROVE  Dec(body) = IF n = N THEN data ELSE SubSeq(data, 1, 3 * (n \div 4))
  <2>1. \A k \in 1..Used(D) : body[k] = Sextet(data, k) /\ body[k] \in Alphabet
    <3>1. Used(D) \in 0..n /\ Used(D) <= full BY <1>4, <1>9
    <3> HIDE DEF D
    <3> QED BY <1>2, <1>5, <3>1
  <2>2. D \in 0..Len(data) BY <1>4, <1>9 DEF L
  <2>3. DecLen(body) = D BY <1>8, <1>9
  <2> HIDE DEF D
  <2>4. \A j \in 1..D : Byte(body, j) = data[j] BY <2>1, <2>2, BytesAreBack
  <2>5. Dec(body) = [j \in 1..D |-> data[j]] BY <2>1, <2>3, <2>4 DEF Dec
  <2>6. SubSeq(data, 1, D) = [j \in 1..D |-> data[j]]
    <3> DEFINE f == [j \in 1..D |-> data[j]]
               s == SubSeq(data, 1, D)
    <3>1. s \in Seq(Bytes) /\ Len(s) = D /\ \A j \in 1..D : s[j] = data[j] BY <2>2
    <3>2. f \in Seq(Bytes) /\ Len(f) = D /\ \A j \in 1..D : f[j] = data[j] BY <2>2
    <3> HIDE DEF f, s
    <3>3. s = f BY <3>1, <3>2, SeqEqual
    <3> QED BY <3>3 DEF f, s
  <2>7. n = N => data = SubSeq(data, 1, D) BY <2>2, <1>1 DEF D, L
  <2> QED BY <2>5, <2>6, <2>7 DEF D
<1> QED BY <1>3, <1>7, <1>9 DEF body, N, L

(* Whatever a packet holds that waits to be read, and wherever its body is *)
(* cut, it is not taken for a packet that the other host did not send, or  *)
(* send the beginning of.                                                  *)
THEOREM CutsAreHarmless == Spec => []CutsAreCaughtOrShort
<1>1. BodiesSurvive
  BY HttpAssumption, TextSurvivesCuts DEF HttpAssumption, BodiesSurvive
<1>2. CutsAreCaughtOrShort BY <1>1 DEF CutsAreCaughtOrShort
<1> QED BY <1>2, PTL
=============================================================================
