------------------------------- MODULE TpHttp -------------------------------
(***************************************************************************)
(* The HTTP transport (modules/tp_http.c): two hosts joined by two TCP     *)
(* connections.  The client sends its packets on connection 0 as requests, *)
(* the server sends its packets on connection 1 as responses; whoever gets *)
(* data answers with an empty message ("GET /" or "200 OK"), which lets the*)
(* other side send its next packet.  On each host the pipeline's thread and*)
(* the worker thread share the queues, thc_send_ready and thc_send_offset. *)
(*                                                                         *)
(* Packets are numbered in the order in which the pipeline hands them over;*)
(* what the messages look like is left out, but a message knows which part *)
(* of which packet it carries.  On the side channel a packet of 16 * Chunks*)
(* bytes takes Chunks messages of 16 bytes.                                *)
(***************************************************************************)
EXTENDS Base64, Functions

CONSTANTS
    MaxSent,      \* bound: MaxSent[h] messages are enough for the packets of host h
    Modes,        \* the values of http.side_channel, which both hosts have
    Chunks,       \* messages that one packet takes on the side channel
    Fragmenting,  \* may read() return a part of a message, in normal mode
    FastAnswers,  \* hosts that may read an answer while the thread that has sent
                  \* on the side channel still updates thc_send_offset
    Stops,        \* may the hosts stop their modules
    Bodies        \* bound: what the packets may hold

Client == "client"
Server == "server"
Hosts == {Client, Server}
Peer(h) == IF h = Client THEN Server ELSE Client
Conns == {0, 1}
DataConn(h) == IF h = Client THEN 0 ELSE 1      \* tp_http_pkt_send()

ASSUME HttpAssumption ==
    /\ MaxSent \in [Hosts -> Nat] /\ Chunks \in Nat \ {0}
    /\ Modes \subseteq BOOLEAN /\ Fragmenting \in BOOLEAN /\ Stops \in BOOLEAN
    /\ FastAnswers \subseteq Hosts
    /\ Bodies \subseteq Seq(Bytes)

Pipe(h) == <<h, "pipe">>
Work(h) == <<h, "work">>
Actors == Hosts \X {"pipe", "work"}
Host(a) == a[1]
Rest(a) == IF a[2] = "pipe" THEN "idle" ELSE "poll"

VARIABLES
    side,      \* thc_is_side_channel
    sendq,     \* thc_send_q
    recvq,     \* thc_recv_q
    ready,     \* thc_send_ready
    offset,    \* thc_send_offset, in parts of a packet
    rpkt,      \* thc_recv_pkt: the packet being put together, 0 for NULL
    rparts,    \* thc_recv_offset, in parts of a packet
    net,       \* net[h][c]: what host h can read from connection c
    pc,        \* where each thread is
    pkt,       \* the packet a thread's pkt points to, 0 for NULL
    msg,       \* side channel: the message that a thread puts together
    sum,       \* side channel: what a thread stores in thc_send_offset
    returned,  \* side channel: the packets given to pppoat_packet_put()
    fd,        \* the connection the worker answers on
    failed,    \* the PPPOAT_ASSERT that ended the process, or "none"
    nsent,     \* packets handed over so far
    got        \* the packet that tp_http_pkt_recv() returned last

queueVars == <<sendq, recvq, nsent, got>>
sendVars == <<ready, offset>>
recvVars == <<rpkt, rparts>>
sideVars == <<msg, sum, returned>>
vars == <<side, queueVars, sendVars, recvVars, net, pc, pkt, sideVars, fd, failed>>

Parts == IF side THEN Chunks ELSE 1     \* the messages that a packet takes

CompleteLate(parts) == parts > Parts    \* mutant: > for >=
Complete(parts) == parts >= Parts       \* thc_..._offset >= pkt->pkt_size

(* Messages: part 0 is no data at all, head is the size of a new packet.   *)
Messages == [pkt : Nat, part : Nat, head : BOOLEAN]
Empty == [pkt |-> 0, part |-> 0, head |-> FALSE]
Data(k) == [pkt |-> k, part |-> 1, head |-> TRUE]

Up(h) == failed[h] = "none"
Closed(h) == ~Up(h) \/ pc[Work(h)] = "gone"
At(a, label) == Up(Host(a)) /\ pc[a] = label
Goto(a, label) == pc' = [pc EXCEPT ![a] = label]
Fail(h, assertion) ==
    failed' = [failed EXCEPT ![h] = assertion]

-----------------------------------------------------------------------------
(* The pipeline's thread: tp_http_process().                               *)

(* mop_process(NULL); without a packet the pipeline asks again at once.    *)
PktRecv(h) ==
    /\ Up(h) /\ pc[Pipe(h)] # "gone"
    /\ IF recvq[h] = <<>> THEN UNCHANGED <<recvq, got>>
       ELSE /\ recvq' = [recvq EXCEPT ![h] = Tail(@)]
            /\ got' = [got EXCEPT ![h] = Head(recvq[h])]
    /\ UNCHANGED <<side, sendq, nsent, sendVars, recvVars, net, pc, pkt, sideVars, fd, failed>>

Enqueue(h) ==
    /\ At(Pipe(h), "idle")
    /\ nsent[h] * Parts < MaxSent[h]
    /\ nsent' = [nsent EXCEPT ![h] = @ + 1]
    /\ sendq' = [sendq EXCEPT ![h] = Append(@, nsent'[h])]
    /\ Goto(Pipe(h), "test")
    /\ UNCHANGED <<side, recvq, got, sendVars, recvVars, net, pkt, sideVars, fd, failed>>

TestReadyAlways(h) ==                   \* mutant: does not wait for the answer
    /\ At(Pipe(h), "test")
    /\ Goto(Pipe(h), "next")
    /\ UNCHANGED <<side, queueVars, sendVars, recvVars, net, pkt, sideVars, fd, failed>>

TestReady(h) ==
    /\ At(Pipe(h), "test")
    /\ Goto(Pipe(h), IF ready[h] THEN "next" ELSE "idle")
    /\ UNCHANGED <<side, queueVars, sendVars, recvVars, net, pkt, sideVars, fd, failed>>

-----------------------------------------------------------------------------
(* tp_http_send_next(), called by either thread.  In normal mode a thread  *)
(* takes the packet off the queue; on the side channel it only looks.      *)

Take(a) ==
    LET q == sendq[Host(a)] IN
    /\ At(a, "next")
    /\ pkt' = [pkt EXCEPT ![a] = IF q = <<>> THEN 0 ELSE Head(q)]
    /\ sendq' = IF side \/ q = <<>> THEN sendq
                ELSE [sendq EXCEPT ![Host(a)] = Tail(q)]
    /\ Goto(a, "flag")
    /\ UNCHANGED <<side, recvq, nsent, got, sendVars, recvVars, net, sideVars, fd, failed>>

SetReadyOnce(a) ==                      \* mutant: cleared, but never set again
    /\ At(a, "flag")
    /\ ready' = [ready EXCEPT ![Host(a)] = FALSE]
    /\ Goto(a, IF pkt[a] = 0 THEN Rest(a) ELSE IF side THEN "front" ELSE "write")
    /\ UNCHANGED <<side, queueVars, offset, recvVars, net, pkt, sideVars, fd, failed>>

SetReadyWhenDrained(a) ==               \* mutant: TRUE once the queue is empty
    /\ At(a, "flag")
    /\ ready' = [ready EXCEPT ![Host(a)] = sendq[Host(a)] = <<>>]
    /\ Goto(a, IF pkt[a] = 0 THEN Rest(a) ELSE IF side THEN "front" ELSE "write")
    /\ UNCHANGED <<side, queueVars, offset, recvVars, net, pkt, sideVars, fd, failed>>

SetReady(a) ==
    /\ At(a, "flag")
    /\ ready' = [ready EXCEPT ![Host(a)] = pkt[a] = 0]
    /\ Goto(a, IF pkt[a] = 0 THEN Rest(a) ELSE IF side THEN "front" ELSE "write")
    /\ UNCHANGED <<side, queueVars, offset, recvVars, net, pkt, sideVars, fd, failed>>

(* pppoat_io_write_sync() of message m on connection c.  The first write   *)
(* after the peer has closed may still be accepted by the kernel, or fail. *)
Send(h, c, m) ==
    \/ /\ ~Closed(Peer(h))
       /\ net' = [net EXCEPT ![Peer(h)][c] = Append(@, m)]
       /\ UNCHANGED failed
    \/ /\ Closed(Peer(h))
       /\ UNCHANGED <<net, failed>>
    \/ /\ Closed(Peer(h))
       /\ Fail(h, "write") /\ UNCHANGED net

SendConn(a) == IF a[2] = "pipe" THEN DataConn(Host(a)) ELSE fd[Host(a)]

WriteKeeps(a) ==                        \* mutant: requeued although it was sent
    /\ ~side /\ At(a, "write")
    /\ Send(Host(a), SendConn(a), Data(pkt[a]))
    /\ sendq' = [sendq EXCEPT ![Host(a)] = Append(@, pkt[a])]
    /\ pkt' = [pkt EXCEPT ![a] = 0] /\ Goto(a, Rest(a))
    /\ UNCHANGED <<side, recvq, nsent, got, sendVars, recvVars, sideVars, fd>>

(* Normal mode: the whole packet, which is then put.                       *)
Write(a) ==
    /\ ~side /\ At(a, "write")
    /\ Send(Host(a), SendConn(a), Data(pkt[a]))
    /\ pkt' = [pkt EXCEPT ![a] = 0] /\ Goto(a, Rest(a))
    /\ UNCHANGED <<side, queueVars, sendVars, recvVars, sideVars, fd>>

-----------------------------------------------------------------------------
(* Side channel: tp_http_send_client_sc() and tp_http_send_server_sc().    *)
(* No lock covers thc_send_offset, and the packet stays in the queue, where*)
(* the other thread finds it too, so each access is a step of its own.     *)

(* The packet is there: pkt is not NULL and nobody has put it.             *)
Valid(a) == pkt[a] # 0 /\ pkt[a] \notin returned[Host(a)]

(* What a step on the side channel leaves alone, but for sendq.            *)
SideStep(a, from, to) ==
    /\ side /\ At(a, from) /\ Goto(a, to)
    /\ UNCHANGED <<side, recvq, nsent, got, ready, recvVars, fd>>

(* The queue may have got another head since line 489, or none.            *)
Front(a) ==
    LET q == sendq[Host(a)] IN
    /\ SideStep(a, "front", "locate")
    /\ pkt' = [pkt EXCEPT ![a] = IF q = <<>> THEN 0 ELSE Head(q)]
    /\ UNCHANGED <<sendq, offset, net, sideVars, failed>>

(* ptr = pkt->pkt_data + ctx->thc_send_offset.                             *)
Locate(a) ==
    /\ SideStep(a, "locate", "measure")
    /\ Valid(a)
    /\ msg' = [msg EXCEPT ![a] =
                 [pkt |-> pkt[a], part |-> offset[Host(a)] + 1, head |-> FALSE]]
    /\ UNCHANGED <<sendq, offset, net, pkt, sum, returned, failed>>

(* size: nothing at the end of the packet; behind it the difference wraps  *)
(* round and a full part is sent.  HTTP_MIN() evaluates it once or twice,  *)
(* which is taken for one step.                                            *)
Measure(a) ==
    /\ SideStep(a, "measure", "begin")
    /\ Valid(a)
    /\ msg' = [msg EXCEPT ![a].part = IF offset[Host(a)] = Parts THEN 0 ELSE @]
    /\ UNCHANGED <<sendq, offset, net, pkt, sum, returned, failed>>

(* The size of the packet goes into its first message.                     *)
Begin(a) ==
    /\ SideStep(a, "begin", "write")
    /\ Valid(a)
    /\ msg' = [msg EXCEPT ![a].head = offset[Host(a)] = 0]
    /\ UNCHANGED <<sendq, offset, net, pkt, sum, returned, failed>>

SideWrite(a) ==
    /\ SideStep(a, "write", "load")
    /\ Send(Host(a), SendConn(a), msg[a])
    /\ UNCHANGED <<sendq, offset, pkt, sideVars>>

(* ctx->thc_send_offset += size.                                           *)
Load(a) ==
    /\ SideStep(a, "load", "store")
    /\ sum' = [sum EXCEPT ![a] = offset[Host(a)] + IF msg[a].part = 0 THEN 0 ELSE 1]
    /\ UNCHANGED <<sendq, offset, net, pkt, msg, returned, failed>>

Store(a) ==
    /\ SideStep(a, "store", "compare")
    /\ offset' = [offset EXCEPT ![Host(a)] = sum[a]]
    /\ UNCHANGED <<sendq, net, pkt, sideVars, failed>>

Done(a) ==
    /\ pkt' = [pkt EXCEPT ![a] = 0]
    /\ msg' = [msg EXCEPT ![a] = Empty] /\ sum' = [sum EXCEPT ![a] = 0]

(* The build may compare what it has just stored or read it again.         *)
Compare(a) ==
    \E all \in BOOLEAN :
        /\ SideStep(a, "compare", IF all THEN "reset" ELSE Rest(a))
        /\ Valid(a)
        /\ \E seen \in {sum[a], offset[Host(a)]} : (all <=> Complete(seen))
        /\ IF all THEN UNCHANGED <<pkt, msg, sum>> ELSE Done(a)
        /\ UNCHANGED <<sendq, offset, net, returned, failed>>

Reset(a) ==
    /\ SideStep(a, "reset", "pop")
    /\ offset' = [offset EXCEPT ![Host(a)] = 0]
    /\ UNCHANGED <<sendq, net, pkt, sideVars, failed>>

(* Whatever packet is the head by now.                                     *)
Pop(a) ==
    /\ SideStep(a, "pop", "put")
    /\ sendq' = [sendq EXCEPT ![Host(a)] = IF @ = <<>> THEN @ ELSE Tail(@)]
    /\ UNCHANGED <<offset, net, pkt, sideVars, failed>>

PutBack(a) ==
    /\ SideStep(a, "put", Rest(a))
    /\ Valid(a)
    /\ returned' = [returned EXCEPT ![Host(a)] = @ \cup {pkt[a]}]
    /\ Done(a)
    /\ UNCHANGED <<sendq, offset, net, failed>>

(* A step that follows pkt when it is NULL or was put by the other thread. *)
(* What comes of it is not defined, and the host is followed no further.   *)
Astray(a) ==
    /\ side /\ Up(Host(a)) /\ ~Valid(a)
    /\ pc[a] \in {"locate", "measure", "begin", "compare", "put"}
    /\ Fail(Host(a), "astray")
    /\ UNCHANGED <<side, queueVars, sendVars, recvVars, net, pc, pkt, sideVars, fd>>

SideSend(a) ==
    \/ Front(a) \/ Locate(a) \/ Measure(a) \/ Begin(a) \/ SideWrite(a)
    \/ Load(a) \/ Store(a) \/ Compare(a) \/ Reset(a) \/ Pop(a) \/ PutBack(a)
    \/ Astray(a)

(* Where a thread is between its message and the end of the call.          *)
Updating == {"load", "store", "compare", "reset", "pop", "put"}

-----------------------------------------------------------------------------
(* tp_http_worker(), which begins on the client with tp_http_send_get().   *)

(* A read() takes the first message and whatever part of the others is     *)
(* there; only the header of the first is looked at.                       *)
Consume(h, c) ==
    \E n \in 1..Len(net[h][c]) : net' = [net EXCEPT ![h][c] = SubSeq(@, n + 1, Len(@))]

(* The other thread may still be updating the offset after its message.    *)
ReadEmpty(h, c) ==
    /\ At(Work(h), "poll")
    /\ net[h][c] # <<>> /\ Head(net[h][c]) = Empty
    /\ h \in FastAnswers \/ pc[Pipe(h)] \notin Updating
    /\ Consume(h, c)
    /\ fd' = [fd EXCEPT ![h] = c]
    /\ Goto(Work(h), "next")
    /\ UNCHANGED <<side, queueVars, sendVars, recvVars, pkt, sideVars, failed>>

ReadDataAnswersFirst(h, c) ==           \* mutant: a complete packet is not queued
    /\ ~side /\ At(Work(h), "poll")
    /\ net[h][c] # <<>> /\ Head(net[h][c]) # Empty
    /\ Consume(h, c)
    /\ fd' = [fd EXCEPT ![h] = c]
    /\ Goto(Work(h), "reply")
    /\ UNCHANGED <<side, queueVars, sendVars, recvVars, pkt, sideVars, failed>>

(* tp_http_recv_buf_normal().                                              *)
ReadData(h, c) ==
    /\ ~side /\ At(Work(h), "poll")
    /\ net[h][c] # <<>> /\ Head(net[h][c]) # Empty
    /\ Consume(h, c)
    /\ IF Len(net[h][c]) > 1
       THEN Fail(h, "base64") /\ UNCHANGED <<fd, pc, recvq>>         \* line 224
       ELSE /\ recvq' = [recvq EXCEPT ![h] = Append(@, Head(net[h][c]).pkt)]
            /\ fd' = [fd EXCEPT ![h] = c]
            /\ Goto(Work(h), "reply")
            /\ UNCHANGED failed
    /\ UNCHANGED <<side, sendq, nsent, got, sendVars, recvVars, pkt, sideVars>>

(* tp_http_recv_buf_sc(): the client drops the packet it was putting       *)
(* together when the size of another one comes.                            *)
ReadChunk(h, c) ==
    LET m == Head(net[h][c])
        target == IF m.head THEN m.pkt ELSE rpkt[h]
        parts == (IF m.head THEN 0 ELSE rparts[h]) + IF m.part = 0 THEN 0 ELSE 1
        all == Complete(parts)
    IN
    /\ side /\ At(Work(h), "poll")
    /\ net[h][c] # <<>> /\ m # Empty
    /\ Consume(h, c)
    /\ IF m.head /\ h = Server /\ rpkt[h] # 0
       THEN Fail(h, "recv_pkt") /\ UNCHANGED <<fd, pc, recvq, recvVars>>   \* line 274
       ELSE IF target = 0
       THEN Fail(h, "pkt") /\ UNCHANGED <<fd, pc, recvq, recvVars>>   \* lines 300, 312
       ELSE /\ recvq' = [recvq EXCEPT ![h] = IF all THEN Append(@, target) ELSE @]
            /\ rpkt' = [rpkt EXCEPT ![h] = IF all THEN 0 ELSE target]
            /\ rparts' = [rparts EXCEPT ![h] = IF all THEN 0 ELSE parts]
            /\ fd' = [fd EXCEPT ![h] = c]
            /\ Goto(Work(h), IF m.part = 0 THEN "next" ELSE "reply")
            /\ UNCHANGED failed
    /\ UNCHANGED <<side, sendq, nsent, got, sendVars, pkt, sideVars>>

(* TCP keeps no message boundaries: read() may return only the beginning.  *)
(* Without the field Content-Length it does not count as data, and the rest*)
(* is what the whole would have been.  Cut later within the header neither *)
(* part is data.  Cut within the body it fails the assertion on line 224,  *)
(* or its length is a multiple of 4 and it passes for the whole packet; the*)
(* rest has no header and is no data.                                      *)
ReadFragment(h, c) ==
    /\ Fragmenting /\ ~side
    /\ At(Work(h), "poll")
    /\ net[h][c] # <<>>
    /\ fd' = [fd EXCEPT ![h] = c]
    /\ \/ Goto(Work(h), "next") /\ UNCHANGED <<net, recvq, failed>>
       \/ /\ Head(net[h][c]) # Empty
          /\ net' = [net EXCEPT ![h][c] = <<Empty>> \o Tail(@)]
          /\ \/ Goto(Work(h), "next") /\ UNCHANGED <<recvq, failed>>
             \/ Fail(h, "base64") /\ UNCHANGED <<recvq, pc>>
             \/ /\ recvq' = [recvq EXCEPT ![h] = Append(@, Head(net[h][c]).pkt)]
                /\ Goto(Work(h), "reply")
                /\ UNCHANGED failed
    /\ UNCHANGED <<side, sendq, nsent, got, sendVars, recvVars, pkt, sideVars>>

(* tp_http_send_resp() or tp_http_send_get().                              *)
Reply(h) ==
    /\ At(Work(h), "reply")
    /\ Send(h, fd[h], Empty)
    /\ Goto(Work(h), "poll")
    /\ UNCHANGED <<side, queueVars, sendVars, recvVars, pkt, sideVars, fd>>

(* The peer has closed: read() returns 0, which the worker ignores, or it  *)
(* reports that the connection was reset.                                  *)
ReadClosed(h) ==
    /\ At(Work(h), "poll")
    /\ Closed(Peer(h))
    /\ Fail(h, "read")
    /\ UNCHANGED <<side, queueVars, sendVars, recvVars, net, pc, pkt, sideVars, fd>>

-----------------------------------------------------------------------------
(* main() stops the pipeline, which cancels its thread, then the module.   *)

(* A thread that is cancelled as it writes takes its packet along.         *)
PipelineStopped(h) ==
    /\ Stops
    /\ At(Pipe(h), "idle") \/ At(Pipe(h), "write")
    /\ pkt' = [pkt EXCEPT ![Pipe(h)] = 0]
    /\ Goto(Pipe(h), "gone")
    /\ UNCHANGED <<side, queueVars, sendVars, recvVars, net, sideVars, fd, failed>>

StopModule(h) ==
    /\ pc[Pipe(h)] = "gone" /\ At(Work(h), "poll")
    /\ Goto(Work(h), "gone")
    /\ net' = [net EXCEPT ![h] = [c \in Conns |-> <<>>]]
    /\ UNCHANGED <<side, queueVars, sendVars, recvVars, pkt, sideVars, fd, failed>>

-----------------------------------------------------------------------------
Init ==
    /\ side \in Modes
    /\ sendq = [h \in Hosts |-> <<>>] /\ recvq = [h \in Hosts |-> <<>>]
    /\ ready = [h \in Hosts |-> h = Client]
    /\ offset = [h \in Hosts |-> 0]
    /\ rpkt = [h \in Hosts |-> 0] /\ rparts = [h \in Hosts |-> 0]
    /\ net = [h \in Hosts |-> [c \in Conns |-> <<>>]]
    /\ pc = [a \in Actors |-> IF a = Work(Client) THEN "reply" ELSE Rest(a)]
    /\ pkt = [a \in Actors |-> 0]
    /\ msg = [a \in Actors |-> Empty] /\ sum = [a \in Actors |-> 0]
    /\ returned = [h \in Hosts |-> {}]
    /\ fd = [h \in Hosts |-> 1]
    /\ failed = [h \in Hosts |-> "none"]
    /\ nsent = [h \in Hosts |-> 0] /\ got = [h \in Hosts |-> 0]

SendNext(a) == Take(a) \/ SetReady(a) \/ Write(a) \/ SideSend(a)

PipeStep(h) == TestReady(h) \/ SendNext(Pipe(h))
WorkStep(h) ==
    \/ SendNext(Work(h)) \/ Reply(h)
    \/ \E c \in Conns : ReadEmpty(h, c) \/ ReadData(h, c) \/ ReadChunk(h, c)

Next == \E h \in Hosts :
    \/ Enqueue(h) \/ PktRecv(h)
    \/ PipeStep(h) \/ WorkStep(h)
    \/ \E c \in Conns : ReadFragment(h, c)
    \/ ReadClosed(h) \/ PipelineStopped(h) \/ StopModule(h)

Spec == Init /\ [][Next]_vars

(* Threads that can run do run; nothing forces a host to stop or the       *)
(* interface to have another packet.                                       *)
Fairness ==
    \A h \in Hosts : WF_vars(PktRecv(h)) /\ WF_vars(PipeStep(h)) /\ WF_vars(WorkStep(h))

FairSpec == Spec /\ Fairness

-----------------------------------------------------------------------------
(* Properties.                                                             *)

Labels == {"idle", "test", "next", "flag", "front", "locate", "measure", "begin",
           "write", "poll", "reply", "gone"} \cup Updating

Failures == {"none", "recv_pkt", "pkt", "base64", "astray", "write", "read"}

(* Every variable keeps its type.  The receiver never has a whole packet in*)
(* thc_recv_pkt; nothing like it holds of thc_send_offset, which a thread  *)
(* moves behind the packet before it sets it back.                         *)
TypeOK ==
    /\ side \in Modes
    /\ sendq \in [Hosts -> Seq(Nat)] /\ recvq \in [Hosts -> Seq(Nat)]
    /\ ready \in [Hosts -> BOOLEAN]
    /\ offset \in [Hosts -> Nat]
    /\ rpkt \in [Hosts -> Nat] /\ rparts \in [Hosts -> 0..(Parts - 1)]
    /\ net \in [Hosts -> [Conns -> Seq(Messages)]]
    /\ pc \in [Actors -> Labels]
    /\ pkt \in [Actors -> Nat]
    /\ msg \in [Actors -> Messages] /\ sum \in [Actors -> Nat]
    /\ returned \in [Hosts -> SUBSET Nat]
    /\ fd \in [Hosts -> Conns]
    /\ failed \in [Hosts -> Failures]
    /\ nsent \in [Hosts -> Nat] /\ got \in [Hosts -> Nat]

(* The right to send the next packet of host h is a token.  It can be:     *)
Places == {"flag", "pipe", "worker", "data", "answer", "empty"}
Sending == {"next", "flag", "front", "locate", "measure", "begin", "write"}
Token(h, place) ==
    CASE place = "flag"   -> ready[h] /\ pc[Pipe(h)] \notin Sending
      [] place = "pipe"   -> pc[Pipe(h)] \in Sending
      [] place = "worker" -> pc[Work(h)] \in Sending
      [] place = "data"   -> net[Peer(h)][DataConn(h)] # <<>>
      [] place = "answer" -> pc[Work(Peer(h))] = "reply"
                               /\ fd[Peer(h)] = DataConn(h)
      [] place = "empty"  -> net[h][DataConn(h)] # <<>>

(* The two threads of a host never send at the same time, and neither sends*)
(* before the peer has answered the last message: thc_send_ready, which no *)
(* lock protects, hands the right to send from one thread to the other.    *)
OneToken ==
    \A h \in Hosts, p, q \in Places : Token(h, p) /\ Token(h, q) => p = q

(* A connection never carries two messages at once in one direction: the   *)
(* worker takes what a read() returns for exactly one message (line 580).  *)
OneMessage == \A h \in Hosts, c \in Conns : Len(net[h][c]) <= 1

(* The packets in a sequence of messages.                                  *)
Carried(q) ==
    LET of[n \in 0..Len(q)] ==             \* in the first n messages
            IF n = 0 THEN <<>>
            ELSE IF q[n].pkt = 0 THEN of[n - 1]
            ELSE Append(of[n - 1], q[n].pkt)
    IN of[Len(q)]

Held(a) == IF pkt[a] = 0 THEN <<>> ELSE <<pkt[a]>>

(* The packets on their way from host h to its peer's pipeline.  On the    *)
(* side channel a packet has left with its last part, and is then still in *)
(* the sender's queue.                                                     *)
Transit(h) ==
    LET in == net[Peer(h)]
        IsLast(m) == m.part = Parts
        left == recvq[Peer(h)] \o Carried(SelectSeq(in[0] \o in[1], IsLast))
        newest == IF left = <<>> THEN got[Peer(h)] ELSE left[Len(left)]
        IsToSend(k) == k > newest
    IN IF side THEN left \o SelectSeq(sendq[h], IsToSend)
       ELSE recvq[Peer(h)] \o Carried(in[DataConn(h)]) \o Carried(in[1 - DataConn(h)])
                \o Held(Work(h)) \o Held(Pipe(h)) \o sendq[h]

Upstream == INSTANCE PacketFifo WITH
    Lossy <- Stops, transit <- Transit(Client), accepted <- nsent[Client],
    delivered <- got[Server]
Downstream == INSTANCE PacketFifo WITH
    Lossy <- Stops, transit <- Transit(Server), accepted <- nsent[Server],
    delivered <- got[Client]

(* Each direction delivers the packets in order and once, and loses none   *)
(* while both hosts are up.                                                *)
Fifo == Upstream!Spec /\ Downstream!Spec

(* In normal mode, where the sender takes a packet off its queue before it *)
(* writes it, no packet is delivered or sent a second time, however the    *)
(* messages are cut and whenever a host stops.                             *)
AtMostOnce == ~side => \A h \in Hosts : IsInjective(Transit(h))

(* The worker has found the queue empty (line 346) and has not yet said so *)
(* in thc_send_ready (line 347).                                           *)
WakeupMayBeLost(h) == pc[Work(h)] = "flag" /\ pkt[Work(h)] = 0

Delivered(h, k) == \A i \in DOMAIN Transit(h) : Transit(h)[i] > k

(* A packet waits in the queue for ever only if it was queued in the window*)
(* between lines 346 and 347: the pipeline reads a thc_send_ready that is  *)
(* still FALSE, and the worker, having seen no packet, goes back to poll().*)
(* A packet queued at any other moment gets through, and takes with it all *)
(* those that were left before it.                                         *)
QueueDrains ==
    \A h \in Hosts : \A k \in 1..MaxSent[h] :
        pc[Pipe(h)] = "test" /\ nsent[h] = k /\ ~WakeupMayBeLost(h) ~> Delivered(h, k)

(* The sender's thc_send_offset and the receiver's thc_recv_offset, which  *)
(* agree on nothing but the order of the messages, stay in step: the size  *)
(* of a packet comes with its first part and when no other is being put    *)
(* together, and any other part is the next one of the packet that is.     *)
InStep ==
    side => \A h \in Hosts, c \in Conns :
        LET m == Head(net[h][c]) IN
        Up(h) /\ net[h][c] # <<>> /\ m # Empty =>
            IF m.head THEN m.part = 1 /\ rpkt[h] = 0
            ELSE m.pkt = rpkt[h] /\ m.part = rparts[h] + 1

(* PPPOAT_ASSERT(ctx->thc_recv_pkt == NULL), line 274: a message with the  *)
(* size of a packet comes when no packet is being put together.            *)
HeadComesFirst == \A h \in Hosts : failed[h] # "recv_pkt"

BodiesSurvive == \A data \in Bodies : SurvivesCuts(data)

(* While a packet waits to be read, it comes out of its message as it went *)
(* in; when TCP cuts the body, the assertion on it fails, or it is taken   *)
(* for a packet that is too short: never for garbage.  ReadFragment relies *)
(* on it.                                                                  *)
CutsAreCaughtOrShort ==
    \A h \in Hosts, c \in Conns :
        ~side /\ net[h][c] # <<>> /\ Head(net[h][c]) # Empty => BodiesSurvive
=============================================================================
