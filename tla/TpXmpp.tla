------------------------------- MODULE TpXmpp -------------------------------
(***************************************************************************)
(* The XMPP transport (modules/tp_xmpp.c): two hosts that exchange packets *)
(* as messages of a jabber server.  On each host a worker thread runs the  *)
(* event loop of libstrophe, whose callbacks keep the connection alive and *)
(* queue what arrives; between two rounds of events it sends what the      *)
(* pipeline has queued.  main() stops the worker through a semaphore.      *)
(*                                                                         *)
(* libstrophe and the server are external.  Of a connection only its state *)
(* is kept, of a stanza the number of the packet in it and whether the     *)
(* server delivers it late.  pppoat_semaphore_post() is taken together with*)
(* the enqueue before it: module Pipeline has the steps in between.        *)
(***************************************************************************)
EXTENDS Naturals, Sequences, SequencesExt

CONSTANTS
    Left, Right,  \* the two hosts
    MaxSent,      \* bound: MaxSent[h] packets are handed over on host h
    HasRemote,    \* hosts that know xmpp.remote
    MaxLost,      \* bound: connections that are lost or cannot be made
    FailEvents    \* hosts whose libstrophe may report XMPP_CONN_FAIL

Hosts == {Left, Right}
Peer(h) == IF h = Left THEN Right ELSE Left

ASSUME XmppAssumption ==
    /\ Left # Right
    /\ MaxSent \in [Hosts -> Nat] /\ MaxLost \in Nat
    /\ HasRemote \subseteq Hosts
    /\ FailEvents \subseteq Hosts

VARIABLES
    sendq,       \* txc_send_q
    recvq,       \* txc_recv_q
    connected,   \* txc_connected
    stopping,    \* txc_stopping
    stopsem,     \* txc_stop_sem was posted
    timer,       \* the reconnect timer is registered
    conn,        \* the connection, as libstrophe sees it
    quit,        \* xmpp_stop() was called
    pc,          \* where the worker is
    main,        \* where main() is
    inbox,       \* inbox[h]: stanzas the server has for host h
    nlost,       \* connections lost so far
    nsent,       \* packets handed over so far
    got          \* the packet that tp_xmpp_pkt_get() returned last

queueVars == <<sendq, recvq, nsent, got>>
connVars == <<connected, timer, conn, quit>>
stopVars == <<stopping, stopsem, main>>
serverVars == <<inbox, nlost>>
vars == <<queueVars, connVars, stopVars, serverVars, pc>>

Goto(h, label) == pc' = [pc EXCEPT ![h] = label]

-----------------------------------------------------------------------------
(* The pipeline's threads.                                                 *)

Enqueue(h) ==
    /\ main[h] = "running" /\ nsent[h] < MaxSent[h]
    /\ nsent' = [nsent EXCEPT ![h] = @ + 1]
    /\ sendq' = [sendq EXCEPT ![h] = Append(@, nsent'[h])]
    /\ UNCHANGED <<recvq, got, connVars, stopVars, serverVars, pc>>

PktGet(h) ==
    /\ main[h] = "running" /\ recvq[h] # <<>>
    /\ recvq' = [recvq EXCEPT ![h] = Tail(@)]
    /\ got' = [got EXCEPT ![h] = Head(recvq[h])]
    /\ UNCHANGED <<sendq, nsent, connVars, stopVars, serverVars, pc>>

-----------------------------------------------------------------------------
(* tp_xmpp_worker().                                                       *)

(* Without a socket, or the like, xmpp_connect_client() fails at once.     *)
Connect(h) ==
    /\ pc[h] = "connect"
    /\ \/ conn' = [conn EXCEPT ![h] = "connecting"] /\ UNCHANGED <<timer, nlost>>
       \/ /\ nlost < MaxLost /\ nlost' = nlost + 1
          /\ timer' = [timer EXCEPT ![h] = TRUE] /\ UNCHANGED conn
    /\ Goto(h, "test")
    /\ UNCHANGED <<queueVars, connected, quit, stopVars, inbox>>

TestStop(h) ==
    /\ pc[h] = "test"
    /\ stopsem' = [stopsem EXCEPT ![h] = FALSE]
    /\ Goto(h, IF stopsem[h] THEN "leave" ELSE "events")
    /\ UNCHANGED <<queueVars, connVars, stopping, main, serverVars>>

EventsDone(h) ==
    /\ pc[h] = "events"
    /\ Goto(h, "send")
    /\ UNCHANGED <<queueVars, connVars, stopVars, serverVars>>

(* A stanza for host h reaches the server, which delivers it, stores it for*)
(* later or drops it.                                                      *)
Stanza(k, late) == [pkt |-> k, delayed |-> late]
ToServer(h, k) ==
    IF conn[h] \in {"up", "closing"}
    THEN inbox' = [inbox EXCEPT ![h] = Append(@, Stanza(k, FALSE))]
    ELSE \/ inbox' = [inbox EXCEPT ![h] = Append(@, Stanza(k, TRUE))]
         \/ UNCHANGED inbox

SendPeeks(h) ==                         \* mutant: queue_front for queue_dequeue
    /\ pc[h] = "send" /\ connected[h] /\ sendq[h] # <<>>
    /\ ToServer(Peer(h), Head(sendq[h]))
    /\ UNCHANGED <<queueVars, connVars, stopVars, nlost, pc>>

SendToSelf(h) ==                        \* mutant: txc_jid for txc_remote
    /\ pc[h] = "send" /\ connected[h] /\ sendq[h] # <<>>
    /\ sendq' = [sendq EXCEPT ![h] = Tail(@)]
    /\ ToServer(h, Head(sendq[h]))
    /\ UNCHANGED <<recvq, nsent, got, connVars, stopVars, nlost, pc>>

(* A packet that cannot be sent is dropped (line 267).                     *)
Send(h) ==
    /\ pc[h] = "send" /\ connected[h] /\ sendq[h] # <<>>
    /\ sendq' = [sendq EXCEPT ![h] = Tail(@)]
    /\ IF h \in HasRemote THEN ToServer(Peer(h), Head(sendq[h])) ELSE UNCHANGED inbox
    /\ UNCHANGED <<recvq, nsent, got, connVars, stopVars, nlost, pc>>

SendOnce(h) ==                          \* mutant: one packet before the events
    /\ pc[h] = "send"
    /\ Goto(h, "test")
    /\ UNCHANGED <<queueVars, connVars, stopVars, serverVars>>

SendDone(h) ==
    /\ pc[h] = "send" /\ (~connected[h] \/ sendq[h] = <<>>)
    /\ Goto(h, "test")
    /\ UNCHANGED <<queueVars, connVars, stopVars, serverVars>>

LeaveAnyway(h) ==                       \* mutant: runs the loop unconditionally
    /\ pc[h] = "leave"
    /\ stopping' = [stopping EXCEPT ![h] = TRUE]
    /\ conn' = [conn EXCEPT ![h] = IF connected[h] THEN "closing" ELSE @]
    /\ Goto(h, "run")
    /\ UNCHANGED <<queueVars, connected, timer, quit, stopsem, main, serverVars>>

(* After the loop: xmpp_disconnect() and xmpp_run() if it is connected.    *)
Leave(h) ==
    /\ pc[h] = "leave"
    /\ stopping' = [stopping EXCEPT ![h] = TRUE]
    /\ IF connected[h]
       THEN conn' = [conn EXCEPT ![h] = "closing"] /\ Goto(h, "run")
       ELSE Goto(h, "done") /\ UNCHANGED conn
    /\ UNCHANGED <<queueVars, connected, timer, quit, stopsem, main, serverVars>>

RunEnds(h) ==
    /\ pc[h] = "run" /\ quit[h]
    /\ Goto(h, "done")
    /\ UNCHANGED <<queueVars, connVars, stopVars, serverVars>>

-----------------------------------------------------------------------------
(* Events, in xmpp_run_once() and xmpp_run().                              *)

InLoop(h) == pc[h] \in {"events", "run"}

TimerStays(h) ==                        \* mutant: returns rc == 0
    /\ InLoop(h) /\ timer[h]
    /\ conn' = [conn EXCEPT ![h] = "connecting"]
    /\ UNCHANGED <<connected, timer, quit, queueVars, stopVars, serverVars, pc>>

(* tp_xmpp_conn_reconnect_timer_cb(): the timer stays if it cannot connect.*)
TimerFires(h) ==
    /\ InLoop(h) /\ timer[h]
    /\ conn' = [conn EXCEPT ![h] = "connecting"]
    /\ timer' = [timer EXCEPT ![h] = FALSE]
    /\ UNCHANGED <<connected, quit, queueVars, stopVars, serverVars, pc>>

(* tp_xmpp_conn_handler() for XMPP_CONN_CONNECT.                           *)
Established(h) ==
    /\ InLoop(h) /\ conn[h] = "connecting"
    /\ conn' = [conn EXCEPT ![h] = "up"]
    /\ connected' = [connected EXCEPT ![h] = TRUE]
    /\ timer' = [timer EXCEPT ![h] = FALSE]
    /\ UNCHANGED <<quit, queueVars, stopVars, serverVars, pc>>

HandlerNeverStops(h) ==                 \* mutant: xmpp_stop() is not called
    /\ connected' = [connected EXCEPT ![h] = FALSE]
    /\ timer' = [timer EXCEPT ![h] = @ \/ ~stopping[h]]
    /\ UNCHANGED quit

HandlerForgets(h) ==                    \* mutant: no timer on a disconnect
    /\ connected' = [connected EXCEPT ![h] = FALSE]
    /\ quit' = [quit EXCEPT ![h] = stopping[h]]
    /\ UNCHANGED timer

(* The same for XMPP_CONN_DISCONNECT.                                      *)
Disconnected(h) ==
    /\ connected' = [connected EXCEPT ![h] = FALSE]
    /\ IF stopping[h]
       THEN quit' = [quit EXCEPT ![h] = TRUE] /\ UNCHANGED timer
       ELSE timer' = [timer EXCEPT ![h] = TRUE] /\ UNCHANGED quit

(* The connection breaks, or is closed as xmpp_disconnect() has asked.     *)
(* The server keeps what it has for the host for later, or drops it; what  *)
(* the host has sent may be lost on its way.                               *)
Late(q) == [i \in DOMAIN q |-> Stanza(q[i].pkt, TRUE)]
Lost(h) ==
    /\ InLoop(h) /\ conn[h] \in {"connecting", "up", "closing"}
    /\ IF conn[h] = "closing" THEN UNCHANGED nlost
       ELSE nlost < MaxLost /\ nlost' = nlost + 1
    /\ conn' = [conn EXCEPT ![h] = "down"]
    /\ Disconnected(h)
    /\ \E kept \in {<<>>, Late(inbox[h])}, n \in 0..Len(inbox[Peer(h)]) :
          inbox' = [inbox EXCEPT ![h] = kept, ![Peer(h)] = SubSeq(@, 1, n)]
    /\ UNCHANGED <<queueVars, stopVars, pc>>

(* XMPP_CONN_FAIL is only logged (line 524).                               *)
Failed(h) ==
    /\ h \in FailEvents
    /\ InLoop(h) /\ conn[h] = "connecting"
    /\ nlost < MaxLost /\ nlost' = nlost + 1
    /\ conn' = [conn EXCEPT ![h] = "down"]
    /\ connected' = [connected EXCEPT ![h] = FALSE]
    /\ quit' = [quit EXCEPT ![h] = @ \/ stopping[h]]
    /\ UNCHANGED <<timer, queueVars, stopVars, inbox, pc>>

(* tp_xmpp_message_handler(): delayed messages are ignored.                *)
Receive(h) ==
    /\ InLoop(h) /\ conn[h] \in {"up", "closing"} /\ inbox[h] # <<>>
    /\ inbox' = [inbox EXCEPT ![h] = Tail(@)]
    /\ recvq' = IF Head(inbox[h]).delayed THEN recvq
                ELSE [recvq EXCEPT ![h] = Append(@, Head(inbox[h]).pkt)]
    /\ UNCHANGED <<sendq, nsent, got, connVars, stopVars, nlost, pc>>

-----------------------------------------------------------------------------
(* main(): tp_xmpp_stop(), then tp_xmpp_fini().                            *)

Stop(h) ==
    /\ main[h] = "running"
    /\ main' = [main EXCEPT ![h] = "join"]
    /\ stopsem' = [stopsem EXCEPT ![h] = TRUE]
    /\ UNCHANGED <<queueVars, connVars, stopping, serverVars, pc>>

Release(h) ==
    /\ main[h] = "join" /\ pc[h] = "done"
    /\ main' = [main EXCEPT ![h] = "stopped"]
    /\ conn' = [conn EXCEPT ![h] = "down"]
    /\ UNCHANGED <<queueVars, connected, timer, quit, stopping, stopsem, serverVars, pc>>

Fini(h) ==
    /\ main[h] = "stopped"
    /\ main' = [main EXCEPT ![h] = "freed"]
    /\ sendq' = [sendq EXCEPT ![h] = <<>>] /\ recvq' = [recvq EXCEPT ![h] = <<>>]
    /\ timer' = [timer EXCEPT ![h] = FALSE]
    /\ UNCHANGED <<nsent, got, connected, conn, quit, stopping, stopsem, serverVars, pc>>

-----------------------------------------------------------------------------
Init ==
    /\ sendq = [h \in Hosts |-> <<>>] /\ recvq = [h \in Hosts |-> <<>>]
    /\ connected = [h \in Hosts |-> FALSE] /\ stopping = [h \in Hosts |-> FALSE]
    /\ stopsem = [h \in Hosts |-> FALSE]
    /\ timer = [h \in Hosts |-> FALSE] /\ conn = [h \in Hosts |-> "down"]
    /\ quit = [h \in Hosts |-> FALSE]
    /\ pc = [h \in Hosts |-> "connect"]
    /\ main = [h \in Hosts |-> "running"]
    /\ inbox = [h \in Hosts |-> <<>>] /\ nlost = 0
    /\ nsent = [h \in Hosts |-> 0] /\ got = [h \in Hosts |-> 0]

Event(h) ==
    TimerFires(h) \/ Established(h) \/ Lost(h) \/ Failed(h) \/ Receive(h)

WorkStep(h) ==
    \/ Connect(h) \/ TestStop(h) \/ EventsDone(h)
    \/ Send(h) \/ SendDone(h) \/ Leave(h) \/ RunEnds(h)

Next == \E h \in Hosts :
    \/ Enqueue(h) \/ PktGet(h)
    \/ WorkStep(h) \/ Event(h)
    \/ Stop(h) \/ Release(h) \/ Fini(h)

Spec == Init /\ [][Next]_vars

(* The worker runs, xmpp_run_once() returns after XMPP_LOOP_TIMEOUT at the *)
(* latest, and libstrophe reports a disconnection that it was asked for.   *)
Fairness ==
    \A h \in Hosts :
        /\ WF_vars(WorkStep(h))
        /\ WF_vars(Lost(h) /\ conn[h] = "closing")
        /\ WF_vars(Release(h)) /\ WF_vars(Fini(h))

FairSpec == Spec /\ Fairness

-----------------------------------------------------------------------------
(* Properties.                                                             *)

(* Every variable keeps its type, and a host only ever holds packets that  *)
(* were handed over on the other one.                                      *)
TypeOK ==
    /\ connected \in [Hosts -> BOOLEAN] /\ stopping \in [Hosts -> BOOLEAN]
    /\ stopsem \in [Hosts -> BOOLEAN] /\ timer \in [Hosts -> BOOLEAN]
    /\ quit \in [Hosts -> BOOLEAN]
    /\ conn \in [Hosts -> {"down", "connecting", "up", "closing"}]
    /\ pc \in [Hosts -> {"connect", "test", "events", "send", "leave", "run", "done"}]
    /\ main \in [Hosts -> {"running", "join", "stopped", "freed"}]
    /\ nlost \in Nat /\ nsent \in [Hosts -> Nat] /\ got \in [Hosts -> Nat]
    /\ sendq \in [Hosts -> Seq(Nat)] /\ recvq \in [Hosts -> Seq(Nat)]
    /\ inbox \in [Hosts -> Seq([pkt : Nat, delayed : BOOLEAN])]
    /\ \A h \in Hosts :
          /\ sendq[h] \in Seq(1..nsent[h])
          /\ recvq[h] \in Seq(1..nsent[Peer(h)])
          /\ inbox[h] \in Seq([pkt : 1..nsent[Peer(h)], delayed : BOOLEAN])
          /\ got[h] \in 0..nsent[Peer(h)]

(* While the worker serves its loop a connection that is down has a timer  *)
(* that will bring it back: a host never sits disconnected for good (lines *)
(* 45 and 255-256).  It may where libstrophe reports XMPP_CONN_FAIL.       *)
KeepsTrying ==
    \A h \in Hosts \ FailEvents :
        pc[h] \in {"test", "events", "send"} /\ conn[h] = "down" => timer[h]

(* The timer and the connection handler never try to connect twice at once:*)
(* xmpp_connect_client() is only called for a connection that is down.     *)
OneAttempt == \A h \in Hosts : timer[h] => conn[h] = "down"

(* The assertion of tp_xmpp_conn_handler(), line 499: once the worker has  *)
(* been told to stop, no connection can come up any more.  So the last     *)
(* event xmpp_run() waits for is the disconnection that ends it.           *)
NoConnectWhileStopping ==
    \A h \in Hosts : pc[h] = "run" =>
        stopping[h] /\ (quit[h] \/ conn[h] = "closing") /\ ~timer[h]

(* A packet waits in the queue only while the host is not connected: the   *)
(* worker sends all there is in every round of events.                     *)
SendsWhileConnected ==
    \A h \in Hosts :
        <>[](connected[h] /\ main[h] = "running") => <>[](sendq[h] = <<>>)

(* tp_xmpp_stop() returns, whatever state the connection is in.            *)
StopReturns == \A h \in Hosts : main[h] = "join" ~> main[h] = "freed"

Packets(q) == [i \in DOMAIN q |-> q[i].pkt]
Transit(h) == recvq[Peer(h)] \o Packets(inbox[Peer(h)]) \o sendq[h]

Rightward == INSTANCE PacketFifo WITH
    Lossy <- TRUE, transit <- Transit(Left), accepted <- nsent[Left],
    delivered <- got[Right]
Leftward == INSTANCE PacketFifo WITH
    Lossy <- TRUE, transit <- Transit(Right), accepted <- nsent[Right],
    delivered <- got[Left]

(* Each direction of the link may lose packets, when a connection breaks or*)
(* a message comes late, but it never repeats or reorders them.            *)
Fifo == Rightward!Spec /\ Leftward!Spec

(* Line 51: "If remote_jid is not set, lock jid from the 1st stanza."      *)
LocksRemote == \A h \in Hosts : got[h] # 0 => h \in HasRemote
=============================================================================
