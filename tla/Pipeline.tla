------------------------------ MODULE Pipeline ------------------------------
(***************************************************************************)
(* The packet pipeline: pipeline.c moves packets along a list of modules,  *)
(* module.c adapts their direction, packet.c lends packets from a shared   *)
(* cache, and main() in pppoat.c builds, starts, stops and frees it all.   *)
(*                                                                         *)
(* Every packet is a pointer that some place owns: the cache, a transport's*)
(* queue, or a local variable of a thread.  The places are kept as separate*)
(* collections, so that freeing or queueing a packet twice is expressible. *)
(* Payload and size are left out: pppoat_packet_get() may return any cached*)
(* packet (the first one large enough), a new one, or NULL.                *)
(*                                                                         *)
(* Module http is here in its normal mode only.  With http.side_channel a  *)
(* packet stays in the queue while a thread sends it, part by part, and    *)
(* another is put together in thc_recv_pkt: packets with two owners, which *)
(* is what TpHttp models.                                                  *)
(***************************************************************************)
EXTENDS Naturals, FiniteSets

CONSTANTS
    Packets,      \* addresses of the packets the heap has room for
    None,         \* the NULL packet pointer
    N,            \* modules in the pipeline
    Type,         \* Type[m]: mod_type of module m
    Kind,         \* Kind[m]: how module m moves packets, see Kinds
    Returns,      \* modules whose mop_process may hand the packet on
    StartMayFail  \* may pthread_create() fail in pppoat_pipeline_start()

Mods == 1..N
Kinds == {"direct",      \* reads and writes a descriptor: fd, tun, pppd, udp
          "xmpp",        \* queues and a semaphore, a worker thread does the I/O
          "http_normal", \* http without http.side_channel: the queues are polled
          "plugin"}      \* a non-blocking module in the middle (pipeline.h)
Types == {"INTERFACE", "TRANSPORT", "PLUGIN"}

ASSUME PacketsAssumption == None \notin Packets

ASSUME ModulesAssumption ==
    /\ N \in Nat /\ N > 1
    /\ Type \in [Mods -> Types]
    /\ Kind \in [Mods -> Kinds]
    /\ \A m \in Mods : /\ (Type[m] = "PLUGIN") <=> (m \notin {1, N})
                       /\ (Kind[m] = "plugin") <=> (Type[m] = "PLUGIN")
                       /\ Kind[m] \in {"xmpp", "http_normal"} => Type[m] = "TRANSPORT"
    /\ Returns \subseteq Mods
    /\ StartMayFail \in BOOLEAN

Queued == {m \in Mods : Kind[m] \in {"xmpp", "http_normal"}}
Blocking(m) == Kind[m] # "plugin"
HasLoop == ~Blocking(1) \/ ~Blocking(N) \/ N > 2

Blk1 == <<"blk", 1>>
Blk2 == <<"blk", 2>>
Loop == <<"loop", 0>>
Threads == {Blk1, Blk2, Loop}
Worker(m) == <<"worker", m>>
Actors == Threads \cup {Worker(m) : m \in Mods}
Edges == {Blk1, Blk2}
Home(t) == IF t = Blk1 THEN 1 ELSE N

VARIABLES
    heap,     \* packets that are allocated
    cache,    \* pks_cache
    sendq,    \* sendq[m]: the transport's queue towards the network
    recvq,    \* recvq[m]: the transport's queue towards the pipeline
    posts,    \* posts[m]: value of txc_recv_sem
    dir,      \* dir[p]: pkt_type
    hold,     \* hold[a]: the packet a local variable of actor a points to
    pc,       \* pc[a]: where actor a is
    at,       \* at[t]: the module pipeline_module_process() is at
    scan,     \* the loop thread's cursor over the list
    invert,   \* invert[m]: m_invert
    running,  \* pl_running
    cancel,   \* cancel[t]: a pthread_cancel() is pending
    stop,     \* stop[m]: module m's worker was told to stop
    mainpc,   \* where main() is
    nr,       \* main()'s cursor over the modules (pl_modules_nr while it adds)
    sig       \* a signal has posted exit_sem

pktVars == <<heap, cache, sendq, recvq, posts, dir, hold>>
queueVars == <<sendq, recvq, posts>>
ctlVars == <<running, cancel, stop, mainpc, nr, sig, invert>>
vars == <<pktVars, pc, at, scan, ctlVars>>

Dirs == {"UNKNOWN", "SEND", "RECV"}
Flip(d) == IF d = "SEND" THEN "RECV" ELSE "SEND"
Turned(m, d) == IF invert[m] THEN Flip(d) ELSE d
Expects(m) == IF Type[m] = "INTERFACE" THEN "RECV" ELSE "SEND"
Produces(m) == Flip(Expects(m))

-----------------------------------------------------------------------------
(* Packets: pppoat_packet_get() and pppoat_packet_put() by actor a.        *)

Get(a, p) ==
    /\ p \in cache \cup (Packets \ heap)
    /\ heap' = heap \cup {p}
    /\ cache' = cache \ {p}
    /\ hold' = [hold EXCEPT ![a] = p]

Put(a) ==
    /\ cache' = cache \cup {hold[a]}
    /\ dir' = [dir EXCEPT ![hold[a]] = "UNKNOWN"]
    /\ hold' = [hold EXCEPT ![a] = None]
    /\ UNCHANGED heap

(* pipeline_module_process() returns: a blocking thread tests pl_running   *)
(* again, the loop thread goes on with the next module.                    *)
Return(t) == IF t = Loop THEN "scan" ELSE "test"

Goto(a, label) == pc' = [pc EXCEPT ![a] = label]

-----------------------------------------------------------------------------
(* The threads of the pipeline.                                            *)

TestRunning(t) ==
    /\ pc[t] = "test"
    /\ IF ~running THEN Goto(t, "done") /\ UNCHANGED <<at, scan>>
       ELSE IF t = Loop
            THEN Goto(t, "scan") /\ scan' = 1 /\ UNCHANGED at
            ELSE /\ Goto(t, "poll")
                 /\ at' = [at EXCEPT ![t] = Home(t)]
                 /\ UNCHANGED scan
    /\ UNCHANGED <<pktVars, ctlVars>>

Scan ==
    /\ pc[Loop] = "scan"
    /\ IF scan > N
       THEN Goto(Loop, "test") /\ UNCHANGED <<at, scan>>
       ELSE /\ scan' = scan + 1
            /\ at' = [at EXCEPT ![Loop] = scan]
            /\ Goto(Loop, IF Blocking(scan) THEN "scan" ELSE "poll")
    /\ UNCHANGED <<pktVars, ctlVars>>

PollDirect(t) ==
    /\ pc[t] = "poll" /\ Kind[at[t]] = "direct"
    /\ \/ /\ \E p \in Packets : Get(t, p)
          /\ Goto(t, "read")
       \/ /\ Goto(t, "errlog")                              \* -ENOMEM
          /\ UNCHANGED <<heap, cache, hold>>
    /\ UNCHANGED <<queueVars, dir, at, scan, ctlVars>>

ReadOk(t) ==
    /\ pc[t] = "read"
    /\ dir' = [dir EXCEPT ![hold[t]] = Turned(at[t], Produces(at[t]))]
    /\ Goto(t, "deliver")
    /\ UNCHANGED <<heap, cache, queueVars, hold, at, scan, ctlVars>>

ReadFail(t) ==
    /\ pc[t] = "read"
    /\ Put(t)
    /\ Goto(t, "errlog")
    /\ UNCHANGED <<queueVars, at, scan, ctlVars>>

PollXmpp(t) ==
    /\ pc[t] = "poll" /\ Kind[at[t]] = "xmpp"
    /\ posts[at[t]] > 0
    /\ posts' = [posts EXCEPT ![at[t]] = @ - 1]
    /\ Goto(t, "dequeue")
    /\ UNCHANGED <<heap, cache, sendq, recvq, dir, hold, at, scan, ctlVars>>

(* The tail of tp_xmpp_pkt_get() and all of tp_http_pkt_recv().            *)
Dequeue(t) ==
    /\ \/ pc[t] = "dequeue"
       \/ pc[t] = "poll" /\ Kind[at[t]] = "http_normal"
    /\ \/ \E p \in recvq[at[t]] :
            /\ recvq' = [recvq EXCEPT ![at[t]] = @ \ {p}]
            /\ hold' = [hold EXCEPT ![t] = p]
            /\ dir' = [dir EXCEPT ![p] = Turned(at[t], "RECV")]
            /\ Goto(t, "deliver")
       \/ /\ recvq[at[t]] = {}
          /\ Goto(t, Return(t))
          /\ UNCHANGED <<recvq, hold, dir>>
    /\ UNCHANGED <<heap, cache, sendq, posts, at, scan, ctlVars>>

(* A plugin that is polled has nothing, or a packet of its own.            *)
PollPlugin(t) ==
    /\ pc[t] = "poll" /\ Kind[at[t]] = "plugin"
    /\ \/ \E p \in Packets, d \in {"SEND", "RECV"} :
            /\ Get(t, p)
            /\ dir' = [dir EXCEPT ![p] = Turned(at[t], d)]
            /\ Goto(t, "deliver")
       \/ /\ Goto(t, Return(t))
          /\ UNCHANGED <<heap, cache, hold, dir>>
    /\ UNCHANGED <<queueVars, at, scan, ctlVars>>

(* Lines 214-223: the neighbour's pppoat_module_process() is entered.      *)
Target(t) == IF dir[hold[t]] = "SEND" THEN at[t] + 1 ELSE at[t] - 1

DeliverUnturned(t) ==                   \* mutant: m_invert is not applied
    /\ pc[t] = "deliver"
    /\ Target(t) \in Mods
    /\ at' = [at EXCEPT ![t] = Target(t)]
    /\ Goto(t, "process")
    /\ UNCHANGED <<pktVars, scan, ctlVars>>

Deliver(t) ==
    /\ pc[t] = "deliver"
    /\ dir[hold[t]] \in {"SEND", "RECV"}
    /\ Target(t) \in Mods
    /\ at' = [at EXCEPT ![t] = Target(t)]
    /\ dir' = [dir EXCEPT ![hold[t]] = Turned(Target(t), @)]
    /\ Goto(t, "process")
    /\ UNCHANGED <<heap, cache, queueVars, hold, scan, ctlVars>>

(* The write of a direct module.  On success the module puts the packet,   *)
(* on failure it is left to pipeline_module_process(): HandleError.        *)
WriteOk(t) ==
    /\ pc[t] = "process" /\ Kind[at[t]] = "direct"
    /\ Put(t)
    /\ Goto(t, Return(t))
    /\ UNCHANGED <<queueVars, at, scan, ctlVars>>

ProcessFailPuts(t) ==                   \* mutant: the module puts, then the pipeline
    /\ pc[t] = "process" /\ Kind[at[t]] \in {"direct", "plugin"}
    /\ cache' = cache \cup {hold[t]}
    /\ Goto(t, "error")
    /\ UNCHANGED <<heap, hold, queueVars, dir, at, scan, ctlVars>>

ProcessFail(t) ==
    /\ pc[t] = "process" /\ Kind[at[t]] \in {"direct", "plugin"}
    /\ Goto(t, "error")
    /\ UNCHANGED <<pktVars, at, scan, ctlVars>>

HandleError(t) ==
    /\ pc[t] = "error"
    /\ Put(t)
    /\ Goto(t, "errlog")
    /\ UNCHANGED <<queueVars, at, scan, ctlVars>>

LogError(t) ==
    /\ pc[t] = "errlog"
    /\ Goto(t, Return(t))
    /\ UNCHANGED <<pktVars, at, scan, ctlVars>>

Enqueue(t) ==
    /\ pc[t] = "process" /\ at[t] \in Queued
    /\ sendq' = [sendq EXCEPT ![at[t]] = @ \cup {hold[t]}]
    /\ hold' = [hold EXCEPT ![t] = None]
    /\ \/ Goto(t, Return(t))
       \/ Kind[at[t]] = "http_normal" /\ Goto(t, "sendnext")       \* thc_send_ready
    /\ UNCHANGED <<heap, cache, recvq, posts, dir, at, scan, ctlVars>>

(* tp_http_send_next_normal() run by the pipeline's thread: the packet it  *)
(* sends is taken off the queue.                                           *)
SendNext(t) ==
    /\ pc[t] = "sendnext"
    /\ \/ \E p \in sendq[at[t]] :
            /\ sendq' = [sendq EXCEPT ![at[t]] = @ \ {p}]
            /\ hold' = [hold EXCEPT ![t] = p]
            /\ Goto(t, "httpwrite")
       \/ /\ sendq[at[t]] = {}
          /\ Goto(t, Return(t))
          /\ UNCHANGED <<sendq, hold>>
    /\ UNCHANGED <<heap, cache, recvq, posts, dir, at, scan, ctlVars>>

HttpWrittenForgets(t) ==                \* mutant: the sent packet is not put
    /\ pc[t] = "httpwrite"
    /\ hold' = [hold EXCEPT ![t] = None]
    /\ Goto(t, Return(t))
    /\ UNCHANGED <<heap, cache, queueVars, dir, at, scan, ctlVars>>

HttpWritten(t) ==
    /\ pc[t] = "httpwrite"
    /\ Put(t)
    /\ Goto(t, Return(t))
    /\ UNCHANGED <<queueVars, at, scan, ctlVars>>

(* The module hands the packet on: module.c turns it back (line 81).       *)
HandOn(t) ==
    /\ pc[t] = "process" /\ at[t] \in Returns
    /\ dir' = [dir EXCEPT ![hold[t]] = Turned(at[t], @)]
    /\ Goto(t, "deliver")
    /\ UNCHANGED <<heap, cache, queueVars, hold, at, scan, ctlVars>>

(* A plugin consumes the packet.                                           *)
Drop(t) ==
    /\ pc[t] = "process" /\ Kind[at[t]] = "plugin"
    /\ Put(t)
    /\ Goto(t, Return(t))
    /\ UNCHANGED <<queueVars, at, scan, ctlVars>>

(* A pending cancellation is acted upon in a system call that blocks, or   *)
(* in the logger.  The packet the thread holds stays allocated.            *)
CancellationPoint(t) ==
    \/ pc[t] \in {"read", "httpwrite", "errlog"}
    \/ pc[t] = "process" /\ Kind[at[t]] = "direct"
    \/ pc[t] = "poll" /\ Kind[at[t]] = "xmpp"

Cancelled(t) ==
    /\ cancel[t]
    /\ CancellationPoint(t)
    /\ Goto(t, "cancelled")
    /\ UNCHANGED <<pktVars, at, scan, ctlVars>>

(* The steps in which a thread waits for the outside world.                *)
External(t) ==
    ReadOk(t) \/ ReadFail(t) \/ WriteOk(t) \/ ProcessFail(t) \/ HttpWritten(t)

Internal(t) ==
    \/ TestRunning(t) \/ (t = Loop /\ Scan)
    \/ PollDirect(t) \/ PollXmpp(t) \/ Dequeue(t) \/ PollPlugin(t)
    \/ Deliver(t) \/ HandleError(t) \/ LogError(t)
    \/ Enqueue(t) \/ SendNext(t) \/ HandOn(t) \/ Drop(t)
    \/ Cancelled(t)

-----------------------------------------------------------------------------
(* The worker thread of a queued transport, as far as packets go.          *)

WorkerTest(m) ==
    /\ pc[Worker(m)] = "test"
    /\ Goto(Worker(m), IF stop[m] THEN "done" ELSE "body")
    /\ UNCHANGED <<pktVars, at, scan, ctlVars>>

WorkerIdle(m) ==
    /\ pc[Worker(m)] = "body"
    /\ Goto(Worker(m), "test")
    /\ UNCHANGED <<pktVars, at, scan, ctlVars>>

(* A stanza, or a message of http in normal mode: a whole packet in either *)
(* case.                                                                   *)
WorkerReceive(m) ==
    /\ pc[Worker(m)] = "body"
    /\ \E p \in Packets : Get(Worker(m), p)
    /\ Goto(Worker(m), "received")
    /\ UNCHANGED <<queueVars, dir, at, scan, ctlVars>>

WorkerEnqueue(m) ==
    /\ pc[Worker(m)] = "received"
    /\ recvq' = [recvq EXCEPT ![m] = @ \cup {hold[Worker(m)]}]
    /\ hold' = [hold EXCEPT ![Worker(m)] = None]
    /\ Goto(Worker(m), IF Kind[m] = "xmpp" THEN "post" ELSE "test")
    /\ UNCHANGED <<heap, cache, sendq, posts, dir, at, scan, ctlVars>>

WorkerPostLost(m) ==                    \* mutant: queued without a post
    /\ pc[Worker(m)] = "post"
    /\ Goto(Worker(m), "test")
    /\ UNCHANGED <<pktVars, at, scan, ctlVars>>

WorkerPost(m) ==
    /\ pc[Worker(m)] = "post"
    /\ posts' = [posts EXCEPT ![m] = @ + 1]
    /\ Goto(Worker(m), "test")
    /\ UNCHANGED <<heap, cache, sendq, recvq, dir, hold, at, scan, ctlVars>>

WorkerDequeue(m) ==
    /\ pc[Worker(m)] = "body"
    /\ \E p \in sendq[m] :
         /\ sendq' = [sendq EXCEPT ![m] = @ \ {p}]
         /\ hold' = [hold EXCEPT ![Worker(m)] = p]
    /\ Goto(Worker(m), "sending")
    /\ UNCHANGED <<heap, cache, recvq, posts, dir, at, scan, ctlVars>>

WorkerSent(m) ==
    /\ pc[Worker(m)] = "sending"
    /\ Put(Worker(m))
    /\ Goto(Worker(m), "body")
    /\ UNCHANGED <<queueVars, at, scan, ctlVars>>

WorkerStep(m) ==
    \/ WorkerTest(m) \/ WorkerIdle(m) \/ WorkerReceive(m) \/ WorkerEnqueue(m)
    \/ WorkerPost(m) \/ WorkerDequeue(m) \/ WorkerSent(m)

-----------------------------------------------------------------------------
(* main(): build the pipeline, wait for a signal, tear everything down.    *)

MainGoto(label) == mainpc' = label
noPackets == UNCHANGED <<pktVars, at, scan>>

AddModulePlain ==                       \* mutant: m_invert is never set
    /\ mainpc = "add"
    /\ IF nr + 1 = N THEN nr' = 1 /\ MainGoto("run")
                     ELSE nr' = nr + 1 /\ UNCHANGED mainpc
    /\ noPackets /\ UNCHANGED <<pc, running, cancel, stop, sig, invert>>

AddModule ==
    /\ mainpc = "add"
    /\ invert' = [invert EXCEPT ![nr + 1] =
                    IF nr = 0 THEN Type[nr + 1] = "TRANSPORT"
                              ELSE Type[nr + 1] = "INTERFACE"]
    /\ IF nr + 1 = N THEN nr' = 1 /\ MainGoto("run")
                     ELSE nr' = nr + 1 /\ UNCHANGED mainpc
    /\ noPackets /\ UNCHANGED <<pc, running, cancel, stop, sig>>

NextModulePastEnd(label) ==             \* mutant: one module too many
    IF nr > N THEN nr' = 1 /\ MainGoto(label)
              ELSE nr' = nr + 1 /\ UNCHANGED mainpc

(* One call per module in list order, then main() continues at "label".    *)
NextModule(label) ==
    IF nr = N THEN nr' = 1 /\ MainGoto(label)
              ELSE nr' = nr + 1 /\ UNCHANGED mainpc

RunModule ==
    /\ mainpc = "run"
    /\ IF nr \in Queued THEN Goto(Worker(nr), "test") ELSE UNCHANGED pc
    /\ NextModule("start")
    /\ noPackets /\ UNCHANGED <<running, cancel, stop, sig, invert>>

(* pppoat_pipeline_start(): one step per thread it creates.                *)
StartThread(t, label) ==
    \/ /\ Goto(t, "test") /\ MainGoto(label) /\ running' = TRUE
    \/ /\ StartMayFail
       /\ MainGoto("wait") /\ running' = FALSE /\ UNCHANGED pc

SkipThread(label) == MainGoto(label) /\ running' = TRUE /\ UNCHANGED pc

StartBlk1 ==
    /\ mainpc = "start"
    /\ IF Blocking(1) THEN StartThread(Blk1, "start2") ELSE SkipThread("start2")
    /\ noPackets /\ UNCHANGED <<cancel, stop, nr, sig, invert>>

StartBlk2 ==
    /\ mainpc = "start2"
    /\ IF Blocking(N) THEN StartThread(Blk2, "start3") ELSE SkipThread("start3")
    /\ noPackets /\ UNCHANGED <<cancel, stop, nr, sig, invert>>

StartLoop ==
    /\ mainpc = "start3"
    /\ IF HasLoop THEN StartThread(Loop, "wait") ELSE SkipThread("wait")
    /\ noPackets /\ UNCHANGED <<cancel, stop, nr, sig, invert>>

Signal ==
    /\ ~sig /\ mainpc # "exit"
    /\ sig' = TRUE
    /\ noPackets /\ UNCHANGED <<pc, running, cancel, stop, mainpc, nr, invert>>

StopPipelineSkipsLoop ==                \* mutant: the loop thread is not joined
    /\ mainpc = "wait" /\ sig
    /\ running' = FALSE
    /\ MainGoto("cancel2")
    /\ noPackets /\ UNCHANGED <<pc, cancel, stop, nr, sig, invert>>

(* pppoat_semaphore_wait(&exit_sem), then pppoat_pipeline_stop().          *)
StopPipeline ==
    /\ mainpc = "wait" /\ sig
    /\ running' = FALSE
    /\ MainGoto(IF HasLoop THEN "joinloop" ELSE "cancel2")
    /\ noPackets /\ UNCHANGED <<pc, cancel, stop, nr, sig, invert>>

(* pthread_join() returns once the thread has ended.                       *)
Ended(a) == pc[a] \in {"done", "cancelled"}

Join(t, from, label) ==
    /\ mainpc = from
    /\ Ended(t)
    /\ MainGoto(label)
    /\ noPackets /\ UNCHANGED <<pc, running, cancel, stop, nr, sig, invert>>

CancelForgotten(t, edge, from, join, label) ==  \* mutant: joins without cancelling
    /\ mainpc = from
    /\ MainGoto(join)
    /\ noPackets /\ UNCHANGED <<pc, running, cancel, stop, nr, sig, invert>>

CancelThread(t, edge, from, join, label) ==
    /\ mainpc = from
    /\ IF Blocking(edge)
       THEN MainGoto(join) /\ cancel' = [cancel EXCEPT ![t] = TRUE]
       ELSE MainGoto(label) /\ UNCHANGED cancel
    /\ noPackets /\ UNCHANGED <<pc, running, stop, nr, sig, invert>>

StopModule ==
    /\ mainpc = "stop"
    /\ IF nr \in Queued /\ ~stop[nr]
       THEN stop' = [stop EXCEPT ![nr] = TRUE] /\ UNCHANGED <<mainpc, nr>>
       ELSE /\ nr \in Queued => Ended(Worker(nr))
            /\ NextModule("fini") /\ UNCHANGED stop
    /\ noPackets /\ UNCHANGED <<pc, running, cancel, sig, invert>>

FiniModuleNoFlush ==                    \* mutant: "TODO Flush queues."
    /\ mainpc = "fini"
    /\ NextModule("cleanup")
    /\ noPackets /\ UNCHANGED <<pc, running, cancel, stop, sig, invert>>

(* mop_fini() of a queued transport puts what is left in its queues.       *)
FiniModule ==
    /\ mainpc = "fini"
    /\ LET flushed == IF nr \in Queued THEN sendq[nr] \cup recvq[nr] ELSE {}
       IN  /\ cache' = cache \cup flushed
           /\ dir' = [p \in Packets |-> IF p \in flushed THEN "UNKNOWN"
                                                         ELSE dir[p]]
           /\ sendq' = [sendq EXCEPT ![nr] = @ \ flushed]
           /\ recvq' = [recvq EXCEPT ![nr] = @ \ flushed]
    /\ NextModule("cleanup")
    /\ UNCHANGED <<heap, posts, hold, pc, at, scan>>
    /\ UNCHANGED <<running, cancel, stop, sig, invert>>

(* pppoat_cleanup() reaches pppoat_packets_fini(): the cache is freed.     *)
Cleanup ==
    /\ mainpc = "cleanup"
    /\ heap' = heap \ cache
    /\ cache' = {}
    /\ MainGoto("exit")
    /\ UNCHANGED <<queueVars, dir, hold, pc, at, scan>>
    /\ UNCHANGED <<running, cancel, stop, nr, sig, invert>>

MainStep ==
    \/ AddModule \/ RunModule \/ StartBlk1 \/ StartBlk2 \/ StartLoop
    \/ StopPipeline
    \/ Join(Loop, "joinloop", "cancel2")
    \/ CancelThread(Blk2, N, "cancel2", "join2", "cancel1")
    \/ Join(Blk2, "join2", "cancel1")
    \/ CancelThread(Blk1, 1, "cancel1", "join1", "stop")
    \/ Join(Blk1, "join1", "stop")
    \/ StopModule \/ FiniModule \/ Cleanup

Exited == mainpc = "exit" /\ UNCHANGED vars

-----------------------------------------------------------------------------
Init ==
    /\ heap = {} /\ cache = {}
    /\ sendq = [m \in Mods |-> {}] /\ recvq = [m \in Mods |-> {}]
    /\ posts = [m \in Mods |-> 0]
    /\ dir = [p \in Packets |-> "UNKNOWN"]
    /\ hold = [a \in Actors |-> None]
    /\ pc = [a \in Actors |-> "absent"]
    /\ at = [t \in Threads |-> 1] /\ scan = 1
    /\ invert = [m \in Mods |-> FALSE]
    /\ running = FALSE
    /\ cancel = [t \in Threads |-> FALSE]
    /\ stop = [m \in Mods |-> FALSE]
    /\ mainpc = "add" /\ nr = 0
    /\ sig = FALSE

Next ==
    \/ \E t \in Threads : External(t) \/ Internal(t)
    \/ \E m \in Queued : WorkerStep(m)
    \/ MainStep \/ Signal \/ Exited

Spec == Init /\ [][Next]_vars

(* A thread that can run, runs.  Reads and writes of the threads that are  *)
(* cancelled may block for ever; the loop thread is never cancelled, so    *)
(* pppoat_pipeline_stop() relies on its writes to return.                  *)
Fairness ==
    /\ \A t \in Threads : WF_vars(Internal(t))
    /\ WF_vars(External(Loop))
    /\ \A m \in Queued : WF_vars(WorkerStep(m))
    /\ WF_vars(MainStep)

FairSpec == Spec /\ Fairness

-----------------------------------------------------------------------------
(* Properties.                                                             *)

Labels == {"absent", "test", "scan", "poll", "read", "dequeue", "deliver",
           "process", "error", "errlog", "sendnext", "httpwrite", "cancelled",
           "done", "body", "received", "post", "sending"}
MainLabels == {"add", "run", "start", "start2", "start3", "wait", "joinloop",
               "cancel2", "join2", "cancel1", "join1", "stop", "fini",
               "cleanup", "exit"}

PacketTypes ==
    /\ heap \subseteq Packets /\ cache \subseteq Packets
    /\ sendq \in [Mods -> SUBSET Packets] /\ recvq \in [Mods -> SUBSET Packets]
    /\ hold \in [Actors -> Packets \cup {None}]

ControlTypes ==
    /\ posts \in [Mods -> Nat]
    /\ dir \in [Packets -> Dirs]
    /\ pc \in [Actors -> Labels]
    /\ at \in [Threads -> Mods] /\ scan \in 1..(N + 1)
    /\ invert \in [Mods -> BOOLEAN] /\ cancel \in [Threads -> BOOLEAN]
    /\ stop \in [Mods -> BOOLEAN]
    /\ running \in BOOLEAN /\ sig \in BOOLEAN
    /\ mainpc \in MainLabels /\ nr \in 0..N
    /\ IF mainpc = "add" THEN nr < N ELSE nr > 0

(* Every variable keeps its type; main()'s cursor stays within the list.   *)
TypeOK == PacketTypes /\ ControlTypes

(* A packet has at most one owner (pipeline.h: "takes ownership"): it is   *)
(* never in the cache, in a queue and in a thread's hands at once, nor in  *)
(* two queues, nor in the hands of two threads.  On the side channel of    *)
(* http, which is not one of the Kinds, it would not hold.                 *)
Ownership ==
    /\ \A a, b \in Actors : a # b /\ hold[a] # None => hold[a] # hold[b]
    /\ \A a \in Actors : hold[a] \notin cache
    /\ \A a \in Actors, m \in Mods : hold[a] \notin sendq[m] \cup recvq[m]
    /\ \A m \in Mods : cache \cap (sendq[m] \cup recvq[m]) = {}
    /\ \A m, n \in Mods : sendq[m] \cap recvq[n] = {}
    /\ \A m, n \in Mods : m # n => /\ sendq[m] \cap sendq[n] = {}
                                   /\ recvq[m] \cap recvq[n] = {}

Owned(p) ==
    \/ p \in cache
    \/ \E m \in Mods : p \in sendq[m] \cup recvq[m]
    \/ \E a \in Actors : hold[a] = p

(* No packet is lost and none is used after it was freed: what is allocated*)
(* is exactly what the cache, a queue or a thread still refers to (or, on  *)
(* the side channel of http, thc_recv_pkt, which is no place here).        *)
NoOrphan == \A p \in Packets : p \in heap <=> Owned(p)

(* The assertions of pipeline_module_process(), lines 219-221: a packet on *)
(* the move has a direction and a neighbour on that side.                  *)
NeverPastTheEnd ==
    \A t \in Threads : pc[t] = "deliver" =>
        dir[hold[t]] \in {"SEND", "RECV"} /\ Target(t) \in Mods

(* The assertion every mop_process begins with (if_fd.c:159, tp_udp.c:294):*)
(* whatever the order of the modules, an interface only gets packets to    *)
(* receive and a transport only packets to send.                           *)
DirectionAgrees ==
    \A t \in Threads : pc[t] = "process" /\ Type[at[t]] # "PLUGIN" =>
        dir[hold[t]] = Expects(at[t])

(* txc_recv_sem counts the packets of the queue, so tp_xmpp_pkt_get() never*)
(* finds the queue empty after its wait.                                   *)
SemCounts ==
    \A m \in Queued : Kind[m] = "xmpp" /\ mainpc \notin {"fini", "cleanup", "exit"} =>
        Cardinality(recvq[m]) = posts[m]
            + (IF pc[Worker(m)] = "post" THEN 1 ELSE 0)
            + Cardinality({t \in Threads : pc[t] = "dequeue" /\ at[t] = m})

(* main() stops and frees the modules only when no thread of the pipeline  *)
(* can call them, and the packets only when no worker can either.          *)
TeardownOrder ==
    /\ mainpc \in {"stop", "fini", "cleanup", "exit"} =>
          \A t \in Threads : pc[t] \in {"absent", "done", "cancelled"}
    /\ mainpc \in {"fini", "cleanup", "exit"} =>
          \A m \in Queued : Ended(Worker(m))

(* At exit the only packets still allocated are those that cancelled       *)
(* threads were holding: the queues were flushed, the cache freed.         *)
ExitLeak ==
    mainpc = "exit" => heap \subseteq {hold[t] : t \in {u \in Threads : pc[u] = "cancelled"}}

(* A signal ends the program, even while every thread is blocked in a read *)
(* that never returns.                                                     *)
Terminates == sig ~> mainpc = "exit"
=============================================================================
