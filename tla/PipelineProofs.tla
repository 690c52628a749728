--------------------------- MODULE PipelineProofs ---------------------------
(***************************************************************************)
(* Proofs about the pipeline, for any number of packets and modules, every *)
(* arrangement of interfaces, transports and plugins the assumptions of    *)
(* Pipeline allow, and with threads that may fail to start.  A module http *)
(* is in its normal mode: the kinds of modules have no side channel.       *)
(*                                                                         *)
(* IInv is inductive: the types, the two halves of ownership, what a thread*)
(* holds at each label (without it a put could free a packet twice) and    *)
(* which threads do not exist yet.  Directions and the order of the        *)
(* teardown need an invariant of their own on top of it.                   *)
(***************************************************************************)
EXTENDS Pipeline, FiniteSetTheorems, TLAPS

HoldLabels == {"read", "deliver", "process", "error", "httpwrite",
               "received", "sending"}

(* What a thread points to follows from where it is.  A cancelled thread   *)
(* keeps what it held.                                                     *)
HoldsByLabel ==
    \A a \in Actors : /\ pc[a] \in HoldLabels => hold[a] # None
                      /\ pc[a] \in Labels \ (HoldLabels \cup {"cancelled"})
                            => hold[a] = None

(* A thread that main() has yet to create is absent.                       *)
NotStartedYet ==
    /\ mainpc \in {"add", "run", "start"} => pc[Blk1] = "absent"
    /\ mainpc \in {"add", "run", "start", "start2"} => pc[Blk2] = "absent"
    /\ mainpc \in {"add", "run", "start", "start2", "start3"} => pc[Loop] = "absent"
    /\ \A m \in Mods : mainpc = "add" \/ (mainpc = "run" /\ nr <= m)
            => pc[Worker(m)] = "absent"

(* The inductive invariant, and the part of it that is about packets.      *)
IInv == TypeOK /\ Ownership /\ NoOrphan /\ HoldsByLabel /\ NotStartedYet

PacketInv == PacketTypes /\ Ownership /\ NoOrphan

(* pppoat_packet_get() gives one packet one more owner: the caller.        *)
LEMMA GetKeeps ==
  ASSUME PacketInv, NEW a \in Actors, NEW p \in Packets, hold[a] = None,
         Get(a, p), UNCHANGED <<sendq, recvq>>
  PROVE  PacketInv'
  BY PacketsAssumption DEF PacketInv, PacketTypes, Ownership, NoOrphan, Owned, Get

(* pppoat_packet_put() moves the packet back into the cache.               *)
LEMMA PutKeeps ==
  ASSUME PacketInv, NEW a \in Actors, hold[a] # None,
         Put(a), UNCHANGED <<sendq, recvq>>
  PROVE  PacketInv'
  BY PacketsAssumption DEF PacketInv, PacketTypes, Ownership, NoOrphan, Owned, Put

(* Queueing a packet to be sent moves it from the thread to the queue.     *)
LEMMA HoldToSendq ==
  ASSUME PacketInv, NEW a \in Actors, NEW m \in Mods, hold[a] # None,
         sendq' = [sendq EXCEPT ![m] = @ \cup {hold[a]}],
         hold' = [hold EXCEPT ![a] = None],
         UNCHANGED <<heap, cache, recvq>>
  PROVE  PacketInv'
  BY PacketsAssumption DEF PacketInv, PacketTypes, Ownership, NoOrphan, Owned

(* Queueing a received packet moves it from the worker to the queue.       *)
LEMMA HoldToRecvq ==
  ASSUME PacketInv, NEW a \in Actors, NEW m \in Mods, hold[a] # None,
         recvq' = [recvq EXCEPT ![m] = @ \cup {hold[a]}],
         hold' = [hold EXCEPT ![a] = None],
         UNCHANGED <<heap, cache, sendq>>
  PROVE  PacketInv'
  BY PacketsAssumption DEF PacketInv, PacketTypes, Ownership, NoOrphan, Owned

(* Taking a packet from the send queue moves it to the thread.             *)
LEMMA SendqToHold ==
  ASSUME PacketInv, NEW a \in Actors, NEW m \in Mods, hold[a] = None,
         NEW p \in sendq[m],
         sendq' = [sendq EXCEPT ![m] = @ \ {p}],
         hold' = [hold EXCEPT ![a] = p],
         UNCHANGED <<heap, cache, recvq>>
  PROVE  PacketInv'
  BY PacketsAssumption DEF PacketInv, PacketTypes, Ownership, NoOrphan, Owned

(* Taking a packet from the receive queue moves it to the thread.          *)
LEMMA RecvqToHold ==
  ASSUME PacketInv, NEW a \in Actors, NEW m \in Mods, hold[a] = None,
         NEW p \in recvq[m],
         recvq' = [recvq EXCEPT ![m] = @ \ {p}],
         hold' = [hold EXCEPT ![a] = p],
         UNCHANGED <<heap, cache, sendq>>
  PROVE  PacketInv'
  BY PacketsAssumption DEF PacketInv, PacketTypes, Ownership, NoOrphan, Owned

(* mop_fini() moves what is left in a transport's queues to the cache.     *)
LEMMA FlushKeeps ==
  ASSUME PacketInv, NEW m \in Mods, NEW Q,
         Q \subseteq sendq[m] \cup recvq[m],
         cache' = cache \cup Q,
         sendq' = [sendq EXCEPT ![m] = @ \ Q],
         recvq' = [recvq EXCEPT ![m] = @ \ Q],
         UNCHANGED <<heap, hold>>
  PROVE  PacketInv'
  BY PacketsAssumption DEF PacketInv, PacketTypes, Ownership, NoOrphan, Owned

(* pppoat_packets_fini() frees the packets of the cache and no others.     *)
LEMMA FreeKeeps ==
  ASSUME PacketInv, heap' = heap \ cache, cache' = {},
         UNCHANGED <<sendq, recvq, hold>>
  PROVE  PacketInv'
  BY PacketsAssumption DEF PacketInv, PacketTypes, Ownership, NoOrphan, Owned

(* The threads of the pipeline and the workers are different actors.       *)
LEMMA ActorFacts ==
  /\ Threads \subseteq Actors
  /\ Blk1 \in Threads /\ Blk2 \in Threads /\ Loop \in Threads
  /\ \A m \in Mods : Worker(m) \in Actors
  /\ Queued \subseteq Mods
  /\ 1 \in Mods /\ N \in Mods
BY ModulesAssumption DEF Threads, Actors, Blk1, Blk2, Loop, Worker, Queued, Mods

(* main()'s cursor stays within the list of modules.                       *)
LEMMA NextModuleTypes ==
  ASSUME ControlTypes, mainpc # "add", NEW l \in MainLabels \ {"add"}, NextModule(l)
  PROVE  /\ mainpc' \in MainLabels /\ nr' \in 0..N
         /\ IF mainpc' = "add" THEN nr' < N ELSE nr' > 0
  <1>1. nr \in 1..N
    BY ModulesAssumption DEF ControlTypes
  <1>. QED
    BY ModulesAssumption, <1>1 DEF ControlTypes, NextModule, MainGoto

(* Every step keeps the types of the control variables.                    *)
LEMMA ControlInductive == ControlTypes /\ [Next]_vars => ControlTypes'
<1> SUFFICES ASSUME ControlTypes, [Next]_vars PROVE ControlTypes'
  OBVIOUS
<1> USE ModulesAssumption, ActorFacts
<1> USE DEF ControlTypes, pktVars, queueVars, ctlVars, Dirs, Types, Kinds
<1>1. ASSUME NEW t \in Threads, TestRunning(t) PROVE ControlTypes'
  BY <1>1 DEF TestRunning, Goto, Labels, Return, Home
<1>2. ASSUME NEW t \in Threads, PollDirect(t) PROVE ControlTypes'
  BY <1>2 DEF PollDirect, Goto, Labels, Return, Get
<1>3. ASSUME NEW t \in Threads, ReadOk(t) PROVE ControlTypes'
  BY <1>3 DEF ReadOk, Goto, Labels, Return, Turned, Flip, Produces, Expects
<1>4. ASSUME NEW t \in Threads, ReadFail(t) PROVE ControlTypes'
  BY <1>4 DEF ReadFail, Goto, Labels, Return, Put
<1>5. ASSUME NEW t \in Threads, PollXmpp(t) PROVE ControlTypes'
  <2>1. posts' \in [Mods -> Nat]
    <3>1. at[t] \in Mods /\ posts[at[t]] \in Nat /\ posts[at[t]] > 0
      BY <1>5 DEF PollXmpp
    <3>2. posts[at[t]] - 1 \in Nat
      BY <3>1
    <3>. QED
      BY <1>5, <3>1, <3>2 DEF PollXmpp
  <2>. QED
    BY <1>5, <2>1 DEF PollXmpp, Goto, Labels
<1>6. ASSUME NEW t \in Threads, Dequeue(t) PROVE ControlTypes'
  BY <1>6 DEF Dequeue, Goto, Labels, Return, Turned, Flip
<1>7. ASSUME NEW t \in Threads, PollPlugin(t) PROVE ControlTypes'
  BY <1>7 DEF PollPlugin, Goto, Labels, Return, Get, Turned, Flip
<1>8. ASSUME NEW t \in Threads, Deliver(t) PROVE ControlTypes'
  BY <1>8 DEF Deliver, Goto, Labels, Return, Turned, Flip
<1>9. ASSUME NEW t \in Threads, WriteOk(t) PROVE ControlTypes'
  BY <1>9 DEF WriteOk, Goto, Labels, Return, Put
<1>10. ASSUME NEW t \in Threads, ProcessFail(t) PROVE ControlTypes'
  BY <1>10 DEF ProcessFail, Goto, Labels, Return
<1>11. ASSUME NEW t \in Threads, HandleError(t) PROVE ControlTypes'
  BY <1>11 DEF HandleError, Goto, Labels, Return, Put
<1>12. ASSUME NEW t \in Threads, LogError(t) PROVE ControlTypes'
  BY <1>12 DEF LogError, Goto, Labels, Return
<1>13. ASSUME NEW t \in Threads, Enqueue(t) PROVE ControlTypes'
  BY <1>13 DEF Enqueue, Goto, Labels, Return
<1>14. ASSUME NEW t \in Threads, SendNext(t) PROVE ControlTypes'
  BY <1>14 DEF SendNext, Goto, Labels, Return
<1>15. ASSUME NEW t \in Threads, HttpWritten(t) PROVE ControlTypes'
  BY <1>15 DEF HttpWritten, Goto, Labels, Return, Put
<1>16. ASSUME NEW t \in Threads, HandOn(t) PROVE ControlTypes'
  BY <1>16 DEF HandOn, Goto, Labels, Return, Turned, Flip
<1>17. ASSUME NEW t \in Threads, Drop(t) PROVE ControlTypes'
  BY <1>17 DEF Drop, Goto, Labels, Return, Put
<1>18. ASSUME NEW t \in Threads, Cancelled(t) PROVE ControlTypes'
  BY <1>18 DEF Cancelled, Goto, Labels, Return
<1>19. ASSUME Scan PROVE ControlTypes'
  <2>1. CASE scan > N
    BY <1>19, <2>1 DEF Scan, Goto, Labels
  <2>2. CASE ~(scan > N)
    <3>1. scan \in Mods /\ scan + 1 \in 1..(N + 1)
      BY <2>2 DEF Mods
    <3>. QED
      BY <1>19, <2>2, <3>1 DEF Scan, Goto, Labels
  <2>. QED
    BY <2>1, <2>2
<1>20. ASSUME NEW m \in Queued, WorkerTest(m) PROVE ControlTypes'
  BY <1>20 DEF WorkerTest, Goto, Labels
<1>21. ASSUME NEW m \in Queued, WorkerIdle(m) PROVE ControlTypes'
  BY <1>21 DEF WorkerIdle, Goto, Labels
<1>22. ASSUME NEW m \in Queued, WorkerReceive(m) PROVE ControlTypes'
  BY <1>22 DEF WorkerReceive, Goto, Labels, Get
<1>23. ASSUME NEW m \in Queued, WorkerEnqueue(m) PROVE ControlTypes'
  BY <1>23 DEF WorkerEnqueue, Goto, Labels
<1>24. ASSUME NEW m \in Queued, WorkerPost(m) PROVE ControlTypes'
  BY <1>24 DEF WorkerPost, Goto, Labels
<1>25. ASSUME NEW m \in Queued, WorkerDequeue(m) PROVE ControlTypes'
  BY <1>25 DEF WorkerDequeue, Goto, Labels
<1>26. ASSUME NEW m \in Queued, WorkerSent(m) PROVE ControlTypes'
  BY <1>26 DEF WorkerSent, Goto, Labels, Put
<1>27. ASSUME AddModule PROVE ControlTypes'
  <2>1. nr \in Nat /\ nr < N
    BY <1>27 DEF AddModule
  <2>2. invert' \in [Mods -> BOOLEAN]
    BY <1>27 DEF AddModule
  <2>3. /\ mainpc' \in MainLabels /\ nr' \in 0..N
        /\ IF mainpc' = "add" THEN nr' < N ELSE nr' > 0
    BY <1>27, <2>1 DEF AddModule, MainGoto, MainLabels
  <2>. QED
    BY <1>27, <2>2, <2>3 DEF AddModule, noPackets
<1>28. ASSUME RunModule PROVE ControlTypes'
  <2>1. /\ mainpc' \in MainLabels /\ nr' \in 0..N
        /\ IF mainpc' = "add" THEN nr' < N ELSE nr' > 0
    BY <1>28, NextModuleTypes DEF RunModule, MainLabels
  <2>. QED
    BY <1>28, <2>1 DEF RunModule, noPackets, Goto, Labels
<1>29. ASSUME StartBlk1 PROVE ControlTypes'
  BY <1>29 DEF StartBlk1, MainGoto, MainLabels, noPackets, StartThread, SkipThread, Goto, Labels
<1>30. ASSUME StartBlk2 PROVE ControlTypes'
  BY <1>30 DEF StartBlk2, MainGoto, MainLabels, noPackets, StartThread, SkipThread, Goto, Labels
<1>31. ASSUME StartLoop PROVE ControlTypes'
  BY <1>31 DEF StartLoop, MainGoto, MainLabels, noPackets, StartThread, SkipThread, Goto, Labels
<1>32. ASSUME StopPipeline PROVE ControlTypes'
  BY <1>32 DEF StopPipeline, MainGoto, MainLabels, noPackets
<1>33. ASSUME StopModule PROVE ControlTypes'
  <2>1. /\ mainpc' \in MainLabels /\ nr' \in 0..N
        /\ IF mainpc' = "add" THEN nr' < N ELSE nr' > 0
    BY <1>33, NextModuleTypes DEF StopModule, MainLabels
  <2>. QED
    BY <1>33, <2>1 DEF StopModule, noPackets
<1>34. ASSUME FiniModule PROVE ControlTypes'
  <2>1. /\ mainpc' \in MainLabels /\ nr' \in 0..N
        /\ IF mainpc' = "add" THEN nr' < N ELSE nr' > 0
    BY <1>34, NextModuleTypes DEF FiniModule, MainLabels
  <2>2. dir' \in [Packets -> Dirs]
    BY <1>34 DEF FiniModule
  <2>. QED
    BY <1>34, <2>1, <2>2 DEF FiniModule
<1>35. ASSUME Cleanup PROVE ControlTypes'
  BY <1>35 DEF Cleanup, MainGoto, MainLabels, noPackets
<1>36. ASSUME Signal PROVE ControlTypes'
  BY <1>36 DEF Signal, MainGoto, MainLabels, noPackets
<1>37. ASSUME NEW t \in Threads, NEW f \in MainLabels, NEW l \in MainLabels \ {"add"},
                 f # "add", Join(t, f, l) PROVE ControlTypes'
  BY <1>37 DEF Join, MainGoto, MainLabels, noPackets
<1>38. ASSUME NEW t \in Threads, NEW e \in Mods, NEW f \in MainLabels,
                 NEW j \in MainLabels \ {"add"}, NEW l \in MainLabels \ {"add"},
                 f # "add", CancelThread(t, e, f, j, l) PROVE ControlTypes'
  BY <1>38 DEF CancelThread, MainGoto, MainLabels, noPackets
<1>39. CASE UNCHANGED vars
  BY <1>39 DEF vars
<1>. QED
  BY <1>1, <1>2, <1>3, <1>4, <1>5, <1>6, <1>7, <1>8, <1>9, <1>10, <1>11, <1>12, <1>13, <1>14, <1>15, <1>16, <1>17, <1>18, <1>19, <1>20, <1>21, <1>22, <1>23, <1>24, <1>25, <1>26, <1>27, <1>28, <1>29, <1>30, <1>31, <1>32, <1>33, <1>34, <1>35, <1>36, <1>37, <1>38, <1>39
     DEF Next, External, Internal, WorkerStep, MainStep, Exited, MainLabels

(* Every step keeps the ownership of packets: one case per action.         *)
LEMMA OwnershipInductive == IInv /\ [Next]_vars => PacketInv' /\ HoldsByLabel'
<1> SUFFICES ASSUME IInv, [Next]_vars PROVE PacketInv' /\ HoldsByLabel'
  OBVIOUS
<1>0. PacketInv /\ HoldsByLabel /\ PacketTypes /\ ControlTypes /\ NotStartedYet
  BY DEF IInv, PacketInv, TypeOK
<1> USE <1>0, ActorFacts
<1>1. ASSUME NEW t \in Threads, TestRunning(t) PROVE PacketInv' /\ HoldsByLabel'
  <2>1. PacketInv'
    BY <1>1 DEF TestRunning, pktVars, queueVars, PacketInv, PacketTypes, Ownership, NoOrphan, Owned
  <2>2. HoldsByLabel'
    BY <1>1 DEF TestRunning, Return, pktVars, Goto, Return, HoldsByLabel, HoldLabels, Labels, PacketTypes, ControlTypes
  <2>. QED
    BY <2>1, <2>2
<1>2. ASSUME NEW t \in Threads, PollDirect(t) PROVE PacketInv' /\ HoldsByLabel'
  <2>1. t \in Actors /\ hold[t] = None
    BY <1>2 DEF PollDirect, HoldsByLabel, HoldLabels, Labels
  <2>2. ASSUME NEW p \in Packets, Get(t, p), Goto(t, "read")
        PROVE  PacketInv' /\ HoldsByLabel'
    <3>1. PacketInv'
      BY <1>2, <2>1, <2>2, GetKeeps DEF PollDirect, queueVars
    <3>2. HoldsByLabel'
      BY <2>1, <2>2, PacketsAssumption DEF Get, Goto, HoldsByLabel, HoldLabels, Labels, PacketTypes, ControlTypes
    <3>. QED
      BY <3>1, <3>2
  <2>3. CASE UNCHANGED <<heap, cache, hold>> /\ Goto(t, "errlog")
    <3>1. PacketInv'
      BY <1>2, <2>3 DEF PollDirect, queueVars, PacketInv, PacketTypes, Ownership, NoOrphan, Owned
    <3>2. HoldsByLabel'
      BY <1>2, <2>1, <2>3 DEF PollDirect, Goto, Return, HoldsByLabel, HoldLabels, Labels, PacketTypes, ControlTypes
    <3>. QED
      BY <3>1, <3>2
  <2>. QED
    BY <1>2, <2>2, <2>3 DEF PollDirect
<1>3. ASSUME NEW t \in Threads, ReadOk(t) PROVE PacketInv' /\ HoldsByLabel'
  <2>1. PacketInv'
    BY <1>3 DEF ReadOk, pktVars, queueVars, PacketInv, PacketTypes, Ownership, NoOrphan, Owned
  <2>2. HoldsByLabel'
    BY <1>3 DEF ReadOk, pktVars, Goto, Return, HoldsByLabel, HoldLabels, Labels, PacketTypes, ControlTypes
  <2>. QED
    BY <2>1, <2>2
<1>4. ASSUME NEW t \in Threads, ReadFail(t) PROVE PacketInv' /\ HoldsByLabel'
  <2>1. t \in Actors /\ hold[t] # None
    BY <1>4 DEF ReadFail, HoldsByLabel, HoldLabels
  <2>2. PacketInv'
    BY <1>4, <2>1, PutKeeps DEF ReadFail, queueVars
  <2>3. HoldsByLabel'
    BY <1>4, <2>1 DEF ReadFail, Put, Goto, Return, HoldsByLabel, HoldLabels, Labels, PacketTypes, ControlTypes
  <2>. QED
    BY <2>2, <2>3
<1>5. ASSUME NEW t \in Threads, PollXmpp(t) PROVE PacketInv' /\ HoldsByLabel'
  <2>1. PacketInv'
    BY <1>5 DEF PollXmpp, pktVars, queueVars, PacketInv, PacketTypes, Ownership, NoOrphan, Owned
  <2>2. HoldsByLabel'
    BY <1>5 DEF PollXmpp, pktVars, Goto, Return, HoldsByLabel, HoldLabels, Labels, PacketTypes, ControlTypes
  <2>. QED
    BY <2>1, <2>2
<1>6. ASSUME NEW t \in Threads, Dequeue(t) PROVE PacketInv' /\ HoldsByLabel'
  <2>1. t \in Actors /\ hold[t] = None
    BY <1>6 DEF Dequeue, HoldsByLabel, HoldLabels, Labels
  <2>2. ASSUME NEW p \in recvq[at[t]],
               recvq' = [recvq EXCEPT ![at[t]] = @ \ {p}],
               hold' = [hold EXCEPT ![t] = p], Goto(t, "deliver")
        PROVE  PacketInv' /\ HoldsByLabel'
    <3>1. at[t] \in Mods
      BY DEF ControlTypes
    <3>2. PacketInv'
      BY <1>6, <2>1, <2>2, <3>1, RecvqToHold DEF Dequeue
    <3>3. p # None
      BY <2>2, <3>1, PacketsAssumption DEF PacketTypes
    <3>4. HoldsByLabel'
      BY <2>1, <2>2, <3>3 DEF Goto, HoldsByLabel, HoldLabels, Labels, PacketTypes, ControlTypes
    <3>. QED
      BY <3>2, <3>4
  <2>3. CASE UNCHANGED <<recvq, hold>> /\ Goto(t, Return(t))
    <3>1. PacketInv'
      BY <1>6, <2>3 DEF Dequeue, PacketInv, PacketTypes, Ownership, NoOrphan, Owned
    <3>2. HoldsByLabel'
      BY <1>6, <2>1, <2>3 DEF Dequeue, Goto, Return, HoldsByLabel, HoldLabels, Labels, PacketTypes, ControlTypes
    <3>. QED
      BY <3>1, <3>2
  <2>. QED
    BY <1>6, <2>2, <2>3 DEF Dequeue
<1>7. ASSUME NEW t \in Threads, PollPlugin(t) PROVE PacketInv' /\ HoldsByLabel'
  <2>1. t \in Actors /\ hold[t] = None
    BY <1>7 DEF PollPlugin, HoldsByLabel, HoldLabels, Labels
  <2>2. ASSUME NEW p \in Packets, Get(t, p), Goto(t, "deliver")
        PROVE  PacketInv' /\ HoldsByLabel'
    <3>1. PacketInv'
      BY <1>7, <2>1, <2>2, GetKeeps DEF PollPlugin, queueVars
    <3>2. HoldsByLabel'
      BY <2>1, <2>2, PacketsAssumption DEF Get, Goto, HoldsByLabel, HoldLabels, Labels, PacketTypes, ControlTypes
    <3>. QED
      BY <3>1, <3>2
  <2>3. CASE UNCHANGED <<heap, cache, hold>> /\ Goto(t, Return(t))
    <3>1. PacketInv'
      BY <1>7, <2>3 DEF PollPlugin, queueVars, PacketInv, PacketTypes, Ownership, NoOrphan, Owned
    <3>2. HoldsByLabel'
      BY <1>7, <2>1, <2>3 DEF PollPlugin, Goto, Return, HoldsByLabel, HoldLabels, Labels, PacketTypes, ControlTypes
    <3>. QED
      BY <3>1, <3>2
  <2>. QED
    BY <1>7, <2>2, <2>3 DEF PollPlugin
<1>8. ASSUME NEW t \in Threads, Deliver(t) PROVE PacketInv' /\ HoldsByLabel'
  <2>1. PacketInv'
    BY <1>8 DEF Deliver, pktVars, queueVars, PacketInv, PacketTypes, Ownership, NoOrphan, Owned
  <2>2. HoldsByLabel'
    BY <1>8 DEF Deliver, pktVars, Goto, Return, HoldsByLabel, HoldLabels, Labels, PacketTypes, ControlTypes
  <2>. QED
    BY <2>1, <2>2
<1>9. ASSUME NEW t \in Threads, WriteOk(t) PROVE PacketInv' /\ HoldsByLabel'
  <2>1. t \in Actors /\ hold[t] # None
    BY <1>9 DEF WriteOk, HoldsByLabel, HoldLabels
  <2>2. PacketInv'
    BY <1>9, <2>1, PutKeeps DEF WriteOk, queueVars
  <2>3. HoldsByLabel'
    BY <1>9, <2>1 DEF WriteOk, Put, Goto, Return, HoldsByLabel, HoldLabels, Labels, PacketTypes, ControlTypes
  <2>. QED
    BY <2>2, <2>3
<1>10. ASSUME NEW t \in Threads, ProcessFail(t) PROVE PacketInv' /\ HoldsByLabel'
  <2>1. PacketInv'
    BY <1>10 DEF ProcessFail, pktVars, queueVars, PacketInv, PacketTypes, Ownership, NoOrphan, Owned
  <2>2. HoldsByLabel'
    BY <1>10 DEF ProcessFail, pktVars, Goto, Return, HoldsByLabel, HoldLabels, Labels, PacketTypes, ControlTypes
  <2>. QED
    BY <2>1, <2>2
<1>11. ASSUME NEW t \in Threads, HandleError(t) PROVE PacketInv' /\ HoldsByLabel'
  <2>1. t \in Actors /\ hold[t] # None
    BY <1>11 DEF HandleError, HoldsByLabel, HoldLabels
  <2>2. PacketInv'
    BY <1>11, <2>1, PutKeeps DEF HandleError, queueVars
  <2>3. HoldsByLabel'
    BY <1>11, <2>1 DEF HandleError, Put, Goto, Return, HoldsByLabel, HoldLabels, Labels, PacketTypes, ControlTypes
  <2>. QED
    BY <2>2, <2>3
<1>12. ASSUME NEW t \in Threads, LogError(t) PROVE PacketInv' /\ HoldsByLabel'
  <2>1. PacketInv'
    BY <1>12 DEF LogError, pktVars, queueVars, PacketInv, PacketTypes, Ownership, NoOrphan, Owned
  <2>2. HoldsByLabel'
    BY <1>12 DEF LogError, pktVars, Goto, Return, HoldsByLabel, HoldLabels, Labels, PacketTypes, ControlTypes
  <2>. QED
    BY <2>1, <2>2
<1>13. ASSUME NEW t \in Threads, Enqueue(t) PROVE PacketInv' /\ HoldsByLabel'
  <2>1. /\ t \in Actors /\ hold[t] # None
        /\ at[t] \in Mods
    BY <1>13 DEF Enqueue, HoldsByLabel, HoldLabels, ControlTypes
  <2>2. PacketInv'
    BY <1>13, <2>1, HoldToSendq DEF Enqueue
  <2>3. HoldsByLabel'
    BY <1>13, <2>1 DEF Enqueue, Goto, Return, HoldsByLabel, HoldLabels, Labels, PacketTypes, ControlTypes
  <2>. QED
    BY <2>2, <2>3
<1>14. ASSUME NEW t \in Threads, SendNext(t) PROVE PacketInv' /\ HoldsByLabel'
  <2>1. t \in Actors /\ hold[t] = None
    BY <1>14 DEF SendNext, HoldsByLabel, HoldLabels, Labels
  <2>2. ASSUME NEW p \in sendq[at[t]],
               sendq' = [sendq EXCEPT ![at[t]] = @ \ {p}],
               hold' = [hold EXCEPT ![t] = p], Goto(t, "httpwrite")
        PROVE  PacketInv' /\ HoldsByLabel'
    <3>1. at[t] \in Mods
      BY DEF ControlTypes
    <3>2. PacketInv'
      BY <1>14, <2>1, <2>2, <3>1, SendqToHold DEF SendNext
    <3>3. p # None
      BY <2>2, <3>1, PacketsAssumption DEF PacketTypes
    <3>4. HoldsByLabel'
      BY <2>1, <2>2, <3>3 DEF Goto, HoldsByLabel, HoldLabels, Labels, PacketTypes, ControlTypes
    <3>. QED
      BY <3>2, <3>4
  <2>3. CASE UNCHANGED <<sendq, hold>> /\ Goto(t, Return(t))
    <3>1. PacketInv'
      BY <1>14, <2>3 DEF SendNext, PacketInv, PacketTypes, Ownership, NoOrphan, Owned
    <3>2. HoldsByLabel'
      BY <1>14, <2>1, <2>3 DEF SendNext, Goto, Return, HoldsByLabel, HoldLabels, Labels, PacketTypes, ControlTypes
    <3>. QED
      BY <3>1, <3>2
  <2>. QED
    BY <1>14, <2>2, <2>3 DEF SendNext
<1>15. ASSUME NEW t \in Threads, HttpWritten(t) PROVE PacketInv' /\ HoldsByLabel'
  <2>1. t \in Actors /\ hold[t] # None
    BY <1>15 DEF HttpWritten, HoldsByLabel, HoldLabels
  <2>2. PacketInv'
    BY <1>15, <2>1, PutKeeps DEF HttpWritten, queueVars
  <2>3. HoldsByLabel'
    BY <1>15, <2>1 DEF HttpWritten, Put, Goto, Return, HoldsByLabel, HoldLabels, Labels, PacketTypes, ControlTypes
  <2>. QED
    BY <2>2, <2>3
<1>16. ASSUME NEW t \in Threads, HandOn(t) PROVE PacketInv' /\ HoldsByLabel'
  <2>1. PacketInv'
    BY <1>16 DEF HandOn, pktVars, queueVars, PacketInv, PacketTypes, Ownership, NoOrphan, Owned
  <2>2. HoldsByLabel'
    BY <1>16 DEF HandOn, pktVars, Goto, Return, HoldsByLabel, HoldLabels, Labels, PacketTypes, ControlTypes
  <2>. QED
    BY <2>1, <2>2
<1>17. ASSUME NEW t \in Threads, Drop(t) PROVE PacketInv' /\ HoldsByLabel'
  <2>1. t \in Actors /\ hold[t] # None
    BY <1>17 DEF Drop, HoldsByLabel, HoldLabels
  <2>2. PacketInv'
    BY <1>17, <2>1, PutKeeps DEF Drop, queueVars
  <2>3. HoldsByLabel'
    BY <1>17, <2>1 DEF Drop, Put, Goto, Return, HoldsByLabel, HoldLabels, Labels, PacketTypes, ControlTypes
  <2>. QED
    BY <2>2, <2>3
<1>18. ASSUME NEW t \in Threads, Cancelled(t) PROVE PacketInv' /\ HoldsByLabel'
  <2>1. PacketInv'
    BY <1>18 DEF Cancelled, pktVars, queueVars, PacketInv, PacketTypes, Ownership, NoOrphan, Owned
  <2>2. HoldsByLabel'
    BY <1>18 DEF Cancelled, CancellationPoint, pktVars, Goto, Return, HoldsByLabel, HoldLabels, Labels, PacketTypes, ControlTypes
  <2>. QED
    BY <2>1, <2>2
<1>19. ASSUME Scan PROVE PacketInv' /\ HoldsByLabel'
  <2>1. PacketInv'
    BY <1>19 DEF Scan, noPackets, pktVars, PacketInv, PacketTypes, Ownership, NoOrphan, Owned
  <2>2. HoldsByLabel'
    BY <1>19 DEF Scan, noPackets, pktVars, Goto, HoldsByLabel, HoldLabels, Labels, PacketTypes, ControlTypes
  <2>. QED
    BY <2>1, <2>2
<1>20. ASSUME NEW m \in Queued, WorkerTest(m) PROVE PacketInv' /\ HoldsByLabel'
  <2>1. PacketInv'
    BY <1>20 DEF WorkerTest, pktVars, queueVars, PacketInv, PacketTypes, Ownership, NoOrphan, Owned
  <2>2. HoldsByLabel'
    BY <1>20 DEF WorkerTest, pktVars, Goto, Return, HoldsByLabel, HoldLabels, Labels, PacketTypes, ControlTypes
  <2>. QED
    BY <2>1, <2>2
<1>21. ASSUME NEW m \in Queued, WorkerIdle(m) PROVE PacketInv' /\ HoldsByLabel'
  <2>1. PacketInv'
    BY <1>21 DEF WorkerIdle, pktVars, queueVars, PacketInv, PacketTypes, Ownership, NoOrphan, Owned
  <2>2. HoldsByLabel'
    BY <1>21 DEF WorkerIdle, pktVars, Goto, Return, HoldsByLabel, HoldLabels, Labels, PacketTypes, ControlTypes
  <2>. QED
    BY <2>1, <2>2
<1>22. ASSUME NEW m \in Queued, WorkerReceive(m) PROVE PacketInv' /\ HoldsByLabel'
  <2>1. Worker(m) \in Actors /\ hold[Worker(m)] = None
    BY <1>22 DEF WorkerReceive, HoldsByLabel, HoldLabels, Labels
  <2>2. ASSUME NEW p \in Packets, Get(Worker(m), p), Goto(Worker(m), "received")
        PROVE  PacketInv' /\ HoldsByLabel'
    <3>1. PacketInv'
      BY <1>22, <2>1, <2>2, GetKeeps DEF WorkerReceive, queueVars
    <3>2. HoldsByLabel'
      BY <2>1, <2>2, PacketsAssumption DEF Get, Goto, HoldsByLabel, HoldLabels, Labels, PacketTypes, ControlTypes
    <3>. QED
      BY <3>1, <3>2
  <2>. QED
    BY <1>22, <2>2 DEF WorkerReceive
<1>23. ASSUME NEW m \in Queued, WorkerEnqueue(m) PROVE PacketInv' /\ HoldsByLabel'
  <2>1. /\ Worker(m) \in Actors /\ hold[Worker(m)] # None
        /\ m \in Mods
    BY <1>23 DEF WorkerEnqueue, HoldsByLabel, HoldLabels, ControlTypes
  <2>2. PacketInv'
    BY <1>23, <2>1, HoldToRecvq DEF WorkerEnqueue
  <2>3. HoldsByLabel'
    BY <1>23, <2>1 DEF WorkerEnqueue, Goto, Return, HoldsByLabel, HoldLabels, Labels, PacketTypes, ControlTypes
  <2>. QED
    BY <2>2, <2>3
<1>24. ASSUME NEW m \in Queued, WorkerPost(m) PROVE PacketInv' /\ HoldsByLabel'
  <2>1. PacketInv'
    BY <1>24 DEF WorkerPost, pktVars, queueVars, PacketInv, PacketTypes, Ownership, NoOrphan, Owned
  <2>2. HoldsByLabel'
    BY <1>24 DEF WorkerPost, pktVars, Goto, Return, HoldsByLabel, HoldLabels, Labels, PacketTypes, ControlTypes
  <2>. QED
    BY <2>1, <2>2
<1>25. ASSUME NEW m \in Queued, WorkerDequeue(m) PROVE PacketInv' /\ HoldsByLabel'
  <2>1. Worker(m) \in Actors /\ hold[Worker(m)] = None
    BY <1>25 DEF WorkerDequeue, HoldsByLabel, HoldLabels, Labels
  <2>2. ASSUME NEW p \in sendq[m],
               sendq' = [sendq EXCEPT ![m] = @ \ {p}],
               hold' = [hold EXCEPT ![Worker(m)] = p], Goto(Worker(m), "sending")
        PROVE  PacketInv' /\ HoldsByLabel'
    <3>1. m \in Mods
      BY DEF ControlTypes
    <3>2. PacketInv'
      BY <1>25, <2>1, <2>2, <3>1, SendqToHold DEF WorkerDequeue
    <3>3. p # None
      BY <2>2, <3>1, PacketsAssumption DEF PacketTypes
    <3>4. HoldsByLabel'
      BY <2>1, <2>2, <3>3 DEF Goto, HoldsByLabel, HoldLabels, Labels, PacketTypes, ControlTypes
    <3>. QED
      BY <3>2, <3>4
  <2>. QED
    BY <1>25, <2>2 DEF WorkerDequeue
<1>26. ASSUME NEW m \in Queued, WorkerSent(m) PROVE PacketInv' /\ HoldsByLabel'
  <2>1. Worker(m) \in Actors /\ hold[Worker(m)] # None
    BY <1>26 DEF WorkerSent, HoldsByLabel, HoldLabels
  <2>2. PacketInv'
    BY <1>26, <2>1, PutKeeps DEF WorkerSent, queueVars
  <2>3. HoldsByLabel'
    BY <1>26, <2>1 DEF WorkerSent, Put, Goto, Return, HoldsByLabel, HoldLabels, Labels, PacketTypes, ControlTypes
  <2>. QED
    BY <2>2, <2>3
<1>27. ASSUME AddModule PROVE PacketInv' /\ HoldsByLabel'
  <2>1. PacketInv'
    BY <1>27 DEF AddModule, noPackets, pktVars, PacketInv, PacketTypes, Ownership, NoOrphan, Owned
  <2>2. HoldsByLabel'
    BY <1>27 DEF AddModule, noPackets, pktVars, Goto, HoldsByLabel, HoldLabels, Labels, PacketTypes, ControlTypes
  <2>. QED
    BY <2>1, <2>2
<1>28. ASSUME RunModule PROVE PacketInv' /\ HoldsByLabel'
  <2>1. nr \in Queued => hold[Worker(nr)] = None
    BY <1>28 DEF RunModule, NotStartedYet, HoldsByLabel, HoldLabels, Labels, ControlTypes
  <2>2. PacketInv'
    BY <1>28 DEF RunModule, noPackets, pktVars, PacketInv, PacketTypes, Ownership, NoOrphan, Owned
  <2>3. HoldsByLabel'
    BY <1>28, <2>1 DEF RunModule, noPackets, pktVars, Goto, HoldsByLabel, HoldLabels, Labels, PacketTypes, ControlTypes
  <2>. QED
    BY <2>2, <2>3
<1>29. ASSUME StartBlk1 PROVE PacketInv' /\ HoldsByLabel'
  <2>1. hold[Blk1] = None
    BY <1>29 DEF StartBlk1, NotStartedYet, HoldsByLabel, HoldLabels, Labels
  <2>2. PacketInv'
    BY <1>29 DEF StartBlk1, noPackets, pktVars, PacketInv, PacketTypes, Ownership, NoOrphan, Owned
  <2>3. HoldsByLabel'
    BY <1>29, <2>1 DEF StartBlk1, StartThread, SkipThread, noPackets, pktVars, Goto, HoldsByLabel, HoldLabels, Labels, PacketTypes, ControlTypes
  <2>. QED
    BY <2>2, <2>3
<1>30. ASSUME StartBlk2 PROVE PacketInv' /\ HoldsByLabel'
  <2>1. hold[Blk2] = None
    BY <1>30 DEF StartBlk2, NotStartedYet, HoldsByLabel, HoldLabels, Labels
  <2>2. PacketInv'
    BY <1>30 DEF StartBlk2, noPackets, pktVars, PacketInv, PacketTypes, Ownership, NoOrphan, Owned
  <2>3. HoldsByLabel'
    BY <1>30, <2>1 DEF StartBlk2, StartThread, SkipThread, noPackets, pktVars, Goto, HoldsByLabel, HoldLabels, Labels, PacketTypes, ControlTypes
  <2>. QED
    BY <2>2, <2>3
<1>31. ASSUME StartLoop PROVE PacketInv' /\ HoldsByLabel'
  <2>1. hold[Loop] = None
    BY <1>31 DEF StartLoop, NotStartedYet, HoldsByLabel, HoldLabels, Labels
  <2>2. PacketInv'
    BY <1>31 DEF StartLoop, noPackets, pktVars, PacketInv, PacketTypes, Ownership, NoOrphan, Owned
  <2>3. HoldsByLabel'
    BY <1>31, <2>1 DEF StartLoop, StartThread, SkipThread, noPackets, pktVars, Goto, HoldsByLabel, HoldLabels, Labels, PacketTypes, ControlTypes
  <2>. QED
    BY <2>2, <2>3
<1>32. ASSUME StopPipeline PROVE PacketInv' /\ HoldsByLabel'
  <2>1. PacketInv'
    BY <1>32 DEF StopPipeline, noPackets, pktVars, PacketInv, PacketTypes, Ownership, NoOrphan, Owned
  <2>2. HoldsByLabel'
    BY <1>32 DEF StopPipeline, noPackets, pktVars, Goto, HoldsByLabel, HoldLabels, Labels, PacketTypes, ControlTypes
  <2>. QED
    BY <2>1, <2>2
<1>33. ASSUME StopModule PROVE PacketInv' /\ HoldsByLabel'
  <2>1. PacketInv'
    BY <1>33 DEF StopModule, noPackets, pktVars, PacketInv, PacketTypes, Ownership, NoOrphan, Owned
  <2>2. HoldsByLabel'
    BY <1>33 DEF StopModule, noPackets, pktVars, Goto, HoldsByLabel, HoldLabels, Labels, PacketTypes, ControlTypes
  <2>. QED
    BY <2>1, <2>2
<1>34. ASSUME FiniModule PROVE PacketInv' /\ HoldsByLabel'
  <2> DEFINE Q == IF nr \in Queued THEN sendq[nr] \cup recvq[nr] ELSE {}
  <2>1. nr \in Mods
    BY <1>34, ModulesAssumption DEF FiniModule, ControlTypes, Mods
  <2>2. /\ Q \subseteq sendq[nr] \cup recvq[nr]
        /\ cache' = cache \cup Q
        /\ sendq' = [sendq EXCEPT ![nr] = @ \ Q]
        /\ recvq' = [recvq EXCEPT ![nr] = @ \ Q]
        /\ UNCHANGED <<heap, hold, pc>>
    BY <1>34 DEF FiniModule
  <2> HIDE DEF Q
  <2>3. PacketInv'
    BY <2>1, <2>2, FlushKeeps
  <2>4. HoldsByLabel'
    BY <2>2 DEF HoldsByLabel
  <2>. QED
    BY <2>3, <2>4
<1>35. ASSUME Cleanup PROVE PacketInv' /\ HoldsByLabel'
  <2>1. PacketInv'
    BY <1>35, FreeKeeps DEF Cleanup, queueVars
  <2>2. HoldsByLabel'
    BY <1>35 DEF Cleanup, HoldsByLabel
  <2>. QED
    BY <2>1, <2>2
<1>36. ASSUME Signal PROVE PacketInv' /\ HoldsByLabel'
  <2>1. PacketInv'
    BY <1>36 DEF Signal, noPackets, pktVars, PacketInv, PacketTypes, Ownership, NoOrphan, Owned
  <2>2. HoldsByLabel'
    BY <1>36 DEF Signal, noPackets, pktVars, Goto, HoldsByLabel, HoldLabels, Labels, PacketTypes, ControlTypes
  <2>. QED
    BY <2>1, <2>2
<1>37. ASSUME NEW t, NEW f, NEW l, Join(t, f, l) PROVE PacketInv' /\ HoldsByLabel'
  <2>1. PacketInv'
    BY <1>37 DEF Join, noPackets, pktVars, PacketInv, PacketTypes, Ownership, NoOrphan, Owned
  <2>2. HoldsByLabel'
    BY <1>37 DEF Join, noPackets, pktVars, Goto, HoldsByLabel, HoldLabels, Labels, PacketTypes, ControlTypes
  <2>. QED
    BY <2>1, <2>2
<1>38. ASSUME NEW t, NEW e, NEW f, NEW j, NEW l, CancelThread(t, e, f, j, l) PROVE PacketInv' /\ HoldsByLabel'
  <2>1. PacketInv'
    BY <1>38 DEF CancelThread, noPackets, pktVars, PacketInv, PacketTypes, Ownership, NoOrphan, Owned
  <2>2. HoldsByLabel'
    BY <1>38 DEF CancelThread, noPackets, pktVars, Goto, HoldsByLabel, HoldLabels, Labels, PacketTypes, ControlTypes
  <2>. QED
    BY <2>1, <2>2
<1>39. CASE UNCHANGED vars
  BY <1>39 DEF vars, pktVars, PacketInv, PacketTypes, Ownership, NoOrphan, Owned, HoldsByLabel
<1>. QED
  BY <1>1, <1>2, <1>3, <1>4, <1>5, <1>6, <1>7, <1>8, <1>9, <1>10, <1>11, <1>12, <1>13, <1>14, <1>15, <1>16, <1>17, <1>18, <1>19, <1>20, <1>21, <1>22, <1>23, <1>24, <1>25, <1>26, <1>27, <1>28, <1>29, <1>30, <1>31, <1>32, <1>33, <1>34, <1>35, <1>36, <1>37, <1>38, <1>39
     DEF Next, External, Internal, WorkerStep, MainStep, Exited

(* A thread is absent until main() comes to the step that creates it.      *)
LEMMA StartInductive == IInv /\ [Next]_vars => NotStartedYet'
<1> SUFFICES ASSUME IInv, [Next]_vars PROVE NotStartedYet'
  OBVIOUS
<1> USE ActorFacts
<1>0. NotStartedYet /\ ControlTypes
  BY DEF IInv, TypeOK
<1>1. ASSUME UNCHANGED <<mainpc, nr>>,
             \A a \in Actors : pc[a] = "absent" => pc'[a] = "absent"
      PROVE  NotStartedYet'
  BY <1>0, <1>1 DEF NotStartedYet
<1>2. ASSUME NEW t \in Threads, External(t) \/ Internal(t) PROVE NotStartedYet'
  <2>1. UNCHANGED <<mainpc, nr>>
    BY <1>2 DEF External, Internal, ctlVars, TestRunning, PollDirect, ReadOk,
       ReadFail, PollXmpp, Dequeue, PollPlugin, Deliver, WriteOk, ProcessFail,
       HandleError, LogError, Enqueue, SendNext, HttpWritten, HandOn, Drop,
       Cancelled, Scan
  <2>2. \A a \in Actors : pc[a] = "absent" => pc'[a] = "absent"
    BY <1>0, <1>2 DEF External, Internal, Goto, TestRunning, PollDirect, ReadOk,
       ReadFail, PollXmpp, Dequeue, PollPlugin, Deliver, WriteOk, ProcessFail,
       HandleError, LogError, Enqueue, SendNext, HttpWritten, HandOn, Drop,
       Cancelled, CancellationPoint, Scan, ControlTypes
  <2>. QED
    BY <1>1, <2>1, <2>2
<1>3. ASSUME NEW m \in Queued, WorkerStep(m) PROVE NotStartedYet'
  <2>1. UNCHANGED <<mainpc, nr>>
    BY <1>3 DEF WorkerStep, ctlVars, WorkerTest, WorkerIdle, WorkerReceive,
       WorkerEnqueue, WorkerPost, WorkerDequeue, WorkerSent
  <2>2. \A a \in Actors : pc[a] = "absent" => pc'[a] = "absent"
    BY <1>0, <1>3 DEF WorkerStep, Goto, WorkerTest, WorkerIdle, WorkerReceive,
       WorkerEnqueue, WorkerPost, WorkerDequeue, WorkerSent, ControlTypes
  <2>. QED
    BY <1>1, <2>1, <2>2
<1>4. ASSUME AddModule PROVE NotStartedYet'
  <2>1. /\ \A a \in Actors : pc'[a] = pc[a]
        /\ mainpc = "add" /\ mainpc' \in {"add", "run"}
    BY <1>4 DEF AddModule, MainGoto, noPackets
  <2>. QED
    BY <1>0, <2>1 DEF NotStartedYet
<1>5. ASSUME RunModule PROVE NotStartedYet'
  <2>1. nr \in Mods
    BY <1>0, <1>5, ModulesAssumption DEF RunModule, ControlTypes, Mods
  <2>2. /\ mainpc = "run" /\ mainpc' \in {"run", "start"}
        /\ mainpc' = "run" => nr' = nr + 1
    BY <1>5 DEF RunModule, NextModule, MainGoto
  <2>3. \A a \in Actors : a # Worker(nr) => pc'[a] = pc[a]
    BY <1>0, <1>5 DEF RunModule, Goto, ControlTypes
  <2>4. \A m \in Mods : m # nr => Worker(m) # Worker(nr)
    BY DEF Worker
  <2>5. \A t \in Threads : t # Worker(nr)
    BY DEF Threads, Blk1, Blk2, Loop, Worker
  <2>6. \A m \in Mods : mainpc' = "run" /\ nr' <= m => nr <= m /\ m # nr
    BY <2>1, <2>2 DEF Mods
  <2>. QED
    BY <1>0, <2>2, <2>3, <2>4, <2>5, <2>6 DEF NotStartedYet
<1>6. ASSUME StartBlk1 \/ StartBlk2 \/ StartLoop PROVE NotStartedYet'
  <2>1. Blk1 # Blk2 /\ Blk1 # Loop /\ Blk2 # Loop
    BY DEF Blk1, Blk2, Loop
  <2>. QED
    BY <1>0, <1>6, <2>1 DEF NotStartedYet, StartBlk1, StartBlk2, StartLoop,
       StartThread, SkipThread, MainGoto, Goto, ControlTypes
<1>7. ASSUME StopPipeline \/ StopModule \/ FiniModule \/ Cleanup PROVE NotStartedYet'
  BY <1>7 DEF NotStartedYet, StopPipeline, StopModule, FiniModule, Cleanup,
     NextModule, MainGoto
<1>8. ASSUME NEW t, Join(t, "joinloop", "cancel2") \/ Join(t, "join2", "cancel1")
                    \/ Join(t, "join1", "stop") PROVE NotStartedYet'
  BY <1>8 DEF NotStartedYet, Join, MainGoto
<1>9. ASSUME \/ CancelThread(Blk2, N, "cancel2", "join2", "cancel1")
             \/ CancelThread(Blk1, 1, "cancel1", "join1", "stop") PROVE NotStartedYet'
  BY <1>9 DEF NotStartedYet, CancelThread, MainGoto
<1>10. ASSUME Signal \/ UNCHANGED vars PROVE NotStartedYet'
  BY <1>1, <1>10 DEF Signal, vars, ctlVars
<1>. QED
  BY <1>2, <1>3, <1>4, <1>5, <1>6, <1>7, <1>8, <1>9, <1>10
     DEF Next, MainStep, Exited

(* The inductive invariant holds initially.                                *)
LEMMA InitIInv == Init => IInv
<1> SUFFICES ASSUME Init PROVE IInv
  OBVIOUS
<1> USE ModulesAssumption, ActorFacts
<1>1. PacketTypes /\ Ownership /\ NoOrphan
  <2>1. PacketTypes
    BY DEF Init, PacketTypes
  <2>2. Ownership
    BY DEF Init, Ownership
  <2>3. NoOrphan
    BY PacketsAssumption DEF Init, NoOrphan, Owned
  <2>. QED
    BY <2>1, <2>2, <2>3
<1>2. ControlTypes
  <2>1. posts \in [Mods -> Nat] /\ dir \in [Packets -> Dirs] /\ pc \in [Actors -> Labels]
    BY DEF Init, Dirs, Labels
  <2>2. at \in [Threads -> Mods] /\ scan \in 1..(N + 1)
    BY DEF Init
  <2>3. /\ invert \in [Mods -> BOOLEAN] /\ cancel \in [Threads -> BOOLEAN]
        /\ stop \in [Mods -> BOOLEAN] /\ running \in BOOLEAN /\ sig \in BOOLEAN
    BY DEF Init
  <2>4. /\ mainpc \in MainLabels /\ nr \in 0..N
        /\ IF mainpc = "add" THEN nr < N ELSE nr > 0
    BY DEF Init, MainLabels
  <2>. QED
    BY <2>1, <2>2, <2>3, <2>4 DEF ControlTypes
<1>3. HoldsByLabel /\ NotStartedYet
  BY DEF Init, HoldsByLabel, HoldLabels, Labels, NotStartedYet
<1>. QED
  BY <1>1, <1>2, <1>3 DEF IInv, TypeOK

(* The inductive invariant behind the ownership of packets: the types, the *)
(* two halves of ownership, and what a thread holds at every point of      *)
(* pipeline_module_process() and of the worker loops, for any pipeline of  *)
(* modules that read and write, xmpp, http in normal mode and plugins.     *)
THEOREM Inductive == Spec => []IInv
<1>1. IInv /\ [Next]_vars => IInv'
  <2> SUFFICES ASSUME IInv, [Next]_vars PROVE IInv'
    OBVIOUS
  <2>1. ControlTypes'
    BY ControlInductive DEF IInv, TypeOK
  <2>2. PacketInv' /\ HoldsByLabel'
    BY OwnershipInductive
  <2>3. NotStartedYet'
    BY StartInductive
  <2>. QED
    BY <2>1, <2>2, <2>3 DEF IInv, TypeOK, PacketInv
<1>. QED
  BY InitIInv, <1>1, PTL DEF Spec

(* Every variable keeps its type in every pipeline main() or a caller of   *)
(* pppoat_pipeline_add_module() can build, for any number of packets.      *)
THEOREM TypeCorrect == Spec => []TypeOK
<1>1. IInv => TypeOK
  BY DEF IInv
<1>. QED
  BY Inductive, <1>1, PTL

(* Without the side channel of http no packet ever has two owners, however *)
(* the threads, the workers and the teardown interleave and wherever a     *)
(* thread is cancelled.                                                    *)
THEOREM PacketsHaveOneOwner == Spec => []Ownership
<1>1. IInv => Ownership
  BY DEF IInv
<1>. QED
  BY Inductive, <1>1, PTL

(* Without it no packet is forgotten and none is used after it was freed.  *)
THEOREM PacketsAreNotLost == Spec => []NoOrphan
<1>1. IInv => NoOrphan
  BY DEF IInv
<1>. QED
  BY Inductive, <1>1, PTL

-----------------------------------------------------------------------------
(* Routing.  The direction of a packet depends on m_invert, which          *)
(* pppoat_pipeline_add_module() computes from the position and the type of *)
(* a module, and is turned at every call of pppoat_module_process().       *)

(* The modules at the two ends never hand a packet on (they all consume).  *)
ConsumingEdges == 1 \notin Returns /\ N \notin Returns

(* m_invert is set as pppoat_pipeline_add_module() computes it.            *)
InvertOK ==
    \A m \in Mods : mainpc # "add" \/ m <= nr =>
        invert[m] = IF m = 1 THEN Type[m] = "TRANSPORT" ELSE Type[m] = "INTERFACE"

(* The direction of the packet thread t moves, at every label.             *)
RouteOK(t) ==
    /\ pc[t] = "read" => Kind[at[t]] = "direct"
    /\ pc[t] = "dequeue" => Kind[at[t]] = "xmpp"
    /\ pc[t] = "deliver" => /\ dir[hold[t]] \in {"SEND", "RECV"}
                            /\ at[t] = 1 => dir[hold[t]] = "SEND"
                            /\ at[t] = N => dir[hold[t]] = "RECV"
    /\ pc[t] = "process" => /\ dir[hold[t]] \in {"SEND", "RECV"}
                            /\ Type[at[t]] # "PLUGIN" => dir[hold[t]] = Expects(at[t])

RouteInv == InvertOK /\ \A t \in Threads : RouteOK(t)

(* The two directions, and what turning a packet twice does.               *)
LEMMA Directions ==
  ASSUME InvertOK, mainpc # "add", NEW m \in Mods
  PROVE  /\ m \in {1, N} => Turned(m, Produces(m)) = IF m = 1 THEN "SEND" ELSE "RECV"
         /\ m = 1 => Turned(m, "RECV") = Expects(m)
         /\ m = N => Turned(m, "SEND") = Expects(m)
         /\ m \notin {1, N} => \A d : Turned(m, d) = d
         /\ Kind[m] \in {"xmpp", "http_normal"} => Produces(m) = "RECV"
         /\ Kind[m] = "plugin" <=> m \notin {1, N}
  <1>1. Type[m] \in {"INTERFACE", "TRANSPORT", "PLUGIN"}
    BY ModulesAssumption DEF Types
  <1>2. N # 1 /\ 1 \in Mods /\ N \in Mods
    BY ModulesAssumption DEF Mods
  <1>. QED
    BY <1>1, <1>2, ModulesAssumption DEF InvertOK, Turned, Flip, Produces, Expects

(* A step that leaves a thread and the direction of its packet alone.      *)
LEMMA Undisturbed ==
  ASSUME NEW u \in Threads, RouteOK(u), UNCHANGED <<pc[u], at[u], hold[u]>>,
         pc[u] \in {"deliver", "process"} => UNCHANGED dir[hold[u]]
  PROVE  RouteOK(u)'
  BY DEF RouteOK

(* One thread's step: the others keep their packets, by Ownership.         *)
LEMMA Others ==
  ASSUME IInv, RouteInv, UNCHANGED <<invert, mainpc, nr>>,
         NEW t \in Threads, RouteOK(t)',
         \A u \in Threads \ {t} : UNCHANGED <<pc[u], at[u], hold[u]>>,
         NEW q, \A p \in Packets : p # q => UNCHANGED dir[p],
         \A u \in Threads \ {t} : hold[u] # None => hold[u] # q
  PROVE  RouteInv'
<1>1. InvertOK'
  BY DEF RouteInv, InvertOK
<1>2. ASSUME NEW u \in Threads \ {t} PROVE RouteOK(u)'
  <2>1. pc[u] \in {"deliver", "process"} => hold[u] \in Packets \ {q}
    BY <1>2, ActorFacts DEF IInv, TypeOK, PacketTypes, HoldsByLabel, HoldLabels
  <2>. QED
    BY <2>1, <1>2, Undisturbed DEF RouteInv
<1>. QED
  BY <1>1, <1>2 DEF RouteInv

(* A thread's own step keeps the direction its packet must have.           *)
LEMMA RouteThread ==
  ASSUME IInv, RouteInv, ConsumingEdges, NEW t \in Threads, External(t) \/ Internal(t)
  PROVE  RouteInv'
<1> USE ActorFacts
<1>0. /\ TypeOK /\ Ownership /\ HoldsByLabel /\ NotStartedYet
      /\ PacketTypes /\ ControlTypes /\ InvertOK /\ RouteOK(t)
  BY DEF IInv, TypeOK, RouteInv
<1>a. t \in Actors /\ at[t] \in Mods /\ hold[t] \in Packets \cup {None}
  BY <1>0 DEF PacketTypes, ControlTypes
<1>b. /\ UNCHANGED <<invert, mainpc, nr>>
      /\ \A u \in Threads \ {t} : UNCHANGED <<pc[u], at[u], hold[u]>>
  BY <1>0 DEF External, Internal, ctlVars, pktVars, TestRunning, PollDirect, ReadOk,
     ReadFail, PollXmpp, Dequeue, PollPlugin, Deliver, WriteOk, ProcessFail,
     HandleError, LogError, Enqueue, SendNext, HttpWritten, HandOn, Drop,
     Cancelled, Scan, Goto, Get, Put, PacketTypes, ControlTypes
<1>c. pc[t] # "absent" => mainpc # "add"
  BY <1>0 DEF NotStartedYet, Threads
<1>d. \A u \in Threads \ {t} : hold[u] # None => hold[u] # hold[t]
  BY <1>0 DEF Ownership
<1>e. \A p \in Packets : p \in cache \cup (Packets \ heap)
            => \A u \in Threads : hold[u] # None => hold[u] # p
  BY <1>0 DEF Ownership, IInv, NoOrphan, Owned
<1>f. \A p \in recvq[at[t]] : p \in Packets /\ \A u \in Threads : hold[u] # p
  BY <1>0, <1>a DEF Ownership, PacketTypes
<1>g. Return(t) \in {"test", "scan"}
  BY DEF Return
<1>1. CASE ReadOk(t)
  <2>1. hold[t] \in Packets /\ mainpc # "add" /\ at[t] \in {1, N}
    BY <1>0, <1>1, <1>a, <1>c, ModulesAssumption
       DEF ReadOk, HoldsByLabel, HoldLabels, RouteOK
  <2>2. /\ pc'[t] = "deliver" /\ at' = at /\ hold' = hold
        /\ dir'[hold[t]] = IF at[t] = 1 THEN "SEND" ELSE "RECV"
    BY <1>0, <1>1, <1>a, <2>1, Directions DEF ReadOk, Goto, ControlTypes
  <2>3. N # 1
    BY ModulesAssumption
  <2>4. RouteOK(t)'
    BY <2>2, <2>3 DEF RouteOK
  <2>5. \A p \in Packets : p # hold[t] => UNCHANGED dir[p]
    BY <1>0, <1>1 DEF ReadOk, ControlTypes
  <2>. QED
    BY <1>b, <1>d, <2>4, <2>5, Others
<1>2. CASE Dequeue(t)
  <2>1. CASE recvq[at[t]] = {}
    <3>1. dir' = dir /\ pc'[t] \in {"test", "scan"}
      BY <1>0, <1>2, <1>a, <1>g, <2>1 DEF Dequeue, Goto, ControlTypes
    <3>2. RouteOK(t)'
      BY <3>1 DEF RouteOK
    <3>. QED
      BY <1>b, <1>d, <3>1, <3>2, Others
  <2>2. CASE recvq[at[t]] # {}
    <3>1. PICK p \in recvq[at[t]] : /\ hold' = [hold EXCEPT ![t] = p]
                                    /\ dir' = [dir EXCEPT ![p] = Turned(at[t], "RECV")]
                                    /\ Goto(t, "deliver")
      BY <1>2, <2>2 DEF Dequeue
    <3>2. mainpc # "add" /\ Kind[at[t]] \in {"xmpp", "http_normal"} /\ at' = at
      BY <1>0, <1>2, <1>a, <1>c DEF Dequeue, RouteOK
    <3>3. at[t] \in {1, N} /\ Produces(at[t]) = "RECV"
      BY <1>0, <1>a, <3>2, Directions
    <3>4. Turned(at[t], "RECV") = IF at[t] = 1 THEN "SEND" ELSE "RECV"
      BY <1>0, <1>a, <3>2, <3>3, Directions
    <3>5. /\ pc'[t] = "deliver" /\ hold'[t] = p
          /\ dir'[p] = IF at[t] = 1 THEN "SEND" ELSE "RECV"
      BY <1>0, <1>a, <1>f, <3>1, <3>4 DEF Goto, ControlTypes, PacketTypes
    <3>6. N # 1
      BY ModulesAssumption
    <3>7. RouteOK(t)'
      BY <3>2, <3>5, <3>6 DEF RouteOK
    <3>8. \A r \in Packets : r # p => UNCHANGED dir[r]
      BY <1>0, <3>1 DEF ControlTypes
    <3>. QED
      BY <1>b, <1>f, <3>7, <3>8, Others
  <2>. QED
    BY <2>1, <2>2
<1>3. CASE PollPlugin(t)
  <2>1. ASSUME NEW p \in Packets, NEW d \in {"SEND", "RECV"}, Get(t, p),
               dir' = [dir EXCEPT ![p] = Turned(at[t], d)], Goto(t, "deliver")
        PROVE  RouteInv'
    <3>1. mainpc # "add" /\ at[t] \notin {1, N} /\ at' = at
      BY <1>0, <1>3, <1>a, <1>c, ModulesAssumption DEF PollPlugin
    <3>2. Turned(at[t], d) = d
      BY <1>0, <1>a, <3>1, Directions
    <3>3. pc'[t] = "deliver" /\ hold'[t] = p /\ dir'[p] \in {"SEND", "RECV"}
      BY <1>0, <1>a, <2>1, <3>2 DEF Get, Goto, ControlTypes, PacketTypes
    <3>4. RouteOK(t)'
      BY <3>1, <3>3 DEF RouteOK
    <3>5. \A r \in Packets : r # p => UNCHANGED dir[r]
      BY <1>0, <2>1 DEF ControlTypes
    <3>6. \A u \in Threads \ {t} : hold[u] # None => hold[u] # p
      BY <1>e, <2>1 DEF Get
    <3>. QED
      BY <1>b, <3>4, <3>5, <3>6, Others
  <2>2. CASE UNCHANGED dir /\ Goto(t, Return(t))
    <3>1. pc'[t] \in {"test", "scan"}
      BY <1>0, <1>a, <1>g, <2>2 DEF Goto, ControlTypes
    <3>2. RouteOK(t)'
      BY <3>1 DEF RouteOK
    <3>. QED
      BY <1>b, <1>d, <2>2, <3>2, Others
  <2>. QED
    BY <1>3, <2>1, <2>2 DEF PollPlugin
<1>4. CASE Deliver(t)
  <2>1. hold[t] \in Packets /\ mainpc # "add" /\ Target(t) \in Mods
    BY <1>0, <1>4, <1>a, <1>c DEF Deliver, HoldsByLabel, HoldLabels
  <2>2. /\ pc'[t] = "process" /\ at'[t] = Target(t) /\ hold' = hold
        /\ dir'[hold[t]] = Turned(Target(t), dir[hold[t]])
    BY <1>0, <1>4, <1>a, <2>1 DEF Deliver, Goto, ControlTypes
  <2>3. /\ Target(t) = 1 => dir[hold[t]] = "RECV"
        /\ Target(t) = N => dir[hold[t]] = "SEND"
        /\ dir[hold[t]] \in {"SEND", "RECV"}
    BY <1>0, <1>4, <1>a, <2>1, ModulesAssumption DEF Deliver, Target, Mods
  <2>4. /\ dir'[hold[t]] \in {"SEND", "RECV"}
        /\ Type[Target(t)] # "PLUGIN" => dir'[hold[t]] = Expects(Target(t))
    BY <1>0, <2>1, <2>2, <2>3, Directions, ModulesAssumption DEF Turned, Flip
  <2>5. RouteOK(t)'
    BY <2>2, <2>4 DEF RouteOK, Expects
  <2>6. \A p \in Packets : p # hold[t] => UNCHANGED dir[p]
    BY <1>0, <1>4 DEF Deliver, ControlTypes
  <2>. QED
    BY <1>b, <1>d, <2>5, <2>6, Others
<1>5. CASE HandOn(t)
  <2>1. hold[t] \in Packets /\ mainpc # "add" /\ at[t] \notin {1, N}
    BY <1>0, <1>5, <1>a, <1>c DEF HandOn, HoldsByLabel, HoldLabels, ConsumingEdges
  <2>2. /\ pc'[t] = "deliver" /\ at' = at /\ hold' = hold
        /\ dir'[hold[t]] = dir[hold[t]]
    BY <1>0, <1>5, <1>a, <2>1, Directions DEF HandOn, Goto, ControlTypes
  <2>3. RouteOK(t)'
    BY <1>0, <1>5, <2>1, <2>2 DEF HandOn, RouteOK
  <2>4. \A p \in Packets : p # hold[t] => UNCHANGED dir[p]
    BY <1>0, <1>5 DEF HandOn, ControlTypes
  <2>. QED
    BY <1>b, <1>d, <2>3, <2>4, Others
<1>6. CASE ReadFail(t) \/ WriteOk(t) \/ HandleError(t) \/ HttpWritten(t) \/ Drop(t)
  <2>1. Put(t) /\ pc'[t] \in {"test", "scan", "errlog"}
    BY <1>0, <1>6, <1>a, <1>g DEF ReadFail, WriteOk, HandleError, HttpWritten, Drop,
       Goto, ControlTypes
  <2>2. RouteOK(t)'
    BY <2>1 DEF RouteOK
  <2>3. \A p \in Packets : p # hold[t] => UNCHANGED dir[p]
    BY <1>0, <2>1 DEF Put, ControlTypes
  <2>. QED
    BY <1>b, <1>d, <2>2, <2>3, Others
<1>7. CASE TestRunning(t) \/ PollDirect(t) \/ PollXmpp(t) \/ ProcessFail(t) \/ LogError(t)
           \/ Enqueue(t) \/ SendNext(t) \/ Cancelled(t) \/ (t = Loop /\ Scan)
  <2>1. UNCHANGED dir
    BY <1>7 DEF TestRunning, PollDirect, PollXmpp, ProcessFail, LogError, Enqueue,
       SendNext, Cancelled, Scan, pktVars
  <2>2. /\ pc'[t] \notin {"deliver", "process"}
        /\ pc'[t] = "read" => Kind[at[t]] = "direct" /\ at' = at
        /\ pc'[t] = "dequeue" => Kind[at[t]] = "xmpp" /\ at' = at
    BY <1>0, <1>7, <1>a, <1>g DEF TestRunning, PollDirect, PollXmpp, ProcessFail,
       LogError, Enqueue, SendNext, Cancelled, Scan, Goto, ControlTypes
  <2>3. RouteOK(t)'
    BY <2>2 DEF RouteOK
  <2>. QED
    BY <1>b, <1>d, <2>1, <2>3, Others
<1>. QED
  BY <1>1, <1>2, <1>3, <1>4, <1>5, <1>6, <1>7 DEF External, Internal

(* A worker's step does not change the direction of a packet in use.       *)
LEMMA RouteWorker ==
  ASSUME IInv, RouteInv, NEW m \in Queued, WorkerStep(m)
  PROVE  RouteInv'
<1> USE ActorFacts
<1>0. PacketTypes /\ ControlTypes /\ Ownership /\ InvertOK
  BY DEF IInv, TypeOK, RouteInv
<1>1. \A t \in Threads : Worker(m) # t
  BY DEF Threads, Blk1, Blk2, Loop, Worker
<1>2. /\ UNCHANGED <<invert, mainpc, nr, at>>
      /\ \A t \in Threads : UNCHANGED <<pc[t], hold[t]>>
  BY <1>0, <1>1 DEF WorkerStep, WorkerTest, WorkerIdle, WorkerReceive, WorkerEnqueue,
     WorkerPost, WorkerDequeue, WorkerSent, ctlVars, pktVars, Goto, Get, Put,
     PacketTypes, ControlTypes
<1>3. \A p \in Packets : p # hold[Worker(m)] => UNCHANGED dir[p]
  BY <1>0 DEF WorkerStep, WorkerTest, WorkerIdle, WorkerReceive, WorkerEnqueue,
     WorkerPost, WorkerDequeue, WorkerSent, pktVars, Put, ControlTypes
<1>4. \A t \in Threads : hold[t] # None => hold[t] # hold[Worker(m)]
  BY <1>0, <1>1 DEF Ownership
<1>5. ASSUME NEW t \in Threads PROVE RouteOK(t)'
  <2>1. pc[t] \in {"deliver", "process"} => hold[t] \in Packets \ {None}
    BY DEF IInv, TypeOK, PacketTypes, HoldsByLabel, HoldLabels
  <2>2. pc[t] \in {"deliver", "process"} => UNCHANGED dir[hold[t]]
    BY <1>2, <1>3, <1>4, <2>1
  <2>. QED
    BY <1>2, <2>2, Undisturbed DEF RouteInv
<1>6. InvertOK'
  BY <1>0, <1>2 DEF InvertOK
<1>. QED
  BY <1>5, <1>6 DEF RouteInv

(* main() sets m_invert before there are threads, and never again.         *)
LEMMA RouteMain ==
  ASSUME IInv, RouteInv, MainStep \/ Signal
  PROVE  RouteInv'
<1> USE ActorFacts
<1>0. PacketTypes /\ ControlTypes /\ Ownership /\ InvertOK /\ NotStartedYet
  BY DEF IInv, TypeOK, RouteInv
<1>1. InvertOK'
  <2>1. CASE AddModule
    <3>1. nr \in Nat /\ nr < N /\ nr + 1 \in Mods /\ mainpc = "add"
      BY <1>0, <2>1, ModulesAssumption DEF AddModule, ControlTypes, Mods
    <3>2. \A m \in Mods : (m <= nr + 1 \/ nr + 1 = N) => m <= nr \/ m = nr + 1
      BY <3>1, ModulesAssumption DEF Mods
    <3>3. (mainpc' # "add" => nr + 1 = N) /\ (mainpc' = "add" => nr' = nr + 1)
      BY <2>1 DEF AddModule, MainGoto
    <3>4. \A m \in Mods : invert'[m] = IF m = nr + 1
                THEN (IF nr = 0 THEN Type[nr + 1] = "TRANSPORT"
                                ELSE Type[nr + 1] = "INTERFACE")
                ELSE invert[m]
      BY <1>0, <2>1, <3>1 DEF AddModule, ControlTypes
    <3>5. nr = 0 <=> nr + 1 = 1
      BY <3>1
    <3>. QED
      BY <1>0, <3>1, <3>2, <3>3, <3>4, <3>5 DEF InvertOK
  <2>2. CASE ~AddModule
    <3>1. invert' = invert /\ (mainpc = "add" <=> mainpc' = "add")
          /\ (mainpc = "add" => nr' = nr)
      BY <2>2 DEF MainStep, Signal, RunModule, StartBlk1, StartBlk2, StartLoop,
         StartThread, SkipThread, StopPipeline, Join, CancelThread, StopModule,
         FiniModule, Cleanup, NextModule, MainGoto
    <3>. QED
      BY <1>0, <3>1 DEF InvertOK
  <2>. QED
    BY <2>1, <2>2
<1>2. ASSUME NEW t \in Threads PROVE RouteOK(t)'
  <2>1. UNCHANGED <<at[t], hold[t]>>
    BY DEF MainStep, Signal, AddModule, RunModule, StartBlk1, StartBlk2, StartLoop,
       StopPipeline, Join, CancelThread, StopModule, FiniModule, Cleanup, noPackets,
       pktVars
  <2>2. pc'[t] = pc[t] \/ pc'[t] = "test"
    BY <1>0 DEF MainStep, Signal, AddModule, RunModule, StartBlk1, StartBlk2, StartLoop,
       StartThread, SkipThread, StopPipeline, Join, CancelThread, StopModule,
       FiniModule, Cleanup, Goto, ControlTypes
  <2>3. pc[t] \in {"deliver", "process"} => UNCHANGED dir[hold[t]]
    <3>1. CASE FiniModule
      <4>1. nr \in Mods
        BY <1>0, <3>1, ModulesAssumption DEF FiniModule, ControlTypes, Mods
      <4>2. pc[t] \in {"deliver", "process"} => hold[t] \in Packets
        BY DEF IInv, TypeOK, PacketTypes, HoldsByLabel, HoldLabels
      <4>3. hold[t] \notin sendq[nr] \cup recvq[nr]
        BY <1>0, <4>1 DEF Ownership
      <4>. QED
        BY <3>1, <4>2, <4>3 DEF FiniModule
    <3>2. CASE ~FiniModule
      <4>1. UNCHANGED dir
        BY <3>2 DEF MainStep, Signal, AddModule, RunModule, StartBlk1, StartBlk2,
           StartLoop, StopPipeline, Join, CancelThread, StopModule, Cleanup,
           noPackets, pktVars
      <4>. QED
        BY <2>1, <4>1
    <3>. QED
      BY <3>1, <3>2
  <2>4. CASE pc'[t] = "test"
    BY <2>4 DEF RouteOK
  <2>5. CASE pc'[t] = pc[t]
    BY <2>1, <2>3, <2>5, Undisturbed DEF RouteInv
  <2>. QED
    BY <2>2, <2>4, <2>5
<1>. QED
  BY <1>1, <1>2 DEF RouteInv

(* Every step keeps the directions of the packets that are on the move.    *)
LEMMA RouteInductive ==
  ASSUME ConsumingEdges
  PROVE  Spec => []RouteInv
<1>1. Init => RouteInv
  <2>1. Init => InvertOK
    BY DEF Init, InvertOK, Mods
  <2>2. Init => \A t \in Threads : RouteOK(t)
    BY ActorFacts DEF Init, RouteOK
  <2>. QED
    BY <2>1, <2>2 DEF RouteInv
<1>2. IInv /\ RouteInv /\ [Next]_vars => RouteInv'
  <2> SUFFICES ASSUME IInv, RouteInv, [Next]_vars PROVE RouteInv'
    OBVIOUS
  <2>1. CASE UNCHANGED vars
    BY <2>1 DEF vars, pktVars, ctlVars, RouteInv, InvertOK, RouteOK, Expects
  <2>. QED
    BY <2>1, RouteThread, RouteWorker, RouteMain DEF Next, Exited
<1>. QED
  BY <1>1, <1>2, Inductive, PTL DEF Spec

(* In every pipeline pppoat_pipeline_add_module() accepts whose two ends   *)
(* consume what they are given, the assertions of                          *)
(* pipeline_module_process() hold: a packet always finds a neighbour.      *)
THEOREM PacketsStayInThePipeline ==
  ASSUME ConsumingEdges
  PROVE  Spec => []NeverPastTheEnd
<1>1. IInv /\ RouteInv => NeverPastTheEnd
  <2> SUFFICES ASSUME IInv, RouteInv, NEW t \in Threads, pc[t] = "deliver"
               PROVE  dir[hold[t]] \in {"SEND", "RECV"} /\ Target(t) \in Mods
    BY DEF NeverPastTheEnd
  <2>1. at[t] \in Mods
    BY DEF IInv, TypeOK, ControlTypes
  <2>. QED
    BY <2>1, ModulesAssumption DEF RouteInv, RouteOK, Target, Mods
<1>. QED
  BY <1>1, Inductive, RouteInductive, PTL

(* In loopback, gateway and plain pipelines alike, interfaces are only     *)
(* handed packets to receive and transports packets to send.               *)
THEOREM DirectionsAgree ==
  ASSUME ConsumingEdges
  PROVE  Spec => []DirectionAgrees
<1>1. RouteInv => DirectionAgrees
  BY DEF RouteInv, RouteOK, DirectionAgrees
<1>. QED
  BY <1>1, RouteInductive, PTL

-----------------------------------------------------------------------------
(* Teardown.  Threads that are gone stay gone, and main() passes the joins *)
(* of pppoat_pipeline_stop() and of the mop_stop() calls one by one.       *)

(* What main() has joined already has ended.                               *)
Gone == {"absent", "done", "cancelled"}
AfterLoop == {"cancel2", "join2", "cancel1", "join1", "stop", "fini", "cleanup", "exit"}
AfterBlk2 == {"cancel1", "join1", "stop", "fini", "cleanup", "exit"}
AfterBlk1 == {"stop", "fini", "cleanup", "exit"}
AfterStop == {"fini", "cleanup", "exit"}

JoinInv ==
    /\ mainpc \notin {"add", "run", "stop", "fini"} => nr = 1
    /\ ~HasLoop => pc[Loop] = "absent"
    /\ mainpc \in AfterLoop => pc[Loop] \in Gone
    /\ mainpc \in AfterBlk2 => pc[Blk2] \in Gone
    /\ mainpc \in AfterBlk1 => pc[Blk1] \in Gone
    /\ \A m \in Queued : mainpc \in AfterStop \/ (mainpc = "stop" /\ m < nr)
                            => Ended(Worker(m))

(* A thread that has ended does not run again.                             *)
LEMMA GoneStaysGone ==
  ASSUME IInv, \/ \E t \in Threads : External(t) \/ Internal(t)
               \/ \E m \in Queued : WorkerStep(m)
  PROVE  /\ UNCHANGED <<mainpc, nr>>
         /\ \A a \in Actors : pc[a] \in Gone => pc'[a] = pc[a]
<1> USE ActorFacts
<1>0. ControlTypes
  BY DEF IInv, TypeOK
<1>1. ASSUME NEW t \in Threads, External(t) \/ Internal(t)
      PROVE  /\ UNCHANGED <<mainpc, nr>>
             /\ \A a \in Actors : pc[a] \in Gone => pc'[a] = pc[a]
  BY <1>0, <1>1 DEF External, Internal, TestRunning, PollDirect, ReadOk,
     ReadFail, PollXmpp, Dequeue, PollPlugin, Deliver, WriteOk, ProcessFail,
     HandleError, LogError, Enqueue, SendNext, HttpWritten, HandOn, Drop,
     Cancelled, CancellationPoint, Scan, Goto, ctlVars, Gone, ControlTypes
<1>2. ASSUME NEW m \in Queued, WorkerStep(m)
      PROVE  /\ UNCHANGED <<mainpc, nr>>
             /\ \A a \in Actors : pc[a] \in Gone => pc'[a] = pc[a]
  BY <1>0, <1>2 DEF WorkerStep, WorkerTest, WorkerIdle, WorkerReceive, WorkerEnqueue,
     WorkerPost, WorkerDequeue, WorkerSent, Goto, ctlVars, Gone, ControlTypes
<1>. QED
  BY <1>1, <1>2

(* main() passes a join only when the thread joined has ended.             *)
LEMMA JoinInductive == IInv /\ JoinInv /\ [Next]_vars => JoinInv'
<1> SUFFICES ASSUME IInv, JoinInv, [Next]_vars PROVE JoinInv'
  OBVIOUS
<1> USE ActorFacts
<1>0. ControlTypes /\ NotStartedYet
  BY DEF IInv, TypeOK
<1>1. ASSUME UNCHANGED <<mainpc, nr>>,
             \A a \in Actors : pc[a] \in Gone => pc'[a] = pc[a]
      PROVE  JoinInv'
  BY <1>1 DEF JoinInv, Gone, Ended
<1>2. Blocking(1) /\ Blocking(N)
  BY ModulesAssumption DEF Blocking
<1>3. \A m \in Queued : Worker(m) \notin Threads
  BY DEF Threads, Blk1, Blk2, Loop, Worker
<1>4. CASE AddModule
  BY <1>1, <1>4 DEF AddModule, MainGoto, JoinInv, noPackets, AfterLoop, AfterBlk2,
     AfterBlk1, AfterStop
<1>5. CASE RunModule
  <2>1. /\ mainpc' = "run" \/ (mainpc' = "start" /\ nr' = 1)
        /\ pc'[Loop] = pc[Loop]
    BY <1>0, <1>3, <1>5 DEF RunModule, NextModule, MainGoto, Goto, ControlTypes
  <2>. QED
    BY <2>1 DEF JoinInv, AfterLoop, AfterBlk2, AfterBlk1, AfterStop
<1>6. CASE StartBlk1 \/ StartBlk2 \/ StartLoop
  <2>1. mainpc' \in {"start2", "start3", "wait"} /\ nr' = 1
    BY <1>6 DEF StartBlk1, StartBlk2, StartLoop, StartThread, SkipThread, MainGoto,
       JoinInv
  <2>2. ~HasLoop => pc'[Loop] = pc[Loop]
    BY <1>0, <1>6 DEF StartBlk1, StartBlk2, StartLoop, StartThread, SkipThread, Goto,
       Blk1, Blk2, Loop, ControlTypes
  <2>. QED
    BY <2>1, <2>2 DEF JoinInv, AfterLoop, AfterBlk2, AfterBlk1, AfterStop
<1>7. CASE StopPipeline
  BY <1>7 DEF StopPipeline, MainGoto, JoinInv, AfterLoop, AfterBlk2, AfterBlk1,
     AfterStop, Gone
<1>8. CASE \/ Join(Loop, "joinloop", "cancel2") \/ Join(Blk2, "join2", "cancel1")
           \/ Join(Blk1, "join1", "stop")
  <2>1. CASE Join(Loop, "joinloop", "cancel2")
    BY <2>1 DEF Join, Ended, MainGoto, JoinInv, AfterLoop, AfterBlk2, AfterBlk1,
       AfterStop, Gone
  <2>2. CASE Join(Blk2, "join2", "cancel1")
    BY <2>2 DEF Join, Ended, MainGoto, JoinInv, AfterLoop, AfterBlk2, AfterBlk1,
       AfterStop, Gone
  <2>3. CASE Join(Blk1, "join1", "stop")
    <3>1. nr' = 1 /\ pc' = pc /\ mainpc' = "stop" /\ pc[Blk1] \in Gone
      BY <2>3 DEF Join, Ended, MainGoto, JoinInv, Gone
    <3>2. \A m \in Queued : ~(m < 1)
      BY DEF Mods
    <3>. QED
      BY <2>3, <3>1, <3>2 DEF Join, JoinInv, AfterLoop, AfterBlk2, AfterBlk1, AfterStop
  <2>. QED
    BY <1>8, <2>1, <2>2, <2>3
<1>9. CASE \/ CancelThread(Blk2, N, "cancel2", "join2", "cancel1")
           \/ CancelThread(Blk1, 1, "cancel1", "join1", "stop")
  BY <1>2, <1>9 DEF CancelThread, MainGoto, JoinInv, AfterLoop, AfterBlk2, AfterBlk1,
     AfterStop, Gone
<1>10. CASE StopModule
  <2>1. nr \in Mods /\ nr <= N
    BY <1>0, <1>10, ModulesAssumption DEF StopModule, ControlTypes, Mods
  <2>2. CASE UNCHANGED <<mainpc, nr>>
    BY <1>1, <1>10, <2>2 DEF StopModule, noPackets
  <2>3. CASE ~UNCHANGED <<mainpc, nr>>
    <3>1. /\ nr \in Queued => Ended(Worker(nr))
          /\ NextModule("fini") /\ pc' = pc
      BY <1>10, <2>3 DEF StopModule
    <3>2. \A m \in Queued : m <= nr => Ended(Worker(m))
      <4>1. \A m \in Mods : m <= nr => m < nr \/ m = nr
        BY <2>1 DEF Mods
      <4>. QED
        BY <1>10, <3>1, <4>1 DEF StopModule, JoinInv
    <3>3. CASE nr = N
      <4>1. \A m \in Queued : Ended(Worker(m))
        BY <3>2, <3>3 DEF Mods
      <4>. QED
        BY <1>10, <3>1, <3>3, <4>1 DEF StopModule, NextModule, MainGoto, JoinInv, Ended,
           AfterLoop, AfterBlk2, AfterBlk1, AfterStop
    <3>4. CASE nr # N
      <4>1. mainpc' = "stop" /\ nr' = nr + 1
        BY <1>10, <3>1, <3>4 DEF StopModule, NextModule
      <4>2. \A m \in Mods : m < nr + 1 => m <= nr
        BY <2>1 DEF Mods
      <4>. QED
        BY <1>10, <3>1, <3>2, <4>1, <4>2 DEF StopModule, JoinInv, Ended,
           AfterLoop, AfterBlk2, AfterBlk1, AfterStop
    <3>. QED
      BY <3>3, <3>4
  <2>. QED
    BY <2>2, <2>3
<1>11. CASE FiniModule \/ Cleanup
  BY <1>11 DEF FiniModule, Cleanup, NextModule, MainGoto, JoinInv, Ended, AfterLoop,
     AfterBlk2, AfterBlk1, AfterStop
<1>12. CASE Signal \/ UNCHANGED vars
  BY <1>1, <1>12 DEF Signal, vars, ctlVars, noPackets
<1>. QED
  BY <1>1, <1>4, <1>5, <1>6, <1>7, <1>8, <1>9, <1>10, <1>11, <1>12, GoneStaysGone
     DEF Next, MainStep, Exited

(* main() stops the modules only after every thread of the pipeline has    *)
(* been joined, and finalises them only after every worker has: no thread  *)
(* can call a finalised module, even when pppoat_pipeline_start() failed.  *)
THEOREM TeardownIsOrdered == Spec => []TeardownOrder
<1>1. Init => JoinInv
  BY ActorFacts, ModulesAssumption DEF Init, JoinInv, AfterLoop, AfterBlk2, AfterBlk1,
     AfterStop
<1>2. IInv /\ JoinInv => TeardownOrder
  BY DEF JoinInv, TeardownOrder, Threads, Gone, AfterLoop, AfterBlk2, AfterBlk1, AfterStop
<1>. QED
  BY <1>1, <1>2, Inductive, JoinInductive, PTL DEF Spec

-----------------------------------------------------------------------------
(* What is left at exit.  Only transports with queues ever have something  *)
(* in them, and finalising a transport empties its queues for good.        *)

Empty(m) == sendq[m] = {} /\ recvq[m] = {}

FlushInv ==
    /\ \A m \in Mods \ Queued : Empty(m) /\ pc[Worker(m)] = "absent"
    /\ \A m \in Mods : pc[Worker(m)] # "cancelled"
    /\ \A m \in Mods : mainpc \in {"cleanup", "exit"} \/ (mainpc = "fini" /\ m < nr)
            => Empty(m)
    /\ mainpc = "exit" => cache = {}

(* No thread runs any more when the modules are finalised.                 *)
LEMMA NobodyRuns ==
  ASSUME IInv, JoinInv, mainpc \in AfterStop
  PROVE  /\ \A t \in Threads : ~External(t) /\ ~Internal(t)
         /\ \A m \in Queued : ~WorkerStep(m)
<1>1. ASSUME NEW t \in Threads PROVE ~External(t) /\ ~Internal(t)
  <2>1. pc[t] \in Gone
    BY DEF JoinInv, AfterStop, AfterLoop, AfterBlk2, AfterBlk1, Threads
  <2>. QED
    BY <2>1 DEF Gone, External, Internal, TestRunning, PollDirect, ReadOk,
       ReadFail, PollXmpp, Dequeue, PollPlugin, Deliver, WriteOk, ProcessFail,
       HandleError, LogError, Enqueue, SendNext, HttpWritten, HandOn, Drop,
       Cancelled, CancellationPoint, Scan
<1>2. ASSUME NEW m \in Queued PROVE ~WorkerStep(m)
  BY DEF JoinInv, AfterStop, Ended, WorkerStep, WorkerTest, WorkerIdle, WorkerReceive,
     WorkerEnqueue, WorkerPost, WorkerDequeue, WorkerSent
<1>. QED
  BY <1>1, <1>2

(* The steps of threads, which only use the queues of queued transports.   *)
LEMMA ThreadFlush ==
  ASSUME IInv, JoinInv, FlushInv,
         \/ \E t \in Threads : External(t) \/ Internal(t)
         \/ \E m \in Queued : WorkerStep(m)
  PROVE  FlushInv'
<1> USE ActorFacts
<1>0. ControlTypes /\ PacketTypes
  BY DEF IInv, TypeOK
<1>1. mainpc \notin AfterStop /\ UNCHANGED mainpc
  BY NobodyRuns, GoneStaysGone
<1>2. ASSUME NEW t \in Threads, External(t) \/ Internal(t)
      PROVE  /\ \A m \in Mods \ Queued : sendq'[m] \subseteq sendq[m] /\ recvq'[m] \subseteq recvq[m]
             /\ \A m \in Mods : pc'[Worker(m)] = pc[Worker(m)]
  <2>1. \A m \in Mods : Worker(m) # t
    BY DEF Threads, Blk1, Blk2, Loop, Worker
  <2>2. at[t] \in Mods
    BY <1>0 DEF ControlTypes
  <2>. QED
    BY <1>0, <1>2, <2>1, <2>2 DEF External, Internal, TestRunning, PollDirect, ReadOk,
       ReadFail, PollXmpp, Dequeue, PollPlugin, Deliver, WriteOk, ProcessFail,
       HandleError, LogError, Enqueue, SendNext, HttpWritten, HandOn, Drop, Put, Get,
       Cancelled, Scan, Goto, queueVars, pktVars, ControlTypes, PacketTypes
<1>3. ASSUME NEW n \in Queued, WorkerStep(n)
      PROVE  /\ \A m \in Mods \ Queued : sendq'[m] \subseteq sendq[m] /\ recvq'[m] \subseteq recvq[m]
             /\ \A m \in Mods : m # n => pc'[Worker(m)] = pc[Worker(m)]
             /\ pc'[Worker(n)] # "cancelled"
  <2>1. \A m \in Mods : m # n => Worker(m) # Worker(n)
    BY DEF Worker
  <2>. QED
    BY <1>0, <1>3, <2>1 DEF WorkerStep, WorkerTest, WorkerIdle, WorkerReceive,
       WorkerEnqueue, WorkerPost, WorkerDequeue, WorkerSent, Goto, Put, Get, queueVars,
       pktVars, ControlTypes, PacketTypes
<1>4. /\ \A m \in Mods \ Queued : Empty(m)' /\ pc'[Worker(m)] = "absent"
      /\ \A m \in Mods : pc'[Worker(m)] # "cancelled"
  BY <1>2, <1>3 DEF FlushInv, Empty
<1>. QED
  BY <1>1, <1>4 DEF FlushInv, AfterStop

(* So does every other step.                                               *)
LEMMA FlushInductive == IInv /\ JoinInv /\ FlushInv /\ [Next]_vars => FlushInv'
<1> SUFFICES ASSUME IInv, JoinInv, FlushInv, [Next]_vars PROVE FlushInv'
  OBVIOUS
<1> USE ActorFacts
<1>0. ControlTypes /\ PacketTypes
  BY DEF IInv, TypeOK
<1>1. ASSUME UNCHANGED <<sendq, recvq>>, mainpc' \notin AfterStop,
             \A m \in Mods : \/ pc'[Worker(m)] = pc[Worker(m)]
                             \/ m \in Queued /\ pc'[Worker(m)] = "test"
      PROVE  FlushInv'
  BY <1>1 DEF FlushInv, Empty, AfterStop
<1>2. CASE AddModule
  BY <1>1, <1>2 DEF AddModule, MainGoto, noPackets, pktVars, AfterStop
<1>3. CASE RunModule
  <2>1. mainpc' \in {"run", "start"}
    BY <1>3 DEF RunModule, NextModule, MainGoto
  <2>2. \A m \in Mods : m # nr => Worker(m) # Worker(nr)
    BY DEF Worker
  <2>. QED
    BY <1>0, <1>1, <1>3, <2>1, <2>2 DEF RunModule, noPackets, pktVars, Goto, AfterStop,
       ControlTypes
<1>4. CASE StartBlk1 \/ StartBlk2 \/ StartLoop
  <2>1. \A m \in Mods : Worker(m) \notin Threads
    BY DEF Threads, Blk1, Blk2, Loop, Worker
  <2>. QED
    BY <1>0, <1>1, <1>4, <2>1 DEF StartBlk1, StartBlk2, StartLoop, StartThread, SkipThread,
       MainGoto, Goto, noPackets, pktVars, AfterStop, ControlTypes
<1>5. CASE StopPipeline
  BY <1>1, <1>5 DEF StopPipeline, MainGoto, noPackets, pktVars, AfterStop
<1>6. CASE \/ Join(Loop, "joinloop", "cancel2") \/ Join(Blk2, "join2", "cancel1")
           \/ Join(Blk1, "join1", "stop")
  BY <1>1, <1>6 DEF Join, MainGoto, noPackets, pktVars, AfterStop
<1>7. CASE \/ CancelThread(Blk2, N, "cancel2", "join2", "cancel1")
           \/ CancelThread(Blk1, 1, "cancel1", "join1", "stop")
  BY <1>1, <1>7 DEF CancelThread, MainGoto, noPackets, pktVars, AfterStop
<1>8. CASE StopModule
  <2>1. mainpc' = "stop" \/ (mainpc' = "fini" /\ nr' = 1)
    BY <1>8 DEF StopModule, NextModule, MainGoto
  <2>2. \A m \in Mods : ~(m < 1)
    BY DEF Mods
  <2>. QED
    BY <1>8, <2>1, <2>2 DEF StopModule, noPackets, pktVars, FlushInv, Empty
<1>9. CASE FiniModule
  <2>1. nr \in Mods /\ mainpc = "fini" /\ pc' = pc
    BY <1>0, <1>9, ModulesAssumption DEF FiniModule, ControlTypes, Mods
  <2>2. \A m \in Mods : Empty(m) \/ (m = nr /\ m \in Queued) => Empty(m)'
    <3> DEFINE F == IF nr \in Queued THEN sendq[nr] \cup recvq[nr] ELSE {}
    <3>1. /\ sendq' = [sendq EXCEPT ![nr] = @ \ F]
          /\ recvq' = [recvq EXCEPT ![nr] = @ \ F]
      BY <1>9 DEF FiniModule
    <3>2. \A m \in Mods : /\ m # nr => sendq'[m] = sendq[m] /\ recvq'[m] = recvq[m]
                          /\ m = nr => sendq'[m] = sendq[m] \ F /\ recvq'[m] = recvq[m] \ F
      BY <1>0, <3>1 DEF PacketTypes
    <3>. QED
      BY <2>1, <3>2 DEF Empty, Queued
  <2>3. \A m \in Mods : m <= nr => Empty(m)'
    <3>1. \A m \in Mods : m <= nr => m < nr \/ m = nr
      BY <2>1 DEF Mods
    <3>. QED
      BY <2>1, <2>2, <3>1 DEF FlushInv
  <2>4. \/ nr = N /\ mainpc' = "cleanup"
        \/ mainpc' = "fini" /\ nr' = nr + 1
    BY <1>9, <2>1 DEF FiniModule, NextModule, MainGoto
  <2>5. \A m \in Mods : m <= N /\ (m < nr + 1 => m <= nr)
    BY <2>1 DEF Mods
  <2>. QED
    BY <2>1, <2>2, <2>3, <2>4, <2>5 DEF FlushInv
<1>10. CASE Cleanup
  BY <1>10 DEF Cleanup, MainGoto, queueVars, FlushInv, Empty
<1>11. CASE Signal \/ UNCHANGED vars
  BY <1>11 DEF Signal, vars, pktVars, ctlVars, noPackets, FlushInv, Empty
<1>. QED
  BY <1>2, <1>3, <1>4, <1>5, <1>6, <1>7, <1>8, <1>9, <1>10, <1>11, ThreadFlush
     DEF Next, MainStep, Exited

(* At exit the only packets still allocated are those that cancelled       *)
(* threads were holding, in every pipeline without http's side channel and *)
(* for any number of packets.                                              *)
THEOREM OnlyCancelledThreadsLeak == Spec => []ExitLeak
<1>1. Init => FlushInv
  BY ActorFacts DEF Init, FlushInv, Empty
<1>2. Init => JoinInv
  BY ActorFacts, ModulesAssumption DEF Init, JoinInv, AfterLoop, AfterBlk2, AfterBlk1,
     AfterStop
<1>3. ASSUME IInv, JoinInv, FlushInv PROVE ExitLeak
  <2> SUFFICES ASSUME mainpc = "exit", NEW p \in heap
               PROVE  \E t \in Threads : pc[t] = "cancelled" /\ hold[t] = p
    BY DEF ExitLeak
  <2>1. p \in Packets /\ p # None
    BY PacketsAssumption, <1>3 DEF IInv, TypeOK, PacketTypes
  <2>2. PICK a \in Actors : hold[a] = p
    BY <1>3, <2>1 DEF IInv, NoOrphan, Owned, FlushInv, Empty
  <2>3. pc[a] \notin {"absent", "done"}
    BY <1>3, <2>1, <2>2 DEF IInv, HoldsByLabel, HoldLabels, Labels
  <2>4. ASSUME NEW m \in Mods, a = Worker(m) PROVE FALSE
    BY <1>3, <2>3, <2>4 DEF JoinInv, AfterStop, Ended, FlushInv
  <2>5. a \in Threads
    BY <2>4 DEF Actors
  <2>. QED
    BY <1>3, <2>2, <2>3, <2>5 DEF JoinInv, Threads, Gone, AfterLoop, AfterBlk2, AfterBlk1
<1>. QED
  BY <1>1, <1>2, <1>3, Inductive, JoinInductive, FlushInductive, PTL DEF Spec

-----------------------------------------------------------------------------
(* The semaphore of module xmpp counts the packets of its queue.           *)

Xmpp == {m \in Queued : Kind[m] = "xmpp"}
Posting(m) == IF pc[Worker(m)] = "post" THEN 1 ELSE 0
Dequeuing(m) == {t \in Threads : pc[t] = "dequeue" /\ at[t] = m}

SemInv ==
    /\ \A t \in Threads : pc[t] = "dequeue" => at[t] \in Xmpp
    /\ \A m \in Xmpp : IsFiniteSet(recvq[m])
    /\ \A m \in Xmpp : mainpc \in AfterStop \/
          Cardinality(recvq[m]) = posts[m] + Posting(m) + Cardinality(Dequeuing(m))

(* Workers are neither threads of the pipeline nor one another.            *)
LEMMA WorkersApart ==
  \A m \in Mods : /\ \A t \in Threads : Worker(m) # t
                  /\ \A n \in Mods : m # n => Worker(m) # Worker(n)
BY DEF Threads, Blk1, Blk2, Loop, Worker

(* What is counted are numbers.                                            *)
LEMMA SemFacts ==
  ASSUME IInv, SemInv
  PROVE  /\ \A m \in Xmpp : /\ m \in Mods /\ posts[m] \in Nat
                             /\ Posting(m) \in {0, 1}
                             /\ Cardinality(recvq[m]) \in Nat
         /\ \A m : IsFiniteSet(Dequeuing(m)) /\ Cardinality(Dequeuing(m)) \in Nat
<1>1. ASSUME NEW m PROVE IsFiniteSet(Dequeuing(m))
  <2>1. IsFiniteSet(Threads)
    <3>1. IsFiniteSet({Blk1}) /\ IsFiniteSet({Blk1} \cup {Blk2})
      BY FS_Singleton, FS_AddElement
    <3>2. IsFiniteSet(({Blk1} \cup {Blk2}) \cup {Loop})
      BY <3>1, FS_AddElement
    <3>. QED
      BY <3>2 DEF Threads
  <2>. QED
    BY <2>1, FS_Subset DEF Dequeuing
<1>. QED
  BY <1>1, FS_CardinalityType DEF IInv, TypeOK, ControlTypes, Xmpp, Queued, Posting, SemInv

(* Steps that leave the queues and the semaphore alone.                    *)
LEMMA SemUntouched ==
  ASSUME SemInv, UNCHANGED <<recvq, posts>>,
         mainpc \in AfterStop => mainpc' \in AfterStop,
         \A t \in Threads : /\ pc'[t] = "dequeue" <=> pc[t] = "dequeue"
                            /\ pc[t] = "dequeue" => at'[t] = at[t],
         \A m \in Mods : pc'[Worker(m)] = "post" <=> pc[Worker(m)] = "post"
  PROVE  SemInv'
<1>1. \A m \in Xmpp : Posting(m)' = Posting(m)
  BY DEF Posting, Xmpp, Queued
<1>2. \A m \in Xmpp : Dequeuing(m)' = Dequeuing(m)
  BY DEF Dequeuing
<1>. QED
  BY <1>1, <1>2 DEF SemInv

(* sem_wait() takes the post of the packet that is dequeued next.          *)
LEMMA SemPoll ==
  ASSUME IInv, SemInv, NEW t \in Threads, PollXmpp(t), mainpc \notin AfterStop
  PROVE  SemInv'
<1> USE ActorFacts
<1>0. ControlTypes
  BY DEF IInv, TypeOK
<1>1. PICK n \in Xmpp : n = at[t]
  BY <1>0 DEF PollXmpp, Xmpp, Queued, ControlTypes
<1>2. /\ UNCHANGED <<recvq, at, mainpc>> /\ posts[n] > 0
      /\ posts' = [posts EXCEPT ![n] = @ - 1]
      /\ pc[t] = "poll" /\ pc' = [pc EXCEPT ![t] = "dequeue"]
  BY <1>1 DEF PollXmpp, Goto, ctlVars
<1>3. \A m \in Mods : Worker(m) # t /\ pc'[Worker(m)] = pc[Worker(m)]
  BY <1>0, <1>2, WorkersApart DEF ControlTypes
<1>4. \A m \in Xmpp : Posting(m)' = Posting(m)
  BY <1>3 DEF Posting, Xmpp, Queued
<1>5. \A m \in Xmpp : m # n => Dequeuing(m)' = Dequeuing(m) /\ posts'[m] = posts[m]
  BY <1>0, <1>1, <1>2, SemFacts DEF Dequeuing, ControlTypes
<1>6. Dequeuing(n)' = Dequeuing(n) \cup {t} /\ t \notin Dequeuing(n)
  BY <1>0, <1>1, <1>2 DEF Dequeuing, ControlTypes
<1>7. Cardinality(Dequeuing(n)') = Cardinality(Dequeuing(n)) + 1
  BY <1>6, SemFacts, FS_AddElement
<1>8. posts'[n] = posts[n] - 1
  BY <1>0, <1>2, SemFacts DEF ControlTypes
<1>9. \A u \in Threads : pc'[u] = "dequeue" => at'[u] \in Xmpp
  BY <1>0, <1>1, <1>2 DEF SemInv, ControlTypes
<1>10. Cardinality(recvq'[n]) = posts'[n] + Posting(n)' + Cardinality(Dequeuing(n)')
  BY <1>2, <1>4, <1>7, <1>8, SemFacts DEF SemInv
<1>11. \A m \in Xmpp : m # n =>
         Cardinality(recvq'[m]) = posts'[m] + Posting(m)' + Cardinality(Dequeuing(m)')
  BY <1>2, <1>4, <1>5 DEF SemInv
<1>. QED
  BY <1>2, <1>9, <1>10, <1>11 DEF SemInv

(* Taking the packet after sem_wait(), which always finds one.             *)
LEMMA SemDequeue ==
  ASSUME IInv, SemInv, NEW t \in Threads, Dequeue(t), mainpc \notin AfterStop
  PROVE  SemInv'
<1> USE ActorFacts
<1>0. ControlTypes /\ PacketTypes
  BY DEF IInv, TypeOK
<1>1. /\ UNCHANGED <<posts, at, mainpc>>
      /\ \A u \in Threads : u # t => pc'[u] = pc[u]
      /\ pc'[t] # "dequeue" /\ at[t] \in Mods
  BY <1>0 DEF Dequeue, Goto, Return, ctlVars, ControlTypes
<1>2. \A m \in Mods : Worker(m) # t /\ pc'[Worker(m)] = pc[Worker(m)]
  BY <1>0, WorkersApart DEF ControlTypes, Dequeue, Goto
<1>3. \A m \in Xmpp : Posting(m)' = Posting(m)
  BY <1>2 DEF Posting, Xmpp, Queued
<1>4. \A u \in Threads : pc'[u] = "dequeue" => at'[u] \in Xmpp
  BY <1>1 DEF SemInv
<1>5. CASE pc[t] = "poll"
  <2>1. \A m \in Xmpp : recvq'[m] = recvq[m]
    BY <1>0, <1>5 DEF Dequeue, Xmpp, PacketTypes
  <2>2. \A m \in Xmpp : Dequeuing(m)' = Dequeuing(m)
    BY <1>1, <1>5 DEF Dequeuing
  <2>. QED
    BY <1>1, <1>3, <1>4, <2>1, <2>2 DEF SemInv
<1>6. CASE pc[t] = "dequeue"
  <2>1. PICK n \in Xmpp : n = at[t]
    BY <1>6 DEF SemInv
  <2>2. Dequeuing(n)' = Dequeuing(n) \ {t} /\ t \in Dequeuing(n)
    BY <1>1, <1>6, <2>1 DEF Dequeuing
  <2>3. Cardinality(Dequeuing(n)') = Cardinality(Dequeuing(n)) - 1
    BY <2>2, SemFacts, FS_RemoveElement
  <2>4. \A m \in Xmpp : m # n => Dequeuing(m)' = Dequeuing(m)
    BY <1>1, <2>1 DEF Dequeuing
  <2>5. Cardinality(Dequeuing(n)) # 0
    BY <2>2, SemFacts, FS_EmptySet
  <2>6. recvq[n] # {}
    <3>1. Cardinality(recvq[n]) = posts[n] + Posting(n) + Cardinality(Dequeuing(n))
      BY DEF SemInv
    <3>2. Cardinality(recvq[n]) # 0
      BY <2>5, <3>1, SemFacts
    <3>. QED
      BY <3>2, FS_EmptySet
  <2>7. PICK p \in recvq[n] : recvq' = [recvq EXCEPT ![n] = @ \ {p}]
    BY <2>1, <2>6 DEF Dequeue
  <2>8. /\ recvq'[n] = recvq[n] \ {p}
        /\ \A m \in Xmpp : m # n => recvq'[m] = recvq[m]
    BY <1>0, <2>7, SemFacts DEF PacketTypes
  <2>9. /\ IsFiniteSet(recvq'[n])
        /\ Cardinality(recvq'[n]) = Cardinality(recvq[n]) - 1
    BY <2>7, <2>8, FS_RemoveElement DEF SemInv
  <2>10. Cardinality(recvq'[n]) = posts'[n] + Posting(n)' + Cardinality(Dequeuing(n)')
    BY <1>1, <1>3, <2>3, <2>9, SemFacts DEF SemInv
  <2>11. \A m \in Xmpp : m # n =>
          /\ IsFiniteSet(recvq'[m])
          /\ Cardinality(recvq'[m]) = posts'[m] + Posting(m)' + Cardinality(Dequeuing(m)')
    BY <1>1, <1>3, <2>4, <2>8 DEF SemInv
  <2>. QED
    BY <1>4, <2>9, <2>10, <2>11 DEF SemInv
<1>. QED
  BY <1>5, <1>6 DEF Dequeue

(* A received packet is queued, and then posted.                           *)
LEMMA SemWorker ==
  ASSUME IInv, SemInv, NEW n \in Queued, WorkerEnqueue(n) \/ WorkerPost(n),
         mainpc \notin AfterStop
  PROVE  SemInv'
<1> USE ActorFacts
<1>0. ControlTypes /\ PacketTypes
  BY DEF IInv, TypeOK
<1>1. UNCHANGED <<at, mainpc>>
  BY DEF WorkerEnqueue, WorkerPost, ctlVars
<1>2. \A t \in Threads : pc'[t] = pc[t]
  BY <1>0 DEF Threads, Blk1, Blk2, Loop, Worker, ControlTypes, WorkerEnqueue, WorkerPost,
     Goto
<1>3. \A m \in Mods : m # n => pc'[Worker(m)] = pc[Worker(m)]
  BY <1>0 DEF Worker, ControlTypes, WorkerEnqueue, WorkerPost, Goto
<1>4. \A m \in Xmpp : Dequeuing(m)' = Dequeuing(m) /\ (m # n => Posting(m)' = Posting(m))
  BY <1>1, <1>2, <1>3 DEF Dequeuing, Posting, Xmpp, Queued
<1>5. \A t \in Threads : pc'[t] = "dequeue" => at'[t] \in Xmpp
  BY <1>1, <1>2 DEF SemInv
<1>6. CASE WorkerEnqueue(n)
  <2> DEFINE p == hold[Worker(n)]
  <2>1. p \in Packets /\ p \notin recvq[n] /\ pc[Worker(n)] = "received"
    BY <1>0, <1>6 DEF WorkerEnqueue, IInv, HoldsByLabel, HoldLabels, Ownership, PacketTypes
  <2>2. /\ posts' = posts /\ recvq'[n] = recvq[n] \cup {p}
        /\ \A m \in Xmpp : m # n => recvq'[m] = recvq[m]
    BY <1>0, <1>6, SemFacts DEF WorkerEnqueue, PacketTypes
  <2>3. \A m \in Xmpp : m # n =>
          /\ IsFiniteSet(recvq'[m])
          /\ Cardinality(recvq'[m]) = posts'[m] + Posting(m)' + Cardinality(Dequeuing(m)')
    BY <1>4, <2>2 DEF SemInv
  <2>4. ASSUME n \in Xmpp
        PROVE  /\ IsFiniteSet(recvq'[n])
               /\ Cardinality(recvq'[n]) = posts'[n] + Posting(n)' + Cardinality(Dequeuing(n)')
    <3>1. Posting(n) = 0 /\ Posting(n)' = 1
      BY <1>0, <1>6, <2>1, <2>4 DEF Posting, WorkerEnqueue, Goto, Xmpp, ControlTypes
    <3>2. IsFiniteSet(recvq'[n]) /\ Cardinality(recvq'[n]) = Cardinality(recvq[n]) + 1
      <4>1. IsFiniteSet(recvq[n])
        BY <2>4 DEF SemInv
      <4> HIDE DEF p
      <4>. QED
        BY <2>1, <2>2, <4>1, FS_AddElement
    <3>. QED
      BY <1>4, <2>2, <2>4, <3>1, <3>2, SemFacts DEF SemInv
  <2>. QED
    BY <1>5, <2>3, <2>4 DEF SemInv
<1>7. CASE WorkerPost(n)
  <2>1. recvq' = recvq /\ \A m \in Xmpp : m # n => posts'[m] = posts[m]
    BY <1>0, <1>7, SemFacts DEF WorkerPost, ControlTypes
  <2>2. posts'[n] = posts[n] + 1 /\ Posting(n) = 1 /\ Posting(n)' = 0
    BY <1>0, <1>7 DEF WorkerPost, Goto, Posting, ControlTypes
  <2>3. \A m \in Xmpp : m # n =>
          Cardinality(recvq'[m]) = posts'[m] + Posting(m)' + Cardinality(Dequeuing(m)')
    BY <1>4, <2>1 DEF SemInv
  <2>4. n \in Xmpp =>
          Cardinality(recvq'[n]) = posts'[n] + Posting(n)' + Cardinality(Dequeuing(n)')
    BY <1>4, <2>1, <2>2, SemFacts DEF SemInv
  <2>. QED
    BY <1>5, <2>1, <2>3, <2>4 DEF SemInv
<1>. QED
  BY <1>6, <1>7

(* The steps of the pipeline's threads and of the workers.                 *)
LEMMA SemThreads ==
  ASSUME IInv, JoinInv, SemInv,
         \/ \E t \in Threads : External(t) \/ Internal(t)
         \/ \E m \in Queued : WorkerStep(m)
  PROVE  SemInv'
<1> USE ActorFacts
<1>0. ControlTypes
  BY DEF IInv, TypeOK
<1>1. mainpc \notin AfterStop /\ mainpc' = mainpc
  BY NobodyRuns, GoneStaysGone
<1>2. ASSUME NEW t \in Threads, External(t) \/ Internal(t), ~PollXmpp(t), ~Dequeue(t)
      PROVE  SemInv'
  <2>1. /\ UNCHANGED <<recvq, posts>>
        /\ \A u \in Threads : /\ pc'[u] = "dequeue" <=> pc[u] = "dequeue"
                              /\ pc[u] = "dequeue" => at'[u] = at[u]
    BY <1>0, <1>2 DEF External, Internal, TestRunning, PollDirect, ReadOk, ReadFail,
       PollPlugin, Deliver, WriteOk, ProcessFail, HandleError, LogError, Enqueue, SendNext,
       HttpWritten, HandOn, Drop, Put, Get, Cancelled, CancellationPoint, Scan, Goto,
       Return, queueVars, pktVars, ControlTypes
  <2>2. \A m \in Mods : pc'[Worker(m)] = pc[Worker(m)]
    BY <1>0, <1>2, WorkersApart DEF External, Internal, TestRunning, PollDirect, ReadOk,
       ReadFail, PollPlugin, Deliver, WriteOk, ProcessFail, HandleError, LogError, Enqueue,
       SendNext, HttpWritten, HandOn, Drop, Cancelled, Scan, Goto, ControlTypes
  <2>. QED
    BY <1>1, <2>1, <2>2, SemUntouched
<1>3. ASSUME NEW n \in Queued, WorkerStep(n), ~WorkerEnqueue(n), ~WorkerPost(n)
      PROVE  SemInv'
  <2>1. UNCHANGED <<recvq, posts, at>> /\ \A t \in Threads : pc'[t] = pc[t]
    BY <1>0, <1>3, WorkersApart DEF WorkerStep, WorkerTest, WorkerIdle, WorkerReceive,
       WorkerDequeue, WorkerSent, Put, Get, Goto, queueVars, pktVars, ControlTypes
  <2>2. \A m \in Mods : pc'[Worker(m)] = "post" <=> pc[Worker(m)] = "post"
    BY <1>0, <1>3, WorkersApart DEF WorkerStep, WorkerTest, WorkerIdle, WorkerReceive,
       WorkerDequeue, WorkerSent, Goto, ControlTypes
  <2>. QED
    BY <1>1, <2>1, <2>2, SemUntouched
<1>. QED
  BY <1>1, <1>2, <1>3, SemPoll, SemDequeue, SemWorker

(* The steps of main() do not count, except that finalising flushes.       *)
LEMMA SemInductive == IInv /\ JoinInv /\ SemInv /\ [Next]_vars => SemInv'
<1> SUFFICES ASSUME IInv, JoinInv, SemInv, [Next]_vars PROVE SemInv'
  OBVIOUS
<1> USE ActorFacts
<1>0. ControlTypes /\ PacketTypes
  BY DEF IInv, TypeOK
<1>1. ASSUME UNCHANGED <<recvq, posts, at, pc>>,
             mainpc \in AfterStop => mainpc' \in AfterStop
      PROVE  SemInv'
  BY <1>1, SemUntouched
<1>2. CASE AddModule \/ StopPipeline \/ StopModule \/ Signal \/ UNCHANGED vars
  BY <1>1, <1>2 DEF AddModule, StopPipeline, StopModule, Signal, vars, pktVars, ctlVars,
     noPackets, AfterStop
<1>3. CASE RunModule \/ StartBlk1 \/ StartBlk2 \/ StartLoop
  <2>1. UNCHANGED <<recvq, posts, at>> /\ mainpc \notin AfterStop
    BY <1>3 DEF RunModule, StartBlk1, StartBlk2, StartLoop, noPackets, pktVars, AfterStop
  <2>2. \A a \in Actors : pc'[a] = pc[a] \/ (pc[a] = "absent" /\ pc'[a] = "test")
    <3>1. CASE RunModule
      <4>1. nr \in Queued => pc[Worker(nr)] = "absent"
        BY <1>0, <3>1 DEF RunModule, IInv, NotStartedYet, ControlTypes
      <4>. QED
        BY <1>0, <3>1, <4>1 DEF RunModule, Goto, ControlTypes
    <3>2. CASE StartBlk1 \/ StartBlk2 \/ StartLoop
      BY <1>0, <3>2 DEF StartBlk1, StartBlk2, StartLoop, StartThread, SkipThread, Goto,
         ControlTypes, IInv, NotStartedYet
    <3>. QED
      BY <1>3, <3>1, <3>2
  <2>. QED
    BY <2>1, <2>2, SemUntouched
<1>4. CASE \/ Join(Loop, "joinloop", "cancel2") \/ Join(Blk2, "join2", "cancel1")
           \/ Join(Blk1, "join1", "stop")
           \/ CancelThread(Blk2, N, "cancel2", "join2", "cancel1")
           \/ CancelThread(Blk1, 1, "cancel1", "join1", "stop")
  BY <1>1, <1>4 DEF Join, CancelThread, noPackets, pktVars, AfterStop
<1>5. CASE Cleanup
  BY <1>1, <1>5 DEF Cleanup, MainGoto, queueVars, AfterStop
<1>6. CASE FiniModule
  <2>1. /\ UNCHANGED <<at, pc>> /\ mainpc' \in AfterStop
        /\ \A m \in Mods : recvq'[m] \subseteq recvq[m]
    BY <1>0, <1>6 DEF FiniModule, NextModule, MainGoto, AfterStop, PacketTypes
  <2>2. \A m \in Xmpp : IsFiniteSet(recvq'[m])
    BY <2>1, FS_Subset DEF SemInv, Xmpp
  <2>. QED
    BY <2>1, <2>2 DEF SemInv
<1>. QED
  BY <1>2, <1>3, <1>4, <1>5, <1>6, SemThreads DEF Next, MainStep, Exited

(* txc_recv_sem counts the packets of the queue, so tp_xmpp_pkt_get() never*)
(* finds the queue empty after its wait, for any number of packets.        *)
THEOREM SemaphoreCountsPackets == Spec => []SemCounts
<1>1. Init => SemInv
  <2> SUFFICES ASSUME Init PROVE SemInv
    OBVIOUS
  <2>1. \A m \in Mods : recvq[m] = {} /\ posts[m] = 0
    BY DEF Init
  <2>2. \A m \in Mods : Posting(m) = 0 /\ Dequeuing(m) = {}
    BY ActorFacts DEF Init, Posting, Dequeuing
  <2>3. \A t \in Threads : pc[t] # "dequeue"
    BY ActorFacts DEF Init
  <2>4. \A m \in Xmpp : m \in Mods
    BY DEF Xmpp, Queued
  <2>5. IsFiniteSet({}) /\ Cardinality({}) = 0
    BY FS_EmptySet
  <2>6. \A m \in Xmpp : IsFiniteSet(recvq[m])
    BY <2>1, <2>4, <2>5
  <2>7. \A m \in Xmpp : Cardinality(recvq[m]) = posts[m] + Posting(m) + Cardinality(Dequeuing(m))
    BY <2>1, <2>2, <2>4, <2>5
  <2>. QED
    BY <2>3, <2>6, <2>7 DEF SemInv
<1>2. Init => JoinInv
  BY ActorFacts, ModulesAssumption DEF Init, JoinInv, AfterLoop, AfterBlk2, AfterBlk1,
     AfterStop
<1>3. SemInv => SemCounts
  BY DEF SemInv, SemCounts, Xmpp, Posting, Dequeuing, AfterStop
<1>. QED
  BY <1>1, <1>2, <1>3, Inductive, JoinInductive, SemInductive, PTL DEF Spec
=============================================================================
