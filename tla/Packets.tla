------------------------------ MODULE Packets ------------------------------
(***************************************************************************)
(* Packets on their way through a host, with their buffers and the lists   *)
(* that link them: the cache (packet.c), the queues (queue.c), reading from*)
(* and writing to a device (io.c and the modules' process operations).     *)
(*                                                                         *)
(* Thread blk1 takes packets from the interface to the transport, blk2 the *)
(* other way.  With udp they read and write by themselves; with http a     *)
(* worker is between them, behind two queues.  What the threads do apart   *)
(* from that is in modules Pipeline and TpHttp.                            *)
(***************************************************************************)
EXTENDS Lists, Integers, Sequences, Functions

CONSTANTS
    Pkts,       \* bound: the addresses at which packets are allocated
    Mtu,        \* the size of the packets that the modules read
    DecLens,    \* the lengths of the data in the messages of the peer
    MaxQueued   \* bound: packets in one queue

Threads == {"blk1", "blk2", "work"}
Queues == {"send", "recv"}
Caches == {"cache", "empty"}

ASSUME PacketsAssumption ==
    /\ Mtu \in Nat \ {0} /\ DecLens \subseteq Nat /\ MaxQueued \in Nat
    /\ IsFiniteSet(Pkts)
    /\ Pkts \cap (Threads \cup Queues \cup Caches \cup {NULL}) = {}

Sizes == {Mtu} \cup DecLens

VARIABLES
    tp,         \* the transport module
    clinks,     \* the links of the caches: pkt_cache_link and two heads
    qlinks,     \* the links of the queues: pkt_q_link and two heads
    pks_lock,   \* the holder of the lock of the caches, or NULL
    alloc,      \* the packets that are allocated
    actual,     \* pkt_size_actual
    size,       \* pkt_size
    fill,       \* how many bytes were read or decoded into the buffer
    pc,         \* where each thread is
    pkt,        \* the packet of each thread
    want,       \* the size that a thread asks for
    written,    \* the bytes of its packet that a thread has written
    peak        \* history: the most packets of a size that were in use at once

linkVars == <<clinks, qlinks, pks_lock>>
dataVars == <<alloc, actual, size, fill>>
threadVars == <<pc, pkt, want, written>>
vars == <<tp, linkVars, dataVars, threadVars, peak>>

Goto(t, label) == pc' = [pc EXCEPT ![t] = label]

Free == Range(Contents(clinks, "cache"))
Creating(n) == {t \in Threads : pc[t] = "create" /\ want[t] = n}
InUse(n) == {p \in alloc : actual[p] = n /\ p \notin Free} \cup Creating(n)
Made(n) == {p \in alloc : actual[p] = n} \cup Creating(n)

-----------------------------------------------------------------------------
(* pppoat_packet_get().                                                    *)

(* The modules' own threads ask for their MTU, the worker for the length of*)
(* what it has to decode.                                                  *)
Asks(t, n) ==
    CASE t = "blk1" -> n = Mtu
      [] t = "blk2" -> n = Mtu /\ tp = "udp"
      [] t = "work" -> n \in DecLens /\ tp = "http"

FitsLoosely(p, n) == TRUE               \* mutant: takes the head of the cache
FitsStrictly(p, n) == actual[p] > n     \* mutant: not if it has just this size
Fits(p, n) == actual[p] >= n

(* The first packet of the cache that is large enough.                     *)
FirstFit(n) ==
    LET c == Contents(clinks, "cache")
        fit == {i \in DOMAIN c : Fits(c[i], n)}
    IN IF fit = {} THEN NULL ELSE c[CHOOSE i \in fit : \A j \in fit : i <= j]

SearchUnlocked(t) ==                    \* mutant: looks for a packet without the lock
    /\ pc[t] = "idle" /\ pks_lock = NULL
    /\ \E n \in Sizes :
          /\ Asks(t, n)
          /\ want' = [want EXCEPT ![t] = n]
          /\ pkt' = [pkt EXCEPT ![t] = FirstFit(n)]
    /\ Goto(t, "found")
    /\ UNCHANGED <<tp, linkVars, dataVars, written, peak>>

Search(t) ==
    /\ pc[t] = "idle" /\ pks_lock = NULL
    /\ pks_lock' = t
    /\ \E n \in Sizes :
          /\ Asks(t, n)
          /\ want' = [want EXCEPT ![t] = n]
          /\ pkt' = [pkt EXCEPT ![t] = FirstFit(n)]
    /\ Goto(t, "found")
    /\ UNCHANGED <<tp, clinks, qlinks, dataVars, written, peak>>

(* After the unlock the thread goes on alone, with its packet.             *)
Take(t) ==
    /\ pc[t] = "found"
    /\ pks_lock' = NULL
    /\ IF pkt[t] = NULL
       THEN Goto(t, "create") /\ UNCHANGED <<clinks, size>>
       ELSE /\ clinks' = Del(clinks, pkt[t])
            /\ size' = [size EXCEPT ![pkt[t]] = want[t]]
            /\ Goto(t, "input")
    /\ UNCHANGED <<tp, qlinks, alloc, actual, fill, pkt, want, written>>
    /\ peak' = [n \in Sizes |-> IF Cardinality(InUse(n)') > peak[n]
                                THEN Cardinality(InUse(n)') ELSE peak[n]]

Create(t) ==
    /\ pc[t] = "create"
    /\ \E p \in Pkts \ alloc :
          /\ alloc' = alloc \cup {p}
          /\ actual' = [actual EXCEPT ![p] = want[t]]
          /\ size' = [size EXCEPT ![p] = want[t]]
          /\ pkt' = [pkt EXCEPT ![t] = p]
    /\ Goto(t, "input")
    /\ UNCHANGED <<tp, linkVars, fill, want, written, peak>>

(* The modules return -ENOMEM; the worker of http uses the result anyway.  *)
OutOfMemory(t) ==
    /\ pc[t] = "create"
    /\ Goto(t, IF t = "work" THEN "crashed" ELSE "idle")
    /\ UNCHANGED <<tp, linkVars, dataVars, pkt, want, written, peak>>

-----------------------------------------------------------------------------
(* Filling a packet.                                                       *)

(* mop_process(NULL) of a module with a device, and mop_process() of the   *)
(* other one up to its loop.                                               *)
Read(t) ==
    /\ pc[t] = "input" /\ t # "work"
    /\ \E rlen \in 1..size[pkt[t]] :
          /\ size' = [size EXCEPT ![pkt[t]] = rlen]
          /\ fill' = [fill EXCEPT ![pkt[t]] = rlen]
    /\ Goto(t, IF t = "blk1" /\ tp = "http" THEN "enqueue" ELSE "write")
    /\ written' = [written EXCEPT ![t] = 0]
    /\ UNCHANGED <<tp, linkVars, alloc, actual, pkt, want, peak>>

(* select() or read() fails, or the device is at its end.                  *)
ReadFails(t) ==
    /\ pc[t] = "input" /\ t # "work"
    /\ Goto(t, "reset")
    /\ UNCHANGED <<tp, linkVars, dataVars, pkt, want, written, peak>>

(* tp_http_recv_buf_normal()                                               *)
Decode(t) ==
    /\ pc[t] = "input" /\ t = "work"
    /\ size' = [size EXCEPT ![pkt[t]] = want[t]]
    /\ fill' = [fill EXCEPT ![pkt[t]] = want[t]]
    /\ Goto(t, "enqueue")
    /\ UNCHANGED <<tp, linkVars, alloc, actual, pkt, want, written, peak>>

-----------------------------------------------------------------------------
(* Queues.  Each operation is one critical section of q_lock.              *)

Enqueue(t) ==
    LET q == IF t = "work" THEN "recv" ELSE "send" IN
    /\ pc[t] = "enqueue"
    /\ Count(qlinks, q) < MaxQueued
    /\ qlinks' = InsertTail(qlinks, pkt[t], q)
    /\ pkt' = [pkt EXCEPT ![t] = NULL]
    /\ Goto(t, "idle")
    /\ UNCHANGED <<tp, clinks, pks_lock, dataVars, want, written, peak>>

(* What the worker dequeues it encodes, writes and puts (module TpHttp).   *)
Dequeue(t) ==
    LET q == IF t = "work" THEN "send" ELSE "recv" IN
    /\ pc[t] = "idle" /\ tp = "http" /\ t # "blk1"
    /\ ListHead(qlinks, q) # NULL
    /\ pkt' = [pkt EXCEPT ![t] = ListHead(qlinks, q)]
    /\ qlinks' = Del(qlinks, ListHead(qlinks, q))
    /\ Goto(t, IF t = "work" THEN "reset" ELSE "write")
    /\ written' = [written EXCEPT ![t] = 0]
    /\ UNCHANGED <<tp, clinks, pks_lock, dataVars, want, peak>>

-----------------------------------------------------------------------------
(* Writing a packet: pppoat_io_write_sync(), tp_udp_buf_send().            *)

Left(t) == size[pkt[t]] - written[t]

(* What one write() or sendto() takes; a datagram is sent as a whole.      *)
Portion(t) ==
    IF <<tp, t>> = <<"udp", "blk1">> \/ Left(t) = 0 THEN {Left(t)} ELSE 1..Left(t)

WriteOnce(t) ==                         \* mutant: what is left is not written
    /\ pc[t] = "write"
    /\ \E wlen \in Portion(t) : written' = [written EXCEPT ![t] = @ + wlen]
    /\ Goto(t, "done")
    /\ UNCHANGED <<tp, linkVars, dataVars, pkt, want, peak>>

(* If the call would block it is repeated after select(); so is sendto()   *)
(* after a signal.  Neither changes anything.                              *)
Write(t) ==
    /\ pc[t] = "write"
    /\ \E wlen \in Portion(t) : written' = [written EXCEPT ![t] = @ + wlen]
    /\ Goto(t, IF written'[t] = size[pkt[t]] THEN "done" ELSE "write")
    /\ UNCHANGED <<tp, linkVars, dataVars, pkt, want, peak>>

(* An error of the device or of select().  A signal is one for write_sync: *)
(* `continue' goes to the condition of the loop, which ends with -EINTR.   *)
WriteFails(t) ==
    /\ pc[t] = "write"
    /\ Goto(t, "reset")
    /\ UNCHANGED <<tp, linkVars, dataVars, pkt, want, written, peak>>

(* rc = 0: the module puts the packet, otherwise pipeline_module_process().*)
WriteDone(t) ==
    /\ pc[t] = "done"
    /\ Goto(t, "reset")
    /\ UNCHANGED <<tp, linkVars, dataVars, pkt, want, written, peak>>

-----------------------------------------------------------------------------
(* pppoat_packet_put(): the packet is reset before the lock is taken.      *)

Reset(t) ==
    /\ pc[t] = "reset"
    /\ size' = [size EXCEPT ![pkt[t]] = actual[pkt[t]]]
    /\ Goto(t, "push")
    /\ UNCHANGED <<tp, linkVars, alloc, actual, fill, pkt, want, written, peak>>

Push(t) ==
    /\ pc[t] = "push" /\ pks_lock = NULL
    /\ clinks' = InsertHead(clinks, pkt[t],
                            IF actual[pkt[t]] = 0 THEN "empty" ELSE "cache")
    /\ pkt' = [pkt EXCEPT ![t] = NULL]
    /\ Goto(t, "idle")
    /\ UNCHANGED <<tp, qlinks, pks_lock, dataVars, want, written, peak>>

-----------------------------------------------------------------------------
(* The links of a new packet mean nothing until it is inserted.            *)
Init ==
    /\ tp \in {"udp", "http"}
    /\ clinks = [l \in Pkts \cup Caches |-> Self(l)]
    /\ qlinks = [l \in Pkts \cup Queues |-> Self(l)]
    /\ pks_lock = NULL
    /\ alloc = {}
    /\ actual = [p \in Pkts |-> 0] /\ size = [p \in Pkts |-> 0]
    /\ fill = [p \in Pkts |-> 0]
    /\ pc = [t \in Threads |-> "idle"] /\ pkt = [t \in Threads |-> NULL]
    /\ want = [t \in Threads |-> Mtu] /\ written = [t \in Threads |-> 0]
    /\ peak = [n \in Sizes |-> 0]

Next == \E t \in Threads :
    /\ pc["work"] # "crashed"
    /\ \/ Search(t) \/ Take(t) \/ Create(t) \/ OutOfMemory(t)
       \/ Read(t) \/ ReadFails(t) \/ Decode(t)
       \/ Enqueue(t) \/ Dequeue(t)
       \/ Write(t) \/ WriteFails(t) \/ WriteDone(t)
       \/ Reset(t) \/ Push(t)

Spec == Init /\ [][Next]_vars

-----------------------------------------------------------------------------
(* Properties.                                                             *)

(* The lists of links and the lock, which protects the search as well as   *)
(* the deletion, make an exclusive cache and two FIFO queues.              *)
Waiting == [q \in Queues |-> Contents(qlinks, q)]
Held == [t \in Threads |-> IF pc[t] = "found" THEN NULL ELSE pkt[t]]
Asked == [t \in Threads |-> IF pc[t] = "create" THEN want[t] ELSE -1]

Store == INSTANCE PacketStore WITH
    free <- Free, waiting <- Waiting, held <- Held, asked <- Asked
ImplementsStore == Store!Spec

(* No read, no base64 decoding and no later use of pkt_size goes beyond the*)
(* buffer, whatever sizes the cached packets had before.                   *)
WithinBuffer ==
    /\ \A t \in Threads : pc[t] = "input" => want[t] <= actual[pkt[t]]
    /\ \A p \in Pkts : size[p] <= actual[p] /\ fill[p] <= actual[p]

(* When a module says that it has written a packet, the device has got just*)
(* the bytes that were read or decoded on the other side of the host.      *)
WholePackets ==
    \A t \in Threads : pc[t] = "done" => written[t] = fill[pkt[t]]

(* Neither several threads that miss at once nor packets of other sizes    *)
(* make the cache grow: of each size there are no more packets than were in*)
(* use at the same time.  (Packets of size 0 are the exception: they go to *)
(* the other cache, from which pppoat_packet_get() never takes one.)       *)
CacheBounded == \A n \in Sizes \ {0} : Cardinality(Made(n)) <= peak[n]
=============================================================================
