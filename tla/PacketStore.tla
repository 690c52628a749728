---------------------------- MODULE PacketStore ----------------------------
(***************************************************************************)
(* What packet.c and queue.c promise to the threads that share packets: a  *)
(* packet belongs to one thread, to one queue or to the cache, a queue is a*)
(* FIFO, a thread gets a packet that is large enough, and a new packet is  *)
(* only made when every cached one is too small.                           *)
(***************************************************************************)
EXTENDS Integers, Sequences, FiniteSets

CONSTANTS
    Pkts,       \* the addresses of packets
    Threads,
    Queues,
    Sizes,      \* the sizes of the buffers that are asked for
    NULL        \* no packet

StoreAssumption ==
    /\ Sizes \subseteq Nat
    /\ NULL \notin Pkts
    /\ Pkts \cap Threads = {}
    /\ IsFiniteSet(Pkts) /\ IsFiniteSet(Threads)

None == -1          \* a thread that allocates nothing

VARIABLES
    free,       \* the packets in the cache
    waiting,    \* the packets in each queue, oldest first
    held,       \* the packet of each thread
    actual,     \* pkt_size_actual; only means something for allocated packets
    asked,      \* the size of the packet that a thread is about to allocate
    alloc,      \* the packets that are allocated
    peak        \* history: the most packets of a size that were in use at once

vars == <<free, waiting, held, actual, asked, alloc, peak>>

(* Packets and allocations under way of a size, in use or at all.          *)
Creating(n) == {t \in Threads : asked[t] = n}
Made(n) == {p \in alloc : actual[p] = n} \cup Creating(n)
InUse(n) == {p \in alloc \ free : actual[p] = n} \cup Creating(n)

NewPeak ==
    [n \in Sizes |-> IF Cardinality(InUse(n)') > peak[n] THEN Cardinality(InUse(n)')
                     ELSE peak[n]]

Idle(t) == held[t] = NULL /\ asked[t] = None

Hit(t, n) ==
    /\ Idle(t)
    /\ \E p \in free :
          /\ actual[p] >= n
          /\ free' = free \ {p}
          /\ held' = [held EXCEPT ![t] = p]
    /\ UNCHANGED <<waiting, actual, asked, alloc>>
    /\ peak' = NewPeak

Miss(t, n) ==
    /\ Idle(t)
    /\ \A p \in free : actual[p] < n
    /\ asked' = [asked EXCEPT ![t] = n]
    /\ UNCHANGED <<free, waiting, held, actual, alloc>>
    /\ peak' = NewPeak

Create(t) ==
    /\ asked[t] # None
    /\ asked' = [asked EXCEPT ![t] = None]
    /\ \E p \in Pkts \ alloc :
          /\ alloc' = alloc \cup {p}
          /\ actual' = [actual EXCEPT ![p] = asked[t]]
          /\ held' = [held EXCEPT ![t] = p]
    /\ UNCHANGED <<free, waiting, peak>>

OutOfMemory(t) ==
    /\ asked[t] # None
    /\ asked' = [asked EXCEPT ![t] = None]
    /\ UNCHANGED <<free, waiting, held, actual, alloc, peak>>

(* Packets without a buffer go to a cache from which nothing is got again. *)
Put(t) ==
    /\ held[t] # NULL
    /\ free' = IF actual[held[t]] = 0 THEN free ELSE free \cup {held[t]}
    /\ held' = [held EXCEPT ![t] = NULL]
    /\ UNCHANGED <<waiting, actual, asked, alloc, peak>>

Enqueue(t, q) ==
    /\ held[t] # NULL
    /\ waiting' = [waiting EXCEPT ![q] = Append(@, held[t])]
    /\ held' = [held EXCEPT ![t] = NULL]
    /\ UNCHANGED <<free, actual, asked, alloc, peak>>

Dequeue(t, q) ==
    /\ Idle(t) /\ waiting[q] # <<>>
    /\ waiting' = [waiting EXCEPT ![q] = Tail(@)]
    /\ held' = [held EXCEPT ![t] = Head(waiting[q])]
    /\ UNCHANGED <<free, actual, asked, alloc, peak>>

Init ==
    /\ free = {} /\ alloc = {}
    /\ waiting = [q \in Queues |-> <<>>]
    /\ held = [t \in Threads |-> NULL]
    /\ asked = [t \in Threads |-> None]
    /\ actual = [p \in Pkts |-> 0]
    /\ peak = [n \in Sizes |-> 0]

Next == \E t \in Threads :
    \/ \E n \in Sizes : Hit(t, n) \/ Miss(t, n)
    \/ Create(t) \/ OutOfMemory(t) \/ Put(t)
    \/ \E q \in Queues : Enqueue(t, q) \/ Dequeue(t, q)

Spec == Init /\ [][Next]_vars

(* A packet is in the cache, with one thread or at one place in a queue,   *)
(* and only there: nobody uses a buffer that somebody else may write to.   *)
Exclusive ==
    /\ \A t, u \in Threads : held[t] = held[u] /\ held[t] # NULL => t = u
    /\ \A t \in Threads : held[t] \notin free
    /\ \A q, r \in Queues : \A i \in DOMAIN waiting[q], j \in DOMAIN waiting[r] :
          waiting[q][i] = waiting[r][j] => q = r /\ i = j
    /\ \A q \in Queues : \A i \in DOMAIN waiting[q] :
          waiting[q][i] \notin free /\ \A t \in Threads : waiting[q][i] # held[t]

(* The cache does not grow beyond need: the packets of a size, 0 excepted, *)
(* are never more than were in use at the same time.                       *)
Bounded == \A n \in Sizes \ {0} : Cardinality(Made(n)) <= peak[n]
=============================================================================
