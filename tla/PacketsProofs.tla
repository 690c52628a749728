--------------------------- MODULE PacketsProofs ---------------------------
(***************************************************************************)
(* Proofs about packets on their way, for any number of packets and any    *)
(* sizes: the linked lists and the lock of the program make the store of   *)
(* module PacketStore, no access leaves a buffer, and a packet is written  *)
(* as it was read.                                                         *)
(***************************************************************************)
EXTENDS Packets, ListsProofs

(* The store with what is proved about it.                                 *)
SP == INSTANCE PacketStoreProofs WITH
    free <- Free, waiting <- Waiting, held <- Held, asked <- Asked

Cache == Contents(clinks, "cache")
Spare == Contents(clinks, "empty")

Outside == {"idle", "create", "crashed"}    \* where a thread has no packet
Inside == {"input", "write", "done", "enqueue", "reset", "push"}

(* Every variable keeps its type.                                          *)
Types ==
    /\ tp \in {"udp", "http"}
    /\ DOMAIN clinks = Pkts \cup Caches /\ Memory(clinks)
    /\ DOMAIN qlinks = Pkts \cup Queues /\ Memory(qlinks)
    /\ pks_lock \in Threads \cup {NULL}
    /\ alloc \subseteq Pkts
    /\ actual \in [Pkts -> Nat] /\ size \in [Pkts -> Nat] /\ fill \in [Pkts -> Nat]
    /\ pc \in [Threads -> Outside \cup Inside \cup {"found"}]
    /\ pkt \in [Threads -> alloc \cup {NULL}]
    /\ want \in [Threads -> Sizes]
    /\ written \in [Threads -> Nat]
    /\ peak \in [Sizes -> Nat]

(* The links make two lists in each memory.                                *)
Linking ==
    /\ IsList(clinks, "cache", Cache) /\ IsList(clinks, "empty", Spare)
    /\ \A q \in Queues : IsList(qlinks, q, Waiting[q])

(* What the store does not say: packets without a buffer are in the cache  *)
(* for them, and never leave it.                                           *)
Places ==
    /\ \A p \in Free : p \in alloc /\ actual[p] # 0
    /\ \A p \in Range(Spare) : p \in alloc /\ actual[p] = 0
    /\ \A t \in Threads : pkt[t] \notin Range(Spare)
    /\ \A q \in Queues : \A i \in DOMAIN Waiting[q] : Waiting[q][i] \notin Range(Spare)

(* The result of a search is right as long as its thread has the lock.     *)
Searching ==
    \A t \in Threads : pc[t] = "found" =>
        /\ pks_lock = t
        /\ IF pkt[t] = NULL THEN \A p \in Free : actual[p] < want[t]
           ELSE pkt[t] \in Free /\ actual[pkt[t]] >= want[t]

Labels ==
    \A t \in Threads : /\ pc[t] \in Outside => pkt[t] = NULL
                       /\ pc[t] \in Inside => pkt[t] # NULL

(* The bytes of each packet.                                               *)
Bytes ==
    /\ \A p \in Pkts : size[p] <= actual[p] /\ fill[p] <= actual[p]
    /\ \A p \in Pkts \ alloc : fill[p] = 0
    /\ \A t \in Threads :
          /\ pc[t] = "input" => want[t] <= actual[pkt[t]]
          /\ pc[t] \in {"enqueue", "write", "done"} => size[pkt[t]] = fill[pkt[t]]
          /\ pc[t] = "write" => written[t] <= size[pkt[t]]
          /\ pc[t] = "done" => written[t] = size[pkt[t]]
    /\ \A q \in Queues : \A i \in DOMAIN Waiting[q] :
          size[Waiting[q][i]] = fill[Waiting[q][i]]

Low == Types /\ Linking /\ Places /\ Searching /\ Labels /\ Bytes
Inv == Low /\ SP!Owners

-----------------------------------------------------------------------------
(* Facts that every step uses.                                             *)

LEMMA SameCounts ==
    \A S : /\ SP!Cardinality(S) = Cardinality(S) /\ Store!Cardinality(S) = Cardinality(S)
          /\ SP!IsFiniteSet(S) <=> IsFiniteSet(S)
BY DEF SP!Cardinality, Store!Cardinality, Cardinality, SP!IsFiniteSet, IsFiniteSet

LEMMA Constants ==
    /\ Sizes \subseteq Nat /\ NULL \notin Pkts /\ NULL \notin Threads
    /\ \A p \in Pkts : p \notin Threads /\ p \notin Queues /\ p \notin Caches
    /\ IsFiniteSet(Pkts) /\ IsFiniteSet(Pkts \cup Threads)
    /\ IsFiniteSet(Pkts \cup Caches) /\ IsFiniteSet(Pkts \cup Queues)
    /\ SP!StoreAssumption
<1>1. Sizes \subseteq Nat /\ NULL \notin Threads
  BY PacketsAssumption DEF Sizes, Threads, NULL
<1>2. IsFiniteSet(Caches) /\ IsFiniteSet(Queues) /\ IsFiniteSet(Threads)
  <2>1. ASSUME NEW x, NEW y PROVE IsFiniteSet({x, y})
    <3>1. IsFiniteSet({x}) /\ IsFiniteSet({y}) BY FS_Singleton
    <3>2. {x, y} = {x} \cup {y} OBVIOUS
    <3> QED BY <3>1, <3>2, FS_Union
  <2>2. IsFiniteSet({"blk1", "blk2"} \cup {"work", "work"}) BY <2>1, FS_Union
  <2>3. Threads = {"blk1", "blk2"} \cup {"work", "work"} BY DEF Threads
  <2> QED BY <2>1, <2>2, <2>3 DEF Caches, Queues
<1>3. IsFiniteSet(Pkts \cup Caches) /\ IsFiniteSet(Pkts \cup Queues)
      /\ IsFiniteSet(Pkts \cup Threads)
  BY <1>2, PacketsAssumption, FS_Union
<1>4. SP!StoreAssumption
  BY <1>1, <1>2, PacketsAssumption, SameCounts DEF SP!StoreAssumption
<1> QED BY <1>1, <1>3, <1>4, PacketsAssumption

(* What is linked is as before if the links are.                           *)
LEMMA SameLinks ==
    /\ UNCHANGED clinks => UNCHANGED <<Free, Cache, Spare>>
    /\ UNCHANGED qlinks => UNCHANGED Waiting
BY DEF Free, Cache, Spare, Waiting

(* The packet of a thread is nobody else's.                                *)
LEMMA Mine ==
    ASSUME Inv, NEW t \in Threads, pkt[t] # NULL
    PROVE  /\ pkt[t] \in alloc /\ pkt[t] \in Pkts
           /\ \A u \in Threads \ {t} : pkt[u] # pkt[t]
           /\ \A q \in Queues : \A i \in DOMAIN Waiting[q] : Waiting[q][i] # pkt[t]
           /\ pc[t] # "found" => pkt[t] \notin Free
<1>1. pkt[t] \in alloc /\ pkt[t] \in Pkts BY DEF Inv, Low, Types
<1>2. CASE pc[t] = "found"
  <2>1. pkt[t] \in Free /\ pks_lock = t BY <1>2 DEF Inv, Low, Searching
  <2>2. \A u \in Threads \ {t} : pc[u] # "found" BY <2>1 DEF Inv, Low, Searching
  <2>3. \A u \in Threads \ {t} : Held[u] = pkt[u] BY <2>2 DEF Held
  <2> QED BY <1>1, <1>2, <2>1, <2>3 DEF Inv, SP!Owners, SP!Exclusive
<1>3. CASE pc[t] # "found"
  <2>1. Held[t] = pkt[t] BY <1>3 DEF Held
  <2>2. pkt[t] \notin Free BY <2>1 DEF Inv, SP!Owners, SP!Exclusive
  <2>3. ASSUME NEW u \in Threads \ {t} PROVE pkt[u] # pkt[t]
    <3>1. CASE pc[u] = "found" BY <2>2, <3>1 DEF Inv, Low, Searching
    <3>2. CASE pc[u] # "found"
      <4>1. Held[u] = pkt[u] BY <3>2 DEF Held
      <4> QED BY <2>1, <4>1 DEF Inv, SP!Owners, SP!Exclusive
    <3> QED BY <3>1, <3>2
  <2> QED BY <1>1, <2>1, <2>2, <2>3 DEF Inv, SP!Owners, SP!Exclusive
<1> QED BY <1>2, <1>3

(* Queued packets are allocated.                                           *)
LEMMA Queued ==
    ASSUME Inv, NEW q \in Queues
    PROVE  /\ Waiting[q] \in Seq(alloc) /\ DOMAIN Waiting[q] = 1..Len(Waiting[q])
           /\ \A i \in DOMAIN Waiting[q] : Waiting[q][i] \in alloc /\ Waiting[q][i] \in Pkts
<1>1. Waiting[q] \in Seq(alloc) BY DEF Inv, SP!Owners, SP!Types
<1> QED BY <1>1, ElementOfSeq, LenProperties DEF Inv, Low, Types

(* A step that moves no packet is no step of the store.                    *)
LEMMA Stutters ==
    ASSUME UNCHANGED <<Free, Waiting, Held, Asked, actual, alloc, peak>>
    PROVE  [SP!Next]_(SP!vars)
BY DEF SP!vars

(* So does one that leaves the links, the packets and their sizes alone,   *)
(* as far as lists are concerned.                                          *)
LEMMA KeepsPlaces ==
    ASSUME Inv, UNCHANGED <<clinks, qlinks, alloc, actual>>,
           \A t \in Threads : pkt'[t] \notin Range(Spare)
    PROVE  /\ Linking' /\ Places'
           /\ UNCHANGED <<Free, Cache, Spare, Waiting>>
<1>1. UNCHANGED <<Free, Cache, Spare, Waiting>> BY SameLinks
<1>2. Linking' BY <1>1 DEF Inv, Low, Linking
<1>3. Places' BY <1>1 DEF Inv, Low, Places
<1> QED BY <1>1, <1>2, <1>3

-----------------------------------------------------------------------------
(* The steps of a search.                                                  *)

(* The search finds the first packet that is large enough, if there is one.*)
LEMMA FirstFitFits ==
    ASSUME Inv, NEW n \in Sizes
    PROVE  IF FirstFit(n) = NULL THEN \A p \in Free : actual[p] < n
           ELSE FirstFit(n) \in Free /\ actual[FirstFit(n)] >= n
<1> DEFINE c == Contents(clinks, "cache")
           fit == {i \in DOMAIN c : Fits(c[i], n)}
           first == CHOOSE i \in fit : \A j \in fit : i <= j
<1>1. c \in Seq(DOMAIN clinks \ {"cache"}) /\ Len(c) \in Nat /\ DOMAIN c = 1..Len(c)
  BY LenProperties DEF Inv, Low, Linking, Cache, IsList
<1>2. /\ n \in Nat /\ \A p \in Free : actual[p] \in Nat /\ p # NULL
      /\ \A i \in DOMAIN c : c[i] \in Free
      /\ \A p \in Free : \E i \in DOMAIN c : p = c[i]
  BY Constants DEF Inv, Low, Types, Places, Free, Range
<1>3. FirstFit(n) = IF fit = {} THEN NULL ELSE c[first] BY DEF FirstFit
<1> HIDE DEF c
<1>4. CASE fit = {}
  <2>1. FirstFit(n) = NULL BY <1>3, <1>4
  <2>2. \A i \in DOMAIN c : ~ (actual[c[i]] >= n) BY <1>4 DEF Fits
  <2> QED BY <1>2, <2>1, <2>2
<1>5. CASE fit # {}
  <2>1. fit \in SUBSET Nat BY <1>1
  <2> HIDE DEF fit
  <2>2. \E i \in fit : \A j \in fit : i <= j BY <1>5, <2>1, LeastNat
  <2>3. first \in fit BY <2>2
  <2> HIDE DEF first
  <2>4. FirstFit(n) = c[first] /\ first \in DOMAIN c /\ Fits(c[first], n)
    BY <1>3, <1>5, <2>3 DEF fit
  <2> QED BY <1>2, <2>4 DEF Fits
<1> QED BY <1>4, <1>5

(* What is found is only kept by the lock.                                 *)
LEMMA SearchStep ==
    ASSUME Inv, NEW t \in Threads, Search(t)
    PROVE  Low' /\ [SP!Next]_(SP!vars)
<1>1. PICK n \in Sizes : want' = [want EXCEPT ![t] = n]
                         /\ pkt' = [pkt EXCEPT ![t] = FirstFit(n)]
  BY DEF Search
<1>2. /\ pc[t] = "idle" /\ pks_lock = NULL /\ pks_lock' = t
      /\ pc' = [pc EXCEPT ![t] = "found"]
      /\ UNCHANGED <<tp, clinks, qlinks, alloc, actual, size, fill, written, peak>>
  BY DEF Search, Goto, dataVars
<1>3. IF FirstFit(n) = NULL THEN \A p \in Free : actual[p] < n
      ELSE FirstFit(n) \in Free /\ actual[FirstFit(n)] >= n
  BY FirstFitFits
<1>4. FirstFit(n) \in alloc \cup {NULL} /\ FirstFit(n) \notin Range(Spare)
  BY <1>3, Constants DEF Inv, Low, Types, Places
<1> HIDE DEF FirstFit
<1>5. Types' BY <1>1, <1>2, <1>4 DEF Inv, Low, Types
<1>6. Linking' /\ Places' /\ UNCHANGED <<Free, Cache, Spare, Waiting>>
  <2>1. \A u \in Threads : pkt'[u] \notin Range(Spare)
    BY <1>1, <1>4 DEF Inv, Low, Types, Places
  <2> QED BY <1>2, <2>1, KeepsPlaces
<1>7. \A u \in Threads : pc[u] # "found" BY <1>2, Constants DEF Inv, Low, Searching
<1>8. Searching' BY <1>1, <1>2, <1>3, <1>6, <1>7 DEF Inv, Low, Types, Searching
<1>9. Labels' BY <1>1, <1>2 DEF Inv, Low, Types, Labels, Outside, Inside
<1>10. Bytes' BY <1>1, <1>2, <1>6 DEF Inv, Low, Types, Bytes
<1>11. Held' = Held /\ Asked' = Asked
  BY <1>1, <1>2 DEF Held, Asked, Inv, Low, Types, Labels, Outside
<1>12. [SP!Next]_(SP!vars) BY <1>2, <1>6, <1>11, Stutters
<1> QED BY <1>5, <1>6, <1>8, <1>9, <1>10, <1>12 DEF Low

(* The threads that use or make packets of a size, as the store counts     *)
(* them.                                                                   *)
LEMMA UseCounted ==
    /\ \A n \in Sizes : /\ Cardinality(InUse(n)) = SP!Cardinality(SP!InUse(n))
                        /\ Cardinality(Made(n)) = SP!Cardinality(SP!Made(n))
    /\ \A n \in Sizes : /\ Cardinality(InUse(n)') = SP!Cardinality(SP!InUse(n)')
                        /\ Cardinality(Made(n)') = SP!Cardinality(SP!Made(n)')
<1>1. ASSUME NEW n \in Sizes
      PROVE  /\ InUse(n) = SP!InUse(n) /\ InUse(n)' = SP!InUse(n)'
             /\ Made(n) = SP!Made(n) /\ Made(n)' = SP!Made(n)'
  <2>1. n # -1 BY Constants
  <2>2. Creating(n) = SP!Creating(n) BY <2>1 DEF Creating, SP!Creating, Asked
  <2>3. Creating(n)' = SP!Creating(n)' BY <2>1 DEF Creating, SP!Creating, Asked
  <2>4. InUse(n) = SP!InUse(n) BY <2>2 DEF InUse, SP!InUse
  <2>5. InUse(n)' = SP!InUse(n)' BY <2>3 DEF InUse, SP!InUse
  <2>6. Made(n) = SP!Made(n) BY <2>2 DEF Made, SP!Made
  <2>7. Made(n)' = SP!Made(n)' BY <2>3 DEF Made, SP!Made
  <2> QED BY <2>4, <2>5, <2>6, <2>7
<1>2. \A S : Cardinality(S) = SP!Cardinality(S) BY DEF Cardinality, SP!Cardinality
<1>3. ASSUME NEW n \in Sizes
      PROVE  /\ Cardinality(InUse(n)) = SP!Cardinality(SP!InUse(n))
             /\ Cardinality(Made(n)) = SP!Cardinality(SP!Made(n))
             /\ Cardinality(InUse(n)') = SP!Cardinality(SP!InUse(n)')
             /\ Cardinality(Made(n)') = SP!Cardinality(SP!Made(n)')
  <2>1. /\ InUse(n) = SP!InUse(n) /\ InUse(n)' = SP!InUse(n)'
        /\ Made(n) = SP!Made(n) /\ Made(n)' = SP!Made(n)'
    BY <1>1
  <2>2. Cardinality(InUse(n)) = SP!Cardinality(InUse(n)) BY <1>2
  <2>3. Cardinality(Made(n)) = SP!Cardinality(Made(n)) BY <1>2
  <2>4. Cardinality(InUse(n)') = SP!Cardinality(InUse(n)') BY <1>2
  <2>5. Cardinality(Made(n)') = SP!Cardinality(Made(n)') BY <1>2
  <2> QED BY <2>1, <2>2, <2>3, <2>4, <2>5
<1> QED BY <1>3


-----------------------------------------------------------------------------
(* The lists.                                                              *)

(* The lists of the caches are lists of packets, which are no heads.       *)
LEMMA CacheLists ==
    ASSUME Inv
    PROVE  /\ IsList(clinks, "cache", Cache) /\ IsList(clinks, "empty", Spare)
           /\ Len(Cache) \in Nat /\ Len(Spare) \in Nat
           /\ \A x : x \in Free <=> In(x, Cache)
           /\ \A x : x \in Range(Spare) <=> In(x, Spare)
           /\ \A x \in Free \cup Range(Spare) : x \in Pkts /\ x \notin Caches
           /\ \A x \in Free : x \notin Range(Spare)
           /\ \A i \in 1..Len(Cache) : Cache[i] \in Free
           /\ \A i \in 1..Len(Spare) : Spare[i] \in Range(Spare)
           /\ Free = Range(Cache)
           /\ IsFiniteSet(DOMAIN clinks) /\ Memory(clinks)
           /\ "cache" \in DOMAIN clinks /\ "empty" \in DOMAIN clinks
           /\ Pkts \subseteq DOMAIN clinks
<1>1. IsList(clinks, "cache", Cache) /\ IsList(clinks, "empty", Spare)
  BY DEF Inv, Low, Linking
<1>2. Cache \in Seq(DOMAIN clinks \ {"cache"}) /\ Spare \in Seq(DOMAIN clinks \ {"empty"})
  BY <1>1 DEF IsList
<1>3. Free = Range(Cache) BY DEF Free, Cache
<1>4. \A x : x \in Range(Cache) <=> In(x, Cache) BY <1>2, RangeOfLists
<1>5. \A x : x \in Range(Spare) <=> In(x, Spare) BY <1>2, RangeOfLists
<1>6. Len(Cache) \in Nat /\ Len(Spare) \in Nat BY <1>2, LenProperties
<1>7. /\ \A i \in 1..Len(Cache) : Cache[i] \in Free
      /\ \A i \in 1..Len(Spare) : Spare[i] \in Range(Spare)
  BY <1>3, <1>4, <1>5 DEF In
<1>8. \A x \in Free \cup Range(Spare) : x \in Pkts /\ x \notin Caches
  BY Constants DEF Inv, Low, Places, Types
<1>9. \A x \in Free : x \notin Range(Spare) BY DEF Inv, Low, Places
<1>10. IsFiniteSet(DOMAIN clinks) /\ Memory(clinks) /\ Pkts \subseteq DOMAIN clinks
       /\ "cache" \in DOMAIN clinks /\ "empty" \in DOMAIN clinks
  BY Constants DEF Inv, Low, Types, Caches
<1> QED BY <1>1, <1>3, <1>4, <1>5, <1>6, <1>7, <1>8, <1>9, <1>10

(* What happens in one of the two caches leaves the other one alone.       *)
LEMMA SpareKept ==
    ASSUME Inv, NEW new, NEW l \in Pkts, NEW s, l \notin Range(Spare),
           Makes(clinks, new, "cache", Cache, l, s)
    PROVE  IsList(new, "empty", Spare) /\ Contents(new, "empty") = Spare
<1>1. "empty" \notin {"cache", l} /\ ~ In("empty", Cache)
  BY CacheLists, Constants DEF Caches
<1>2. \A i \in 1..Len(Spare) : Spare[i] \notin {"cache", l} /\ ~ In(Spare[i], Cache)
  BY CacheLists DEF Caches
<1> QED BY <1>1, <1>2, CacheLists, OthersKept

LEMMA CacheKept ==
    ASSUME Inv, NEW new, NEW l \in Pkts, NEW s, l \notin Free,
           Makes(clinks, new, "empty", Spare, l, s)
    PROVE  IsList(new, "cache", Cache) /\ Contents(new, "cache") = Cache
<1>1. "cache" \notin {"empty", l} /\ ~ In("cache", Spare)
  BY CacheLists, Constants DEF Caches
<1>2. \A i \in 1..Len(Cache) : Cache[i] \notin {"empty", l} /\ ~ In(Cache[i], Spare)
  BY CacheLists DEF Caches
<1> QED BY <1>1, <1>2, CacheLists, OthersKept

(* Nor does one queue touch the other.                                     *)
LEMMA QueueLists ==
    ASSUME Inv, NEW q \in Queues
    PROVE  /\ IsList(qlinks, q, Waiting[q]) /\ Waiting[q] = Contents(qlinks, q)
           /\ Len(Waiting[q]) \in Nat /\ DOMAIN Waiting[q] = 1..Len(Waiting[q])
           /\ \A i \in 1..Len(Waiting[q]) : Waiting[q][i] \in Pkts /\ Waiting[q][i] \notin Queues
           /\ \A x : In(x, Waiting[q]) => x \in Pkts /\ x \notin Queues
           /\ IsFiniteSet(DOMAIN qlinks) /\ Memory(qlinks)
           /\ q \in DOMAIN qlinks /\ Pkts \subseteq DOMAIN qlinks
<1>1. IsList(qlinks, q, Waiting[q]) BY DEF Inv, Low, Linking
<1>2. Waiting[q] = Contents(qlinks, q) BY DEF Waiting
<1>3. Len(Waiting[q]) \in Nat /\ DOMAIN Waiting[q] = 1..Len(Waiting[q])
  BY <1>1, LenProperties DEF IsList
<1>4. \A i \in 1..Len(Waiting[q]) : Waiting[q][i] \in Pkts /\ Waiting[q][i] \notin Queues
  BY <1>3, Queued, Constants
<1>5. IsFiniteSet(DOMAIN qlinks) /\ Memory(qlinks) /\ q \in DOMAIN qlinks
      /\ Pkts \subseteq DOMAIN qlinks
  BY Constants DEF Inv, Low, Types
<1> QED BY <1>1, <1>2, <1>3, <1>4, <1>5 DEF In

LEMMA OtherQueueKept ==
    ASSUME Inv, NEW q \in Queues, NEW r \in Queues, q # r, NEW new, NEW l \in Pkts, NEW s,
           Makes(qlinks, new, q, Waiting[q], l, s),
           \A i \in DOMAIN Waiting[r] : Waiting[r][i] # l
    PROVE  IsList(new, r, Waiting[r]) /\ Contents(new, r) = Waiting[r]
<1>1. r \notin {q, l} /\ ~ In(r, Waiting[q]) BY QueueLists, Constants
<1>2. \A i \in 1..Len(Waiting[r]) : Waiting[r][i] \notin {q, l} /\ ~ In(Waiting[r][i], Waiting[q])
  <2>1. TAKE i \in 1..Len(Waiting[r])
  <2>2. Waiting[r][i] \notin {q, l} BY QueueLists
  <2>3. DOMAIN Waiting[r] = 1..Len(Waiting[r]) /\ DOMAIN Waiting[q] = 1..Len(Waiting[q])
    BY QueueLists
  <2>4. ~ In(Waiting[r][i], Waiting[q])
    BY <2>3 DEF In, Inv, SP!Owners, SP!Exclusive
  <2> QED BY <2>2, <2>4
<1> QED BY <1>1, <1>2, QueueLists, OthersKept

-----------------------------------------------------------------------------
(* The steps of pppoat_packet_get() after the search.                      *)

(* The new peak is what the store asks for.                                *)
LEMMA PeakCounted ==
    ASSUME peak' = [n \in Sizes |-> IF Cardinality(InUse(n)') > peak[n]
                                    THEN Cardinality(InUse(n)') ELSE peak[n]]
    PROVE  peak' = SP!NewPeak
BY UseCounted DEF SP!NewPeak

LEMMA TakeTypes ==
    ASSUME Inv, NEW t \in Threads, Take(t)
    PROVE  peak' \in [Sizes -> Nat] /\ peak' = SP!NewPeak
<1>1. peak' = [n \in Sizes |-> IF Cardinality(InUse(n)') > peak[n]
                               THEN Cardinality(InUse(n)') ELSE peak[n]]
  BY DEF Take
<1>2. ASSUME NEW n \in Sizes PROVE Cardinality(InUse(n)') \in Nat
  <2>1. IsFiniteSet(Pkts \cup Threads) BY Constants
  <2>2. alloc' \subseteq Pkts BY DEF Take, Inv, Low, Types
  <2>3. InUse(n)' \in SUBSET (Pkts \cup Threads) BY <2>2 DEF InUse, Creating
  <2> QED BY <2>1, <2>3, FS_Subset, FS_CardinalityType
<1>3. \A n \in Sizes : peak[n] \in Nat BY DEF Inv, Low, Types
<1>4. peak' \in [Sizes -> Nat] BY <1>1, <1>2, <1>3
<1> QED BY <1>1, <1>4, PeakCounted

(* The packet that was found leaves the cache,                             *)
LEMMA TakeHit ==
    ASSUME Inv, NEW t \in Threads, Take(t), pkt[t] # NULL
    PROVE  Low' /\ [SP!Next]_(SP!vars)
<1> DEFINE p == pkt[t]
<1>1. /\ pc[t] = "found" /\ pks_lock' = NULL /\ pc' = [pc EXCEPT ![t] = "input"]
      /\ clinks' = Del(clinks, p) /\ size' = [size EXCEPT ![p] = want[t]]
      /\ UNCHANGED <<tp, qlinks, alloc, actual, fill, pkt, want, written>>
  BY DEF Take, Goto
<1>2. p \in Free /\ actual[p] >= want[t] /\ p \in Pkts /\ p \in alloc /\ pks_lock = t
  BY <1>1, Mine DEF Inv, Low, Searching
<1>3. PICK k \in 1..Len(Cache) : Cache[k] = p BY <1>2, CacheLists DEF In
<1>4. Makes(clinks, clinks', "cache", Cache, p, Without(Cache, k))
  BY <1>1, <1>3, CacheLists, DelOfList
<1>5. /\ Memory(clinks') /\ DOMAIN clinks' = DOMAIN clinks
      /\ IsList(clinks', "cache", Cache') /\ Cache' = Without(Cache, k)
  BY <1>4, CacheLists, ContentsMade DEF Cache
<1>6. IsList(clinks', "empty", Spare') /\ Spare' = Spare
  BY <1>2, <1>4, CacheLists, SpareKept DEF Spare
<1>7. Free' = Free \ {p}
  <2>1. Cache \in Seq(DOMAIN clinks \ {"cache"})
        /\ \A i, j \in 1..Len(Cache) : Cache[i] = Cache[j] => i = j
    BY CacheLists DEF IsList
  <2>2. Range(Without(Cache, k)) = Range(Cache) \ {Cache[k]} BY <2>1, RangeWithout
  <2> QED BY <1>3, <1>5, <2>2 DEF Free, Cache
<1>8. Waiting' = Waiting BY <1>1, SameLinks
<1> HIDE DEF p
<1>9. Types' BY <1>1, <1>2, <1>5, TakeTypes, Constants DEF Inv, Low, Types, Inside
<1>10. Linking' BY <1>1, <1>5, <1>6, <1>8 DEF Inv, Low, Linking
<1>11. Places' BY <1>1, <1>6, <1>7, <1>8 DEF Inv, Low, Places
<1>12. \A u \in Threads \ {t} : pc[u] # "found" /\ pc'[u] = pc[u] /\ pkt[u] # p
  BY <1>1, <1>2, Mine DEF Inv, Low, Types, Searching, p
<1>13. Searching' BY <1>1, <1>12 DEF Inv, Low, Types, Searching
<1>14. Labels' BY <1>1, <1>12 DEF Inv, Low, Types, Labels, Inside, Outside, p
<1>15. Bytes'
  <2>1. \A x \in Pkts : size'[x] <= actual[x] /\ fill[x] <= actual[x]
    <3>1. want[t] \in Nat BY Constants DEF Inv, Low, Types
    <3>2. size'[p] = want[t] /\ \A x \in Pkts \ {p} : size'[x] = size[x]
      BY <1>1, <1>2 DEF Inv, Low, Types
    <3>3. \A x \in Pkts : size[x] <= actual[x] /\ fill[x] <= actual[x]
      BY DEF Inv, Low, Bytes
    <3> QED BY <1>2, <3>1, <3>2, <3>3
  <2>2. \A q \in Queues : \A i \in DOMAIN Waiting[q] :
          size'[Waiting[q][i]] = fill[Waiting[q][i]]
    <3>1. TAKE q \in Queues
    <3>2. TAKE i \in DOMAIN Waiting[q]
    <3>3. Waiting[q][i] \in Pkts \ {p} BY Mine, Queued DEF p
    <3>4. size[Waiting[q][i]] = fill[Waiting[q][i]] BY DEF Inv, Low, Bytes
    <3> QED BY <1>1, <3>3, <3>4 DEF Inv, Low, Types
  <2>3. \A u \in Threads \ {t} : pkt[u] \in Pkts => size'[pkt[u]] = size[pkt[u]]
    BY <1>1, <1>12 DEF Inv, Low, Types
  <2>4. \A u \in Threads : pc[u] \in Inside => pkt[u] \in Pkts
    BY DEF Inv, Low, Types, Labels
  <2>5. ASSUME NEW u \in Threads
        PROVE  /\ pc'[u] = "input" => want[u] <= actual[pkt[u]]
               /\ pc'[u] \in {"enqueue", "write", "done"} => size'[pkt[u]] = fill[pkt[u]]
               /\ pc'[u] = "write" => written[u] <= size'[pkt[u]]
               /\ pc'[u] = "done" => written[u] = size'[pkt[u]]
    <3>1. CASE u = t
      <4>1. pc'[t] = "input" BY <1>1 DEF Inv, Low, Types
      <4> QED BY <1>2, <3>1, <4>1, Constants DEF Inv, Low, Types, p
    <3>2. CASE u # t
      BY <1>12, <2>3, <2>4, <3>2 DEF Inv, Low, Bytes, Inside
    <3> QED BY <3>1, <3>2
  <2> QED BY <1>1, <1>8, <2>1, <2>2, <2>5 DEF Inv, Low, Bytes
<1>16. Held' = [Held EXCEPT ![t] = p] /\ Asked' = Asked /\ Held[t] = NULL /\ Asked[t] = -1
  <2>1. Held' = [Held EXCEPT ![t] = p]
    BY <1>1 DEF Held, Inv, Low, Types, p
  <2> QED BY <1>1, <2>1 DEF Held, Asked, Inv, Low, Types
<1>17. SP!Hit(t, want[t])
  BY <1>1, <1>2, <1>7, <1>8, <1>16, TakeTypes DEF SP!Hit, SP!Idle, SP!None
<1>18. want[t] \in Sizes BY DEF Inv, Low, Types
<1>19. [SP!Next]_(SP!vars) BY <1>17, <1>18 DEF SP!Next
<1> QED BY <1>9, <1>10, <1>11, <1>13, <1>14, <1>15, <1>19 DEF Low

(* or the thread goes to make one.                                         *)
LEMMA TakeMiss ==
    ASSUME Inv, NEW t \in Threads, Take(t), pkt[t] = NULL
    PROVE  Low' /\ [SP!Next]_(SP!vars)
<1>1. /\ pc[t] = "found" /\ pks_lock' = NULL /\ pc' = [pc EXCEPT ![t] = "create"]
      /\ UNCHANGED <<tp, clinks, qlinks, alloc, actual, size, fill, pkt, want, written>>
  BY DEF Take, Goto
<1>2. pks_lock = t /\ \A p \in Free : actual[p] < want[t]
  BY <1>1 DEF Inv, Low, Searching
<1>3. Linking' /\ Places' /\ UNCHANGED <<Free, Cache, Spare, Waiting>>
  <2>1. \A u \in Threads : pkt'[u] \notin Range(Spare) BY <1>1 DEF Inv, Low, Places
  <2> QED BY <1>1, <2>1, KeepsPlaces
<1>4. Types' BY <1>1, TakeTypes DEF Inv, Low, Types, Outside
<1>5. \A u \in Threads \ {t} : pc[u] # "found" /\ pc'[u] = pc[u]
  BY <1>1, <1>2 DEF Inv, Low, Types, Searching
<1>6. pc'[t] = "create" BY <1>1 DEF Inv, Low, Types
<1>7. Searching' BY <1>5, <1>6 DEF Searching
<1>8. Labels' BY <1>1, <1>5, <1>6 DEF Inv, Low, Labels, Inside, Outside
<1>9. Bytes' BY <1>1, <1>3, <1>5, <1>6 DEF Inv, Low, Bytes
<1>10. Held' = Held BY <1>1, <1>5, <1>6 DEF Held
<1>11. Asked' = [Asked EXCEPT ![t] = want[t]] BY <1>1, <1>5, <1>6 DEF Asked
<1>12. Held[t] = NULL /\ Asked[t] = -1 BY <1>1 DEF Held, Asked
<1>13. SP!Miss(t, want[t])
  BY <1>1, <1>2, <1>3, <1>10, <1>11, <1>12, TakeTypes DEF SP!Miss, SP!Idle, SP!None
<1>14. want[t] \in Sizes BY DEF Inv, Low, Types
<1>15. [SP!Next]_(SP!vars) BY <1>13, <1>14 DEF SP!Next
<1> QED BY <1>3, <1>4, <1>7, <1>8, <1>9, <1>15 DEF Low

(* A new packet has a buffer of the size that was asked for.               *)
LEMMA CreateStep ==
    ASSUME Inv, NEW t \in Threads, Create(t)
    PROVE  Low' /\ [SP!Next]_(SP!vars)
<1>1. PICK p \in Pkts \ alloc :
        /\ alloc' = alloc \cup {p} /\ actual' = [actual EXCEPT ![p] = want[t]]
        /\ size' = [size EXCEPT ![p] = want[t]] /\ pkt' = [pkt EXCEPT ![t] = p]
  BY DEF Create
<1>2. /\ pc[t] = "create" /\ pc' = [pc EXCEPT ![t] = "input"]
      /\ UNCHANGED <<tp, clinks, qlinks, pks_lock, fill, want, written, peak>>
  BY DEF Create, Goto, linkVars
<1>3. UNCHANGED <<Free, Cache, Spare, Waiting>> BY <1>2, SameLinks
<1>4. want[t] \in Sizes /\ want[t] \in Nat BY Constants DEF Inv, Low, Types
<1>5. Types' BY <1>1, <1>2, <1>4, Constants DEF Inv, Low, Types, Inside
<1>6. Linking' BY <1>2, <1>3 DEF Inv, Low, Linking
<1>7. p \notin Free /\ p \notin Range(Spare) BY <1>1 DEF Inv, Low, Places
<1>8. Places' BY <1>1, <1>3, <1>7 DEF Inv, Low, Types, Places
<1>9. \A u \in Threads \ {t} : pc'[u] = pc[u] /\ pkt'[u] = pkt[u] /\ pkt[u] # p
  BY <1>1, <1>2, Constants DEF Inv, Low, Types
<1>10. pc'[t] = "input" /\ pkt'[t] = p BY <1>1, <1>2 DEF Inv, Low, Types
<1>11. \A x \in Pkts \ {p} : actual'[x] = actual[x] /\ size'[x] = size[x]
  BY <1>1 DEF Inv, Low, Types
<1>12. actual'[p] = want[t] /\ size'[p] = want[t] BY <1>1 DEF Inv, Low, Types
<1>13. \A x \in Free : x \in Pkts \ {p} BY <1>7 DEF Inv, Low, Types, Places
<1>14. Searching' BY <1>2, <1>3, <1>9, <1>10, <1>11, <1>13 DEF Inv, Low, Searching
<1>15. Labels' BY <1>1, <1>9, <1>10, Constants DEF Inv, Low, Labels, Inside, Outside
<1>16. Bytes'
  <2>1. \A x \in Pkts : size'[x] <= actual'[x] /\ fill[x] <= actual'[x]
    BY <1>1, <1>4, <1>11, <1>12 DEF Inv, Low, Bytes
  <2>2. \A x \in Pkts \ alloc' : fill[x] = 0 BY <1>1 DEF Inv, Low, Bytes
  <2>3. \A q \in Queues : \A i \in DOMAIN Waiting[q] :
          size'[Waiting[q][i]] = fill[Waiting[q][i]]
    BY <1>1, <1>11, Queued DEF Inv, Low, Bytes
  <2>4. \A u \in Threads \ {t} : pc[u] \in Inside => pkt[u] \in Pkts \ {p}
    BY <1>9 DEF Inv, Low, Types, Labels
  <2>5. ASSUME NEW u \in Threads
        PROVE  /\ pc'[u] = "input" => want[u] <= actual'[pkt'[u]]
               /\ pc'[u] \in {"enqueue", "write", "done"} => size'[pkt'[u]] = fill[pkt'[u]]
               /\ pc'[u] = "write" => written[u] <= size'[pkt'[u]]
               /\ pc'[u] = "done" => written[u] = size'[pkt'[u]]
    <3>1. CASE u = t BY <1>4, <1>10, <1>12, <3>1
    <3>2. CASE u # t BY <1>9, <1>11, <2>4, <3>2 DEF Inv, Low, Bytes, Inside
    <3> QED BY <3>1, <3>2
  <2> QED BY <1>2, <1>3, <2>1, <2>2, <2>3, <2>5 DEF Bytes
<1>17. Held' = [Held EXCEPT ![t] = p] BY <1>2, <1>9, <1>10 DEF Held
<1>18. Asked' = [Asked EXCEPT ![t] = -1] /\ Asked[t] = want[t] BY <1>2, <1>9, <1>10 DEF Asked
<1>19. SP!Create(t)
  <2>1. Asked[t] # SP!None /\ Asked' = [Asked EXCEPT ![t] = SP!None]
    BY <1>4, <1>18 DEF SP!None
  <2>2. actual' = [actual EXCEPT ![p] = Asked[t]] BY <1>1, <1>18
  <2> QED BY <1>1, <1>2, <1>3, <1>17, <2>1, <2>2 DEF SP!Create
<1>20. [SP!Next]_(SP!vars) BY <1>19 DEF SP!Next
<1> QED BY <1>5, <1>6, <1>8, <1>14, <1>15, <1>16, <1>20 DEF Low

(* Without memory there is no packet.                                      *)
LEMMA OutOfMemoryStep ==
    ASSUME Inv, NEW t \in Threads, OutOfMemory(t)
    PROVE  Low' /\ [SP!Next]_(SP!vars)
<1>1. /\ pc[t] = "create" /\ pc' = [pc EXCEPT ![t] = pc'[t]] /\ pc'[t] \in Outside \ {"create"}
      /\ UNCHANGED <<tp, clinks, qlinks, pks_lock, alloc, actual, size, fill, pkt, want,
                     written, peak>>
  BY DEF OutOfMemory, Goto, linkVars, dataVars, Outside, Inv, Low, Types
<1>2. Linking' /\ Places' /\ UNCHANGED <<Free, Cache, Spare, Waiting>>
  <2>1. \A u \in Threads : pkt'[u] \notin Range(Spare) BY <1>1 DEF Inv, Low, Places
  <2> QED BY <1>1, <2>1, KeepsPlaces
<1>3. Types' BY <1>1 DEF Inv, Low, Types
<1>4. \A u \in Threads \ {t} : pc'[u] = pc[u] BY <1>1 DEF Inv, Low, Types
<1>5. Searching' BY <1>1, <1>2, <1>4 DEF Inv, Low, Searching, Outside
<1>6. Labels' BY <1>1, <1>4 DEF Inv, Low, Labels, Inside, Outside
<1>7. Bytes' BY <1>1, <1>2, <1>4 DEF Inv, Low, Bytes, Outside
<1>8. Held' = Held BY <1>1, <1>4 DEF Held, Outside
<1>9. Asked' = [Asked EXCEPT ![t] = -1] /\ Asked[t] \in Nat
  BY <1>1, <1>4, Constants DEF Asked, Outside, Inv, Low, Types
<1>10. SP!OutOfMemory(t) BY <1>1, <1>2, <1>8, <1>9 DEF SP!OutOfMemory, SP!None
<1>11. [SP!Next]_(SP!vars) BY <1>10 DEF SP!Next
<1> QED BY <1>2, <1>3, <1>5, <1>6, <1>7, <1>11 DEF Low

-----------------------------------------------------------------------------
(* The steps of a thread that only touch the bytes of its packet.          *)

LEMMA OwnBytes ==
    ASSUME Inv, NEW t \in Threads, NEW label \in Inside \ {"input"},
           pc[t] \in Inside, pc' = [pc EXCEPT ![t] = label],
           UNCHANGED <<tp, clinks, qlinks, pks_lock, alloc, actual, pkt, want, peak>>,
           size' \in [Pkts -> Nat], fill' \in [Pkts -> Nat], written' \in [Threads -> Nat],
           \A x \in Pkts \ {pkt[t]} : size'[x] = size[x] /\ fill'[x] = fill[x],
           \A u \in Threads \ {t} : written'[u] = written[u],
           size'[pkt[t]] <= actual[pkt[t]], fill'[pkt[t]] <= actual[pkt[t]],
           label \in {"enqueue", "write", "done"} => size'[pkt[t]] = fill'[pkt[t]],
           label = "write" => written'[t] <= size'[pkt[t]],
           label = "done" => written'[t] = size'[pkt[t]]
    PROVE  Low' /\ [SP!Next]_(SP!vars)
<1>1. Linking' /\ Places' /\ UNCHANGED <<Free, Cache, Spare, Waiting>>
  <2>1. \A u \in Threads : pkt'[u] \notin Range(Spare) BY DEF Inv, Low, Places
  <2> QED BY <2>1, KeepsPlaces
<1>2. Types' BY DEF Inv, Low, Types
<1>3. /\ \A u \in Threads \ {t} : pc'[u] = pc[u]
      /\ pc'[t] = label /\ label \notin Outside /\ label # "found" /\ pc[t] # "found"
      /\ pc[t] # "create" /\ label # "create"
  BY DEF Inv, Low, Types, Inside, Outside
<1>4. Searching' BY <1>1, <1>3 DEF Inv, Low, Searching
<1>5. Labels' BY <1>3 DEF Inv, Low, Labels
<1>6. pkt[t] # NULL BY DEF Inv, Low, Labels
<1>7. Bytes'
  <2>1. \A x \in Pkts : size'[x] <= actual[x] /\ fill'[x] <= actual[x]
    BY DEF Inv, Low, Bytes
  <2>2. \A x \in Pkts \ alloc : fill'[x] = 0 BY <1>6, Mine DEF Inv, Low, Bytes
  <2>3. \A q \in Queues : \A i \in DOMAIN Waiting[q] :
          size'[Waiting[q][i]] = fill'[Waiting[q][i]]
    <3>1. TAKE q \in Queues
    <3>2. TAKE i \in DOMAIN Waiting[q]
    <3>3. Waiting[q][i] \in Pkts \ {pkt[t]} BY <1>6, Mine, Queued
    <3>4. size[Waiting[q][i]] = fill[Waiting[q][i]] BY DEF Inv, Low, Bytes
    <3> QED BY <3>3, <3>4
  <2>4. ASSUME NEW u \in Threads
        PROVE  /\ pc'[u] = "input" => want[u] <= actual[pkt[u]]
               /\ pc'[u] \in {"enqueue", "write", "done"} => size'[pkt[u]] = fill'[pkt[u]]
               /\ pc'[u] = "write" => written'[u] <= size'[pkt[u]]
               /\ pc'[u] = "done" => written'[u] = size'[pkt[u]]
    <3>1. CASE u = t BY <1>3, <3>1
    <3>2. CASE u # t
      <4>1. pc[u] \in Inside => pkt[u] \in Pkts \ {pkt[t]}
        BY <1>6, <3>2, Mine DEF Inv, Low, Types, Labels
      <4> QED BY <1>3, <3>2, <4>1 DEF Inv, Low, Bytes, Inside
    <3> QED BY <3>1, <3>2
  <2> QED BY <1>1, <2>1, <2>2, <2>3, <2>4 DEF Bytes
<1>8. Held' = Held BY <1>3 DEF Held
<1>9. Asked' = Asked BY <1>3 DEF Asked
<1>10. [SP!Next]_(SP!vars) BY <1>1, <1>8, <1>9, Stutters
<1> QED BY <1>1, <1>2, <1>4, <1>5, <1>7, <1>10 DEF Low

(* What a thread knows about its packet.                                   *)
LEMMA OwnPacket ==
    ASSUME Inv, NEW t \in Threads, pc[t] \in Inside
    PROVE  /\ pkt[t] \in Pkts
           /\ size[pkt[t]] \in Nat /\ actual[pkt[t]] \in Nat /\ fill[pkt[t]] \in Nat
           /\ want[t] \in Nat /\ written[t] \in Nat
           /\ size[pkt[t]] <= actual[pkt[t]] /\ fill[pkt[t]] <= actual[pkt[t]]
<1>1. pkt[t] \in Pkts BY DEF Inv, Low, Types, Labels
<1> QED BY <1>1, Constants DEF Inv, Low, Types, Bytes

LEMMA ReadStep ==
    ASSUME Inv, NEW t \in Threads, Read(t)
    PROVE  Low' /\ [SP!Next]_(SP!vars)
<1>1. pc[t] \in Inside BY DEF Read, Inside
<1>2. PICK rlen \in 1..size[pkt[t]] : /\ size' = [size EXCEPT ![pkt[t]] = rlen]
                                     /\ fill' = [fill EXCEPT ![pkt[t]] = rlen]
  BY DEF Read
<1>3. PICK label \in {"enqueue", "write"} : pc' = [pc EXCEPT ![t] = label]
  BY DEF Read, Goto
<1>4. /\ written' = [written EXCEPT ![t] = 0]
      /\ UNCHANGED <<tp, clinks, qlinks, pks_lock, alloc, actual, pkt, want, peak>>
  BY DEF Read, linkVars
<1>5. rlen \in Nat /\ rlen <= actual[pkt[t]] BY <1>1, OwnPacket
<1>6. /\ size' \in [Pkts -> Nat] /\ fill' \in [Pkts -> Nat] /\ written' \in [Threads -> Nat]
      /\ \A x \in Pkts \ {pkt[t]} : size'[x] = size[x] /\ fill'[x] = fill[x]
      /\ \A u \in Threads \ {t} : written'[u] = written[u]
      /\ size'[pkt[t]] = rlen /\ fill'[pkt[t]] = rlen /\ written'[t] = 0
  BY <1>1, <1>2, <1>4, <1>5, OwnPacket DEF Inv, Low, Types
<1>7. label \in Inside \ {"input"} /\ label # "done" BY DEF Inside
<1>8. /\ size'[pkt[t]] <= actual[pkt[t]] /\ fill'[pkt[t]] <= actual[pkt[t]]
      /\ size'[pkt[t]] = fill'[pkt[t]] /\ written'[t] <= size'[pkt[t]]
  BY <1>5, <1>6
<1> QED BY <1>1, <1>3, <1>4, <1>6, <1>7, <1>8, OwnBytes

LEMMA DecodeStep ==
    ASSUME Inv, NEW t \in Threads, Decode(t)
    PROVE  Low' /\ [SP!Next]_(SP!vars)
<1>1. pc[t] \in Inside /\ want[t] <= actual[pkt[t]] BY DEF Decode, Inside, Inv, Low, Bytes
<1>2. /\ size' = [size EXCEPT ![pkt[t]] = want[t]] /\ fill' = [fill EXCEPT ![pkt[t]] = want[t]]
      /\ pc' = [pc EXCEPT ![t] = "enqueue"]
      /\ UNCHANGED <<tp, clinks, qlinks, pks_lock, alloc, actual, pkt, want, written, peak>>
  BY DEF Decode, Goto, linkVars
<1>3. /\ size' \in [Pkts -> Nat] /\ fill' \in [Pkts -> Nat] /\ written' \in [Threads -> Nat]
      /\ \A x \in Pkts \ {pkt[t]} : size'[x] = size[x] /\ fill'[x] = fill[x]
      /\ size'[pkt[t]] = want[t] /\ fill'[pkt[t]] = want[t]
  BY <1>1, <1>2, OwnPacket DEF Inv, Low, Types
<1>4. "enqueue" \in Inside \ {"input"} BY DEF Inside
<1> QED BY <1>1, <1>2, <1>3, <1>4, OwnBytes

LEMMA WriteStep ==
    ASSUME Inv, NEW t \in Threads, Write(t)
    PROVE  Low' /\ [SP!Next]_(SP!vars)
<1>1. pc[t] \in Inside /\ pc[t] = "write" BY DEF Write, Inside
<1>2. PICK wlen \in Portion(t) : written' = [written EXCEPT ![t] = @ + wlen] BY DEF Write
<1>3. PICK label \in {"done", "write"} :
        /\ pc' = [pc EXCEPT ![t] = label]
        /\ label = "done" <=> written'[t] = size[pkt[t]]
  BY DEF Write, Goto
<1>4. UNCHANGED <<tp, clinks, qlinks, pks_lock, alloc, actual, size, fill, pkt, want, peak>>
  BY DEF Write, linkVars, dataVars
<1>5. size[pkt[t]] = fill[pkt[t]] /\ written[t] <= size[pkt[t]]
  BY <1>1 DEF Inv, Low, Bytes
<1>6. wlen \in Nat /\ written[t] + wlen \in Nat /\ written[t] + wlen <= size[pkt[t]]
  BY <1>1, <1>5, OwnPacket DEF Portion, Left
<1>7. /\ written' \in [Threads -> Nat] /\ written'[t] = written[t] + wlen
      /\ \A u \in Threads \ {t} : written'[u] = written[u]
      /\ size' \in [Pkts -> Nat] /\ fill' \in [Pkts -> Nat]
  BY <1>2, <1>4, <1>6 DEF Inv, Low, Types
<1>8. label \in Inside \ {"input"} BY DEF Inside
<1> QED BY <1>1, <1>3, <1>4, <1>5, <1>6, <1>7, <1>8, OwnBytes, OwnPacket

LEMMA ResetStep ==
    ASSUME Inv, NEW t \in Threads, Reset(t)
    PROVE  Low' /\ [SP!Next]_(SP!vars)
<1>1. pc[t] \in Inside BY DEF Reset, Inside
<1>2. /\ size' = [size EXCEPT ![pkt[t]] = actual[pkt[t]]]
      /\ pc' = [pc EXCEPT ![t] = "push"]
      /\ UNCHANGED <<tp, clinks, qlinks, pks_lock, alloc, actual, fill, pkt, want, written, peak>>
  BY DEF Reset, Goto, linkVars
<1>3. /\ size' \in [Pkts -> Nat] /\ fill' \in [Pkts -> Nat] /\ written' \in [Threads -> Nat]
      /\ \A x \in Pkts \ {pkt[t]} : size'[x] = size[x]
      /\ size'[pkt[t]] = actual[pkt[t]]
  BY <1>1, <1>2, OwnPacket DEF Inv, Low, Types
<1>4. "push" \in Inside \ {"input"} BY DEF Inside
<1>5. /\ size'[pkt[t]] <= actual[pkt[t]] /\ fill'[pkt[t]] <= actual[pkt[t]]
      /\ \A x \in Pkts \ {pkt[t]} : size'[x] = size[x] /\ fill'[x] = fill[x]
      /\ \A u \in Threads \ {t} : written'[u] = written[u]
      /\ "push" \notin {"enqueue", "write", "done"}
  BY <1>1, <1>2, <1>3, OwnPacket
<1> QED BY <1>1, <1>2, <1>3, <1>4, <1>5, OwnBytes

(* A failure leads to the reset of the packet, and so does success.        *)
LEMMA ToResetStep ==
    ASSUME Inv, NEW t \in Threads, ReadFails(t) \/ WriteFails(t) \/ WriteDone(t)
    PROVE  Low' /\ [SP!Next]_(SP!vars)
<1>1. pc[t] \in Inside BY DEF ReadFails, WriteFails, WriteDone, Inside
<1>2. /\ pc' = [pc EXCEPT ![t] = "reset"]
      /\ UNCHANGED <<tp, clinks, qlinks, pks_lock, alloc, actual, size, fill, pkt, want,
                     written, peak>>
  BY DEF ReadFails, WriteFails, WriteDone, Goto, linkVars, dataVars
<1>3. size' \in [Pkts -> Nat] /\ fill' \in [Pkts -> Nat] /\ written' \in [Threads -> Nat]
  BY <1>2 DEF Inv, Low, Types
<1>4. "reset" \in Inside \ {"input", "enqueue", "write", "done"} BY DEF Inside
<1> QED BY <1>1, <1>2, <1>3, <1>4, OwnBytes, OwnPacket

-----------------------------------------------------------------------------
(* The steps that move packets between threads, queues and caches.         *)

LEMMA PushStep ==
    ASSUME Inv, NEW t \in Threads, Push(t)
    PROVE  Low' /\ [SP!Next]_(SP!vars)
<1> DEFINE p == pkt[t]
           h == IF actual[p] = 0 THEN "empty" ELSE "cache"
<1>1. /\ pc[t] = "push" /\ pks_lock = NULL /\ clinks' = InsertHead(clinks, p, h)
      /\ pkt' = [pkt EXCEPT ![t] = NULL] /\ pc' = [pc EXCEPT ![t] = "idle"]
      /\ UNCHANGED <<tp, qlinks, pks_lock, alloc, actual, size, fill, want, written, peak>>
  BY DEF Push, Goto, dataVars
<1>2. /\ p # NULL /\ p \in Pkts /\ p \in alloc /\ p \notin Free /\ p \notin Range(Spare)
      /\ pc[t] # "found"
  <2>1. p # NULL BY <1>1 DEF Inv, Low, Labels, Inside
  <2> QED BY <1>1, <2>1, Mine DEF Inv, Low, Places
<1>3. p \in DOMAIN clinks /\ p # "empty" /\ p # "cache" /\ ~ In(p, Cache) /\ ~ In(p, Spare)
  BY <1>2, CacheLists, Constants DEF Caches
<1>4. /\ Memory(clinks') /\ DOMAIN clinks' = DOMAIN clinks
      /\ IsList(clinks', "cache", Cache') /\ IsList(clinks', "empty", Spare')
      /\ Free' = IF actual[p] = 0 THEN Free ELSE Free \cup {p}
      /\ Range(Spare)' = IF actual[p] = 0 THEN Range(Spare) \cup {p} ELSE Range(Spare)
  <2>1. CASE actual[p] = 0
    <3>1. clinks' = InsertHead(clinks, p, "empty") BY <1>1, <2>1
    <3>2. Makes(clinks, clinks', "empty", Spare, p, <<p>> \o Spare)
      BY <1>3, <3>1, CacheLists, InsertHeadOfList
    <3>3. /\ Memory(clinks') /\ DOMAIN clinks' = DOMAIN clinks
          /\ IsList(clinks', "empty", Spare') /\ Spare' = <<p>> \o Spare
      <4> DEFINE made == <<p>> \o Spare
      <4>1. Makes(clinks, clinks', "empty", Spare, p, made) /\ IsFiniteSet(DOMAIN clinks)
        BY <3>2, CacheLists
      <4> HIDE DEF made, p
      <4>2. /\ Memory(clinks') /\ DOMAIN clinks' = DOMAIN clinks
            /\ IsList(clinks', "empty", made) /\ Contents(clinks', "empty") = made
        BY <4>1, ContentsMade
      <4> QED BY <4>2 DEF Spare, made
    <3>4. IsList(clinks', "cache", Cache') /\ Cache' = Cache
      BY <1>2, <3>2, CacheKept DEF Cache
    <3>5. Range(Spare)' = Range(Spare) \cup {p}
      <4>1. Spare \in Seq(DOMAIN clinks \ {"empty"}) BY CacheLists DEF IsList
      <4>2. Range(<<p>> \o Spare) = Range(Spare) \cup {p} BY <4>1, RangeOfLists
      <4> QED BY <3>3, <4>2
    <3>6. Free' = Free BY <3>4 DEF Free, Cache
    <3> QED BY <2>1, <3>3, <3>4, <3>5, <3>6
  <2>2. CASE actual[p] # 0
    <3>1. clinks' = InsertHead(clinks, p, "cache") BY <1>1, <2>2
    <3>2. Makes(clinks, clinks', "cache", Cache, p, <<p>> \o Cache)
      BY <1>3, <3>1, CacheLists, InsertHeadOfList
    <3>3. /\ Memory(clinks') /\ DOMAIN clinks' = DOMAIN clinks
          /\ IsList(clinks', "cache", Cache') /\ Cache' = <<p>> \o Cache
      <4> DEFINE made == <<p>> \o Cache
      <4>1. Makes(clinks, clinks', "cache", Cache, p, made) /\ IsFiniteSet(DOMAIN clinks)
        BY <3>2, CacheLists
      <4> HIDE DEF made, p
      <4>2. /\ Memory(clinks') /\ DOMAIN clinks' = DOMAIN clinks
            /\ IsList(clinks', "cache", made) /\ Contents(clinks', "cache") = made
        BY <4>1, ContentsMade
      <4> QED BY <4>2 DEF Cache, made
    <3>4. IsList(clinks', "empty", Spare') /\ Spare' = Spare
      BY <1>2, <3>2, SpareKept DEF Spare
    <3>5. Free' = Free \cup {p}
      <4>1. Cache \in Seq(DOMAIN clinks \ {"cache"}) BY CacheLists DEF IsList
      <4>2. Range(<<p>> \o Cache) = Range(Cache) \cup {p} BY <4>1, RangeOfLists
      <4> QED BY <3>3, <4>2 DEF Free, Cache
    <3> QED BY <2>2, <3>3, <3>4, <3>5
  <2> QED BY <2>1, <2>2
<1>5. Waiting' = Waiting BY <1>1, SameLinks
<1>6. \A u \in Threads \ {t} : pc'[u] = pc[u] /\ pkt'[u] = pkt[u] /\ pkt[u] # p
  BY <1>1, <1>2, Mine DEF Inv, Low, Types
<1>7. pc'[t] = "idle" /\ pkt'[t] = NULL BY <1>1 DEF Inv, Low, Types
<1>8. \A u \in Threads : pc[u] # "found" BY <1>1, Constants DEF Inv, Low, Searching
<1>9. \A q \in Queues : \A i \in DOMAIN Waiting[q] : Waiting[q][i] # p BY <1>2, Mine
<1> HIDE DEF p, h
<1>10. Types' BY <1>1, <1>4 DEF Inv, Low, Types, Outside
<1>11. Linking' BY <1>1, <1>4, <1>5 DEF Inv, Low, Linking
<1>12. Places'
  <2>1. \A x \in Free' : x \in alloc /\ actual[x] # 0
    BY <1>2, <1>4 DEF Inv, Low, Places
  <2>2. \A x \in Range(Spare)' : x \in alloc /\ actual[x] = 0
    BY <1>2, <1>4 DEF Inv, Low, Places
  <2>3. \A u \in Threads : pkt'[u] \notin Range(Spare)'
    <3>1. NULL \notin alloc BY Constants DEF Inv, Low, Types
    <3> QED BY <1>4, <1>6, <1>7, <2>2, <3>1 DEF Inv, Low, Places
  <2>4. \A q \in Queues : \A i \in DOMAIN Waiting[q] : Waiting[q][i] \notin Range(Spare)'
    BY <1>4, <1>9 DEF Inv, Low, Places
  <2> QED BY <1>1, <1>5, <2>1, <2>2, <2>3, <2>4 DEF Places
<1>13. Searching' BY <1>6, <1>7, <1>8 DEF Searching
<1>14. Labels' BY <1>6, <1>7 DEF Inv, Low, Labels, Inside, Outside
<1>15. Bytes' BY <1>1, <1>5, <1>6, <1>7 DEF Inv, Low, Bytes
<1>16. Held' = [Held EXCEPT ![t] = NULL] /\ Held[t] = p
  BY <1>2, <1>6, <1>7 DEF Held, p
<1>17. Asked' = Asked BY <1>1, <1>6, <1>7 DEF Asked
<1>18. SP!Put(t) BY <1>1, <1>2, <1>4, <1>5, <1>16, <1>17 DEF SP!Put
<1>19. [SP!Next]_(SP!vars) BY <1>18 DEF SP!Next
<1> QED BY <1>10, <1>11, <1>12, <1>13, <1>14, <1>15, <1>19 DEF Low

LEMMA EnqueueStep ==
    ASSUME Inv, NEW t \in Threads, Enqueue(t)
    PROVE  Low' /\ [SP!Next]_(SP!vars)
<1> DEFINE p == pkt[t]
<1>1. PICK q \in Queues : qlinks' = InsertTail(qlinks, p, q)
  BY DEF Enqueue, Queues
<1>2. /\ pc[t] = "enqueue" /\ pkt' = [pkt EXCEPT ![t] = NULL]
      /\ pc' = [pc EXCEPT ![t] = "idle"]
      /\ UNCHANGED <<tp, clinks, pks_lock, alloc, actual, size, fill, want, written, peak>>
  BY DEF Enqueue, Goto, dataVars
<1>3. /\ p # NULL /\ p \in Pkts /\ p \in alloc /\ p \notin Range(Spare) /\ size[p] = fill[p]
      /\ \A r \in Queues : \A i \in DOMAIN Waiting[r] : Waiting[r][i] # p
  <2>1. p # NULL BY <1>2 DEF Inv, Low, Labels, Inside
  <2> QED BY <1>2, <2>1, Mine DEF Inv, Low, Places, Bytes
<1>4. Makes(qlinks, qlinks', q, Waiting[q], p, Append(Waiting[q], p))
  <2>1. p \in DOMAIN qlinks /\ p # q /\ ~ In(p, Waiting[q])
    BY <1>3, QueueLists, Constants DEF In
  <2> QED BY <1>1, <2>1, QueueLists, InsertTailOfList
<1>5. /\ Memory(qlinks') /\ DOMAIN qlinks' = DOMAIN qlinks
      /\ IsList(qlinks', q, Append(Waiting[q], p))
      /\ Contents(qlinks', q) = Append(Waiting[q], p)
  <2> DEFINE made == Append(Waiting[q], p)
             s == Waiting[q]
  <2>1. Makes(qlinks, qlinks', q, s, p, made) /\ IsFiniteSet(DOMAIN qlinks)
    BY <1>4, QueueLists
  <2> HIDE DEF made, s, p
  <2>2. /\ Memory(qlinks') /\ DOMAIN qlinks' = DOMAIN qlinks
        /\ IsList(qlinks', q, made) /\ Contents(qlinks', q) = made
    BY <2>1, ContentsMade
  <2> QED BY <2>2 DEF made
<1>6. \A r \in Queues \ {q} : IsList(qlinks', r, Waiting[r])
                              /\ Contents(qlinks', r) = Waiting[r]
  <2> DEFINE made == Append(Waiting[q], p)
  <2>1. Makes(qlinks, qlinks', q, Waiting[q], p, made) BY <1>4
  <2> HIDE DEF made, p
  <2> QED BY <1>3, <2>1, OtherQueueKept
<1>7. Waiting' = [Waiting EXCEPT ![q] = Append(Waiting[q], p)]
  BY <1>5, <1>6 DEF Waiting
<1>8. UNCHANGED <<Free, Cache, Spare>> BY <1>2, SameLinks
<1>9. \A u \in Threads \ {t} : pc'[u] = pc[u] /\ pkt'[u] = pkt[u]
  BY <1>2 DEF Inv, Low, Types
<1>10. pc'[t] = "idle" /\ pkt'[t] = NULL BY <1>2 DEF Inv, Low, Types
<1>11. ASSUME NEW r \in Queues, NEW i \in DOMAIN Waiting'[r]
       PROVE  \/ Waiting'[r][i] = p
              \/ i \in DOMAIN Waiting[r] /\ Waiting'[r][i] = Waiting[r][i]
  <2>1. CASE r # q BY <1>7, <2>1
  <2>2. CASE r = q
    <3>1. Waiting'[q] = Append(Waiting[q], p) BY <1>7 DEF Waiting
    <3>2. /\ Len(Waiting[q]) \in Nat /\ DOMAIN Waiting[q] = 1..Len(Waiting[q])
          /\ Waiting[q] \in Seq(alloc)
      BY QueueLists, Queued
    <3>3. /\ DOMAIN Append(Waiting[q], p) = 1..(Len(Waiting[q]) + 1)
          /\ Append(Waiting[q], p)[Len(Waiting[q]) + 1] = p
          /\ \A j \in 1..Len(Waiting[q]) : Append(Waiting[q], p)[j] = Waiting[q][j]
      BY <3>2
    <3> QED BY <1>11, <2>2, <3>1, <3>2, <3>3
  <2> QED BY <2>1, <2>2
<1> HIDE DEF p
<1>12. Types' BY <1>2, <1>5 DEF Inv, Low, Types, Outside
<1>13. Linking' BY <1>2, <1>5, <1>6, <1>7, <1>8 DEF Inv, Low, Linking, Waiting
<1>14. Places'
  <2>1. \A u \in Threads : pkt'[u] \notin Range(Spare)
    BY <1>9, <1>10, Constants DEF Inv, Low, Places, Types
  <2>2. \A r \in Queues : \A i \in DOMAIN Waiting'[r] : Waiting'[r][i] \notin Range(Spare)
    BY <1>3, <1>11 DEF Inv, Low, Places
  <2> QED BY <1>2, <1>8, <2>1, <2>2 DEF Inv, Low, Places
<1>15. Searching' BY <1>2, <1>8, <1>9, <1>10 DEF Inv, Low, Searching
<1>16. Labels' BY <1>9, <1>10 DEF Inv, Low, Labels, Inside, Outside
<1>17. Bytes'
  <2>1. \A r \in Queues : \A i \in DOMAIN Waiting'[r] :
          size[Waiting'[r][i]] = fill[Waiting'[r][i]]
    BY <1>3, <1>11 DEF Inv, Low, Bytes
  <2> QED BY <1>2, <1>9, <1>10, <2>1 DEF Inv, Low, Bytes
<1>18. Held' = [Held EXCEPT ![t] = NULL] /\ Held[t] = p
  BY <1>2, <1>9, <1>10 DEF Held, p
<1>19. Asked' = Asked BY <1>2, <1>9, <1>10 DEF Asked
<1>20. SP!Enqueue(t, q) BY <1>2, <1>3, <1>7, <1>8, <1>18, <1>19 DEF SP!Enqueue
<1>21. [SP!Next]_(SP!vars) BY <1>20 DEF SP!Next
<1> QED BY <1>12, <1>13, <1>14, <1>15, <1>16, <1>17, <1>21 DEF Low

LEMMA DequeueStep ==
    ASSUME Inv, NEW t \in Threads, Dequeue(t)
    PROVE  Low' /\ [SP!Next]_(SP!vars)
<1>1. PICK q \in Queues : /\ ListHead(qlinks, q) # NULL
                          /\ pkt' = [pkt EXCEPT ![t] = ListHead(qlinks, q)]
                          /\ qlinks' = Del(qlinks, ListHead(qlinks, q))
  BY DEF Dequeue, Queues
<1>2. PICK label \in {"reset", "write"} : pc' = [pc EXCEPT ![t] = label]
  BY DEF Dequeue, Goto
<1>3. /\ pc[t] = "idle" /\ written' = [written EXCEPT ![t] = 0]
      /\ UNCHANGED <<tp, clinks, pks_lock, alloc, actual, size, fill, want, peak>>
  BY DEF Dequeue, dataVars
<1> DEFINE s == Waiting[q]
           p == s[1]
<1>4. s # <<>> /\ 1 \in 1..Len(s) /\ ListHead(qlinks, q) = p
  <2>1. ~ IsEmpty(qlinks, q) /\ ListHead(qlinks, q) = qlinks[q].next
    BY <1>1 DEF ListHead
  <2> QED BY <2>1, QueueLists, HeadOfList
<1>5. /\ p \in alloc /\ p \in Pkts /\ p # NULL /\ p \notin Range(Spare) /\ size[p] = fill[p]
      /\ \A r \in Queues \ {q} : \A i \in DOMAIN Waiting[r] : Waiting[r][i] # p
  <2>1. 1 \in DOMAIN s BY <1>4, QueueLists
  <2>2. p \in alloc /\ p \in Pkts /\ p # NULL BY <2>1, Queued, Constants
  <2>3. p \notin Range(Spare) /\ size[p] = fill[p] BY <2>1 DEF Inv, Low, Places, Bytes
  <2>4. \A r \in Queues \ {q} : \A i \in DOMAIN Waiting[r] : Waiting[r][i] # p
    BY <2>1 DEF Inv, SP!Owners, SP!Exclusive
  <2> QED BY <2>2, <2>3, <2>4
<1>6. Makes(qlinks, qlinks', q, s, p, Tail(s))
  <2>1. IsList(qlinks, q, s) /\ Memory(qlinks) BY QueueLists
  <2>2. Makes(qlinks, Del(qlinks, s[1]), q, s, s[1], Without(s, 1))
    BY <1>4, <2>1, DelOfList
  <2>3. Without(s, 1) = Tail(s)
    <3>1. s \in Seq(DOMAIN qlinks \ {q}) /\ \A i, j \in 1..Len(s) : s[i] = s[j] => i = j
      BY <2>1 DEF IsList
    <3> QED BY <1>4, <3>1, RangeWithout
  <2> QED BY <1>1, <1>4, <2>2, <2>3
<1>7. /\ Memory(qlinks') /\ DOMAIN qlinks' = DOMAIN qlinks
      /\ IsList(qlinks', q, Tail(s)) /\ Contents(qlinks', q) = Tail(s)
  <2> DEFINE made == Tail(s)
  <2>1. Makes(qlinks, qlinks', q, s, p, made) /\ IsFiniteSet(DOMAIN qlinks)
    BY <1>6, QueueLists
  <2> HIDE DEF made, s, p
  <2>2. /\ Memory(qlinks') /\ DOMAIN qlinks' = DOMAIN qlinks
        /\ IsList(qlinks', q, made) /\ Contents(qlinks', q) = made
    BY <2>1, ContentsMade
  <2> QED BY <2>2 DEF made
<1>8. \A r \in Queues \ {q} : IsList(qlinks', r, Waiting[r])
                              /\ Contents(qlinks', r) = Waiting[r]
  <2> DEFINE made == Tail(s)
  <2>1. Makes(qlinks, qlinks', q, Waiting[q], p, made) BY <1>6
  <2> HIDE DEF made, s, p
  <2> QED BY <1>5, <2>1, OtherQueueKept
<1>9. Waiting' = [Waiting EXCEPT ![q] = Tail(s)] BY <1>7, <1>8 DEF Waiting
<1>10. UNCHANGED <<Free, Cache, Spare>> BY <1>3, SameLinks
<1>11. \A u \in Threads \ {t} : pc'[u] = pc[u] /\ pkt'[u] = pkt[u] /\ written'[u] = written[u]
  BY <1>1, <1>2, <1>3 DEF Inv, Low, Types
<1>12. pc'[t] = label /\ pkt'[t] = p /\ written'[t] = 0
  BY <1>1, <1>2, <1>3, <1>4 DEF Inv, Low, Types
<1>13. \A r \in Queues : \A i \in DOMAIN Waiting'[r] :
         \E j \in DOMAIN Waiting[r] : Waiting'[r][i] = Waiting[r][j]
  <2>1. TAKE r \in Queues
  <2>2. CASE r # q BY <1>9, <2>2
  <2>3. CASE r = q
    <3>1. Waiting'[q] = Tail(s) BY <1>9 DEF Waiting
    <3>2. s \in Seq(alloc) /\ DOMAIN s = 1..Len(s) /\ Len(s) \in Nat BY Queued, QueueLists
    <3>3. /\ Tail(s) \in Seq(alloc) /\ Len(Tail(s)) = Len(s) - 1
          /\ \A i \in 1..Len(Tail(s)) : Tail(s)[i] = s[i + 1]
      BY <1>4, <3>2, HeadTailProperties
    <3>4. DOMAIN Tail(s) = 1..Len(Tail(s)) BY <3>3, LenProperties
    <3>5. \A i \in 1..Len(Tail(s)) : i + 1 \in DOMAIN s BY <3>2, <3>3
    <3> QED BY <2>3, <3>1, <3>3, <3>4, <3>5
  <2> QED BY <2>2, <2>3
<1> HIDE DEF p, s
<1>14. label \in Inside BY DEF Inside
<1>15. Types' BY <1>1, <1>2, <1>3, <1>4, <1>5, <1>7, <1>14 DEF Inv, Low, Types
<1>16. Linking' BY <1>3, <1>7, <1>8, <1>9, <1>10 DEF Inv, Low, Linking, Waiting
<1>17. Places'
  <2>1. \A u \in Threads : pkt'[u] \notin Range(Spare)
    BY <1>5, <1>11, <1>12 DEF Inv, Low, Places
  <2>2. \A r \in Queues : \A i \in DOMAIN Waiting'[r] : Waiting'[r][i] \notin Range(Spare)
    BY <1>13 DEF Inv, Low, Places
  <2> QED BY <1>3, <1>10, <2>1, <2>2 DEF Inv, Low, Places
<1>18. Searching' BY <1>3, <1>10, <1>11, <1>12 DEF Inv, Low, Searching
<1>19. Labels' BY <1>5, <1>11, <1>12 DEF Inv, Low, Labels, Inside, Outside
<1>20. Bytes'
  <2>1. \A r \in Queues : \A i \in DOMAIN Waiting'[r] :
          size[Waiting'[r][i]] = fill[Waiting'[r][i]]
    BY <1>13 DEF Inv, Low, Bytes
  <2>2. 0 <= size[p] BY <1>5 DEF Inv, Low, Types
  <2> QED BY <1>3, <1>5, <1>11, <1>12, <2>1, <2>2 DEF Inv, Low, Bytes
<1>21. Held' = [Held EXCEPT ![t] = p] /\ Held[t] = NULL
  BY <1>3, <1>11, <1>12 DEF Held, Inv, Low, Labels, Outside
<1>22. Asked' = Asked /\ Asked[t] = -1 BY <1>3, <1>11, <1>12 DEF Asked
<1>23. p = Head(s) BY <1>4 DEF p
<1>24. SP!Dequeue(t, q)
  BY <1>3, <1>4, <1>9, <1>10, <1>21, <1>22, <1>23 DEF SP!Dequeue, SP!Idle, SP!None, s
<1>25. [SP!Next]_(SP!vars) BY <1>24 DEF SP!Next
<1> QED BY <1>15, <1>16, <1>17, <1>18, <1>19, <1>20, <1>25 DEF Low

-----------------------------------------------------------------------------
(* The theorems.                                                           *)

LEMMA InitInv == Init => Inv /\ SP!Init
<1> SUFFICES ASSUME Init PROVE Inv /\ SP!Init
  OBVIOUS
<1>1. Memory(clinks) /\ DOMAIN clinks = Pkts \cup Caches
      /\ Memory(qlinks) /\ DOMAIN qlinks = Pkts \cup Queues
  BY DEF Init, Memory, Self
<1>2. \A h \in Caches : IsList(clinks, h, <<>>)
  BY <1>1, SelfIsEmpty DEF Init
<1>3. \A q \in Queues : IsList(qlinks, q, <<>>)
  BY <1>1, SelfIsEmpty DEF Init
<1>4. Cache = <<>> /\ Spare = <<>> /\ \A q \in Queues : Contents(qlinks, q) = <<>>
  BY <1>1, <1>2, <1>3, Constants, ContentsOfList DEF Cache, Spare, Caches
<1>5. Free = {} /\ Range(Spare) = {} /\ Waiting = [q \in Queues |-> <<>>]
  BY <1>4 DEF Free, Cache, Waiting, Range
<1>6. Held = [t \in Threads |-> NULL] /\ Asked = [t \in Threads |-> -1]
  BY DEF Init, Held, Asked
<1>7. Mtu \in Sizes BY DEF Sizes
<1>8. Types BY <1>1, <1>7, Constants DEF Init, Types, Outside
<1>9. Linking BY <1>2, <1>3, <1>4, <1>5 DEF Linking, Caches
<1>10. Places BY <1>5 DEF Init, Places
<1>11. Searching /\ Labels BY DEF Init, Searching, Labels, Inside
<1>12. Bytes BY <1>5 DEF Init, Bytes
<1>13. SP!Init BY <1>5, <1>6 DEF Init, SP!Init, SP!None
<1>14. SP!Owners
  <2>1. SP!Types BY <1>13, Constants DEF SP!Init, SP!Types, SP!None
  <2>2. SP!Exclusive BY <1>13 DEF SP!Init, SP!Exclusive
  <2> QED BY <2>1, <2>2 DEF SP!Owners
<1> QED BY <1>8, <1>9, <1>10, <1>11, <1>12, <1>13, <1>14 DEF Inv, Low

LEMMA NextInv == Inv /\ [Next]_vars => Inv' /\ [SP!Next]_(SP!vars)
<1> SUFFICES ASSUME Inv, [Next]_vars PROVE Inv' /\ [SP!Next]_(SP!vars)
  OBVIOUS
<1>1. Low' /\ [SP!Next]_(SP!vars)
  <2>1. CASE Next
    <3>1. PICK t \in Threads :
            \/ Search(t) \/ Take(t) \/ Create(t) \/ OutOfMemory(t)
            \/ Read(t) \/ ReadFails(t) \/ Decode(t)
            \/ Enqueue(t) \/ Dequeue(t)
            \/ Write(t) \/ WriteFails(t) \/ WriteDone(t)
            \/ Reset(t) \/ Push(t)
      BY <2>1 DEF Next
    <3>2. CASE Search(t) BY <3>2, SearchStep
    <3>3. CASE Take(t) BY <3>3, TakeHit, TakeMiss
    <3>4. CASE Create(t) BY <3>4, CreateStep
    <3>5. CASE OutOfMemory(t) BY <3>5, OutOfMemoryStep
    <3>6. CASE Read(t) BY <3>6, ReadStep
    <3>7. CASE ReadFails(t) \/ WriteFails(t) \/ WriteDone(t) BY <3>7, ToResetStep
    <3>8. CASE Decode(t) BY <3>8, DecodeStep
    <3>9. CASE Enqueue(t) BY <3>9, EnqueueStep
    <3>10. CASE Dequeue(t) BY <3>10, DequeueStep
    <3>11. CASE Write(t) BY <3>11, WriteStep
    <3>12. CASE Reset(t) BY <3>12, ResetStep
    <3>13. CASE Push(t) BY <3>13, PushStep
    <3> QED BY <3>1, <3>2, <3>3, <3>4, <3>5, <3>6, <3>7, <3>8, <3>9, <3>10, <3>11,
               <3>12, <3>13
  <2>2. CASE UNCHANGED vars
    <3> USE <2>2 DEF vars, linkVars, dataVars, threadVars
    <3>1. Linking' /\ Places' /\ UNCHANGED <<Free, Cache, Spare, Waiting>>
      BY KeepsPlaces DEF Inv, Low, Places
    <3>2. Types' /\ Searching' /\ Labels' /\ Bytes'
      BY <3>1 DEF Inv, Low, Types, Searching, Labels, Bytes
    <3>3. Held' = Held /\ Asked' = Asked BY DEF Held, Asked
    <3> QED BY <3>1, <3>2, <3>3, Stutters DEF Low
  <2> QED BY <2>1, <2>2
<1>2. SP!Owners' BY <1>1, Constants, SP!NextOwners DEF Inv
<1> QED BY <1>1, <1>2 DEF Inv

LEMMA Invariance == Spec => []Inv
<1>1. Init => Inv BY InitInv
<1>2. Inv /\ [Next]_vars => Inv' BY NextInv
<1> QED BY <1>1, <1>2, PTL DEF Spec

(* No access leaves a buffer.                                              *)
THEOREM AccessesStayWithinBuffers == Spec => []WithinBuffer
<1>1. Inv => WithinBuffer BY DEF Inv, Low, Bytes, WithinBuffer
<1> QED BY <1>1, Invariance, PTL

(* What a module has written is what was read or decoded.                  *)
THEOREM PacketsStayWhole == Spec => []WholePackets
<1>1. Inv => WholePackets BY DEF Inv, Low, Bytes, WholePackets
<1> QED BY <1>1, Invariance, PTL

(* The two instances of the store are the same.                            *)
LEMMA SameStore == /\ SP!Init => Store!Init
                   /\ [SP!Next]_(SP!vars) => [Store!Next]_(Store!vars)
<1>1. SP!vars = Store!vars /\ SP!vars' = Store!vars' BY DEF SP!vars, Store!vars
<1>2. SP!Init => Store!Init BY DEF SP!Init, Store!Init, SP!None, Store!None
<1>3. SP!NewPeak = Store!NewPeak
  <2>1. \A S : SP!Cardinality(S) = Store!Cardinality(S)
    BY DEF SP!Cardinality, Store!Cardinality
  <2>2. \A n : SP!InUse(n)' = Store!InUse(n)'
    BY DEF SP!InUse, Store!InUse, SP!Creating, Store!Creating
  <2>3. ASSUME NEW n \in Sizes
        PROVE  SP!Cardinality(SP!InUse(n)') = Store!Cardinality(Store!InUse(n)')
    BY <2>1, <2>2
  <2> QED BY <2>3 DEF SP!NewPeak, Store!NewPeak
<1>4. ASSUME NEW t \in Threads, NEW n \in Sizes
      PROVE  (SP!Hit(t, n) => Store!Hit(t, n)) /\ (SP!Miss(t, n) => Store!Miss(t, n))
  BY <1>3 DEF SP!Hit, Store!Hit, SP!Miss, Store!Miss, SP!Idle, Store!Idle, SP!None, Store!None
<1>5. ASSUME NEW t \in Threads
      PROVE  /\ SP!Create(t) => Store!Create(t)
             /\ SP!OutOfMemory(t) => Store!OutOfMemory(t)
             /\ SP!Put(t) => Store!Put(t)
  BY DEF SP!Create, Store!Create, SP!OutOfMemory, Store!OutOfMemory, SP!Put, Store!Put,
         SP!None, Store!None
<1>6. ASSUME NEW t \in Threads, NEW q \in Queues
      PROVE  /\ SP!Enqueue(t, q) => Store!Enqueue(t, q)
             /\ SP!Dequeue(t, q) => Store!Dequeue(t, q)
  BY DEF SP!Enqueue, Store!Enqueue, SP!Dequeue, Store!Dequeue, SP!Idle, Store!Idle,
         SP!None, Store!None
<1>7. SP!Next => Store!Next BY <1>4, <1>5, <1>6 DEF SP!Next, Store!Next
<1> QED BY <1>1, <1>2, <1>7

(* The links of the lists, the lock and the threads' steps make an         *)
(* exclusive cache and two FIFO queues.                                    *)
THEOREM ListsImplementStore == Spec => ImplementsStore
<1>1. Init => Store!Init BY InitInv, SameStore
<1>2. Inv /\ [Next]_vars => [Store!Next]_(Store!vars) BY NextInv, SameStore
<1> QED BY <1>1, <1>2, Invariance, PTL DEF Spec, ImplementsStore, Store!Spec

(* The cache does not grow beyond what was in use at once.                 *)
THEOREM CacheStaysBounded == Spec => []CacheBounded
<1>1. SP!Bounded <=> CacheBounded BY UseCounted DEF SP!Bounded, CacheBounded
<1>2. SP!Bounded' <=> CacheBounded' BY UseCounted DEF SP!Bounded, CacheBounded
<1>3. Init => CacheBounded
  <2> SUFFICES ASSUME Init PROVE CacheBounded
    OBVIOUS
  <2>1. ASSUME NEW n \in Sizes \ {0} PROVE Cardinality(Made(n)) <= peak[n]
    <3>1. Made(n) = {} BY DEF Made, Creating, Init
    <3> QED BY <3>1, FS_EmptySet DEF Init
  <2> QED BY <2>1 DEF CacheBounded
<1>4. Inv /\ CacheBounded /\ [Next]_vars => CacheBounded'
  BY <1>1, <1>2, NextInv, Constants, SP!NextBounded DEF Inv, SP!Owners
<1> QED BY <1>3, <1>4, Invariance, PTL DEF Spec
=============================================================================
