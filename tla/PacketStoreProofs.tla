------------------------- MODULE PacketStoreProofs -------------------------
(***************************************************************************)
(* Proofs about the shared packets, for any number of threads, queues,     *)
(* packets and sizes: a packet has one owner, and the cache only grows as  *)
(* far as it is needed.                                                    *)
(***************************************************************************)
EXTENDS PacketStore, FiniteSetTheorems, SequenceTheorems, TLAPS

(* Every variable keeps its type.                                          *)
Types ==
    /\ alloc \subseteq Pkts /\ free \subseteq alloc
    /\ waiting \in [Queues -> Seq(alloc)]
    /\ held \in [Threads -> alloc \cup {NULL}]
    /\ actual \in [Pkts -> Nat]
    /\ asked \in [Threads -> Sizes \cup {None}]
    /\ peak \in [Sizes -> Nat]

(* The sets whose sizes are compared are finite.                           *)
LEMMA FiniteUse ==
    ASSUME StoreAssumption, alloc \subseteq Pkts, NEW n
    PROVE  /\ IsFiniteSet(Made(n)) /\ Cardinality(Made(n)) \in Nat
           /\ IsFiniteSet(InUse(n)) /\ Cardinality(InUse(n)) \in Nat
<1>1. IsFiniteSet(Pkts \cup Threads) BY FS_Union DEF StoreAssumption
<1>2. Made(n) \in SUBSET (Pkts \cup Threads) /\ InUse(n) \in SUBSET (Pkts \cup Threads)
  BY DEF Made, InUse, Creating
<1> QED BY <1>1, <1>2, FS_Subset, FS_CardinalityType

(* The peak only rises, and never stays below what is in use.              *)
LEMMA PeakRises ==
    ASSUME StoreAssumption, Types, alloc' \subseteq Pkts, peak' = NewPeak
    PROVE  /\ peak' \in [Sizes -> Nat]
           /\ \A n \in Sizes : peak'[n] >= peak[n] /\ peak'[n] >= Cardinality(InUse(n)')
<1>1. ASSUME NEW n \in Sizes PROVE Cardinality(InUse(n)') \in Nat
  <2>1. IsFiniteSet(Pkts \cup Threads) BY FS_Union DEF StoreAssumption
  <2>2. InUse(n)' \in SUBSET (Pkts \cup Threads) BY DEF InUse, Creating
  <2> QED BY <2>1, <2>2, FS_Subset, FS_CardinalityType
<1>2. \A n \in Sizes : peak[n] \in Nat BY DEF Types
<1> QED BY <1>1, <1>2 DEF NewPeak

-----------------------------------------------------------------------------
(* One owner.                                                              *)

Owners == Types /\ Exclusive

(* A packet taken from the cache leaves it.                                *)
LEMMA HitOwners ==
    ASSUME StoreAssumption, Owners, NEW t \in Threads, NEW n \in Sizes, Hit(t, n)
    PROVE  Owners'
<1> USE DEF Owners, Types, Exclusive, Idle, StoreAssumption
<1>1. peak' \in [Sizes -> Nat] BY PeakRises DEF Hit
<1>2. Types' BY <1>1 DEF Hit
<1>3. PICK p \in free : free' = free \ {p} /\ held' = [held EXCEPT ![t] = p] BY DEF Hit
<1>4. waiting' = waiting BY DEF Hit
<1>5. \A u \in Threads : held[u] # p BY <1>3
<1>6. \A q \in Queues : \A i \in DOMAIN waiting[q] : waiting[q][i] # p BY <1>3
<1>7. Exclusive' BY <1>3, <1>4, <1>5, <1>6
<1> QED BY <1>2, <1>7

(* A thread that finds nothing owns nothing.                               *)
LEMMA MissOwners ==
    ASSUME StoreAssumption, Owners, NEW t \in Threads, NEW n \in Sizes, Miss(t, n)
    PROVE  Owners'
<1> USE DEF Owners, Types, Exclusive, Idle, StoreAssumption
<1>1. peak' \in [Sizes -> Nat] BY PeakRises DEF Miss
<1>2. Types' BY <1>1 DEF Miss
<1>3. Exclusive' BY DEF Miss
<1> QED BY <1>2, <1>3

(* A new packet was nobody's.                                              *)
LEMMA CreateOwners ==
    ASSUME StoreAssumption, Owners, NEW t \in Threads, Create(t)
    PROVE  Owners'
<1> USE DEF Owners, Types, Exclusive, StoreAssumption
<1>1. PICK p \in Pkts \ alloc :
        /\ alloc' = alloc \cup {p} /\ held' = [held EXCEPT ![t] = p]
        /\ actual' = [actual EXCEPT ![p] = asked[t]]
  BY DEF Create
<1>2. UNCHANGED <<free, waiting, peak>> /\ asked' = [asked EXCEPT ![t] = None]
      /\ asked[t] \in Nat
  BY DEF Create
<1>3. waiting \in [Queues -> Seq(alloc')]
  BY <1>1, SeqMonotonic
<1>4. Types' BY <1>1, <1>2, <1>3
<1>5. \A q \in Queues : \A i \in DOMAIN waiting[q] : waiting[q][i] # p
  <2>1. TAKE q \in Queues
  <2>2. waiting[q] \in Seq(alloc) OBVIOUS
  <2> QED BY <2>2, <1>1, ElementOfSeq, LenProperties
<1>6. \A u \in Threads : held[u] # p BY <1>1
<1>7. Exclusive' BY <1>1, <1>2, <1>5, <1>6
<1> QED BY <1>4, <1>7

(* A packet that is put goes to the cache that has no thread's packet.     *)
LEMMA PutOwners ==
    ASSUME StoreAssumption, Owners, NEW t \in Threads, Put(t)
    PROVE  Owners'
<1> USE DEF Owners, Types, Exclusive, StoreAssumption
<1>1. held[t] \in alloc /\ held' = [held EXCEPT ![t] = NULL] BY DEF Put
<1>2. UNCHANGED <<waiting, actual, asked, alloc, peak>> BY DEF Put
<1>3. free' \subseteq free \cup {held[t]} BY DEF Put
<1>4. Types' BY <1>1, <1>2, <1>3
<1>5. \A u \in Threads : u # t => held[u] # held[t] BY DEF Put
<1>6. \A u \in Threads : held'[u] \notin free' BY <1>1, <1>2, <1>3, <1>5
<1>7. \A q \in Queues : \A i \in DOMAIN waiting[q] :
        waiting[q][i] \notin free' /\ \A u \in Threads : waiting[q][i] # held'[u]
  <2>1. TAKE q \in Queues
  <2>2. waiting[q] \in Seq(alloc) OBVIOUS
  <2>3. \A i \in DOMAIN waiting[q] : waiting[q][i] # NULL
    BY <2>2, ElementOfSeq, LenProperties
  <2> QED BY <2>3, <1>1, <1>3
<1>8. Exclusive' BY <1>1, <1>2, <1>5, <1>6, <1>7
<1> QED BY <1>4, <1>8

(* A packet that is queued leaves its thread.                              *)
LEMMA EnqueueOwners ==
    ASSUME StoreAssumption, Owners, NEW t \in Threads, NEW q \in Queues, Enqueue(t, q)
    PROVE  Owners'
<1> USE DEF Owners, Types, Exclusive, StoreAssumption
<1> DEFINE p == held[t]
           s == waiting[q]
<1>1. p \in alloc /\ held' = [held EXCEPT ![t] = NULL] BY DEF Enqueue
<1>2. waiting' = [waiting EXCEPT ![q] = Append(s, p)] BY DEF Enqueue
<1>3. UNCHANGED <<free, actual, asked, alloc, peak>> BY DEF Enqueue
<1>4. s \in Seq(alloc) OBVIOUS
<1>5. /\ Append(s, p) \in Seq(alloc) /\ Len(s) \in Nat
      /\ DOMAIN s = 1..Len(s) /\ DOMAIN Append(s, p) = 1..(Len(s) + 1)
      /\ \A i \in 1..Len(s) : Append(s, p)[i] = s[i]
      /\ Append(s, p)[Len(s) + 1] = p
  BY <1>1, <1>4, AppendProperties, LenProperties
<1>6. Types' BY <1>1, <1>2, <1>3, <1>5
<1>7. \A r \in Queues : \A i \in DOMAIN waiting[r] : waiting[r][i] # NULL
  <2>1. TAKE r \in Queues
  <2>2. waiting[r] \in Seq(alloc) OBVIOUS
  <2> QED BY <2>2, ElementOfSeq, LenProperties
<1>8. ASSUME NEW r \in Queues, NEW i \in DOMAIN waiting'[r]
      PROVE  \/ r = q /\ i = Len(s) + 1 /\ waiting'[r][i] = p
             \/ i \in DOMAIN waiting[r] /\ waiting'[r][i] = waiting[r][i]
  <2>1. CASE r # q BY <2>1, <1>2, <1>8
  <2>2. CASE r = q
    <3>1. waiting'[r] = Append(s, p) BY <2>2, <1>2
    <3>2. i \in 1..(Len(s) + 1) BY <3>1, <1>5, <1>8
    <3>3. i \in 1..Len(s) \/ i = Len(s) + 1 BY <3>2, <1>5
    <3> QED BY <2>2, <3>1, <3>3, <1>5
  <2> QED BY <2>1, <2>2
<1>9. ASSUME NEW r \in Queues, NEW i \in DOMAIN waiting[r] PROVE waiting[r][i] # p
  BY <1>9
<1>10. ASSUME NEW r1 \in Queues, NEW r2 \in Queues,
              NEW i \in DOMAIN waiting'[r1], NEW j \in DOMAIN waiting'[r2],
              waiting'[r1][i] = waiting'[r2][j]
       PROVE  r1 = r2 /\ i = j
  <2>1. CASE i \in DOMAIN waiting[r1] /\ waiting'[r1][i] = waiting[r1][i]
    <3>1. CASE j \in DOMAIN waiting[r2] /\ waiting'[r2][j] = waiting[r2][j]
      <4>1. waiting[r1][i] = waiting[r2][j] BY <1>10, <2>1, <3>1
      <4>2. Exclusive OBVIOUS
      <4> HIDE DEF p, s, Owners, Types
      <4> QED BY <2>1, <3>1, <4>1, <4>2
    <3>2. CASE waiting'[r2][j] = p
      <4>1. waiting[r1][i] # p BY <1>9, <2>1
      <4> HIDE DEF p, s
      <4> QED BY <4>1, <1>10, <2>1, <3>2
    <3> HIDE DEF p, s
    <3> QED BY <1>8, <3>1, <3>2
  <2>2. CASE r1 = q /\ i = Len(s) + 1 /\ waiting'[r1][i] = p
    <3>1. ~(j \in DOMAIN waiting[r2] /\ waiting'[r2][j] = waiting[r2][j])
      <4> HIDE DEF p, s
      <4> QED BY <1>9, <1>10, <2>2
    <3> HIDE DEF p, s
    <3> QED BY <1>8, <2>2, <3>1
  <2> HIDE DEF p, s
  <2> QED BY <1>8, <2>1, <2>2
<1>11. ASSUME NEW r \in Queues, NEW i \in DOMAIN waiting'[r]
       PROVE  waiting'[r][i] \notin free' /\ \A u \in Threads : waiting'[r][i] # held'[u]
  <2>1. \A u \in Threads : u # t => held[u] # p BY <1>1 DEF Enqueue
  <2>2. p # NULL /\ p \notin free BY DEF Enqueue
  <2>3. CASE i \in DOMAIN waiting[r] /\ waiting'[r][i] = waiting[r][i]
    BY <1>1, <1>3, <1>7, <2>3
  <2>4. CASE waiting'[r][i] = p
    <3> HIDE DEF p, s
    <3> QED BY <1>1, <1>3, <2>1, <2>2, <2>4
  <2> HIDE DEF p, s
  <2> QED BY <1>8, <2>3, <2>4
<1>12. Exclusive'
  <2>1. /\ \A u, v \in Threads : held'[u] = held'[v] /\ held'[u] # NULL => u = v
        /\ \A u \in Threads : held'[u] \notin free'
    BY <1>1, <1>3
  <2> QED BY <1>10, <1>11, <2>1
<1> QED BY <1>6, <1>12

(* A packet that is dequeued leaves its queue.                             *)
LEMMA DequeueOwners ==
    ASSUME StoreAssumption, Owners, NEW t \in Threads, NEW q \in Queues, Dequeue(t, q)
    PROVE  Owners'
<1> USE DEF Owners, Types, Exclusive, StoreAssumption
<1> DEFINE s == waiting[q]
           p == Head(s)
<1>1. s # <<>> /\ held' = [held EXCEPT ![t] = p] BY DEF Dequeue
<1>2. waiting' = [waiting EXCEPT ![q] = Tail(s)] BY DEF Dequeue
<1>3. UNCHANGED <<free, actual, asked, alloc, peak>> BY DEF Dequeue
<1>4. s \in Seq(alloc) OBVIOUS
<1>5. /\ p \in alloc /\ Tail(s) \in Seq(alloc)
      /\ Len(s) \in Nat /\ Len(s) # 0 /\ Len(Tail(s)) = Len(s) - 1
      /\ DOMAIN s = 1..Len(s) /\ DOMAIN Tail(s) = 1..(Len(s) - 1)
      /\ \A i \in DOMAIN Tail(s) : Tail(s)[i] = s[i + 1]
      /\ p = s[1]
  BY <1>1, <1>4, HeadTailProperties, LenProperties, EmptySeq
<1>6. Types' BY <1>2, <1>3, <1>5, <1>1
<1>7. ASSUME NEW r \in Queues, NEW i \in DOMAIN waiting'[r]
      PROVE  \/ r = q /\ i + 1 \in DOMAIN s /\ i + 1 # 1 /\ waiting'[r][i] = s[i + 1]
             \/ r # q /\ i \in DOMAIN waiting[r] /\ waiting'[r][i] = waiting[r][i]
  <2>1. CASE r # q BY <2>1, <1>2, <1>7
  <2>2. CASE r = q
    <3>1. waiting'[r] = Tail(s) BY <2>2, <1>2
    <3> HIDE DEF s, p
    <3>2. i \in 1..(Len(s) - 1) BY <3>1, <1>5, <1>7
    <3> QED BY <2>2, <3>1, <3>2, <1>5
  <2> QED BY <2>1, <2>2
<1>8. \A r \in Queues : \A i \in DOMAIN waiting[r] :
         waiting[r][i] = p => r = q /\ i = 1
  BY <1>5
<1>9. ASSUME NEW r \in Queues, NEW i \in DOMAIN waiting'[r], NEW i0, i0 = i + 1,
             r = q, i0 \in DOMAIN s, i0 # 1, waiting'[r][i] = s[i0]
      PROVE  waiting'[r][i] # p /\ waiting'[r][i] \notin free
             /\ \A u \in Threads : waiting'[r][i] # held[u]
  BY <1>8, <1>9
<1>10. ASSUME NEW r \in Queues, NEW i \in DOMAIN waiting'[r]
       PROVE  waiting'[r][i] \notin free' /\ \A u \in Threads : waiting'[r][i] # held'[u]
  <2>1. waiting'[r][i] # p /\ waiting'[r][i] \notin free
        /\ \A u \in Threads : waiting'[r][i] # held[u]
    <3>1. CASE r # q BY <3>1, <1>7, <1>8, <1>10
    <3>2. CASE r = q BY <3>2, <1>7, <1>9, <1>10
    <3> QED BY <3>1, <3>2
  <2> HIDE DEF p, s
  <2> QED BY <2>1, <1>1, <1>3
<1>11. ASSUME NEW r1 \in Queues, NEW r2 \in Queues,
              NEW i \in DOMAIN waiting'[r1], NEW j \in DOMAIN waiting'[r2],
              waiting'[r1][i] = waiting'[r2][j]
       PROVE  r1 = r2 /\ i = j
  <2>0. \A r \in Queues : waiting'[r] \in Seq(alloc) BY <1>6, <1>3
  <2>1. i \in Int /\ j \in Int BY <2>0, <1>11, LenProperties
  <2>2. ASSUME r1 = q, r2 = q PROVE i = j
    <3>1. i + 1 \in DOMAIN waiting[q] /\ j + 1 \in DOMAIN waiting[q]
          /\ waiting[q][i + 1] = waiting[q][j + 1]
      BY <2>2, <1>7, <1>11
    <3>2. i + 1 = j + 1 BY <3>1
    <3> QED BY <3>2, <2>1
  <2>3. CASE r1 # q /\ r2 # q BY <2>3, <1>7, <1>11
  <2>4. ASSUME NEW r \in Queues, r # q, NEW k \in DOMAIN waiting'[r],
               NEW l \in DOMAIN waiting'[q], waiting'[q][l] = waiting'[r][k]
        PROVE  FALSE
    <3>1. l + 1 \in DOMAIN waiting[q] /\ waiting'[q][l] = waiting[q][l + 1]
      BY <2>4, <1>7
    <3>2. k \in DOMAIN waiting[r] /\ waiting'[r][k] = waiting[r][k]
      BY <2>4, <1>7
    <3>3. waiting[q][l + 1] = waiting[r][k] BY <3>1, <3>2, <2>4
    <3>4. Exclusive OBVIOUS
    <3> HIDE DEF s, p, Owners
    <3>5. ASSUME NEW x \in DOMAIN waiting[q], waiting[q][x] = waiting[r][k] PROVE q = r
      BY <3>2, <3>4, <3>5
    <3> QED BY <3>1, <3>3, <3>5, <2>4
  <2> HIDE DEF s, p, Owners, Types, Exclusive
  <2> QED BY <1>11, <2>2, <2>3, <2>4
<1>12. /\ \A u, v \in Threads : held'[u] = held'[v] /\ held'[u] # NULL => u = v
       /\ \A u \in Threads : held'[u] \notin free'
  <2>1. 1 \in DOMAIN waiting[q] /\ waiting[q][1] = p BY <1>5
  <2>2. p \notin free /\ \A u \in Threads : held[u] # p BY <2>1
  <2> HIDE DEF p, s
  <2> QED BY <2>2, <1>1, <1>3
<1>13. Exclusive' BY <1>10, <1>11, <1>12
<1> QED BY <1>6, <1>13

(* No step makes a second owner.                                           *)
LEMMA NextOwners == ASSUME StoreAssumption, Owners, [Next]_vars PROVE Owners'
<1>1. ASSUME NEW t \in Threads, OutOfMemory(t) PROVE Owners'
  BY <1>1 DEF OutOfMemory, Owners, Types, Exclusive
<1>2. CASE UNCHANGED vars BY <1>2 DEF vars, Owners, Types, Exclusive
<1> QED BY <1>1, <1>2, HitOwners, MissOwners, CreateOwners, PutOwners, EnqueueOwners,
           DequeueOwners DEF Next

(* The invariant holds at the start and throughout.                        *)
LEMMA OwnersHold == ASSUME StoreAssumption PROVE Spec => []Owners
<1>1. Init => Owners
  BY EmptySeq DEF Init, Owners, Types, Exclusive, StoreAssumption
<1>2. Owners /\ [Next]_vars => Owners' BY NextOwners
<1> QED BY <1>1, <1>2, PTL DEF Spec

(* A packet is in the cache, with one thread or at one place in a queue,   *)
(* and only there, for any number of threads and queues.                   *)
THEOREM PacketsAreExclusive == ASSUME StoreAssumption PROVE Spec => []Exclusive
<1>1. Owners => Exclusive BY DEF Owners
<1> QED BY <1>1, OwnersHold, PTL

-----------------------------------------------------------------------------
(* The bound of the cache.                                                 *)

(* A thread that misses makes the next packet of the size it has asked for.*)
LEMMA MissBounded ==
    ASSUME StoreAssumption, Types, Bounded, NEW t \in Threads, NEW n \in Sizes, Miss(t, n)
    PROVE  Bounded'
<1> SUFFICES ASSUME NEW m \in Sizes \ {0} PROVE Cardinality(Made(m))' <= peak'[m]
  BY DEF Bounded
<1>1. peak' \in [Sizes -> Nat] /\ peak'[m] >= peak[m]
      /\ peak'[m] >= Cardinality(InUse(m)')
  BY PeakRises DEF Miss, Types
<1>2. Cardinality(Made(m)) \in Nat /\ peak[m] \in Nat BY FiniteUse DEF Types
<1>3. CASE m = n
  <2>1. Made(n)' = InUse(n)'
    BY DEF Miss, Made, InUse, Types, StoreAssumption
  <2> QED BY <1>1, <1>3, <2>1
<1>4. CASE m # n
  <2>1. \A u \in Threads : asked'[u] = m <=> asked[u] = m
    BY <1>4 DEF Miss, Idle, Types, StoreAssumption, None
  <2>2. Made(m)' = Made(m) BY <2>1 DEF Made, Creating, Miss
  <2> QED BY <1>1, <1>2, <2>2 DEF Bounded
<1> QED BY <1>3, <1>4

(* A new packet takes the place of the allocation that was under way.      *)
LEMMA CreateBounded ==
    ASSUME StoreAssumption, Types, Bounded, NEW t \in Threads, Create(t)
    PROVE  Bounded'
<1> SUFFICES ASSUME NEW m \in Sizes \ {0} PROVE Cardinality(Made(m))' <= peak'[m]
  BY DEF Bounded
<1>1. PICK p \in Pkts \ alloc :
        alloc' = alloc \cup {p} /\ actual' = [actual EXCEPT ![p] = asked[t]]
  BY DEF Create
<1>2. asked' = [asked EXCEPT ![t] = None] /\ peak' = peak BY DEF Create
<1>3. asked[t] \in Sizes BY DEF Create, Types
<1>4. IsFiniteSet(Made(m)) /\ Cardinality(Made(m)) \in Nat /\ peak[m] \in Nat
  BY FiniteUse DEF Types
<1>5. CASE m = asked[t]
  <2>1. t \in Made(m) BY <1>5 DEF Made, Creating
  <2>2. Made(m)' = (Made(m) \ {t}) \cup {p}
    <3>1. {a \in alloc' : actual'[a] = m} = {a \in alloc : actual[a] = m} \cup {p}
      BY <1>1, <1>5 DEF Types
    <3>2. Creating(m)' = Creating(m) \ {t}
      BY <1>2, <1>5 DEF Creating, Types, None, StoreAssumption
    <3>3. t \notin alloc BY DEF Types, StoreAssumption
    <3> QED BY <3>1, <3>2, <3>3 DEF Made
  <2>3. IsFiniteSet(Made(m) \ {t}) /\ Cardinality(Made(m) \ {t}) = Cardinality(Made(m)) - 1
    BY <1>4, <2>1, FS_RemoveElement
  <2>4. Cardinality(Made(m)') <= Cardinality(Made(m))
    <3> DEFINE S == Made(m) \ {t}
    <3> HIDE DEF S
    <3>1. Cardinality(S \cup {p}) = IF p \in S THEN Cardinality(S) ELSE Cardinality(S) + 1
      BY <2>3, FS_AddElement DEF S
    <3>2. Cardinality(S) = Cardinality(Made(m)) - 1 BY <2>3 DEF S
    <3>3. Made(m)' = S \cup {p} BY <2>2 DEF S
    <3> QED BY <1>4, <3>1, <3>2, <3>3
  <2>5. IsFiniteSet(Made(m)') BY <2>2, <2>3, FS_AddElement
  <2>6. Cardinality(Made(m)') \in Nat BY <2>5, FS_CardinalityType
  <2> QED BY <1>2, <1>4, <2>4, <2>6 DEF Bounded
<1>6. CASE m # asked[t]
  <2>1. Made(m)' = Made(m)
    BY <1>1, <1>2, <1>6 DEF Made, Creating, Types, None, StoreAssumption
  <2> QED BY <1>2, <2>1 DEF Bounded
<1> QED BY <1>5, <1>6

(* No other step makes a packet.                                           *)
LEMMA NextBounded == ASSUME StoreAssumption, Types, Bounded, [Next]_vars PROVE Bounded'
<1>1. ASSUME NEW t \in Threads, NEW n \in Sizes, Hit(t, n) PROVE Bounded'
  <2>1. \A m : Made(m)' = Made(m) BY <1>1 DEF Hit, Made, Creating
  <2>2. \A m \in Sizes : peak'[m] >= peak[m] /\ peak'[m] \in Nat
    BY <1>1, PeakRises DEF Hit, Types
  <2>3. \A m \in Sizes : Cardinality(Made(m)) \in Nat /\ peak[m] \in Nat
    BY FiniteUse DEF Types
  <2> QED BY <2>1, <2>2, <2>3 DEF Bounded
<1>2. ASSUME NEW t \in Threads, OutOfMemory(t) PROVE Bounded'
  <2> SUFFICES ASSUME NEW m \in Sizes \ {0} PROVE Cardinality(Made(m)') <= peak'[m]
    BY DEF Bounded
  <2>1. Made(m)' \in SUBSET Made(m)
    BY <1>2 DEF OutOfMemory, Made, Creating, Types, None, StoreAssumption
  <2>2. IsFiniteSet(Made(m)) /\ Cardinality(Made(m)) \in Nat /\ peak[m] \in Nat
    BY FiniteUse DEF Types
  <2>3. Cardinality(Made(m)') <= Cardinality(Made(m)) /\ Cardinality(Made(m)') \in Nat
    BY <2>1, <2>2, FS_Subset, FS_CardinalityType
  <2> QED BY <1>2, <2>2, <2>3 DEF OutOfMemory, Bounded
<1>3. CASE UNCHANGED <<alloc, actual, asked, peak>>
  BY <1>3 DEF Bounded, Made, Creating
<1> QED BY <1>1, <1>2, <1>3, MissBounded, CreateBounded DEF Next, Put, Enqueue, Dequeue,
           vars

(* The packets of a size, 0 excepted, are never more than were in use at   *)
(* the same time, whatever sizes the threads ask for.                      *)
THEOREM CacheIsBounded == ASSUME StoreAssumption PROVE Spec => []Bounded
<1>1. ASSUME Init PROVE Bounded
  <2>1. ASSUME NEW n \in Sizes \ {0} PROVE Made(n) = {} /\ peak[n] = 0
    <3>1. Creating(n) = {} BY <1>1 DEF Init, Creating, None, StoreAssumption
    <3> QED BY <1>1, <3>1 DEF Init, Made
  <2> QED BY <2>1, FS_EmptySet DEF Bounded
<1>2. Owners /\ Bounded /\ [Next]_vars => Bounded' BY NextBounded DEF Owners
<1> QED BY <1>1, <1>2, OwnersHold, PTL DEF Spec
=============================================================================
