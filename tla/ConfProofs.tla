----------------------------- MODULE ConfProofs -----------------------------
(***************************************************************************)
(* Proofs about the configuration, for any number of records, keys and     *)
(* threads: the reference counter of a record is exact, so a record lives  *)
(* as long as it has a user; a key has one record; the command line has    *)
(* priority over the file; and the generation tells every change.          *)
(***************************************************************************)
EXTENDS Conf, FiniteSetTheorems, TLAPS

(* conf_record_put_locked() frees the records whose counter is zero.       *)
LiveCounted == \A r \in Records : r \in live <=> ref[r] > 0

(* A thread has a pointer unless it is idle.                               *)
PointerHeld == \A t \in Threads : pc[t] = "idle" <=> held[t] = None

(* Nobody else knows a record that is not stored yet.                      *)
InsertsOwn ==
    \A t \in Threads : pc[t] = "insert" =>
        /\ held[t] \notin store
        /\ \A u \in Threads : u # t /\ held[u] = held[t] => pc[u] = "unlock"

Counted ==
    /\ TypeOK /\ RefCounts /\ LiveCounted /\ UniqueKeys
    /\ PointerHeld /\ InsertsOwn

(* While main() reads its sources, it is alone; the command line comes     *)
(* first, and what it has set stays in the store.                          *)
Reading ==
    phase # "run" =>
        /\ \A t \in Threads \ {Main} : pc[t] = "idle"
        /\ phase = "argv" => \A r \in live : source[r] # "file"
        /\ \A k \in given :
             \/ \E r \in store : key[r] = k
             \/ pc[Main] = "insert" /\ key[held[Main]] = k

(* A record read from the file is about to be stored only for a new key.   *)
FileYields ==
    \A t \in Threads : pc[t] = "insert" /\ source[held[t]] = "file" =>
        key[held[t]] \notin given

Prioritised == Reading /\ FileYields /\ ArgvWins

IInv == Counted /\ Prioritised

-----------------------------------------------------------------------------
(* The users of a record.                                                  *)

(* There are finitely many threads, so a record has finitely many users.   *)
LEMMA UsersAreFinite ==
    ASSUME NEW S, S \subseteq Threads
    PROVE  /\ IsFiniteSet(S) /\ Cardinality(S) \in Nat
           /\ Cardinality(S) = 0 <=> S = {}
BY ConfAssumption, FS_Subset, FS_CardinalityType, FS_EmptySet DEF ConfAssumption

(* A thread that comes adds one user, a thread that leaves takes one away. *)
LEMMA OneUser ==
    ASSUME NEW S, S \subseteq Threads, NEW t \in Threads
    PROVE  /\ t \notin S => Cardinality(S \cup {t}) = Cardinality(S) + 1
           /\ t \in S => Cardinality(S \ {t}) = Cardinality(S) - 1
BY UsersAreFinite, FS_AddElement, FS_RemoveElement

(* A record is used by threads only.                                       *)
LEMMA HoldersAreThreads ==
    ASSUME NEW r \in Records
    PROVE  /\ Holders(r) \subseteq Threads /\ Cardinality(Holders(r)) \in Nat
           /\ Cardinality(Holders(r)) = 0 <=> Holders(r) = {}
<1>1. Holders(r) \subseteq Threads
  BY DEF Holders
<1> QED BY <1>1, UsersAreFinite

(* When a thread gets another pointer only that thread changes sides.      *)
LEMMA HoldersChange ==
    ASSUME TypeOK, NEW t \in Threads, NEW x, NEW label, Hold(t, x, label),
           NEW r \in Records
    PROVE  LET left == IF t \in Holders(r) THEN 1 ELSE 0
               came == IF r = x /\ label # "unlock" THEN 1 ELSE 0
           IN  Cardinality(Holders(r)') = Cardinality(Holders(r)) - left + came
<1> DEFINE S == Holders(r) \ {t}
<1>1. Holders(r) \subseteq Threads /\ S \subseteq Threads /\ t \notin S
  BY DEF Holders
<1>2. /\ held' = [held EXCEPT ![t] = x]
      /\ pc' = [pc EXCEPT ![t] = label]
  BY DEF Hold
<1>3. held \in [Threads -> Records \cup {None}] /\ DOMAIN pc = Threads
  BY DEF TypeOK
<1>4. /\ held'[t] = x /\ pc'[t] = label
      /\ \A u \in Threads : u # t => held'[u] = held[u] /\ pc'[u] = pc[u]
  BY <1>2, <1>3
<1>5. Holders(r)' = {u \in Threads : held'[u] = r /\ pc'[u] # "unlock"}
  BY DEF Holders
<1>6. Holders(r) = {u \in Threads : held[u] = r /\ pc[u] # "unlock"}
  BY DEF Holders
<1>7. IF r = x /\ label # "unlock" THEN Holders(r)' = S \cup {t} ELSE Holders(r)' = S
  BY <1>4, <1>5, <1>6
<1>8. Cardinality(S) = Cardinality(Holders(r)) - (IF t \in Holders(r) THEN 1 ELSE 0)
  <2>1. CASE t \in Holders(r)
    BY <1>1, <2>1, OneUser
  <2>2. CASE t \notin Holders(r)
    <3>1. S = Holders(r) BY <2>2
    <3> QED BY <3>1, <2>2, <1>1, UsersAreFinite
  <2> QED BY <2>1, <2>2
<1>9. Cardinality(S \cup {t}) = Cardinality(S) + 1 /\ Cardinality(S) \in Nat
  BY <1>1, OneUser, UsersAreFinite
<1> HIDE DEF S
<1>10. Cardinality(Holders(r)') =
         Cardinality(S) + (IF r = x /\ label # "unlock" THEN 1 ELSE 0)
  <2>1. CASE r = x /\ label # "unlock"
    BY <1>7, <1>9, <2>1
  <2>2. CASE ~ (r = x /\ label # "unlock")
    <3>1. Holders(r)' = S BY <1>7, <2>2
    <3>2. Cardinality(Holders(r)') = Cardinality(S) BY <3>1
    <3> QED BY <1>9, <2>2, <3>2
  <2> QED BY <2>1, <2>2
<1> QED BY <1>8, <1>10

(* A record with a user, or in the store, is allocated.                    *)
LEMMA UsedIsLive ==
    ASSUME TypeOK, RefCounts, LiveCounted, NEW r \in Records
    PROVE  /\ r \in store => r \in live
           /\ \A t \in Holders(r) : r \in live
           /\ r \notin live => ref[r] = 0 /\ r \notin store /\ Holders(r) = {}
<1>1. ref[r] \in Nat /\ ref[r] = Cardinality(Holders(r)) + (IF r \in store THEN 1 ELSE 0)
  BY DEF TypeOK, RefCounts
<1> QED BY <1>1, HoldersAreThreads DEF LiveCounted

-----------------------------------------------------------------------------
(* The counters are exact: one lemma per kind of step.                     *)

(* conf_record_new() makes a record that only its thread knows.            *)
LEMMA NewCounted ==
    ASSUME Counted, NEW t \in Threads, pc[t] = "idle",
           NEW k \in Keys, NEW s \in Sources, New(t, k, s),
           phase' \in {"argv", "file", "run"}, given' \subseteq Keys
    PROVE  Counted'
<1> USE DEF Counted
<1>1. PICK r \in Records \ live :
        /\ live' = live \cup {r} /\ key' = [key EXCEPT ![r] = k]
        /\ source' = [source EXCEPT ![r] = s] /\ ref' = [ref EXCEPT ![r] = 1]
        /\ Hold(t, r, "insert") /\ UNCHANGED <<shared, lock>>
  BY DEF New
<1>2. ref[r] = 0 /\ r \notin store /\ Holders(r) = {}
  BY <1>1, UsedIsLive
<1>3. held[t] = None /\ None \notin Records
  BY ConfAssumption DEF ConfAssumption, PointerHeld
<1>4. /\ held' = [held EXCEPT ![t] = r] /\ pc' = [pc EXCEPT ![t] = "insert"]
      /\ store' = store /\ storeNr' = storeNr /\ gen' = gen /\ lock' = lock
  BY <1>1 DEF Hold, shared
<1>5. TypeOK'
  BY <1>1, <1>4 DEF TypeOK
<1>6. RefCounts'
  <2> SUFFICES ASSUME NEW q \in Records
               PROVE  ref'[q] = Cardinality(Holders(q)') + (IF q \in store' THEN 1 ELSE 0)
    BY DEF RefCounts
  <2>1. t \notin Holders(q)
    BY <1>3 DEF Holders
  <2>2. Cardinality(Holders(q)') = Cardinality(Holders(q)) + (IF q = r THEN 1 ELSE 0)
    BY <1>1, <2>1, HoldersChange, HoldersAreThreads
  <2>3. ref[q] = Cardinality(Holders(q)) + (IF q \in store THEN 1 ELSE 0)
    BY DEF RefCounts
  <2>4. q = r => Cardinality(Holders(q)) = 0
    BY <1>2, HoldersAreThreads
  <2>5. ref'[q] = IF q = r THEN 1 ELSE ref[q]
    BY <1>1 DEF TypeOK
  <2> QED BY <1>2, <1>4, <2>2, <2>3, <2>4, <2>5, HoldersAreThreads
<1>7. LiveCounted'
  BY <1>1 DEF LiveCounted, TypeOK
<1>8. UniqueKeys'
  BY <1>1, <1>2, <1>4 DEF UniqueKeys, TypeOK
<1>9. PointerHeld'
  BY <1>3, <1>4 DEF PointerHeld, TypeOK
<1>10. InsertsOwn'
  <2>1. \A u \in Threads : held[u] = r => pc[u] = "unlock"
    BY <1>2 DEF Holders
  <2> QED BY <1>2, <1>3, <1>4, <2>1 DEF InsertsOwn, TypeOK
<1> QED BY <1>5, <1>6, <1>7, <1>8, <1>9, <1>10

(* What conf_drop_locked() does to a key's record; there is only one.      *)
LEMMA ReleaseFound ==
    ASSUME Counted, NEW k,
           IF Found(k) = {} THEN UNCHANGED <<live, ref>> ELSE \E r \in Found(k) : Release(r)
    PROVE  /\ ref' \in [Records -> Nat] /\ live' \subseteq Records
           /\ \A q \in Records :
                /\ q \in Found(k) => q \in store /\ ref[q] >= 1 /\ ref[q] \in Nat
                /\ ref'[q] = IF q \in Found(k) THEN ref[q] - 1 ELSE ref[q]
                /\ q \in live' <=> q \in live /\ ~ (q \in Found(k) /\ ref[q] = 1)
<1> USE DEF Counted
<1>1. \A q \in Records : q \in Found(k) =>
        /\ q \in store /\ ref[q] >= 1 /\ ref[q] \in Nat
        /\ \A r \in Found(k) : r = q
  BY HoldersAreThreads DEF Found, RefCounts, UniqueKeys, TypeOK
<1>2. CASE Found(k) = {}
  BY <1>2 DEF TypeOK
<1>3. CASE Found(k) # {}
  <2>1. PICK r \in Found(k) : Release(r) BY <1>3
  <2>2. Found(k) = {r} /\ r \in Records BY <1>1, <2>1 DEF Found, TypeOK
  <2> QED BY <1>1, <2>1, <2>2 DEF Release, TypeOK
<1> QED BY <1>2, <1>3

(* A thread that stores its record hands its reference to the store, and   *)
(* the record that was there loses the store's.                            *)
LEMMA InsertCounted ==
    ASSUME Counted, NEW t \in Threads, Insert(t)
    PROVE  Counted'
<1> USE DEF Counted
<1> DEFINE n == held[t]
           old == Found(key[n])
<1>1. /\ pc[t] = "insert" /\ gen' = gen + 1 /\ store' = (store \ old) \cup {n}
      /\ IF old = {} THEN UNCHANGED <<live, ref>> ELSE \E r \in old : Release(r)
      /\ key' = key /\ source' = source /\ storeNr' = storeNr /\ lock' = lock
      /\ phase' = phase /\ given' = given /\ Hold(t, None, "idle")
  BY DEF Insert, reading
<1>2. /\ held' = [held EXCEPT ![t] = None] /\ pc' = [pc EXCEPT ![t] = "idle"]
  BY <1>1 DEF Hold
<1>3. None \notin Records
  BY ConfAssumption DEF ConfAssumption
<1>4. n \in Records /\ n \notin store /\ n \notin old /\ t \in Holders(n)
  BY <1>1, <1>3 DEF PointerHeld, InsertsOwn, TypeOK, Found, Holders
<1>5. /\ ref' \in [Records -> Nat] /\ live' \subseteq Records
      /\ \A q \in Records :
           /\ q \in old => q \in store /\ ref[q] >= 1 /\ ref[q] \in Nat
           /\ ref'[q] = IF q \in old THEN ref[q] - 1 ELSE ref[q]
           /\ q \in live' <=> q \in live /\ ~ (q \in old /\ ref[q] = 1)
  BY <1>1, ReleaseFound
<1>6. TypeOK'
  BY <1>1, <1>2, <1>4, <1>5 DEF TypeOK
<1>7. RefCounts'
  <2> SUFFICES ASSUME NEW q \in Records
               PROVE  ref'[q] = Cardinality(Holders(q)') + (IF q \in store' THEN 1 ELSE 0)
    BY DEF RefCounts
  <2>1. t \in Holders(q) <=> q = n
    BY <1>1, <1>4 DEF Holders
  <2>2. Cardinality(Holders(q)') = Cardinality(Holders(q)) - (IF q = n THEN 1 ELSE 0)
    BY <1>1, <1>3, <2>1, HoldersChange, HoldersAreThreads
  <2>3. ref[q] = Cardinality(Holders(q)) + (IF q \in store THEN 1 ELSE 0)
    BY DEF RefCounts
  <2>4. q \in old => q \in store
    BY DEF Found
  <2>5. q \in store' <=> (q \in store /\ q \notin old) \/ q = n
    BY <1>1
  <2> HIDE DEF n, old
  <2> QED BY <1>4, <1>5, <2>2, <2>3, <2>4, <2>5, HoldersAreThreads
<1>8. LiveCounted'
  <2> SUFFICES ASSUME NEW q \in Records PROVE q \in live' <=> ref'[q] > 0
    BY DEF LiveCounted
  <2> HIDE DEF n, old
  <2> QED BY <1>5 DEF LiveCounted, TypeOK
<1>9. UniqueKeys'
  BY <1>1 DEF UniqueKeys, Found
<1>10. PointerHeld'
  BY <1>2, <1>3 DEF PointerHeld, TypeOK
<1>11. InsertsOwn'
  <2> SUFFICES ASSUME NEW u \in Threads, pc'[u] = "insert"
               PROVE  /\ held'[u] \notin store'
                      /\ \A v \in Threads : v # u /\ held'[v] = held'[u] => pc'[v] = "unlock"
    BY DEF InsertsOwn
  <2>1. u # t /\ pc[u] = "insert" /\ held'[u] = held[u] /\ held[u] # None
    BY <1>2 DEF TypeOK, PointerHeld
  <2>2. held[u] # n /\ held[u] \notin store
    BY <1>1, <2>1 DEF InsertsOwn
  <2>3. \A v \in Threads : v # u /\ held'[v] = held'[u] =>
          v # t /\ held'[v] = held[v] /\ pc'[v] = pc[v]
    BY <1>2, <2>1 DEF TypeOK
  <2> QED BY <1>1, <2>1, <2>2, <2>3 DEF InsertsOwn
<1> QED BY <1>6, <1>7, <1>8, <1>9, <1>10, <1>11

(* A record that is dropped loses the store's reference.                   *)
LEMMA DropCounted ==
    ASSUME Counted, NEW t \in Threads, NEW k \in Keys, Drop(t, k)
    PROVE  Counted'
<1> USE DEF Counted
<1> DEFINE old == Found(k)
<1>1. /\ gen' = gen + 1 /\ store' = store \ old
      /\ IF old = {} THEN UNCHANGED <<live, ref>> ELSE \E r \in old : Release(r)
      /\ UNCHANGED <<key, source, storeNr, lock, held, pc, phase, given>>
  BY DEF Drop, reading
<1>2. /\ ref' \in [Records -> Nat] /\ live' \subseteq Records
      /\ \A q \in Records :
           /\ q \in old => q \in store /\ ref[q] >= 1 /\ ref[q] \in Nat
           /\ ref'[q] = IF q \in old THEN ref[q] - 1 ELSE ref[q]
           /\ q \in live' <=> q \in live /\ ~ (q \in old /\ ref[q] = 1)
  BY <1>1, ReleaseFound
<1> HIDE DEF old
<1>3. TypeOK'
  BY <1>1, <1>2 DEF TypeOK
<1>4. \A q \in Records : Holders(q)' = Holders(q)
  BY <1>1 DEF Holders
<1>5. RefCounts'
  BY <1>1, <1>2, <1>4, HoldersAreThreads DEF RefCounts
<1>6. LiveCounted'
  BY <1>2 DEF LiveCounted, TypeOK
<1>7. UniqueKeys' /\ PointerHeld' /\ InsertsOwn'
  BY <1>1 DEF UniqueKeys, PointerHeld, InsertsOwn
<1> QED BY <1>3, <1>5, <1>6, <1>7

(* Flushing takes the store's reference from every record in it.           *)
LEMMA FlushCounted ==
    ASSUME Counted, NEW t \in Threads, Flush(t)
    PROVE  Counted'
<1> USE DEF Counted
<1>1. /\ ref' = [r \in Records |-> IF r \in store THEN ref[r] - 1 ELSE ref[r]]
      /\ live' = {r \in live : r \in store => ref[r] # 1}
      /\ store' = {} /\ storeNr' = 0 /\ gen' = gen + 1
      /\ UNCHANGED <<key, source, lock, held, pc, phase, given>>
  BY DEF Flush, reading
<1>2. \A q \in Records : ref[q] \in Nat /\ (q \in store => ref[q] >= 1)
  BY HoldersAreThreads DEF RefCounts, TypeOK
<1>3. TypeOK'
  BY <1>1, <1>2 DEF TypeOK
<1>4. \A q \in Records : Holders(q)' = Holders(q)
  BY <1>1 DEF Holders
<1>5. RefCounts'
  BY <1>1, <1>2, <1>4, HoldersAreThreads DEF RefCounts
<1>6. LiveCounted'
  BY <1>1, <1>2 DEF LiveCounted
<1>7. UniqueKeys' /\ PointerHeld' /\ InsertsOwn'
  BY <1>1 DEF UniqueKeys, PointerHeld, InsertsOwn
<1> QED BY <1>3, <1>5, <1>6, <1>7

(* A thread that gets a reference, by a lookup or from another thread, is  *)
(* counted as one more user of a record that has users already.            *)
LEMMA BorrowCounted ==
    ASSUME Counted, NEW t \in Threads, pc[t] = "idle",
           NEW r \in Records,
           r \in store \/ \E u \in Threads : held[u] = r /\ pc[u] = "using",
           ref' = [ref EXCEPT ![r] = @ + 1], Hold(t, r, "using"),
           UNCHANGED <<live, key, source, shared, lock, reading>>
    PROVE  Counted'
<1> USE DEF Counted
<1>1. /\ held' = [held EXCEPT ![t] = r] /\ pc' = [pc EXCEPT ![t] = "using"]
      /\ UNCHANGED <<live, key, source, store, storeNr, gen, lock, phase, given>>
  BY DEF Hold, shared, reading
<1>2. held[t] = None /\ None \notin Records
  BY ConfAssumption DEF ConfAssumption, PointerHeld
<1>3. TypeOK'
  BY <1>1 DEF TypeOK
<1>4. RefCounts'
  <2> SUFFICES ASSUME NEW q \in Records
               PROVE  ref'[q] = Cardinality(Holders(q)') + (IF q \in store' THEN 1 ELSE 0)
    BY DEF RefCounts
  <2>1. t \notin Holders(q)
    BY <1>2 DEF Holders
  <2>2. Cardinality(Holders(q)') = Cardinality(Holders(q)) + (IF q = r THEN 1 ELSE 0)
    BY <1>1, <2>1, HoldersChange, HoldersAreThreads
  <2>3. ref'[q] = ref[q] + (IF q = r THEN 1 ELSE 0)
    BY DEF TypeOK
  <2> QED BY <1>1, <2>2, <2>3, HoldersAreThreads DEF RefCounts
<1>5. r \in live
  BY UsedIsLive DEF Holders
<1>6. LiveCounted'
  BY <1>1, <1>5 DEF LiveCounted, TypeOK
<1>7. UniqueKeys' /\ PointerHeld'
  BY <1>1, <1>2 DEF UniqueKeys, PointerHeld, TypeOK
<1>8. \A u \in Threads : pc[u] = "insert" => held[u] # r
  BY DEF InsertsOwn
<1>9. InsertsOwn'
  BY <1>1, <1>8 DEF InsertsOwn, TypeOK
<1> QED BY <1>3, <1>4, <1>6, <1>7, <1>9

(* A thread that releases its reference is a user no longer.               *)
LEMMA PutCounted ==
    ASSUME Counted, NEW t \in Threads, RecordPut(t)
    PROVE  Counted'
<1> USE DEF Counted
<1> DEFINE r == held[t]
<1>1. /\ pc[t] = "using" /\ ref' = [ref EXCEPT ![r] = @ - 1]
      /\ live' = IF ref[r] = 1 THEN live \ {r} ELSE live
      /\ pc' = [pc EXCEPT ![t] = "unlock"] /\ lock' = t /\ held' = held
      /\ UNCHANGED <<key, source, store, storeNr, gen, phase, given>>
  BY DEF RecordPut, Release, shared, reading
<1>2. r \in Records /\ t \in Holders(r)
  BY <1>1 DEF PointerHeld, TypeOK, Holders
<1>3. Holders(r) # {} /\ Cardinality(Holders(r)) \in Nat
  BY <1>2, HoldersAreThreads
<1>4. ref[r] >= 1 /\ ref[r] \in Nat
  BY <1>2, <1>3, HoldersAreThreads DEF RefCounts, TypeOK
<1>5. Hold(t, r, "unlock")
  BY <1>1 DEF Hold, TypeOK
<1>6. TypeOK'
  <2>1. ref[r] - 1 \in Nat BY <1>4
  <2> QED BY <1>1, <1>2, <2>1 DEF TypeOK
<1>7. RefCounts'
  <2> SUFFICES ASSUME NEW q \in Records
               PROVE  ref'[q] = Cardinality(Holders(q)') + (IF q \in store' THEN 1 ELSE 0)
    BY DEF RefCounts
  <2>1. t \in Holders(q) <=> q = r
    BY <1>2 DEF Holders
  <2>2. Cardinality(Holders(q)') = Cardinality(Holders(q)) - (IF q = r THEN 1 ELSE 0)
    BY <1>5, <2>1, HoldersChange, HoldersAreThreads
  <2>3. ref'[q] = ref[q] - (IF q = r THEN 1 ELSE 0)
    BY <1>1, <1>2 DEF TypeOK
  <2> HIDE DEF r
  <2> QED BY <1>1, <2>2, <2>3, HoldersAreThreads DEF RefCounts
<1>8. LiveCounted'
  BY <1>1, <1>2, <1>4 DEF LiveCounted, TypeOK
<1>9. UniqueKeys' /\ PointerHeld' /\ InsertsOwn'
  BY <1>1, <1>2 DEF UniqueKeys, PointerHeld, InsertsOwn, TypeOK
<1> QED BY <1>6, <1>7, <1>8, <1>9

(* Unlocking changes no counter, whatever it does to the lock.             *)
LEMMA UnlockCounted ==
    ASSUME Counted, NEW t \in Threads, Unlock(t)
    PROVE  Counted'
<1> USE DEF Counted
<1>1. /\ pc[t] = "unlock" /\ lock' \in {None, lock} /\ Hold(t, None, "idle")
      /\ UNCHANGED <<live, key, source, ref, store, storeNr, gen, phase, given>>
  BY DEF Unlock, records, shared, reading
<1>2. /\ held' = [held EXCEPT ![t] = None] /\ pc' = [pc EXCEPT ![t] = "idle"]
  BY <1>1 DEF Hold
<1>3. None \notin Records
  BY ConfAssumption DEF ConfAssumption
<1>4. TypeOK'
  BY <1>1, <1>2 DEF TypeOK
<1>5. RefCounts'
  <2> SUFFICES ASSUME NEW q \in Records
               PROVE  ref'[q] = Cardinality(Holders(q)') + (IF q \in store' THEN 1 ELSE 0)
    BY DEF RefCounts
  <2>1. t \notin Holders(q)
    BY <1>1 DEF Holders
  <2>2. Cardinality(Holders(q)') = Cardinality(Holders(q))
    BY <1>1, <1>3, <2>1, HoldersChange, HoldersAreThreads
  <2> QED BY <1>1, <2>2 DEF RefCounts
<1>6. LiveCounted' /\ UniqueKeys'
  BY <1>1 DEF LiveCounted, UniqueKeys
<1>7. PointerHeld'
  BY <1>2, <1>3 DEF PointerHeld, TypeOK
<1>8. InsertsOwn'
  <2> SUFFICES ASSUME NEW u \in Threads, pc'[u] = "insert"
               PROVE  /\ held'[u] \notin store'
                      /\ \A v \in Threads : v # u /\ held'[v] = held'[u] => pc'[v] = "unlock"
    BY DEF InsertsOwn
  <2>1. u # t /\ pc[u] = "insert" /\ held'[u] = held[u] /\ held[u] # None
    BY <1>2 DEF TypeOK, PointerHeld
  <2>2. \A v \in Threads : v # u /\ held'[v] = held'[u] =>
          v # t /\ held'[v] = held[v] /\ pc'[v] = pc[v]
    BY <1>2, <2>1 DEF TypeOK
  <2> QED BY <1>1, <2>1, <2>2 DEF InsertsOwn
<1> QED BY <1>4, <1>5, <1>6, <1>7, <1>8

(* In the initial state there is no record.                                *)
LEMMA InitCounted == ASSUME Init PROVE Counted
<1>1. TypeOK
  BY ConfAssumption DEF ConfAssumption, Init, TypeOK, Sources
<1>2. RefCounts
  <2>1. \A r \in Records : Holders(r) = {}
    BY ConfAssumption DEF ConfAssumption, Init, Holders
  <2> QED BY <2>1, HoldersAreThreads DEF RefCounts, Init
<1> QED BY <1>1, <1>2 DEF Counted, LiveCounted, UniqueKeys, PointerHeld, InsertsOwn, Init

(* No step miscounts.                                                      *)
LEMMA NextCounted == ASSUME Counted, [Next]_vars PROVE Counted'
<1>1. ASSUME NEW t \in Threads, Insert(t) \/ Flush(t) \/ RecordPut(t) \/ Unlock(t)
      PROVE  Counted'
  BY <1>1, InsertCounted, FlushCounted, PutCounted, UnlockCounted
<1>2. ASSUME NEW t \in Threads, NEW k \in Keys, Store(t, k) PROVE Counted'
  BY <1>2, NewCounted DEF Store, MayRun, Sources, reading, Counted, TypeOK
<1>3. ASSUME NEW t \in Threads, NEW k \in Keys, Drop(t, k) PROVE Counted'
  BY <1>3, DropCounted
<1>4. ASSUME NEW t \in Threads, NEW k \in Keys, Lookup(t, k) PROVE Counted'
  BY <1>4, BorrowCounted DEF Lookup, MayRun, Found, Counted, TypeOK
<1>5. ASSUME NEW t \in Threads, NEW u \in Threads, RecordGet(t, u) PROVE Counted'
  <2>1. held[t] \in Records
    BY <1>5 DEF RecordGet, Counted, PointerHeld, TypeOK
  <2> QED BY <1>5, <2>1, BorrowCounted DEF RecordGet
<1>6. ASSUME NEW k \in Keys, ReadArgv(k) PROVE Counted'
  BY <1>6, NewCounted, ConfAssumption
     DEF ConfAssumption, ReadArgv, MayRun, Sources, Counted, TypeOK
<1>7. ASSUME NEW k \in Keys, ReadFile(k) PROVE Counted'
  <2>1. Main \in Threads /\ pc[Main] = "idle"
    BY <1>7, ConfAssumption DEF ConfAssumption, ReadFile, MayRun
  <2>2. CASE Found(k) = {}
    BY <1>7, <2>1, <2>2, NewCounted DEF ReadFile, Sources, reading, Counted, TypeOK
  <2>3. CASE Found(k) # {}
    BY <1>7, <2>1, <2>3, BorrowCounted DEF ReadFile, Found, Counted, TypeOK
  <2> QED BY <2>2, <2>3
<1>8. ASSUME NextPhase \/ UNCHANGED vars PROVE Counted'
  <2>1. /\ UNCHANGED <<live, key, source, ref, store, storeNr, gen, lock, held, pc, given>>
        /\ phase' \in {"argv", "file", "run"}
    BY <1>8 DEF NextPhase, vars, records, shared, reading, Counted, TypeOK
  <2>2. \A r \in Records : Holders(r)' = Holders(r)
    BY <2>1 DEF Holders
  <2> QED BY <2>1, <2>2
          DEF Counted, TypeOK, RefCounts, LiveCounted, UniqueKeys, PointerHeld, InsertsOwn
<1> QED BY <1>1, <1>2, <1>3, <1>4, <1>5, <1>6, <1>7, <1>8 DEF Next

-----------------------------------------------------------------------------
(* The order of the sources.                                               *)

(* In the initial state nothing has been read.                             *)
LEMMA InitPrioritised == ASSUME Init PROVE Prioritised
BY DEF Init, Prioritised, Reading, FileYields, ArgvWins

(* While main() reads, a step of another thread does nothing to the order. *)
LEMMA OnlyMainReads ==
    ASSUME Counted, Reading, NEW t \in Threads, pc[t] # "idle" \/ MayRun(t)
    PROVE  phase = "run" \/ t = Main
BY DEF Reading, MayRun

(* A new record is behind what the command line has set, and is not from   *)
(* the file unless the file has a key that was not set.                    *)
LEMMA NewPrioritised ==
    ASSUME Counted, Prioritised, NEW t \in Threads, MayRun(t),
           NEW k \in Keys, NEW s \in Sources, New(t, k, s), phase' = phase,
           \/ given' = given /\ (phase = "argv" => s # "file")
              /\ (s = "file" => k \notin given)
           \/ given' = given \cup {k} /\ phase = "argv" /\ t = Main /\ s = "argv"
    PROVE  Prioritised'
<1> USE DEF Prioritised
<1>1. PICK r \in Records \ live :
        /\ live' = live \cup {r} /\ key' = [key EXCEPT ![r] = k]
        /\ source' = [source EXCEPT ![r] = s]
        /\ held' = [held EXCEPT ![t] = r] /\ pc' = [pc EXCEPT ![t] = "insert"]
        /\ store' = store
  BY DEF New, Hold, shared
<1>2. r \notin store /\ Holders(r) = {} /\ store \subseteq live /\ store \subseteq Records
  BY <1>1, UsedIsLive DEF Counted, TypeOK
<1>3. /\ held'[t] = r /\ pc'[t] = "insert" /\ key'[r] = k /\ source'[r] = s
      /\ \A u \in Threads : u # t => held'[u] = held[u] /\ pc'[u] = pc[u]
      /\ \A q \in Records : q # r => key'[q] = key[q] /\ source'[q] = source[q]
  BY <1>1 DEF Counted, TypeOK
<1>4. pc[t] = "idle" /\ (phase # "run" => t = Main)
  BY DEF MayRun
<1>5. ArgvWins'
  BY <1>1, <1>2, <1>3 DEF ArgvWins, Reading
<1>6. Reading'
  <2> SUFFICES ASSUME phase # "run"
               PROVE  /\ \A u \in Threads \ {Main} : pc'[u] = "idle"
                      /\ phase = "argv" => \A q \in live' : source'[q] # "file"
                      /\ \A j \in given' :
                           \/ \E q \in store' : key'[q] = j
                           \/ pc'[Main] = "insert" /\ key'[held'[Main]] = j
    BY DEF Reading
  <2>1. \A u \in Threads \ {Main} : pc'[u] = "idle"
    BY <1>3, <1>4 DEF Reading
  <2>2. phase = "argv" => \A q \in live' : source'[q] # "file"
    BY <1>1, <1>3 DEF Reading, Counted, TypeOK
  <2>3. \A j \in given : \E q \in store' : key'[q] = j
    BY <1>1, <1>2, <1>3, <1>4 DEF Reading
  <2> QED BY <1>3, <1>4, <2>1, <2>2, <2>3
<1>7. FileYields'
  <2> SUFFICES ASSUME NEW u \in Threads, pc'[u] = "insert", source'[held'[u]] = "file"
               PROVE  key'[held'[u]] \notin given'
    BY DEF FileYields
  <2>1. CASE u = t
    BY <1>3, <2>1
  <2>2. CASE u # t
    <3>1. held'[u] = held[u] /\ pc[u] = "insert" BY <1>3, <2>2
    <3>2. held[u] \in Records /\ held[u] # r
      BY <1>2, <3>1 DEF Counted, PointerHeld, TypeOK, Holders
    <3>3. phase = "run" BY <3>1, <2>2, <1>4 DEF Reading
    <3>4. given' = given BY <3>3
    <3> QED BY <1>3, <3>1, <3>2, <3>4 DEF FileYields
  <2> QED BY <2>1, <2>2
<1> QED BY <1>5, <1>6, <1>7

(* Storing a record keeps the order: it replaces one of the same key.      *)
LEMMA InsertPrioritised ==
    ASSUME Counted, Prioritised, NEW t \in Threads, Insert(t)
    PROVE  Prioritised'
<1> USE DEF Prioritised
<1> DEFINE n == held[t]
<1>1. /\ pc[t] = "insert" /\ store' = (store \ Found(key[n])) \cup {n}
      /\ held' = [held EXCEPT ![t] = None] /\ pc' = [pc EXCEPT ![t] = "idle"]
      /\ UNCHANGED <<key, source, phase, given>>
  BY DEF Insert, Hold, reading
<1>2. live' \subseteq live
  BY DEF Insert, Release
<1>3. /\ pc'[t] = "idle"
      /\ \A u \in Threads : u # t => held'[u] = held[u] /\ pc'[u] = pc[u]
  BY <1>1 DEF Counted, TypeOK
<1>4. phase # "run" => t = Main
  BY <1>1, OnlyMainReads
<1>5. ArgvWins'
  BY <1>1 DEF ArgvWins, FileYields
<1>6. Reading'
  <2>1. \A q \in store : key[q] = key[n] \/ q \in store'
    BY <1>1 DEF Found
  <2>2. n \in store' BY <1>1
  <2> HIDE DEF n
  <2>3. \A j \in given : (\E q \in store : key[q] = j) => \E q \in store' : key[q] = j
    BY <2>1, <2>2
  <2>4. phase # "run" => \A j \in given : \E q \in store' : key[q] = j
    BY <1>4, <2>2, <2>3 DEF Reading, n
  <2> QED BY <1>1, <1>2, <1>3, <2>4 DEF Reading
<1>7. FileYields'
  <2> SUFFICES ASSUME NEW u \in Threads, pc'[u] = "insert", source[held'[u]] = "file"
               PROVE  key[held'[u]] \notin given
    BY <1>1 DEF FileYields
  <2>1. u # t /\ held'[u] = held[u] /\ pc[u] = "insert"
    BY <1>3
  <2> QED BY <2>1 DEF FileYields
<1> QED BY <1>5, <1>6, <1>7

(* A thread that stops using a record, or starts to, changes no order; nor *)
(* does taking records out of the store when everything has been read.     *)
LEMMA OtherPrioritised ==
    ASSUME Counted, Prioritised, NEW t \in Threads,
           pc[t] # "idle" \/ MayRun(t), pc[t] # "insert",
           live' \subseteq live, store' \subseteq store,
           store' = store \/ phase = "run",
           UNCHANGED <<key, source, reading>>,
           NEW x, NEW label \in {"idle", "using", "unlock"},
           held' = [held EXCEPT ![t] = x], pc' = [pc EXCEPT ![t] = label]
    PROVE  Prioritised'
<1> USE DEF Prioritised
<1>1. /\ pc'[t] = label
      /\ \A u \in Threads : u # t => held'[u] = held[u] /\ pc'[u] = pc[u]
      /\ UNCHANGED <<phase, given>>
  BY DEF Counted, TypeOK, reading
<1>2. phase # "run" => t = Main
  BY OnlyMainReads
<1>3. ArgvWins'
  BY <1>1 DEF ArgvWins
<1>4. FileYields'
  BY <1>1 DEF FileYields
<1>5. Reading'
  <2>1. phase # "run" => \A k \in given : \E r \in store : key[r] = k
    BY <1>2 DEF Reading
  <2> QED BY <1>1, <1>2, <2>1 DEF Reading
<1> QED BY <1>3, <1>4, <1>5

(* No step lets the file win over the command line.                        *)
LEMMA NextPrioritised ==
    ASSUME Counted, Prioritised, [Next]_vars PROVE Prioritised'
<1>1. pc \in [Threads -> {"idle", "insert", "using", "unlock"}]
      /\ held \in [Threads -> Records \cup {None}]
  BY DEF Counted, TypeOK
<1>2. ASSUME NEW t \in Threads, Insert(t) PROVE Prioritised'
  BY <1>2, InsertPrioritised
<1>3. ASSUME NEW t \in Threads, Flush(t) \/ (\E k \in Keys : Drop(t, k)) PROVE Prioritised'
  <2>1. /\ live' \subseteq live /\ store' \subseteq store /\ phase = "run"
        /\ MayRun(t) /\ pc[t] = "idle"
        /\ UNCHANGED <<key, source, reading, held, pc>>
    BY <1>3 DEF Flush, Drop, Release, MayRun
  <2>2. held' = [held EXCEPT ![t] = held[t]] /\ pc' = [pc EXCEPT ![t] = "idle"]
    BY <1>1, <2>1
  <2> QED BY <2>1, <2>2, OtherPrioritised
<1>4. ASSUME NEW t \in Threads, RecordPut(t) PROVE Prioritised'
  <2>1. /\ pc[t] = "using" /\ live' \subseteq live /\ store' = store
        /\ UNCHANGED <<key, source, reading>>
        /\ held' = held /\ pc' = [pc EXCEPT ![t] = "unlock"]
    BY <1>4 DEF RecordPut, Release, shared
  <2>2. held' = [held EXCEPT ![t] = held[t]]
    BY <1>1, <2>1
  <2> QED BY <2>1, <2>2, OtherPrioritised
<1>5. ASSUME NEW t \in Threads, Unlock(t) PROVE Prioritised'
  BY <1>5, OtherPrioritised DEF Unlock, Hold, records, shared
<1>6. ASSUME NEW t \in Threads, NEW k \in Keys, Store(t, k) PROVE Prioritised'
  BY <1>6, NewPrioritised DEF Store, MayRun, Sources, reading
<1>7. ASSUME NEW t \in Threads, NEW k \in Keys, Lookup(t, k) PROVE Prioritised'
  <2>1. PICK r \in Found(k) : Hold(t, r, "using") BY <1>7 DEF Lookup
  <2> QED BY <1>7, <2>1, OtherPrioritised DEF Lookup, Hold, shared, MayRun
<1>8. ASSUME NEW t \in Threads, NEW u \in Threads, RecordGet(t, u) PROVE Prioritised'
  <2>1. MayRun(u) BY <1>8 DEF RecordGet, MayRun
  <2> QED BY <1>8, <2>1, OtherPrioritised DEF RecordGet, Hold, shared
<1>9. ASSUME NEW k \in Keys, ReadArgv(k) PROVE Prioritised'
  BY <1>9, NewPrioritised, ConfAssumption DEF ConfAssumption, ReadArgv, Sources
<1>10. ASSUME NEW k \in Keys, ReadFile(k) PROVE Prioritised'
  <2>1. /\ Main \in Threads /\ MayRun(Main) /\ pc[Main] = "idle" /\ phase = "file"
        /\ UNCHANGED <<phase, given>>
    BY <1>10, ConfAssumption DEF ConfAssumption, ReadFile, MayRun, reading
  <2>2. CASE Found(k) = {}
    <3>1. k \notin given BY <2>1, <2>2 DEF Prioritised, Reading, Found
    <3> QED BY <1>10, <2>1, <2>2, <3>1, NewPrioritised DEF ReadFile, Sources
  <2>3. CASE Found(k) # {}
    <3>1. PICK r \in Found(k) : Hold(Main, r, "using")
            /\ UNCHANGED <<live, key, source, shared, lock>>
      BY <1>10, <2>3 DEF ReadFile
    <3> QED BY <2>1, <3>1, OtherPrioritised DEF Hold, shared, reading
  <2> QED BY <2>2, <2>3
<1>11. CASE NextPhase
  <2>1. /\ UNCHANGED <<live, key, source, store, held, pc, given>>
        /\ phase # "run" /\ phase' \in {"file", "run"} /\ pc[Main] = "idle"
    BY <1>11 DEF NextPhase, MayRun, records, shared
  <2> QED BY <2>1 DEF Prioritised, Reading, FileYields, ArgvWins
<1>12. CASE UNCHANGED vars
  BY <1>12 DEF vars, records, shared, reading, Prioritised, Reading, FileYields, ArgvWins
<1> QED BY <1>2, <1>3, <1>4, <1>5, <1>6, <1>7, <1>8, <1>9, <1>10, <1>11, <1>12 DEF Next

-----------------------------------------------------------------------------
(* The theorems.                                                           *)

(* The invariant that the counters and the priorities rest on: it holds    *)
(* initially and no step breaks it (conf.c, conf_argv.c, conf_file.c).     *)
THEOREM Inductive == Spec => []IInv
<1>1. Init => IInv
  BY InitCounted, InitPrioritised DEF IInv
<1>2. IInv /\ [Next]_vars => IInv'
  BY NextCounted, NextPrioritised DEF IInv
<1> QED BY <1>1, <1>2, PTL DEF Spec

(* Every variable of the configuration keeps its type; so conf.c's own     *)
(* assertions cr_ref > 0 and cr_ref == 0 hold where they stand.            *)
THEOREM TypeCorrect == Spec => []TypeOK
<1>1. IInv => TypeOK BY DEF IInv, Counted
<1> QED BY <1>1, Inductive, PTL

(* cr_ref is exactly the number of a record's users, through every lookup, *)
(* get, put, store, drop and flush (conf.c:56-202).                        *)
THEOREM CountersAreExact == Spec => []RefCounts
<1>1. IInv => RefCounts BY DEF IInv, Counted
<1> QED BY <1>1, Inductive, PTL

(* A record is freed when, and not before, it has no user (conf.h:75-76).  *)
THEOREM RecordsLiveWhileUsed == Spec => []FreedWhenUnused
<1>1. IInv => FreedWhenUnused
  <2> SUFFICES ASSUME IInv, NEW r \in Records
               PROVE  r \in live <=> r \in store \/ Holders(r) # {}
    BY DEF FreedWhenUnused
  <2> QED BY UsedIsLive, HoldersAreThreads
          DEF IInv, Counted, LiveCounted, RefCounts, TypeOK
<1> QED BY <1>1, Inductive, PTL

(* Storing a key replaces its record, whoever stores it (conf.h:79-82).    *)
THEOREM KeysAreUnique == Spec => []UniqueKeys
<1>1. IInv => UniqueKeys BY DEF IInv, Counted
<1> QED BY <1>1, Inductive, PTL

(* What the command line has set is never replaced from the file, though   *)
(* the file is read after it (conf.h:53-59, conf_file.c:75-93).            *)
THEOREM CommandLineWins == Spec => []ArgvWins
<1>1. IInv => ArgvWins BY DEF IInv, Prioritised
<1> QED BY <1>1, Inductive, PTL

(* No step changes the store and leaves its generation, or turns it back.  *)
LEMMA NextGrows == ASSUME TypeOK, [Next]_vars PROVE store' # store => gen' > gen
<1> SUFFICES store' = store \/ gen' = gen + 1
  BY DEF TypeOK
<1>1. ASSUME NEW t \in Threads, Insert(t) \/ Flush(t) \/ (\E k \in Keys : Drop(t, k))
      PROVE  gen' = gen + 1
  BY <1>1 DEF Insert, Flush, Drop
<1>2. ASSUME NEW t \in Threads, RecordPut(t) \/ Unlock(t)
      PROVE  store' = store
  BY <1>2 DEF RecordPut, Unlock, shared
<1>3. ASSUME NEW t \in Threads, NEW k \in Keys, Store(t, k) \/ Lookup(t, k)
      PROVE  store' = store
  BY <1>3 DEF Store, New, Lookup, shared
<1>4. ASSUME NEW t \in Threads, NEW u \in Threads, RecordGet(t, u)
      PROVE  store' = store
  BY <1>4 DEF RecordGet, shared
<1>5. ASSUME NEW k \in Keys, ReadArgv(k) \/ ReadFile(k)
      PROVE  store' = store
  BY <1>5 DEF ReadArgv, ReadFile, New, shared
<1>6. CASE NextPhase \/ UNCHANGED vars
  BY <1>6 DEF NextPhase, vars, shared
<1> QED BY <1>1, <1>2, <1>3, <1>4, <1>5, <1>6 DEF Next

(* Who keeps the generation sees every change to the store (conf.h:89-90). *)
THEOREM GenerationGrows == Spec => GenGrows
<1>1. IInv => TypeOK BY DEF IInv, Counted
<1>2. TypeOK /\ [Next]_vars => [store' # store => gen' > gen]_vars BY NextGrows
<1> QED BY <1>1, <1>2, Inductive, PTL DEF Spec, GenGrows
=============================================================================
