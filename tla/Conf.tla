-------------------------------- MODULE Conf --------------------------------
(***************************************************************************)
(* The configuration: a store of reference-counted records (conf.c), filled*)
(* by main() from the command line (conf_argv.c) and then from a file      *)
(* (conf_file.c), and used by any number of threads after that.            *)
(*                                                                         *)
(* A critical section of c_lock is one action, with one exception:         *)
(* pppoat_conf_record_put() finds the lock to release through the record,  *)
(* which it may just have freed.  Parsing is left out: the sources give a  *)
(* key, and a record remembers which source its value is from.             *)
(***************************************************************************)
EXTENDS Naturals, FiniteSets

CONSTANTS
    Records,   \* addresses of the records the heap has room for
    Keys,      \* configuration keys
    Threads,   \* threads of the program
    Main,      \* the thread that reads the command line and the file
    None,      \* NULL
    MaxGen     \* bound: changes to the store

ASSUME ConfAssumption ==
    /\ None \notin Records \cup Threads
    /\ IsFiniteSet(Threads) /\ Main \in Threads
    /\ Keys # {} /\ MaxGen \in Nat

Sources == {"argv", "file", "user"}

VARIABLES
    live,      \* records that are allocated
    key,       \* cr_key
    source,    \* stands for cr_val
    ref,       \* cr_ref
    store,     \* c_store
    storeNr,   \* c_store_nr
    gen,       \* c_gen
    lock,      \* the thread that holds c_lock outside of an action
    held,      \* held[t]: the record that thread t has a pointer to
    pc,        \* where each thread is
    phase,     \* what main() is reading
    given      \* keys that the command line has set

records == <<live, key, source, ref>>
shared == <<store, storeNr, gen>>
reading == <<phase, given>>
vars == <<records, shared, lock, held, pc, reading>>

(* While main() reads its sources there is no other thread (conf.h:63-65). *)
MayRun(t) == pc[t] = "idle" /\ (phase = "run" \/ t = Main)

Hold(t, r, label) ==
    /\ held' = [held EXCEPT ![t] = r]
    /\ pc' = [pc EXCEPT ![t] = label]

(* conf_record_put_locked(): the last reference frees the record.          *)
Release(r) ==
    /\ ref' = [ref EXCEPT ![r] = @ - 1]
    /\ live' = IF ref[r] = 1 THEN live \ {r} ELSE live

-----------------------------------------------------------------------------
(* conf_record_new(), before the lock is taken.                            *)
New(t, k, s) ==
    \E r \in Records \ live :
        /\ live' = live \cup {r}
        /\ key' = [key EXCEPT ![r] = k]
        /\ source' = [source EXCEPT ![r] = s]
        /\ ref' = [ref EXCEPT ![r] = 1]
        /\ Hold(t, r, "insert")
        /\ UNCHANGED <<shared, lock>>

Found(k) == {r \in store : key[r] = k}

InsertKeeps(t) ==                       \* mutant: the old record stays
    /\ pc[t] = "insert" /\ lock = None /\ gen < MaxGen
    /\ store' = store \cup {held[t]}
    /\ gen' = gen + 1
    /\ Hold(t, None, "idle")
    /\ UNCHANGED <<records, storeNr, lock, reading>>

InsertPutsOnce(t) ==                    \* mutant: the lookup's reference stays
    /\ pc[t] = "insert" /\ lock = None /\ gen < MaxGen
    /\ store' = (store \ Found(key[held[t]])) \cup {held[t]}
    /\ gen' = gen + 1
    /\ Hold(t, None, "idle")
    /\ UNCHANGED <<records, storeNr, lock, reading>>

(* pppoat_conf_store() under the lock: conf_drop_locked() looks the old    *)
(* record up, which takes a reference, and releases that and the store's.  *)
Insert(t) ==
    LET old == Found(key[held[t]]) IN
    /\ pc[t] = "insert" /\ lock = None /\ gen < MaxGen
    /\ IF old = {} THEN UNCHANGED <<live, ref>> ELSE \E r \in old : Release(r)
    /\ store' = (store \ old) \cup {held[t]}
    /\ gen' = gen + 1
    /\ Hold(t, None, "idle")
    /\ UNCHANGED <<key, source, storeNr, lock, reading>>

Store(t, k) ==
    /\ MayRun(t) /\ phase = "run"
    /\ New(t, k, "user")
    /\ UNCHANGED reading

Drop(t, k) ==
    /\ MayRun(t) /\ phase = "run" /\ lock = None /\ gen < MaxGen
    /\ IF Found(k) = {} THEN UNCHANGED <<live, ref>>
       ELSE \E r \in Found(k) : Release(r)
    /\ store' = store \ Found(k)
    /\ gen' = gen + 1
    /\ UNCHANGED <<key, source, storeNr, lock, held, pc, reading>>

FlushSilently(t) ==                     \* mutant: c_gen is not increased
    /\ MayRun(t) /\ phase = "run" /\ lock = None
    /\ ref' = [r \in Records |-> IF r \in store THEN ref[r] - 1 ELSE ref[r]]
    /\ live' = {r \in live : r \in store => ref[r] # 1}
    /\ store' = {} /\ storeNr' = 0
    /\ UNCHANGED <<key, source, gen, lock, held, pc, reading>>

FlushKeeps(t) ==                        \* mutant: walks the list, pops nothing
    /\ MayRun(t) /\ phase = "run" /\ lock = None /\ gen < MaxGen
    /\ ref' = [r \in Records |-> IF r \in store THEN ref[r] - 1 ELSE ref[r]]
    /\ live' = {r \in live : r \in store => ref[r] # 1}
    /\ storeNr' = 0 /\ gen' = gen + 1
    /\ UNCHANGED <<key, source, store, lock, held, pc, reading>>

(* pppoat_conf_flush(), also the first thing pppoat_conf_fini() does.      *)
Flush(t) ==
    /\ MayRun(t) /\ phase = "run" /\ lock = None /\ gen < MaxGen
    /\ ref' = [r \in Records |-> IF r \in store THEN ref[r] - 1 ELSE ref[r]]
    /\ live' = {r \in live : r \in store => ref[r] # 1}
    /\ store' = {} /\ storeNr' = 0
    /\ gen' = gen + 1
    /\ UNCHANGED <<key, source, lock, held, pc, reading>>

LookupBorrows(t, k) ==                  \* mutant: no reference is taken
    /\ MayRun(t) /\ phase = "run" /\ lock = None
    /\ \E r \in Found(k) : Hold(t, r, "using")
    /\ UNCHANGED <<records, shared, lock, reading>>

(* A lookup that finds nothing changes nothing.                            *)
Lookup(t, k) ==
    /\ MayRun(t) /\ phase = "run" /\ lock = None
    /\ \E r \in Found(k) :
         /\ ref' = [ref EXCEPT ![r] = @ + 1]
         /\ Hold(t, r, "using")
    /\ UNCHANGED <<live, key, source, shared, lock, reading>>

(* pppoat_conf_record_get(): thread t makes a reference that it hands to u.*)
RecordGet(t, u) ==
    /\ pc[t] = "using" /\ pc[u] = "idle" /\ phase = "run" /\ lock = None
    /\ ref' = [ref EXCEPT ![held[t]] = @ + 1]
    /\ Hold(u, held[t], "using")
    /\ UNCHANGED <<live, key, source, shared, lock, reading>>

RecordPut(t) ==
    /\ pc[t] = "using" /\ lock = None
    /\ Release(held[t])
    /\ pc' = [pc EXCEPT ![t] = "unlock"]
    /\ lock' = t
    /\ UNCHANGED <<key, source, shared, held, reading>>

(* pppoat_mutex_unlock(&r->cr_conf->c_lock): a record that was freed may   *)
(* still be intact, or its memory may hold anything by now.                *)
Unlock(t) ==
    /\ pc[t] = "unlock"
    /\ \/ lock' = None
       \/ held[t] \notin live /\ UNCHANGED lock
    /\ Hold(t, None, "idle")
    /\ UNCHANGED <<records, shared, reading>>

-----------------------------------------------------------------------------
(* main() reads the command line, then the file.                           *)

ReadArgv(k) ==
    /\ phase = "argv" /\ MayRun(Main)
    /\ New(Main, k, "argv")
    /\ given' = given \cup {k}
    /\ UNCHANGED phase

ReadFileAlways(k) ==                    \* mutant: does not look first
    /\ phase = "file" /\ MayRun(Main)
    /\ New(Main, k, "file")
    /\ UNCHANGED reading

(* conf_file_store(): a key that exists already is only looked up.         *)
ReadFile(k) ==
    /\ phase = "file" /\ MayRun(Main) /\ lock = None
    /\ IF Found(k) = {}
       THEN New(Main, k, "file")
       ELSE \E r \in Found(k) :
              /\ ref' = [ref EXCEPT ![r] = @ + 1]
              /\ Hold(Main, r, "using")
              /\ UNCHANGED <<live, key, source, shared, lock>>
    /\ UNCHANGED reading

NextPhase ==
    /\ phase # "run" /\ MayRun(Main)
    /\ phase' = IF phase = "argv" THEN "file" ELSE "run"
    /\ UNCHANGED <<records, shared, lock, held, pc, given>>

-----------------------------------------------------------------------------
Init ==
    /\ live = {} /\ store = {} /\ storeNr = 0 /\ gen = 0
    /\ key = [r \in Records |-> CHOOSE k \in Keys : TRUE]
    /\ source = [r \in Records |-> "user"]
    /\ ref = [r \in Records |-> 0]
    /\ lock = None
    /\ held = [t \in Threads |-> None]
    /\ pc = [t \in Threads |-> "idle"]
    /\ phase = "argv" /\ given = {}

Next ==
    \/ \E t \in Threads :
         \/ Insert(t) \/ Flush(t) \/ RecordPut(t) \/ Unlock(t)
         \/ \E k \in Keys : Store(t, k) \/ Drop(t, k) \/ Lookup(t, k)
         \/ \E u \in Threads : RecordGet(t, u)
    \/ \E k \in Keys : ReadArgv(k) \/ ReadFile(k)
    \/ NextPhase

Spec == Init /\ [][Next]_vars

-----------------------------------------------------------------------------
(* Properties.                                                             *)

(* Every variable keeps its type.                                          *)
TypeOK ==
    /\ live \subseteq Records /\ store \subseteq Records
    /\ key \in [Records -> Keys] /\ source \in [Records -> Sources]
    /\ ref \in [Records -> Nat]
    /\ storeNr \in Nat /\ gen \in Nat
    /\ lock \in Threads \cup {None}
    /\ held \in [Threads -> Records \cup {None}]
    /\ pc \in [Threads -> {"idle", "insert", "using", "unlock"}]
    /\ phase \in {"argv", "file", "run"} /\ given \subseteq Keys

Holders(r) == {t \in Threads : held[t] = r /\ pc[t] # "unlock"}

(* cr_ref is the number of those who may use the record: the store and the *)
(* threads that have looked it up, were handed it or are about to store it.*)
RefCounts ==
    \A r \in Records :
        ref[r] = Cardinality(Holders(r)) + (IF r \in store THEN 1 ELSE 0)

(* conf.h:75-76: "the record is not freed until there is no active user".  *)
(* Nor is it kept when there is none: it is allocated exactly as long as   *)
(* the store or a thread has a use for it.                                 *)
FreedWhenUnused ==
    \A r \in Records : r \in live <=> r \in store \/ Holders(r) # {}

(* conf.h:79-82: storing a key replaces its record, so there is only one.  *)
UniqueKeys == \A r, s \in store : key[r] = key[s] => r = s

(* conf.h:53-59: the command line has priority over the file, although it  *)
(* is read first and storing a key replaces its record.                    *)
ArgvWins ==
    \A r \in store : source[r] = "file" => key[r] \notin given

(* conf.h:89-90: the generation is "increased with every change to the     *)
(* store".                                                                 *)
GenGrows == [][store' # store => gen' > gen]_vars

(* The guarantee of conf.h:75-76 for pppoat_conf_record_put() itself, which*)
(* uses the record last when it releases the lock (conf.c:201).            *)
UnlocksLiveRecord == \A t \in Threads : pc[t] = "unlock" => held[t] \in live
=============================================================================
