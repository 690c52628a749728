------------------------------ MODULE Program ------------------------------
(***************************************************************************)
(* The life of the process (pppoat.c): main() installs the signal handler, *)
(* builds and runs the two modules, waits for a signal and takes everything*)
(* down again.  With it go the pppd child of module pppd and the worker    *)
(* thread of module http, the two things a signal can disturb.  What the   *)
(* pipeline's threads do in between is in module Pipeline.                 *)
(*                                                                         *)
(* What the modules do in their operations is in module Modules, which     *)
(* refines this one.                                                       *)
(***************************************************************************)
EXTENDS Naturals

CONSTANTS
    Interfaces,     \* the names of the interface modules
    Transports,     \* the names of the transport modules
    MaxSignals      \* bound: how many signals arrive

ASSUME ProgramAssumption == MaxSignals \in Nat

Signals == {"SIGTERM", "SIGINT"}
Modules == {"if_mod", "tp_mod"}

VARIABLES
    pc,         \* where main() is
    iface, tp,  \* the modules that main() has found by their names
    sem,        \* the value of exit_sem
    live,       \* is exit_sem initialised
    handled,    \* the signals that pppoat_sighandler() handles
    linked,     \* the modules in the pipeline's list
    alloc,      \* the modules whose memory is allocated
    worker,     \* the thread of module http
    child,      \* the child process of module pppd
    nsignals    \* signals so far

semVars == <<sem, live, handled, nsignals>>
modVars == <<iface, tp, linked, alloc, worker, child>>
vars == <<pc, semVars, modVars>>

Pppd == iface = "pppd"
Http == tp = "http"

Ended == {"exited", "killed", "aborted"}

Step(from, to) == pc = from /\ pc' = to

-----------------------------------------------------------------------------
(* main(), up to its wait for a signal.                                    *)

SemInit ==
    /\ Step("start", "sigterm")
    /\ live' = TRUE
    /\ UNCHANGED <<sem, handled, nsignals, modVars>>

HandleTerm ==
    /\ Step("sigterm", "sigint")
    /\ handled' = handled \cup {"SIGTERM"}
    /\ UNCHANGED <<sem, live, nsignals, modVars>>

HandleInt ==
    /\ Step("sigint", "conf")
    /\ handled' = handled \cup {"SIGINT"}
    /\ UNCHANGED <<sem, live, nsignals, modVars>>

(* With help, list or a bad configuration main() goes to its exit.         *)
ReadConf ==
    /\ \/ Step("conf", "build") /\ iface' \in Interfaces /\ tp' \in Transports
       \/ Step("conf", "flush") /\ UNCHANGED <<iface, tp>>
    /\ UNCHANGED <<semVars, linked, alloc, worker, child>>

Build ==
    /\ Step("build", "run_if")
    /\ alloc' = Modules /\ linked' = Modules
    /\ UNCHANGED <<semVars, iface, tp, worker, child>>

RunIf ==
    /\ Step("run_if", "run_tp")
    /\ child' = IF Pppd THEN "forked" ELSE child
    /\ UNCHANGED <<semVars, iface, tp, linked, alloc, worker>>

(* tp_http_run() waits for the peer in accept() or connect().              *)
RunTp ==
    /\ Step("run_tp", IF Http THEN "connecting" ELSE "pipeline")
    /\ UNCHANGED <<semVars, modVars>>

Connected ==
    /\ Step("connecting", "pipeline")
    /\ worker' = "polling"
    /\ UNCHANGED <<semVars, iface, tp, linked, alloc, child>>

(* No memory, no device, no peer: main() asserts that these calls succeed. *)
CallFails ==
    /\ pc \in {"build", "run_if", "run_tp", "connecting"}
    /\ pc' = "aborted"
    /\ UNCHANGED <<semVars, modVars>>

StartPipeline ==
    /\ Step("pipeline", "wait")
    /\ UNCHANGED <<semVars, modVars>>

WaitReturns ==                          \* mutant: takes an exit_sem that is 0
    /\ Step("wait", "stop")
    /\ sem' = sem - 1
    /\ UNCHANGED <<live, handled, nsignals, modVars>>

Wait ==
    /\ sem > 0
    /\ Step("wait", "stop")
    /\ sem' = sem - 1
    /\ UNCHANGED <<live, handled, nsignals, modVars>>

-----------------------------------------------------------------------------
(* Finalisation.                                                           *)

StopPipeline ==
    /\ Step("stop", "stop_if")
    /\ UNCHANGED <<semVars, modVars>>

StopIfSilently ==                       \* mutant: does not kill() the child
    /\ Step("stop_if", IF Pppd THEN "waitpid" ELSE "stop_tp")
    /\ UNCHANGED <<semVars, modVars>>

StopIfAndGo ==                          \* mutant: no waitpid()
    /\ Step("stop_if", "stop_tp")
    /\ child' = IF child = "pppd" THEN "terminated" ELSE child
    /\ UNCHANGED <<semVars, iface, tp, linked, alloc, worker>>

(* if_pppd_stop() sends SIGTERM.  Before its execl() the child still has   *)
(* the handler of main(), which posts the child's copy of exit_sem.        *)
StopIf ==
    /\ Step("stop_if", IF Pppd THEN "waitpid" ELSE "stop_tp")
    /\ child' = IF child = "pppd" THEN "terminated" ELSE child
    /\ UNCHANGED <<semVars, iface, tp, linked, alloc, worker>>

WaitPid ==
    /\ child = "zombie"
    /\ Step("waitpid", "stop_tp")
    /\ child' = "reaped"
    /\ UNCHANGED <<semVars, iface, tp, linked, alloc, worker>>

StopTp ==
    /\ Step("stop_tp", "free")
    /\ worker' = IF worker = "polling" THEN "ended" ELSE worker
    /\ UNCHANGED <<semVars, iface, tp, linked, alloc, child>>

Free ==
    /\ Step("free", "flush")
    /\ alloc' = {}
    /\ UNCHANGED <<semVars, iface, tp, linked, worker, child>>

FlushFinishesSem ==                     \* mutant: exit_sem goes first
    /\ Step("flush", "default_term")
    /\ linked' = {} /\ live' = FALSE
    /\ UNCHANGED <<sem, handled, nsignals, iface, tp, alloc, worker, child>>

(* pppoat_cleanup() finalises the pipeline first, and so its list.         *)
Flush ==
    /\ Step("flush", "default_term")
    /\ linked' = {}
    /\ UNCHANGED <<semVars, iface, tp, alloc, worker, child>>

DefaultTerm ==
    /\ Step("default_term", "default_int")
    /\ handled' = handled \ {"SIGTERM"}
    /\ UNCHANGED <<sem, live, nsignals, modVars>>

DefaultInt ==
    /\ Step("default_int", "sem_fini")
    /\ handled' = handled \ {"SIGINT"}
    /\ UNCHANGED <<sem, live, nsignals, modVars>>

SemFini ==
    /\ Step("sem_fini", "exited")
    /\ live' = FALSE
    /\ UNCHANGED <<sem, handled, nsignals, modVars>>

-----------------------------------------------------------------------------
(* Signals.  Without SA_RESTART a system call that the handler interrupts  *)
(* fails with EINTR.  Most are repeated, in sem.c, io.c and if_pppd.c.     *)

Kill(s) ==
    /\ s \notin handled
    /\ pc' = "killed" /\ UNCHANGED sem

(* The calls that are not repeated: accept() or connect() in main(), poll()*)
(* in the worker.  An assertion fails if they return with EINTR.           *)
Interruptible == pc = "connecting" \/ worker = "polling"

(* One of the threads runs the handler.                                    *)
Handle(s) ==
    /\ s \in handled
    /\ sem' = sem + 1
    /\ \/ UNCHANGED pc
       \/ Interruptible /\ pc' = "aborted"

Signal(s) ==
    /\ pc \notin Ended
    /\ nsignals < MaxSignals /\ nsignals' = nsignals + 1
    /\ Kill(s) \/ Handle(s)
    /\ UNCHANGED <<live, handled, modVars>>

(* The child executes pppd, or fails to and exits.                         *)
Exec ==
    /\ child = "forked"
    /\ child' \in {"pppd", "zombie"}
    /\ UNCHANGED <<pc, semVars, iface, tp, linked, alloc, worker>>

PppdExits ==
    /\ child \in {"pppd", "terminated"}
    /\ child' = "zombie"
    /\ UNCHANGED <<pc, semVars, iface, tp, linked, alloc, worker>>

-----------------------------------------------------------------------------
Init ==
    /\ pc = "start" /\ sem = 0 /\ live = FALSE
    /\ handled = {} /\ nsignals = 0
    /\ iface = "none" /\ tp = "none"
    /\ linked = {} /\ alloc = {}
    /\ worker = "none" /\ child = "none"

MainStep ==
    \/ SemInit \/ HandleTerm \/ HandleInt \/ ReadConf \/ Build
    \/ RunIf \/ RunTp \/ StartPipeline \/ Wait
    \/ StopPipeline \/ StopIf \/ WaitPid \/ StopTp \/ Free
    \/ Flush \/ DefaultTerm \/ DefaultInt \/ SemFini

Next ==
    \/ MainStep \/ Connected \/ CallFails
    \/ \E s \in Signals : Signal(s)
    \/ Exec \/ PppdExits

Spec == Init /\ [][Next]_vars

(* main() runs, and pppd obeys SIGTERM; the peer may never connect.        *)
FairSpec ==
    /\ Spec
    /\ WF_vars(MainStep)
    /\ WF_vars(PppdExits /\ child = "terminated")

-----------------------------------------------------------------------------
(* Properties.                                                             *)

(* Every variable keeps its type; exit_sem is never taken below 0.         *)
TypeOK ==
    /\ pc \in Ended \cup
          {"start", "sigterm", "sigint", "conf", "build", "run_if", "run_tp",
           "connecting", "pipeline", "wait", "stop", "stop_if", "waitpid",
           "stop_tp", "free", "flush", "default_term", "default_int", "sem_fini"}
    /\ sem \in Nat /\ live \in BOOLEAN
    /\ handled \subseteq Signals
    /\ iface \in Interfaces \cup {"none"} /\ tp \in Transports \cup {"none"}
    /\ linked \subseteq Modules /\ alloc \subseteq Modules
    /\ worker \in {"none", "polling", "ended"}
    /\ child \in {"none", "forked", "pppd", "terminated", "zombie", "reaped"}
    /\ nsignals \in Nat

(* A signal may arrive between any two steps of main(): while the handler  *)
(* is installed exit_sem must be there (line 185 of pppoat.c: "Restore     *)
(* default handlers before finalising the semaphore.").                    *)
PostsLiveSemaphore == handled # {} => live

(* A program that exits has no pppd process left, wherever the signal and  *)
(* the child's own end have caught it.                                     *)
ChildIsReaped == pc = "exited" => child \in {"none", "reaped"}

(* A program that waits ends after a signal, even one that came before the *)
(* wait, provided that pppd is running by then.                            *)
EndsOnSignal ==
    pc \in {"pipeline", "wait"} /\ sem > 0 /\ child # "forked" ~> pc \in Ended

(* The assertion of list_link2obj(), line 86 of list.c, reads the object:  *)
(* when the pipeline's list is flushed, what is linked in it must still be *)
(* allocated.                                                              *)
FlushesLiveModules == pc = "flush" => linked \subseteq alloc
=============================================================================
