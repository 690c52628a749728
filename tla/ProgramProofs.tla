--------------------------- MODULE ProgramProofs ---------------------------
(***************************************************************************)
(* Proofs about the life of the process, for any number of signals and each*)
(* choice of modules; and that the operations of the modules, in module    *)
(* Modules, implement the steps that module Program gives them, so that    *)
(* what is proved here holds with all their failures as well.  At the end, *)
(* that the operations give back what they take, and not before the last   *)
(* thread that uses it has stopped.                                        *)
(***************************************************************************)
EXTENDS Modules, TLAPS

(* exit_sem is there while main() runs, and no handler is installed before *)
(* it is or after the default actions were restored.                       *)
SemaphoreAndHandlers ==
    /\ pc \notin Ended \cup {"start"} => live
    /\ pc \in {"start", "sigterm", "sem_fini", "exited"} => handled = {}
    /\ pc = "default_int" => handled \subseteq {"SIGINT"}
    /\ handled # {} => live

(* The child exists from the run of module pppd to waitpid().              *)
ChildAndMain ==
    /\ ~Pppd => child = "none"
    /\ pc \in {"start", "sigterm", "sigint", "conf", "build", "run_if"} => child = "none"
    /\ pc \in {"stop_tp", "free", "flush", "default_term", "default_int", "sem_fini",
               "exited"} => child \in {"none", "reaped"}

IInv == TypeOK /\ SemaphoreAndHandlers /\ ChildAndMain

LEMMA InitIInv == ASSUME Init PROVE IInv
BY ProgramAssumption DEF ProgramAssumption, Init, IInv, TypeOK, SemaphoreAndHandlers,
   ChildAndMain, Ended, Pppd

(* Each step of main() keeps the invariant.                                *)
LEMMA MainIInv == ASSUME IInv, MainStep PROVE IInv'
<1> USE ProgramAssumption DEF ProgramAssumption, IInv, TypeOK, SemaphoreAndHandlers,
        ChildAndMain, Ended, Step, semVars, modVars, Signals, Modules, Pppd, Http
<1>1. CASE SemInit
  BY <1>1 DEF SemInit
<1>2. CASE HandleTerm
  BY <1>2 DEF HandleTerm
<1>3. CASE HandleInt
  BY <1>3 DEF HandleInt
<1>4. CASE ReadConf
  BY <1>4 DEF ReadConf
<1>5. CASE Build
  BY <1>5 DEF Build
<1>6. CASE RunIf
  BY <1>6 DEF RunIf
<1>7. CASE RunTp
  BY <1>7 DEF RunTp
<1>8. CASE StartPipeline
  BY <1>8 DEF StartPipeline
<1>9. CASE Wait
  BY <1>9 DEF Wait
<1>10. CASE StopPipeline
  BY <1>10 DEF StopPipeline
<1>11. CASE StopIf
  BY <1>11 DEF StopIf
<1>12. CASE WaitPid
  BY <1>12 DEF WaitPid
<1>13. CASE StopTp
  BY <1>13 DEF StopTp
<1>14. CASE Free
  BY <1>14 DEF Free
<1>15. CASE Flush
  BY <1>15 DEF Flush
<1>16. CASE DefaultTerm
  BY <1>16 DEF DefaultTerm
<1>17. CASE DefaultInt
  BY <1>17 DEF DefaultInt
<1>18. CASE SemFini
  BY <1>18 DEF SemFini
<1> QED
  BY <1>1, <1>2, <1>3, <1>4, <1>5, <1>6, <1>7, <1>8, <1>9, <1>10, <1>11, <1>12, <1>13, <1>14, <1>15, <1>16, <1>17, <1>18 DEF MainStep

(* So do signals and whatever happens to the child.                        *)
LEMMA OtherIInv ==
    ASSUME IInv,
           \/ Connected \/ CallFails \/ Exec \/ PppdExits \/ UNCHANGED vars
           \/ \E s \in Signals : Signal(s)
    PROVE  IInv'
<1> USE DEF IInv, TypeOK, SemaphoreAndHandlers, ChildAndMain, Ended, semVars, modVars,
        Pppd
<1>1. CASE Connected BY <1>1 DEF Connected, Step
<1>7. CASE CallFails BY <1>7 DEF CallFails
<1>2. CASE Exec BY <1>2 DEF Exec
<1>3. CASE PppdExits BY <1>3 DEF PppdExits
<1>4. ASSUME NEW s \in Signals, Signal(s), Kill(s) PROVE IInv'
  BY <1>4 DEF Signal, Kill
<1>5. ASSUME NEW s \in Signals, Signal(s), Handle(s) PROVE IInv'
  BY <1>5 DEF Signal, Handle, Interruptible
<1>6. CASE UNCHANGED vars BY <1>6 DEF vars
<1> QED BY <1>1, <1>2, <1>3, <1>4, <1>5, <1>6, <1>7 DEF Signal

(* The invariant holds throughout.                                         *)
THEOREM Inductive == Spec => []IInv
<1>1. Init => IInv BY InitIInv
<1>2. IInv /\ [Next]_vars => IInv' BY MainIInv, OtherIInv DEF Next
<1> QED BY <1>1, <1>2, PTL DEF Spec

(* Every variable keeps its type; exit_sem is never taken below 0.         *)
THEOREM TypeCorrect == Spec => []TypeOK
<1>1. IInv => TypeOK BY DEF IInv
<1> QED BY <1>1, Inductive, PTL

(* Wherever signals arrive, the handler finds exit_sem initialised.        *)
THEOREM SemaphoreIsLive == Spec => []PostsLiveSemaphore
<1>1. IInv => PostsLiveSemaphore BY DEF IInv, SemaphoreAndHandlers, PostsLiveSemaphore
<1> QED BY <1>1, Inductive, PTL

(* A program that exits has waited for its pppd.                           *)
THEOREM ChildrenAreReaped == Spec => []ChildIsReaped
<1>1. IInv => ChildIsReaped BY DEF IInv, ChildAndMain, ChildIsReaped
<1> QED BY <1>1, Inductive, PTL

-----------------------------------------------------------------------------
(* Running an operation of a module is a step of main() or none.           *)
LEMMA OperationRefines ==
    ASSUME \/ Succeed \/ Fail \/ Return \/ GoToHttp
           \/ Reap \/ Join \/ Close \/ FreeModules
    PROVE  [Next]_vars
<1>1. CASE Succeed BY <1>1 DEF Succeed
<1>2. CASE Fail BY <1>2 DEF Fail, Next
<1>3. CASE Return BY <1>3 DEF Return, Next, MainStep
<1>4. CASE GoToHttp BY <1>4 DEF GoToHttp, Next, MainStep
<1>5. CASE Reap BY <1>5 DEF Reap, Next, MainStep
<1>6. CASE Join BY <1>6 DEF Join
<1>7. CASE Close BY <1>7 DEF Close, Next, MainStep
<1>8. CASE FreeModules BY <1>8 DEF FreeModules, Next, MainStep
<1> QED BY <1>1, <1>2, <1>3, <1>4, <1>5, <1>6, <1>7, <1>8

(* So is every other step.                                                 *)
LEMMA StepRefines == ASSUME [ModNext]_allVars PROVE [Next]_vars
<1>1. CASE Elsewhere BY <1>1 DEF Elsewhere, Next, MainStep
<1>2. ASSUME NEW s \in Signals, Interrupt(s) PROVE [Next]_vars
  BY <1>2 DEF Interrupt, Next
<1>3. CASE (Exec \/ PppdExits) /\ UNCHANGED <<server, resVars>> BY <1>3 DEF Next
<1>4. CASE UNCHANGED allVars BY <1>4 DEF allVars
<1> QED BY <1>1, <1>2, <1>3, <1>4, OperationRefines DEF ModNext, Main

(* The modules' operations, with their failures and the signals that       *)
(* interrupt them, implement the life of the process.                      *)
THEOREM ModulesImplementProgram == ModSpec => Spec
<1>1. ModInit => Init BY DEF ModInit
<1>2. [ModNext]_allVars => [Next]_vars BY StepRefines
<1> QED BY <1>1, <1>2, PTL DEF ModSpec, Spec

-----------------------------------------------------------------------------
(* Sequences that are put together of parts.                               *)
LEMMA ThreeJoined ==
    ASSUME NEW a, NEW b, NEW c
    PROVE  <<a>> \o <<b, c>> = <<a, b, c>>
<1> DEFINE z == <<a>> \o <<b, c>>
<1>1. z \in Seq({a, b, c}) /\ Len(z) = 3 OBVIOUS
<1>2. z[1] = a /\ z[2] = b /\ z[3] = c OBVIOUS
<1> HIDE DEF z
<1>3. z = <<a, b, c>> BY <1>1, <1>2
<1> QED BY <1>3 DEF z

LEMMA FourJoined ==
    ASSUME NEW a, NEW b, NEW c, NEW d
    PROVE  (<<a>> \o <<b, c>>) \o <<d>> = <<a, b, c, d>>
<1>1. <<a>> \o <<b, c>> = <<a, b, c>>
  <2> DEFINE z == <<a>> \o <<b, c>>
  <2>1. z \in Seq({a, b, c}) /\ Len(z) = 3 OBVIOUS
  <2>2. z[1] = a /\ z[2] = b /\ z[3] = c OBVIOUS
  <2> HIDE DEF z
  <2>3. z = <<a, b, c>> BY <2>1, <2>2
  <2> QED BY <2>3 DEF z
<1>2. <<a, b, c>> \o <<d>> = <<a, b, c, d>>
  <2> DEFINE z == <<a, b, c>> \o <<d>>
  <2>1. z \in Seq({a, b, c, d}) /\ Len(z) = 4 OBVIOUS
  <2>2. z[1] = a /\ z[2] = b /\ z[3] = c /\ z[4] = d OBVIOUS
  <2> HIDE DEF z
  <2>3. z = <<a, b, c, d>> BY <2>1, <2>2
  <2> QED BY <2>3 DEF z
<1> QED BY <1>1, <1>2

LEMMA SixJoined ==
    ASSUME NEW a, NEW b, NEW c, NEW d, NEW e, NEW f
    PROVE  (<<a>> \o <<b, c, d>>) \o <<e, f>> = <<a, b, c, d, e, f>>
<1>1. <<a>> \o <<b, c, d>> = <<a, b, c, d>>
  <2> DEFINE z == <<a>> \o <<b, c, d>>
  <2>1. z \in Seq({a, b, c, d}) /\ Len(z) = 4 OBVIOUS
  <2>2. z[1] = a /\ z[2] = b /\ z[3] = c /\ z[4] = d OBVIOUS
  <2> HIDE DEF z
  <2>3. z = <<a, b, c, d>> BY <2>1, <2>2
  <2> QED BY <2>3 DEF z
<1>2. <<a, b, c, d>> \o <<e, f>> = <<a, b, c, d, e, f>>
  <2> DEFINE z == <<a, b, c, d>> \o <<e, f>>
  <2>1. z \in Seq({a, b, c, d, e, f}) /\ Len(z) = 6 OBVIOUS
  <2>2. z[1] = a /\ z[2] = b /\ z[3] = c /\ z[4] = d /\ z[5] = e /\ z[6] = f OBVIOUS
  <2> HIDE DEF z
  <2>3. z = <<a, b, c, d, e, f>> BY <2>1, <2>2
  <2> QED BY <2>3 DEF z
<1> QED BY <1>1, <1>2

LEMMA MiddleJoined ==
    ASSUME NEW a, NEW b, NEW c, NEW d, NEW e, NEW f
    PROVE  (<<a>> \o (<<b, c>> \o <<d, e>>)) \o <<f>> = <<a, b, c, d, e, f>>
<1>1. <<b, c>> \o <<d, e>> = <<b, c, d, e>>
  <2> DEFINE z == <<b, c>> \o <<d, e>>
  <2>1. z \in Seq({b, c, d, e}) /\ Len(z) = 4 OBVIOUS
  <2>2. z[1] = b /\ z[2] = c /\ z[3] = d /\ z[4] = e OBVIOUS
  <2> HIDE DEF z
  <2>3. z = <<b, c, d, e>> BY <2>1, <2>2
  <2> QED BY <2>3 DEF z
<1>2. <<a>> \o <<b, c, d, e>> = <<a, b, c, d, e>>
  <2> DEFINE z == <<a>> \o <<b, c, d, e>>
  <2>1. z \in Seq({a, b, c, d, e}) /\ Len(z) = 5 OBVIOUS
  <2>2. z[1] = a /\ z[2] = b /\ z[3] = c /\ z[4] = d /\ z[5] = e OBVIOUS
  <2> HIDE DEF z
  <2>3. z = <<a, b, c, d, e>> BY <2>1, <2>2
  <2> QED BY <2>3 DEF z
<1>3. <<a, b, c, d, e>> \o <<f>> = <<a, b, c, d, e, f>>
  <2> DEFINE z == <<a, b, c, d, e>> \o <<f>>
  <2>1. z \in Seq({a, b, c, d, e, f}) /\ Len(z) = 6 OBVIOUS
  <2>2. z[1] = a /\ z[2] = b /\ z[3] = c /\ z[4] = d /\ z[5] = e /\ z[6] = f OBVIOUS
  <2> HIDE DEF z
  <2>3. z = <<a, b, c, d, e, f>> BY <2>1, <2>2
  <2> QED BY <2>3 DEF z
<1> QED BY <1>1, <1>2, <1>3

-----------------------------------------------------------------------------
(* The tables of what an operation gets.  Its steps concern only r;        *)
TakesOnly(s, r) ==
    \A i \in DOMAIN s : s[i].undo \subseteq r /\ \A g \in s[i].gets : g \subseteq r

(* one that returns an error first gives back what those before it got.    *)
Undoes(s) ==
    \A i \in DOMAIN s : s[i].fails = "returns" =>
        \A j \in 1..(i - 1) : \A g \in s[j].gets : g \subseteq s[i].undo

IsSteps(s) == Len(s) \in Nat /\ DOMAIN s = 1..Len(s)

(* The operations that are put together of parts,                          *)
LEMMA Inits ==
    /\ InitStdio = <<Try({"if_ctx"}, {})>>
    /\ InitTuntap = <<Try({"if_ctx"}, {}), Must({"itc_fd"}), May({"itc_ifname"})>>
    /\ InitUdp = <<Try({"tp_ctx"}, {}), Check({"tp_ctx"}), Try({"uc_dhost"}, {"tp_ctx"}),
                   Resolve("uc_ainfo", {"uc_dhost", "tp_ctx"})>>
    /\ InitXmpp = <<Try({"tp_ctx"}, {}), Remote({"txc_remote"}), Must({"txc_jid"}),
                    Must({"txc_passwd"}), Must({"queues"}), Must({"txc_xmpp_ctx"})>>
<1>1. InitStdio = <<Try({"if_ctx"}, {})>> BY DEF InitStdio
<1>2. InitTuntap = <<Try({"if_ctx"}, {}), Must({"itc_fd"}), May({"itc_ifname"})>>
  BY ThreeJoined, Zenon DEF InitTuntap, OpenTun
<1>3. InitUdp = <<Try({"tp_ctx"}, {}), Check({"tp_ctx"}), Try({"uc_dhost"}, {"tp_ctx"}),
                  Resolve("uc_ainfo", {"uc_dhost", "tp_ctx"})>>
  BY FourJoined, Zenon DEF InitUdp, ParseUdp
<1>4. InitXmpp = <<Try({"tp_ctx"}, {}), Remote({"txc_remote"}), Must({"txc_jid"}),
                   Must({"txc_passwd"}), Must({"queues"}), Must({"txc_xmpp_ctx"})>>
  <2>1. (<<Try({"tp_ctx"}, {})>>
           \o <<Remote({"txc_remote"}), Must({"txc_jid"}), Must({"txc_passwd"})>>)
           \o <<Must({"queues"}), Must({"txc_xmpp_ctx"})>>
        = <<Try({"tp_ctx"}, {}), Remote({"txc_remote"}), Must({"txc_jid"}),
            Must({"txc_passwd"}), Must({"queues"}), Must({"txc_xmpp_ctx"})>>
    BY SixJoined
  <2> QED BY <2>1 DEF InitXmpp, ParseXmpp
<1> QED BY <1>1, <1>2, <1>3, <1>4

(* one of them with more steps on the server.                              *)
LEMMA Runs ==
    RunHttp = IF server
        THEN <<Try({"thc_pipe[0]", "thc_pipe[1]"}, {}), Try({"thc_sock"}, HttpSockets),
               Check(HttpSockets), Try({"thc_conn[0]"}, HttpSockets),
               Try({"thc_conn[1]"}, HttpSockets), Try({"thread"}, HttpSockets)>>
        ELSE <<Try({"thc_pipe[0]", "thc_pipe[1]"}, {}), Try({"thc_conn[0]"}, HttpSockets),
               Try({"thc_conn[1]"}, HttpSockets), Try({"thread"}, HttpSockets)>>
<1>1. CASE server
  <2>1. RunHttp = (<<Try({"thc_pipe[0]", "thc_pipe[1]"}, {})>> \o (Listen \o Connect))
                  \o <<Try({"thread"}, HttpSockets)>>
    BY <1>1 DEF RunHttp
  <2>2. (<<Try({"thc_pipe[0]", "thc_pipe[1]"}, {})>>
           \o (<<Try({"thc_sock"}, HttpSockets), Check(HttpSockets)>>
                \o <<Try({"thc_conn[0]"}, HttpSockets), Try({"thc_conn[1]"}, HttpSockets)>>))
           \o <<Try({"thread"}, HttpSockets)>>
        = <<Try({"thc_pipe[0]", "thc_pipe[1]"}, {}), Try({"thc_sock"}, HttpSockets),
            Check(HttpSockets), Try({"thc_conn[0]"}, HttpSockets),
            Try({"thc_conn[1]"}, HttpSockets), Try({"thread"}, HttpSockets)>>
    BY MiddleJoined
  <2> QED BY <1>1, <2>1, <2>2 DEF Connect, Listen
<1>2. CASE ~server 
  <2>1. RunHttp = (<<Try({"thc_pipe[0]", "thc_pipe[1]"}, {})>> \o Connect)
                  \o <<Try({"thread"}, HttpSockets)>>
    BY <1>2 DEF RunHttp
  <2> QED BY <1>2, <2>1, FourJoined, Zenon DEF Connect
<1> QED BY <1>1, <1>2

(* mop_init() takes what mop_fini() gives back, and undoes what it did.    *)
LEMMA InitSound ==
    ASSUME NEW m \in {"tun", "tap", "stdio", "pppd", "udp", "http", "xmpp"}
    PROVE  LET s == InitSteps(m) IN IsSteps(s) /\ TakesOnly(s, Finished(m)) /\ Undoes(s)
<1> USE DEF InitSteps, Finished, Try, TryIfSet, Check, Must, May, Resolve, Remote
<1>1. CASE m \in {"tun", "tap"}
  <2>1. InitSteps(m) = InitTuntap /\ Finished(m) = FiniTuntap BY <1>1
  <2> DEFINE s == InitSteps(m)
  <2>2. s = <<Try({"if_ctx"}, {}), Must({"itc_fd"}), May({"itc_ifname"})>> BY <2>1, Inits
  <2> HIDE DEF s
  <2>3. IsSteps(s) BY <2>2 DEF IsSteps
  <2>4. TakesOnly(s, Finished(m)) BY <2>1, <2>2 DEF TakesOnly, FiniTuntap
  <2>5. Undoes(s) BY <2>2 DEF Undoes
  <2> QED BY <2>3, <2>4, <2>5 DEF s
<1>2. CASE m = "stdio"
  BY <1>2, Inits DEF FiniStdio, IsSteps, TakesOnly, Undoes
<1>3. CASE m = "pppd"
  BY <1>3, Inits DEF FiniPppd, InitPppd, IsSteps, TakesOnly, Undoes
<1>4. CASE m = "udp"
  BY <1>4, Inits DEF FiniUdp, IsSteps, TakesOnly, Undoes
<1>5. CASE m = "http"
  BY <1>5, Inits DEF FiniHttp, InitHttp, IsSteps, TakesOnly, Undoes
<1>6. CASE m = "xmpp"
  BY <1>6, Inits DEF FiniXmpp, IsSteps, TakesOnly, Undoes
<1> QED BY <1>1, <1>2, <1>3, <1>4, <1>5, <1>6

(* mop_run() takes what mop_stop() gives back, the worker that it joins and*)
(* the addresses that it frees itself;                                     *)
LEMMA RunTpSound ==
    ASSUME NEW m \in {"udp", "http", "xmpp"}
    PROVE  LET s == RunSteps(m)
           IN  IsSteps(s) /\ TakesOnly(s, Stopped(m) \cup {"thread", "ainfo"}) /\ Undoes(s)
<1> USE DEF RunSteps, Stopped, Try, Check, Resolve
<1>1. CASE m = "udp"
  BY <1>1 DEF RunUdp, NewSocket, Bind, IsSteps, TakesOnly, Undoes
<1>2. CASE m = "http"
  <2>1. RunSteps(m) = RunHttp /\ Stopped(m) = HttpSockets BY <1>2
  <2> DEFINE s == RunSteps(m)
  <2>2. s = RunHttp BY <2>1
  <2> HIDE DEF s
  <2>3. IsSteps(s)
    <3>1. CASE server BY <2>2, <3>1, Runs DEF IsSteps
    <3>2. CASE ~server BY <2>2, <3>2, Runs DEF IsSteps
    <3> QED BY <3>1, <3>2
  <2>4. CASE server
    <3>1. TakesOnly(s, HttpSockets \cup {"thread", "ainfo"})
      BY <2>2, <2>4, Runs DEF TakesOnly, HttpSockets
    <3>2. \A j \in 1..5 : \A g \in s[j].gets : g \subseteq HttpSockets
      BY <2>2, <2>4, Runs DEF HttpSockets
    <3>3. \A i \in 2..6 : s[i].undo = HttpSockets BY <2>2, <2>4, Runs
    <3>4. Undoes(s)
      <4>1. DOMAIN s = 1..6 BY <2>2, <2>4, Runs
      <4> QED BY <3>2, <3>3, <4>1 DEF Undoes
    <3> QED BY <3>1, <3>4, <2>3, <2>1 DEF s
  <2>5. CASE ~server
    <3>1. TakesOnly(s, HttpSockets \cup {"thread", "ainfo"})
      BY <2>2, <2>5, Runs DEF TakesOnly, HttpSockets
    <3>2. \A j \in 1..3 : \A g \in s[j].gets : g \subseteq HttpSockets
      BY <2>2, <2>5, Runs DEF HttpSockets
    <3>3. \A i \in 2..4 : s[i].undo = HttpSockets BY <2>2, <2>5, Runs
    <3>4. Undoes(s)
      <4>1. DOMAIN s = 1..4 BY <2>2, <2>5, Runs
      <4> QED BY <3>2, <3>3, <4>1 DEF Undoes
    <3> QED BY <3>1, <3>4, <2>3, <2>1 DEF s
  <2> QED BY <2>4, <2>5
<1>3. CASE m = "xmpp"
  BY <1>3 DEF RunXmpp, IsSteps, TakesOnly, Undoes
<1> QED BY <1>1, <1>2, <1>3

(* that of module pppd takes pipes, and may fail without closing them.     *)
LEMMA RunIfSound ==
    ASSUME NEW m \in {"tun", "tap", "stdio", "pppd"}
    PROVE  LET s == RunSteps(m)
           IN  /\ IsSteps(s)
               /\ TakesOnly(s, PipeEnds \cup {"pipe_rd[1]", "pipe_wr[0]"})
               /\ m = "pppd" \/ Undoes(s)
<1> USE DEF RunSteps, IsSteps, TakesOnly, Undoes
<1>1. CASE m = "pppd" BY <1>1 DEF RunPppd, PipeEnds, Must, Check, Try
<1>2. CASE m \in {"tun", "tap", "stdio"}
  <2>1. RunSteps(m) = <<>> BY <1>2
  <2> QED BY <2>1
<1> QED BY <1>1, <1>2

(* After the first n steps of s the program has x for sure.                *)
Sure(s, n, x) == \E i \in 1..n : \A g \in s[i].gets : x \in g

(* What the threads use is got by steps that get nothing else.             *)
LEMMA InitSure ==
    ASSUME NEW m \in {"tun", "tap"}
    PROVE  Sure(InitSteps(m), Len(InitSteps(m)), "itc_fd")
<1>1. InitSteps(m) = InitTuntap BY DEF InitSteps
<1> DEFINE s == InitSteps(m)
<1>2. s = <<Try({"if_ctx"}, {}), Must({"itc_fd"}), May({"itc_ifname"})>> BY <1>1, Inits
<1> HIDE DEF s
<1>3. Len(s) = 3 /\ s[2].gets = {{"itc_fd"}} BY <1>2 DEF Must
<1>4. Sure(s, Len(s), "itc_fd") BY <1>3 DEF Sure
<1> QED BY <1>4 DEF s

(* Both pipes,                                                             *)
LEMMA RunIfSure ==
    ASSUME NEW x \in PipeEnds
    PROVE  Sure(RunSteps("pppd"), Len(RunSteps("pppd")), x)
<1> DEFINE s == RunSteps("pppd")
<1>1. s = RunPppd BY DEF RunSteps
<1> HIDE DEF s
<1>2. /\ Len(s) = 3
      /\ s[1].gets = {{"pipe_rd[0]", "pipe_rd[1]"}}
      /\ s[2].gets = {{"pipe_wr[0]", "pipe_wr[1]"}}
  BY <1>1 DEF RunPppd, Must
<1>3. Sure(s, Len(s), x) BY <1>2 DEF Sure, PipeEnds
<1> QED BY <1>3 DEF s

(* the socket of module udp,                                               *)
LEMMA RunUdpSure == Sure(RunSteps("udp"), Len(RunSteps("udp")), "uc_sock")
<1> DEFINE s == RunSteps("udp")
<1>1. s = RunUdp BY DEF RunSteps
<1> HIDE DEF s
<1>2. Len(s) = 3 /\ s[2].gets = {{"uc_sock"}}
  BY <1>1 DEF RunUdp, NewSocket, Try
<1>3. Sure(s, Len(s), "uc_sock") BY <1>2 DEF Sure
<1> QED BY <1>3 DEF s

(* The worker starts in the last step.                                     *)
StartsLast(s) ==
    \A i \in DOMAIN s : \A g \in s[i].gets : "thread" \in g => i = Len(s)

(* after the pipe and the connections of module http,                      *)
LEMMA RunHttpSure ==
    LET s == RunSteps("http")
    IN  /\ StartsLast(s)
        /\ \A x \in {"thc_pipe[0]", "thc_conn[0]", "thc_conn[1]"} : Sure(s, Len(s) - 1, x)
        /\ \A i \in DOMAIN s : s[i].fails = "returns"
<1> DEFINE s == RunSteps("http")
<1>1. s = RunHttp BY DEF RunSteps
<1> HIDE DEF s
<1>2. CASE server
  <2>1. /\ Len(s) = 6 /\ DOMAIN s = 1..6
        /\ s[1].gets = {{"thc_pipe[0]", "thc_pipe[1]"}} /\ s[2].gets = {{"thc_sock"}}
        /\ s[3].gets = {{}} /\ s[4].gets = {{"thc_conn[0]"}}
        /\ s[5].gets = {{"thc_conn[1]"}}
    BY <1>1, <1>2, Runs DEF Try, Check
  <2>2. \A i \in DOMAIN s : s[i].fails = "returns"
    BY <1>1, <1>2, Runs DEF Try, Check
  <2>3. StartsLast(s) BY <2>1 DEF StartsLast
  <2>4. \A x \in {"thc_pipe[0]", "thc_conn[0]", "thc_conn[1]"} : Sure(s, Len(s) - 1, x)
    BY <2>1 DEF Sure
  <2> QED BY <2>2, <2>3, <2>4 DEF s
<1>3. CASE ~server
  <2>1. /\ Len(s) = 4 /\ DOMAIN s = 1..4
        /\ s[1].gets = {{"thc_pipe[0]", "thc_pipe[1]"}}
        /\ s[2].gets = {{"thc_conn[0]"}} /\ s[3].gets = {{"thc_conn[1]"}}
    BY <1>1, <1>3, Runs DEF Try, Check
  <2>2. \A i \in DOMAIN s : s[i].fails = "returns"
    BY <1>1, <1>3, Runs DEF Try, Check
  <2>3. StartsLast(s) BY <2>1 DEF StartsLast
  <2>4. \A x \in {"thc_pipe[0]", "thc_conn[0]", "thc_conn[1]"} : Sure(s, Len(s) - 1, x)
    BY <2>1 DEF Sure
  <2> QED BY <2>2, <2>3, <2>4 DEF s
<1> QED BY <1>2, <1>3

(* and after the connection of module xmpp.                                *)
LEMMA RunXmppSure ==
    LET s == RunSteps("xmpp") IN StartsLast(s) /\ Sure(s, Len(s) - 1, "txc_xmpp_conn")
<1> DEFINE s == RunSteps("xmpp")
<1>1. s = RunXmpp BY DEF RunSteps
<1> HIDE DEF s
<1>2. Len(s) = 2 /\ DOMAIN s = 1..2 /\ s[1].gets = {{"txc_xmpp_conn"}}
  BY <1>1 DEF RunXmpp, Try
<1>3. StartsLast(s) BY <1>2 DEF StartsLast
<1>4. Sure(s, Len(s) - 1, "txc_xmpp_conn") BY <1>2 DEF Sure
<1> QED BY <1>3, <1>4 DEF s

-----------------------------------------------------------------------------
(* The account of what the modules have.                                   *)

Ready == {"start", "sigterm", "sigint", "conf"}
Calls == {"build", "run_if", "run_tp", "connecting"}

(* What an operation may get, and what may be there when it is called.     *)
Takes ==
    CASE call = "if_init" -> Finished(iface)
      [] call = "tp_init" -> Finished(tp)
      [] call = "if_run" -> PipeEnds \cup {"pipe_rd[1]", "pipe_wr[0]"}
      [] call = "tp_run" -> Stopped(tp) \cup {"thread", "ainfo"}

Contexts == Finished(iface) \cup Finished(tp)
Pipes == IF Pppd THEN PipeEnds ELSE {}

There ==
    CASE call = "if_init" -> {}
      [] call = "tp_init" -> Finished(iface)
      [] call = "if_run" -> Contexts
      [] call = "tp_run" -> Contexts \cup Pipes

(* Which operations main() may be in.                                      *)
CallAndMain ==
    /\ pc \in Ready => call = "if_init" /\ at = 1 /\ held = {} /\ before = {}
    /\ pc = "build" => call \in {"if_init", "tp_init"}
    /\ pc = "run_if" => call = "if_run"
    /\ pc \in {"run_tp", "connecting"} => call = "tp_run"
    /\ pc \in Calls => iface \in Interfaces /\ tp \in Transports

(* An operation has what was there before it, and of each of its steps that*)
(* are done one of the sets that the step may get.                         *)
InOperation ==
    pc \in Calls =>
        /\ at \in 1..(Len(Steps) + 1)
        /\ before \subseteq held /\ before \subseteq There
        /\ \A x \in held \ before : \E i \in 1..(at - 1) : \E g \in Steps[i].gets : x \in g
        /\ \A i \in 1..(at - 1) : \E g \in Steps[i].gets : g \subseteq held
        /\ call # "if_init" /\ iface \in {"tun", "tap"} => "itc_fd" \in before
        /\ call = "tp_run" => Pipes \subseteq before

(* Afterwards it has less and less.                                        *)
Running ==
    /\ pc \in {"pipeline", "wait", "stop", "stop_if", "waitpid"} =>
           held \subseteq Contexts \cup Pipes \cup Stopped(tp) \cup {"thread"}
    /\ pc = "stop_tp" => held \subseteq Contexts \cup Stopped(tp) \cup {"thread"}
    /\ pc = "free" => held \subseteq Contexts
    /\ pc \in {"flush", "default_term", "default_int", "sem_fini", "exited"} => held = {}

(* Nothing happens after an error.                                         *)
Failing ==
    failed # "none" =>
        pc = "aborted" /\ (~(Pppd /\ failed = "if_run") => held = before)

Account == CallAndMain /\ InOperation /\ Running /\ Failing /\ HoldsWhatItUses

(* Nothing but the call and the modules matters for the steps.             *)
LEMMA SameSteps ==
    ASSUME iface' = iface, tp' = tp, server' = server, call' = call
    PROVE  Steps' = Steps /\ There' = There /\ Contexts' = Contexts /\ Pipes' = Pipes
BY DEF Steps, There, Contexts, Pipes, Pppd, InitSteps, RunSteps, Finished, InitHttp,
   InitXmpp, ParseXmpp, RunHttp, Remote

(* The tables of the steps suit what the invariant says.                   *)
LEMMA CallSound ==
    ASSUME CallAndMain, pc \in Calls
    PROVE  /\ IsSteps(Steps) /\ TakesOnly(Steps, Takes)
           /\ ~(Pppd /\ call = "if_run") => Undoes(Steps)
           /\ Takes \cap There = {}
           /\ "thread" \notin There
<1> USE NamesAssumption DEF NamesAssumption, CallAndMain, Calls
<1>1. iface \in {"tun", "tap", "stdio", "pppd"} /\ tp \in {"udp", "http", "xmpp"}
  OBVIOUS
<1>2. CASE call = "if_init"
  <2>1. Steps = InitSteps(iface) /\ Takes = Finished(iface) /\ There = {}
    BY <1>2 DEF Steps, Takes, There
  <2> QED BY <1>1, <2>1, InitSound, <1>2
<1>3. CASE call = "tp_init"
  <2>1. Steps = InitSteps(tp) /\ Takes = Finished(tp) /\ There = Finished(iface)
    BY <1>3 DEF Steps, Takes, There
  <2>2. Finished(tp) \cap Finished(iface) = {} /\ "thread" \notin Finished(iface)
    BY <1>1 DEF Finished, FiniStdio, FiniTuntap, FiniPppd, FiniUdp, FiniHttp, FiniXmpp
  <2> QED BY <1>1, <2>1, <2>2, InitSound, <1>3
<1>4. CASE call = "if_run"
  <2>1. /\ Steps = RunSteps(iface) /\ There = Finished(tp) \cup Finished(iface)
        /\ Takes = PipeEnds \cup {"pipe_rd[1]", "pipe_wr[0]"}
    BY <1>4 DEF Steps, Takes, There, Contexts
  <2>2. Takes \cap There = {} /\ "thread" \notin There
    BY <1>1, <2>1 DEF Finished, FiniStdio, FiniTuntap, FiniPppd, FiniUdp, FiniHttp, FiniXmpp,
       PipeEnds
  <2> QED BY <1>1, <2>1, <2>2, RunIfSound, <1>4 DEF Pppd
<1>5. CASE call = "tp_run"
  <2>1. /\ Steps = RunSteps(tp) /\ There = Finished(tp) \cup Finished(iface) \cup Pipes
        /\ Takes = Stopped(tp) \cup {"thread", "ainfo"}
    BY <1>5 DEF Steps, Takes, There, Contexts
  <2>2. Takes \cap There = {} /\ "thread" \notin There
    BY <1>1, <2>1 DEF Finished, FiniStdio, FiniTuntap, FiniPppd, FiniUdp, FiniHttp, FiniXmpp,
       PipeEnds, Pipes, Stopped, HttpSockets
  <2> QED BY <1>1, <2>1, <2>2, RunTpSound, <1>5
<1> QED BY <1>2, <1>3, <1>4, <1>5

(* What is got for sure is there.                                          *)
LEMMA SureThere ==
    ASSUME CallAndMain, InOperation, pc \in Calls, NEW n \in 1..at, NEW x,
           Sure(Steps, n - 1, x)
    PROVE  x \in held
BY DEF InOperation, Sure

(* A worker has what it uses.                                              *)
LEMMA WorkerInCall ==
    ASSUME CallAndMain, InOperation, pc \in Calls, "thread" \in held
    PROVE  UsedByWorker \subseteq held
<1>1. /\ at \in 1..(Len(Steps) + 1) /\ before \subseteq There
      /\ \A x \in held \ before : \E i \in 1..(at - 1) : \E g \in Steps[i].gets : x \in g
  BY DEF InOperation
<1>2. IsSteps(Steps) /\ TakesOnly(Steps, Takes) /\ "thread" \notin There
  BY CallSound
<1>3. PICK i \in 1..(at - 1) : \E g \in Steps[i].gets : "thread" \in g BY <1>1, <1>2
<1>4. i \in DOMAIN Steps BY <1>1, <1>2 DEF IsSteps
<1>5. "thread" \in Takes BY <1>2, <1>3, <1>4 DEF TakesOnly
<1>6. call = "tp_run"
  BY <1>5, NamesAssumption DEF Takes, NamesAssumption, CallAndMain, Calls, Finished, FiniStdio,
     FiniTuntap, FiniPppd, FiniUdp, FiniHttp, FiniXmpp, PipeEnds
<1>7. Steps = RunSteps(tp) BY <1>6 DEF Steps
<1>8. CASE tp = "http"
  <2>1. i = Len(Steps) BY <1>3, <1>4, <1>7, <1>8, RunHttpSure DEF StartsLast
  <2>2. \A x \in UsedByWorker : Sure(Steps, Len(Steps) - 1, x)
    BY <1>7, <1>8, RunHttpSure DEF UsedByWorker
  <2> QED BY <1>1, <1>2, <1>3, <2>1, <2>2, SureThere DEF IsSteps
<1>9. CASE tp = "xmpp"
  <2>1. i = Len(Steps) BY <1>3, <1>4, <1>7, <1>9, RunXmppSure DEF StartsLast
  <2>2. \A x \in UsedByWorker : Sure(Steps, Len(Steps) - 1, x)
    BY <1>7, <1>9, RunXmppSure DEF UsedByWorker
  <2> QED BY <1>1, <1>2, <1>3, <2>1, <2>2, SureThere DEF IsSteps
<1> QED BY <1>8, <1>9 DEF UsedByWorker

(* So the property holds while an operation runs.                          *)
LEMMA WorkersInCalls ==
    CallAndMain /\ InOperation /\ pc \in Calls => HoldsWhatItUses
BY WorkerInCall DEF HoldsWhatItUses, Calls

(* A step of an operation that succeeds.                                   *)
LEMMA SucceedAccount == ASSUME Account, Succeed PROVE Account'
<1>1. /\ pc' = pc /\ iface' = iface /\ tp' = tp
      /\ server' = server /\ call' = call /\ before' = before /\ failed' = failed
      /\ at' = at + 1 /\ at \in DOMAIN Steps /\ pc \in Calls
      /\ pc \notin Ready
  BY DEF Succeed, Inside, Calling, vars, modVars, Calls, Ready
<1>2. PICK r \in Steps[at].gets : held' = held \cup r
  BY DEF Succeed, Now
<1>3. /\ at \in 1..(Len(Steps) + 1)
      /\ before \subseteq held /\ before \subseteq There
      /\ \A x \in held \ before : \E i \in 1..(at - 1) : \E g \in Steps[i].gets : x \in g
      /\ \A i \in 1..(at - 1) : \E g \in Steps[i].gets : g \subseteq held
      /\ call # "if_init" /\ iface \in {"tun", "tap"} => "itc_fd" \in before
      /\ call = "tp_run" => Pipes \subseteq before
  BY <1>1 DEF Account, InOperation
<1>4. IsSteps(Steps) BY <1>1, CallSound DEF Account
<1>5. Steps' = Steps /\ There' = There /\ Pipes' = Pipes BY <1>1, SameSteps
<1>6. CallAndMain' BY <1>1 DEF Account, CallAndMain, Calls
<1>7. InOperation'
  <2>1. at' \in 1..(Len(Steps) + 1) BY <1>1, <1>3, <1>4 DEF IsSteps
  <2>2. \A x \in held' \ before : \E i \in 1..(at' - 1) : \E g \in Steps[i].gets : x \in g
    <3> SUFFICES ASSUME NEW x \in held' \ before
                 PROVE  \E i \in 1..(at' - 1) : \E g \in Steps[i].gets : x \in g
      OBVIOUS
    <3>1. CASE x \in r BY <1>1, <1>2, <1>3, <3>1
    <3>2. CASE x \in held
      <4>1. PICK i \in 1..(at - 1) : \E g \in Steps[i].gets : x \in g BY <1>3, <3>2
      <4>2. i \in 1..(at' - 1) BY <1>1, <1>3
      <4> QED BY <4>1, <4>2
    <3> QED BY <1>2, <3>1, <3>2
  <2>3. \A i \in 1..(at' - 1) : \E g \in Steps[i].gets : g \subseteq held'
    <3> SUFFICES ASSUME NEW i \in 1..(at' - 1)
                 PROVE  \E g \in Steps[i].gets : g \subseteq held'
      OBVIOUS
    <3>1. CASE i = at BY <1>2, <3>1
    <3>2. CASE i # at
      <4>1. i \in 1..(at - 1) BY <1>1, <1>3, <3>2
      <4> QED BY <1>2, <1>3, <4>1
    <3> QED BY <3>1, <3>2
  <2> QED BY <1>1, <1>2, <1>3, <1>5, <2>1, <2>2, <2>3 DEF InOperation
<1>8. Running' BY <1>1 DEF Running, Calls
<1>9. Failing' BY <1>1 DEF Account, Failing, Calls
<1>10. HoldsWhatItUses'
  <2>1. (CallAndMain /\ InOperation /\ pc \in Calls)' BY <1>1, <1>6, <1>7 DEF Calls
  <2>2. (CallAndMain /\ InOperation /\ pc \in Calls => HoldsWhatItUses)' BY WorkersInCalls, PTL
  <2> QED BY <2>1, <2>2
<1> QED BY <1>6, <1>7, <1>8, <1>9, <1>10 DEF Account

(* One that fails gives back what the operation has taken.                 *)
LEMMA ErrorAccount ==
    ASSUME Account, Inside, Now.fails = "returns", ReturnError, pc' = "aborted",
           UNCHANGED <<iface, tp, server>>
    PROVE  Account'
<1>1. /\ pc \in Calls /\ pc \notin Ready /\ at \in DOMAIN Steps
  BY DEF Inside, Calling, Calls, Ready
<1>2. /\ call' = call /\ at' = at /\ before' = before /\ failed' = call
      /\ held' = held \ Steps[at].undo
  BY DEF ReturnError, Now
<1>3. /\ before \subseteq held /\ before \subseteq There
      /\ at \in 1..(Len(Steps) + 1)
      /\ \A x \in held \ before : \E i \in 1..(at - 1) : \E g \in Steps[i].gets : x \in g
  BY <1>1 DEF Account, InOperation
<1>4. /\ IsSteps(Steps) /\ TakesOnly(Steps, Takes)
      /\ ~(Pppd /\ call = "if_run") => Undoes(Steps)
      /\ Takes \cap There = {} /\ "thread" \notin There
  BY <1>1, CallSound DEF Account
<1>5. ~(Pppd /\ call = "if_run") => held' = before
  <2> HAVE ~(Pppd /\ call = "if_run")
  <2>1. Undoes(Steps) BY <1>4
  <2>2. before \subseteq held' BY <1>1, <1>2, <1>3, <1>4 DEF TakesOnly
  <2>3. \A x \in held \ before : x \in Steps[at].undo
    BY <1>1, <1>3, <2>1 DEF Undoes, Now
  <2> QED BY <1>2, <2>2, <2>3
<1>6. "thread" \in held' => UsedByWorker' \subseteq held'
  <2>1. CASE Pppd /\ call = "if_run"
    <3>1. Takes = PipeEnds \cup {"pipe_rd[1]", "pipe_wr[0]"} BY <2>1 DEF Takes
    <3>2. \A x \in held \ before : x \in Takes
      <4> TAKE x \in held \ before
      <4>1. PICK i \in 1..(at - 1) : \E g \in Steps[i].gets : x \in g BY <1>3
      <4>2. i \in DOMAIN Steps BY <1>1, <1>3, <1>4 DEF IsSteps
      <4> QED BY <1>4, <4>1, <4>2 DEF TakesOnly
    <3>3. "thread" \notin held BY <1>3, <1>4, <3>1, <3>2 DEF PipeEnds
    <3> QED BY <1>2, <3>3
  <2>2. CASE ~(Pppd /\ call = "if_run")
    BY <1>3, <1>4, <1>5, <2>2
  <2> QED BY <2>1, <2>2
<1> QED BY <1>2, <1>5, <1>6 DEF Account, CallAndMain, InOperation, Running, Failing,
           HoldsWhatItUses, Ready, Calls, Pppd

(* Any step of an operation may fail, and some are asserted not to.        *)
LEMMA FailAccount == ASSUME Account, Fail PROVE Account'
<1>1. pc' = "aborted" /\ UNCHANGED <<iface, tp, server>>
  BY DEF Fail, CallFails, modVars
<1>2. CASE Now.fails = "returns" /\ ReturnError
  BY <1>1, <1>2, ErrorAccount DEF Fail
<1>3. CASE UNCHANGED resVars
  <2>1. failed = "none" BY DEF Account, Failing, Fail, CallFails
  <2> QED BY <1>1, <1>3, <2>1 DEF Account, CallAndMain, InOperation, Running, Failing,
             HoldsWhatItUses, UsedByWorker, Ready, Calls, resVars
<1> QED BY <1>2, <1>3 DEF Fail

(* The operation returns.                                                  *)
LEMMA ReturnAccount == ASSUME Account, Return PROVE Account'
<1>1. /\ pc \in Calls /\ pc \notin Ready /\ at = Len(Steps) + 1
      /\ at' = 1 /\ held' = held \ Dropped /\ before' = held'
      /\ server' = server /\ failed' = failed /\ iface' = iface /\ tp' = tp
      /\ failed = "none"
  BY DEF Return, Calling, Calls, Ready, vars, modVars, Build, RunIf, Connected, RunTp,
     Account, Failing
<1>2. /\ at \in 1..(Len(Steps) + 1)
      /\ before \subseteq held /\ before \subseteq There
      /\ \A x \in held \ before : \E i \in 1..(at - 1) : \E g \in Steps[i].gets : x \in g
      /\ call # "if_init" /\ iface \in {"tun", "tap"} => "itc_fd" \in before
      /\ call = "tp_run" => Pipes \subseteq before
  BY <1>1 DEF Account, InOperation
<1>3. IsSteps(Steps) /\ TakesOnly(Steps, Takes) BY <1>1, CallSound DEF Account
<1>4. held \subseteq There \cup Takes
  <2> SUFFICES ASSUME NEW x \in held \ before PROVE x \in Takes
    BY <1>2
  <2>1. PICK i \in 1..(at - 1) : \E g \in Steps[i].gets : x \in g BY <1>2
  <2>2. i \in DOMAIN Steps BY <1>1, <1>2, <1>3 DEF IsSteps
  <2> QED BY <1>3, <2>1, <2>2 DEF TakesOnly
<1>5. \A x : Sure(Steps, Len(Steps), x) => x \in held
  <2>1. at \in 1..at /\ at - 1 = Len(Steps) BY <1>1, <1>3 DEF IsSteps
  <2> QED BY <1>1, <2>1, SureThere DEF Account
<1>6. iface \in {"tun", "tap", "stdio", "pppd"} /\ tp \in {"udp", "http", "xmpp"}
  BY <1>1, NamesAssumption DEF NamesAssumption, Account, CallAndMain
<1>7. iface \in Interfaces /\ tp \in Transports BY <1>1 DEF Account, CallAndMain
<1>8. Contexts' = Contexts /\ Pipes' = Pipes BY <1>1 DEF Contexts, Pipes, Pppd, Finished
<1>9. ASSUME CallAndMain', pc' \in Calls, held' \subseteq There',
             call' # "if_init" /\ iface \in {"tun", "tap"} => "itc_fd" \in held',
             call' = "tp_run" => Pipes \subseteq held'
      PROVE  Account'
  <2>1. InOperation' BY <1>1, <1>8, <1>9 DEF InOperation
  <2>2. (CallAndMain /\ InOperation /\ pc \in Calls => HoldsWhatItUses)'
    BY WorkersInCalls, PTL
  <2>3. (pc \in Calls)' BY <1>9 DEF Calls
  <2> QED BY <1>1, <1>9, <2>1, <2>2, <2>3 DEF Account, Running, Failing, Calls
<1>10. CASE call = "if_init"
  <2>1. pc' = "build" /\ call' = "tp_init"
    BY <1>10 DEF Return, Account, CallAndMain, Calls, Calling, vars
  <2>2. Dropped = {} /\ Takes = Finished(iface) /\ There = {} /\ Steps = InitSteps(iface)
    BY <1>10 DEF Dropped, Takes, There, Steps
  <2>3. iface \in {"tun", "tap"} => "itc_fd" \in held BY <1>5, <2>2, InitSure
  <2>4. There' = Finished(iface) BY <1>1, <2>1 DEF There, Finished
  <2>5. CallAndMain' BY <1>1, <1>7, <2>1 DEF CallAndMain, Ready, Calls
  <2> QED BY <1>1, <1>4, <1>9, <2>1, <2>2, <2>3, <2>4, <2>5 DEF Calls
<1>11. CASE call = "tp_init"
  <2>1. pc' = "run_if" /\ call' = "if_run" BY <1>11 DEF Return, Build, Step
  <2>2. Dropped = {} /\ Takes = Finished(tp) /\ There = Finished(iface)
    BY <1>11 DEF Dropped, Takes, There
  <2>3. There' = Finished(iface) \cup Finished(tp)
    BY <1>8, <2>1 DEF There, Contexts
  <2>4. CallAndMain' BY <1>1, <1>7, <2>1 DEF CallAndMain, Ready, Calls
  <2> QED BY <1>1, <1>2, <1>4, <1>9, <1>11, <2>1, <2>2, <2>3, <2>4 DEF Calls
<1>12. CASE call = "if_run"
  <2>1. pc' = "run_tp" /\ call' = "tp_run" BY <1>12 DEF Return, RunIf, Step
  <2>2. /\ Dropped = {"pipe_rd[1]", "pipe_wr[0]"} /\ There = Contexts
        /\ Takes = PipeEnds \cup {"pipe_rd[1]", "pipe_wr[0]"} /\ Steps = RunSteps(iface)
    BY <1>12 DEF Dropped, Takes, There, Steps
  <2>3. There' = Contexts \cup Pipes BY <1>8, <2>1 DEF There
  <2>4. CallAndMain' BY <1>1, <1>7, <2>1 DEF CallAndMain, Ready, Calls
  <2>5. Pipes \subseteq held'
    <3>1. CASE Pppd
      <4>1. Steps = RunSteps("pppd") BY <2>2, <3>1 DEF Pppd
      <4>2. ASSUME NEW x \in PipeEnds PROVE x \in held
        <5>1. Sure(Steps, Len(Steps), x) BY <4>1, RunIfSure
        <5> QED BY <1>5, <5>1
      <4>3. PipeEnds \subseteq held BY <4>2
      <4> QED BY <1>1, <2>2, <3>1, <4>3 DEF Pipes, PipeEnds
    <3> QED BY <3>1 DEF Pipes
  <2>6. held' \subseteq Contexts \cup Pipes
    <3>1. CASE Pppd BY <1>1, <1>4, <2>2, <3>1 DEF Pipes
    <3>2. CASE ~Pppd
      <4>1. Steps = <<>> BY <1>6, <2>2, <3>2 DEF RunSteps, Pppd
      <4>2. at = 1 BY <1>1, <4>1
      <4>3. \A i \in 1..(at - 1) : FALSE BY <4>2
      <4>4. held = before BY <1>2, <4>3
      <4> QED BY <1>1, <1>2, <2>2, <4>4
    <3> QED BY <3>1, <3>2
  <2> QED BY <1>1, <1>2, <1>9, <1>12, <2>1, <2>2, <2>3, <2>4, <2>5, <2>6 DEF Calls
<1>13. CASE call = "tp_run"
  <2>1. pc' = "pipeline" /\ call' = "none"
    BY <1>13 DEF Return, Calling, Connected, RunTp, Step
  <2>2. /\ Dropped = {"ainfo"} /\ There = Contexts \cup Pipes /\ Steps = RunSteps(tp)
        /\ Takes = Stopped(tp) \cup {"thread", "ainfo"}
    BY <1>13 DEF Dropped, Takes, There, Steps
  <2>3. CallAndMain' BY <2>1 DEF CallAndMain, Ready, Calls
  <2>4. InOperation' BY <2>1 DEF InOperation, Calls
  <2>5. held' \subseteq (Contexts \cup Pipes \cup Stopped(tp) \cup {"thread"})'
    BY <1>1, <1>4, <1>8, <2>2 DEF Stopped
  <2>6. "thread" \in held' => UsedByWorker \subseteq held'
    <3>1. "thread" \in held => UsedByWorker \subseteq held
      BY <1>1, WorkerInCall DEF Account
    <3> QED BY <1>1, <2>2, <3>1 DEF UsedByWorker
  <2>7. UsedByPipeline \subseteq held'
    <3>1. iface = "pppd" => PipeEnds \subseteq held BY <1>2, <1>13 DEF Pipes, Pppd
    <3>2. iface \in {"tun", "tap"} => "itc_fd" \in held BY <1>2, <1>13
    <3>3. tp = "udp" => "uc_sock" \in held BY <1>5, <2>2, RunUdpSure
    <3>4. tp = "http" => {"thc_conn[0]", "thc_conn[1]"} \subseteq held
      <4> HAVE tp = "http"
      <4>1. \A x \in {"thc_conn[0]", "thc_conn[1]"} : Sure(Steps, Len(Steps) - 1, x)
        BY <2>2, RunHttpSure
      <4>2. \A x \in {"thc_conn[0]", "thc_conn[1]"} : Sure(Steps, Len(Steps), x)
        BY <1>3, <4>1 DEF Sure, IsSteps
      <4> QED BY <1>5, <4>2
    <3> QED BY <1>1, <1>6, <2>2, <3>1, <3>2, <3>3, <3>4 DEF UsedByPipeline, PipeEnds
  <2>8. UsedByWorker' = UsedByWorker /\ UsedByPipeline' = UsedByPipeline
    BY <1>1 DEF UsedByWorker, UsedByPipeline
  <2> QED BY <1>1, <2>1, <2>3, <2>4, <2>5, <2>6, <2>7, <2>8 DEF Account, Running, Failing,
             HoldsWhatItUses
<1> QED BY <1>1, <1>10, <1>11, <1>12, <1>13 DEF Account, CallAndMain, Calls

(* Nothing of it changes with main(), as long as main() runs no operation. *)
LEMMA ElsewhereAccount == ASSUME Account, Elsewhere PROVE Account'
<1>1. UNCHANGED <<server, call, at, held, before, failed>> BY DEF Elsewhere, resVars
<1>2. pc \notin Calls /\ pc' # "aborted" /\ pc # "aborted" /\ pc \notin {"stop_tp", "free"}
  BY DEF Elsewhere, SemInit, HandleTerm, HandleInt, ReadConf, StartPipeline, Wait,
     StopPipeline, StopIf, Flush, DefaultTerm, DefaultInt, SemFini, Step, Calls
<1>3. failed = "none" BY <1>2 DEF Account, Failing
<1>4. CASE ReadConf
  BY <1>1, <1>3, <1>4 DEF ReadConf, Step, Account, CallAndMain, InOperation, Running, Failing,
     HoldsWhatItUses, Ready, Calls, IsSteps
<1>5. CASE ~ReadConf
  <2>1. UNCHANGED <<iface, tp>>
    BY <1>5 DEF Elsewhere, SemInit, HandleTerm, HandleInt, StartPipeline, Wait,
       StopPipeline, StopIf, Flush, DefaultTerm, DefaultInt, SemFini, modVars
  <2>2. /\ pc' \notin Calls
        /\ pc' \in Ready => pc \in Ready
        /\ pc' \in {"pipeline", "wait", "stop"} => pc \in {"pipeline", "wait", "stop"}
        /\ pc' \in {"stop_if", "waitpid"} => pc \in {"stop", "stop_if"}
        /\ pc' = "stop_tp" => pc = "stop_if" /\ ~Pppd
        /\ pc' # "free"
        /\ pc' \in {"flush", "default_term", "default_int", "sem_fini", "exited"} =>
               pc \in {"flush", "default_term", "default_int", "sem_fini"}
    BY <1>5 DEF Elsewhere, SemInit, HandleTerm, HandleInt, StartPipeline, Wait,
       StopPipeline, StopIf, Flush, DefaultTerm, DefaultInt, SemFini, Step, Calls, Ready
  <2>3. CallAndMain' /\ InOperation' BY <1>1, <2>2 DEF Account, CallAndMain, InOperation, Calls
  <2>4. Running'
    BY <1>1, <2>1, <2>2 DEF Account, Running, Contexts, Pipes, Pppd, Finished, Stopped
  <2>5. Failing' BY <1>1, <1>3 DEF Failing
  <2>6. HoldsWhatItUses'
    BY <1>1, <2>1, <2>2 DEF Account, HoldsWhatItUses, UsedByWorker, UsedByPipeline
  <2> QED BY <2>3, <2>4, <2>5, <2>6 DEF Account
<1> QED BY <1>4, <1>5

(* Stopping and finalising.                                                *)
LEMMA GiveBackAccount ==
    ASSUME Account, GoToHttp \/ Reap \/ Join \/ Close \/ FreeModules
    PROVE  Account'
<1> USE DEF Account, CallAndMain, InOperation, Running, Failing, HoldsWhatItUses, Ready, Calls,
        Step, GiveBack
<1>1. UNCHANGED <<iface, tp, server, call, at, before, failed>>
  BY DEF GoToHttp, Reap, Join, Close, FreeModules, RunTp, WaitPid, StopTp, Free, modVars,
     vars, resVars
<1>2. /\ Steps' = Steps /\ There' = There /\ Contexts' = Contexts /\ Pipes' = Pipes
      /\ UsedByWorker' = UsedByWorker /\ Pppd' = Pppd
  BY <1>1, SameSteps DEF UsedByWorker, Pppd
<1>3. CASE GoToHttp
  BY <1>1, <1>2, <1>3 DEF GoToHttp, RunTp, resVars
<1>4. CASE Reap
  <2>1. pc = "waitpid" /\ pc' = "stop_tp" /\ held' = held \ PipeEnds
    BY <1>4 DEF Reap, WaitPid
  <2>2. held' \subseteq Contexts \cup Stopped(tp) \cup {"thread"} BY <2>1 DEF Pipes
  <2>3. UsedByWorker \cap PipeEnds = {} BY DEF UsedByWorker, PipeEnds
  <2>4. Stopped(tp)' = Stopped(tp) BY <1>1
  <2> QED BY <1>1, <1>2, <2>1, <2>2, <2>3, <2>4
<1>5. CASE Join
  <2>1. pc' = "stop_tp" /\ held' = held \ {"thread"} /\ pc = "stop_tp"
    BY <1>5 DEF Join, vars
  <2>2. Stopped(tp)' = Stopped(tp) BY <1>1
  <2> QED BY <1>1, <1>2, <2>1, <2>2
<1>6. CASE Close
  BY <1>1, <1>2, <1>6 DEF Close, StopTp
<1>7. CASE FreeModules
  BY <1>1, <1>2, <1>7 DEF FreeModules, Free, Contexts
<1> QED BY <1>3, <1>4, <1>5, <1>6, <1>7

(* Signals.                                                                *)
LEMMA InterruptAccount == ASSUME Account, NEW s \in Signals, Interrupt(s) PROVE Account'
<1>1. UNCHANGED <<iface, tp, server>> /\ pc \notin Ended
  BY DEF Interrupt, Signal, modVars
<1>2. CASE pc' = "aborted" /\ WaitsForPeer /\ ReturnError
  <2>1. Inside /\ pc \in Calls /\ pc \notin Ready /\ at \in DOMAIN Steps
    BY <1>2 DEF WaitsForPeer, Inside, Calling, Calls, Ready
  <2>2. TakesOnly(Steps, Takes) BY <2>1, CallSound DEF Account
  <2>3. \E g \in Steps[at].gets : g = {"thc_conn[0]"} \/ g = {"thc_conn[1]"}
    BY <1>2 DEF WaitsForPeer, Now
  <2>4. "thc_conn[0]" \in Takes \/ "thc_conn[1]" \in Takes
    BY <2>1, <2>2, <2>3 DEF TakesOnly
  <2>5. call = "tp_run" /\ tp = "http"
    BY <2>1, <2>4, NamesAssumption DEF Takes, NamesAssumption, Account, CallAndMain, Calls,
       Finished, FiniStdio, FiniTuntap, FiniPppd, FiniUdp, FiniHttp, FiniXmpp, PipeEnds, Stopped
  <2>6. Steps = RunSteps("http") BY <2>5 DEF Steps
  <2>7. Now.fails = "returns" BY <2>1, <2>6, RunHttpSure DEF Now
  <2> QED BY <1>1, <1>2, <2>1, <2>7, ErrorAccount
<1>3. CASE UNCHANGED resVars /\ pc' \in {pc, "killed", "aborted"}
  <2>1. Steps' = Steps /\ There' = There /\ Contexts' = Contexts /\ Pipes' = Pipes
    BY <1>1, <1>3, SameSteps DEF resVars
  <2>2. /\ Stopped(tp)' = Stopped(tp) /\ UsedByWorker' = UsedByWorker
        /\ UsedByPipeline' = UsedByPipeline /\ Pppd' = Pppd
    BY <1>1 DEF UsedByWorker, UsedByPipeline, Pppd
  <2>3. UNCHANGED <<call, at, held, before, failed>> BY <1>3 DEF resVars
  <2>4. failed = "none" BY <1>1 DEF Account, Failing, Ended
  <2> QED BY <1>1, <1>3, <2>1, <2>2, <2>3, <2>4 DEF Account, CallAndMain, InOperation,
             Running, Failing, HoldsWhatItUses, Ready, Calls
<1> QED BY <1>2, <1>3 DEF Interrupt, Signal, Kill, Handle

(* All is well at the start,                                               *)
LEMMA InitAccount == ASSUME ModInit PROVE Account
BY DEF ModInit, Init, Account, CallAndMain, InOperation, Running, Failing, HoldsWhatItUses,
   Ready, Calls

(* and stays so.                                                           *)
LEMMA NextAccount == ASSUME Account, [ModNext]_allVars PROVE Account'
<1>1. CASE (Exec \/ PppdExits \/ UNCHANGED vars) /\ UNCHANGED <<server, resVars>>
  <2>1. UNCHANGED <<pc, iface, tp, server, call, at, held, before, failed>>
    BY <1>1 DEF Exec, PppdExits, vars, modVars, resVars
  <2>2. Steps' = Steps /\ There' = There /\ Contexts' = Contexts /\ Pipes' = Pipes
    BY <2>1, SameSteps
  <2>3. /\ Stopped(tp)' = Stopped(tp) /\ UsedByWorker' = UsedByWorker
        /\ UsedByPipeline' = UsedByPipeline /\ Pppd' = Pppd
    BY <2>1 DEF UsedByWorker, UsedByPipeline, Pppd
  <2> QED BY <2>1, <2>2, <2>3 DEF Account, CallAndMain, InOperation, Running, Failing,
             HoldsWhatItUses, Ready, Calls
<1>2. CASE Succeed BY <1>2, SucceedAccount
<1>3. CASE Return BY <1>3, ReturnAccount
<1>4. CASE GoToHttp \/ Reap \/ Join \/ Close \/ FreeModules BY <1>4, GiveBackAccount
<1>5. CASE Elsewhere BY <1>5, ElsewhereAccount
<1>6. CASE Fail BY <1>6, FailAccount
<1>7. CASE \E s \in Signals : Interrupt(s) BY <1>7, InterruptAccount
<1> QED BY <1>1, <1>2, <1>3, <1>4, <1>5, <1>6, <1>7 DEF ModNext, Main, allVars

(* The account is an invariant, for each choice of modules, on the server  *)
(* and on the client, wherever operations fail or signals arrive.          *)
THEOREM AccountHolds == ModSpec => []Account
<1>1. ModInit => Account BY InitAccount
<1>2. Account /\ [ModNext]_allVars => Account' BY NextAccount
<1> QED BY <1>1, <1>2, PTL DEF ModSpec

(* Wherever an operation of a module fails, it leaves what was there before*)
(* it; a program that exits has given everything back.                     *)
THEOREM ModulesRelease == ModSpec => []ReleasesWhatItTook
<1>1. Account => ReleasesWhatItTook
  BY DEF Account, Failing, Running, ReleasesWhatItTook
<1> QED BY <1>1, AccountHolds, PTL

(* No thread uses a descriptor before it is open or after it is closed.    *)
THEOREM ModulesHold == ModSpec => []HoldsWhatItUses
<1>1. Account => HoldsWhatItUses BY DEF Account
<1> QED BY <1>1, AccountHolds, PTL
=============================================================================
