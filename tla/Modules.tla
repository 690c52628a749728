------------------------------ MODULE Modules ------------------------------
(***************************************************************************)
(* What the operations of the modules take and give back: memory, file     *)
(* descriptors, connections and threads.  Any of their steps may fail, and *)
(* a signal may interrupt main() where it waits for its peer.  Each step is*)
(* a part of a step of main() or leaves it where it is: this specification *)
(* implements module Program.                                              *)
(***************************************************************************)
EXTENDS Program, Sequences

(* The modules that pppoat_modules knows.                                  *)
ASSUME NamesAssumption ==
    /\ Interfaces \subseteq {"tun", "tap", "stdio", "pppd"}
    /\ Transports \subseteq {"udp", "http", "xmpp"}

VARIABLES
    server,     \* does the configuration make this host the server
    call,       \* the operation that main() calls, or calls next
    at,         \* the step of that operation
    held,       \* what the modules have taken and not given back
    before,     \* history: what they had when the operation was called
    failed      \* the operation that has returned an error

resVars == <<call, at, held, before, failed>>
allVars == <<vars, server, resVars>>

-----------------------------------------------------------------------------
(* The steps of an operation: what they may get (one of the sets), what    *)
(* becomes of a failure, and what is given back before the error returns.  *)

Try(r, undo) == [gets |-> {r}, fails |-> "returns", undo |-> undo]
TryIfSet(r, undo) == [gets |-> {r, {}}, fails |-> "returns", undo |-> undo]
Check(undo) == Try({}, undo)
Must(r) == [gets |-> {r}, fails |-> "asserts", undo |-> {}]
May(r) == [gets |-> {r, {}}, fails |-> "never", undo |-> {}]

InitStdio == <<Try({"if_ctx"}, {})>>

OpenTun == <<Must({"itc_fd"}), May({"itc_ifname"})>>
InitTuntap == <<Try({"if_ctx"}, {})>> \o OpenTun

InitPppd ==
    <<Try({"if_ctx"}, {}), Check({"if_ctx"}), TryIfSet({"ipc_ip"}, {"if_ctx"})>>

(* tp_udp_ainfo_get()                                                      *)
Resolve(r, undo) == Try({r}, undo)

ParseUdp == <<Check({"tp_ctx"}), Try({"uc_dhost"}, {"tp_ctx"})>>
InitUdp ==
    <<Try({"tp_ctx"}, {})>> \o ParseUdp \o <<Resolve("uc_ainfo", {"uc_dhost", "tp_ctx"})>>

(* The server needs no address of its peer.                                *)
Remote(r) == IF server THEN May(r) ELSE Must(r)

InitHttp == <<Try({"tp_ctx"}, {}), Remote({"thc_remote_ip"}), Must({"queues"})>>

ParseXmpp == <<Remote({"txc_remote"}), Must({"txc_jid"}), Must({"txc_passwd"})>>
InitXmpp ==
    <<Try({"tp_ctx"}, {})>> \o ParseXmpp \o <<Must({"queues"}), Must({"txc_xmpp_ctx"})>>

(* fork() is the last one.                                                 *)
RunPppd ==
    <<Must({"pipe_rd[0]", "pipe_rd[1]"}), Must({"pipe_wr[0]", "pipe_wr[1]"}),
      Check({})>>

BindKeeps == Check({"ainfo"})               \* mutant: the socket stays open
Bind == Check({"uc_sock", "ainfo"})

NewSocket == <<Resolve("ainfo", {}), Try({"uc_sock"}, {"ainfo"}), Bind>>
RunUdp == NewSocket

(* tp_http_close_sockets() closes those that are open.                     *)
HttpSockets ==
    {"thc_pipe[0]", "thc_pipe[1]", "thc_conn[0]", "thc_conn[1]", "thc_sock"}

Listen == <<Try({"thc_sock"}, HttpSockets), Check(HttpSockets)>>

(* accept() on the server, connect() on the client.                        *)
Connect == <<Try({"thc_conn[0]"}, HttpSockets), Try({"thc_conn[1]"}, HttpSockets)>>

RunHttp ==
    <<Try({"thc_pipe[0]", "thc_pipe[1]"}, {})>>
    \o (IF server THEN Listen \o Connect ELSE Connect)
    \o <<Try({"thread"}, HttpSockets)>>

RunXmpp == <<Try({"txc_xmpp_conn"}, {}), Try({"thread"}, {"txc_xmpp_conn"})>>

InitSteps(m) ==
    CASE m \in {"tun", "tap"} -> InitTuntap
      [] m = "stdio" -> InitStdio
      [] m = "pppd" -> InitPppd
      [] m = "udp" -> InitUdp
      [] m = "http" -> InitHttp
      [] m = "xmpp" -> InitXmpp

RunSteps(m) ==
    CASE m \in {"tun", "tap", "stdio"} -> <<>>
      [] m = "pppd" -> RunPppd
      [] m = "udp" -> RunUdp
      [] m = "http" -> RunHttp
      [] m = "xmpp" -> RunXmpp

Steps ==
    CASE call = "if_init" -> InitSteps(iface)
      [] call = "tp_init" -> InitSteps(tp)
      [] call = "if_run" -> RunSteps(iface)
      [] call = "tp_run" -> RunSteps(tp)

(* What an operation gives back although it succeeds: the ends of the pipes*)
(* that the child has, the addresses to bind to.                           *)
Dropped ==
    CASE call = "if_run" -> {"pipe_rd[1]", "pipe_wr[0]"}
      [] call = "tp_run" -> {"ainfo"}
      [] OTHER -> {}

(* What is closed when pppd is gone, by mop_stop() and by mop_fini().      *)
PipeEnds == {"pipe_rd[0]", "pipe_wr[1]"}

Stopped(m) ==
    CASE m = "udp" -> {"uc_sock"}
      [] m = "http" -> HttpSockets
      [] m = "xmpp" -> {"txc_xmpp_conn"}

FiniStdio == {"if_ctx"}
FiniTuntap == {"if_ctx", "itc_fd", "itc_ifname"}
FiniPppd == {"if_ctx", "ipc_ip"}
FiniUdp == {"tp_ctx", "uc_ainfo", "uc_dhost"}
FiniHttp == {"tp_ctx", "thc_remote_ip", "queues"}
FiniXmpp ==
    {"tp_ctx", "txc_jid", "txc_passwd", "txc_remote", "queues", "txc_xmpp_ctx"}

Finished(m) ==
    CASE m = "stdio" -> FiniStdio
      [] m \in {"tun", "tap"} -> FiniTuntap
      [] m = "pppd" -> FiniPppd
      [] m = "udp" -> FiniUdp
      [] m = "http" -> FiniHttp
      [] m = "xmpp" -> FiniXmpp

-----------------------------------------------------------------------------
(* Running an operation.                                                   *)

Calling ==
    \/ pc = "build" /\ call \in {"if_init", "tp_init"}
    \/ pc = "run_if" /\ call = "if_run"
    \/ pc = (IF Http THEN "connecting" ELSE "run_tp") /\ call = "tp_run"

Now == Steps[at]
Inside == Calling /\ at \in DOMAIN Steps
WaitsForPeer == Inside /\ Now.gets \cap {{"thc_conn[0]"}, {"thc_conn[1]"}} # {}

Succeed ==
    /\ Inside
    /\ \E r \in Now.gets : held' = held \cup r
    /\ at' = at + 1
    /\ UNCHANGED <<vars, server, call, before, failed>>

ReturnError ==
    /\ failed' = call
    /\ held' = held \ Now.undo
    /\ UNCHANGED <<call, at, before>>

Fail ==
    /\ Inside /\ CallFails
    /\ \/ Now.fails = "returns" /\ ReturnError
       \/ Now.fails = "asserts" /\ UNCHANGED resVars
    /\ UNCHANGED server

(* After the last step the operation returns, and main() goes on.          *)
Return ==
    /\ Calling /\ at = Len(Steps) + 1
    /\ \/ call = "if_init" /\ UNCHANGED vars /\ call' = "tp_init"
       \/ call = "tp_init" /\ Build /\ call' = "if_run"
       \/ call = "if_run" /\ RunIf /\ call' = "tp_run"
       \/ call = "tp_run" /\ (IF Http THEN Connected ELSE RunTp) /\ call' = "none"
    /\ at' = 1
    /\ held' = held \ Dropped
    /\ before' = held'
    /\ UNCHANGED <<server, failed>>

GoToHttp == Http /\ RunTp /\ UNCHANGED <<server, resVars>>

-----------------------------------------------------------------------------
(* Stopping and finalising.  pppoat_thread_join() comes before the worker's*)
(* sockets are closed.                                                     *)

GiveBack(r) == held' = held \ r /\ UNCHANGED <<server, call, at, before, failed>>

Reap == WaitPid /\ GiveBack(PipeEnds)

Join == pc = "stop_tp" /\ "thread" \in held /\ GiveBack({"thread"}) /\ UNCHANGED vars

CloseUnjoined == StopTp /\ GiveBack(Stopped(tp))        \* mutant: does not join before
Close == "thread" \notin held /\ StopTp /\ GiveBack(Stopped(tp))

FreeModules == Free /\ GiveBack(Finished(iface) \cup Finished(tp))

(* The rest of main() takes nothing and gives nothing back.                *)
Elsewhere ==
    /\ \/ SemInit \/ HandleTerm \/ HandleInt \/ ReadConf
       \/ StartPipeline \/ Wait \/ StopPipeline \/ StopIf
       \/ Flush \/ DefaultTerm \/ DefaultInt \/ SemFini
    /\ UNCHANGED <<server, resVars>>

(* A signal, which may interrupt the wait for the peer.                    *)
Interrupt(s) ==
    /\ Signal(s)
    /\ \/ pc' # "aborted" /\ UNCHANGED resVars
       \/ pc' = "aborted" /\ WaitsForPeer /\ ReturnError
       \/ pc' = "aborted" /\ Http /\ "thread" \in held /\ UNCHANGED resVars
    /\ UNCHANGED server

-----------------------------------------------------------------------------
ModInit ==
    /\ Init
    /\ server \in BOOLEAN
    /\ call = "if_init" /\ at = 1
    /\ held = {} /\ before = {} /\ failed = "none"

Main ==
    \/ ~WaitsForPeer /\ Succeed
    \/ Return \/ GoToHttp \/ Reap \/ Join \/ Close \/ FreeModules \/ Elsewhere

ModNext ==
    \/ Main
    \/ WaitsForPeer /\ Succeed
    \/ Fail
    \/ \E s \in Signals : Interrupt(s)
    \/ (Exec \/ PppdExits) /\ UNCHANGED <<server, resVars>>

ModSpec == ModInit /\ [][ModNext]_allVars

(* main() runs, and pppd obeys SIGTERM; the peer may never connect.        *)
ModFairSpec ==
    /\ ModSpec
    /\ WF_allVars(Main)
    /\ WF_allVars(PppdExits /\ child = "terminated" /\ UNCHANGED <<server, resVars>>)

-----------------------------------------------------------------------------
(* Properties.                                                             *)

(* Wherever an operation fails, an interrupted accept() or connect()       *)
(* included, it leaves what was there before it; a program that reaches its*)
(* exit has given everything back.  The exception is if_pppd_run(), which  *)
(* leaves both pipes open when fork() fails.                               *)
ReleasesWhatItTook ==
    /\ failed # "none" /\ ~(Pppd /\ failed = "if_run") => held = before
    /\ pc \in {"flush", "default_term", "default_int", "sem_fini", "exited"} => held = {}

UsedByWorker ==
    CASE tp = "http" -> {"thc_pipe[0]", "thc_conn[0]", "thc_conn[1]"}
      [] tp = "xmpp" -> {"txc_xmpp_conn"}
      [] OTHER -> {}

UsedByPipeline ==
    (CASE iface = "pppd" -> PipeEnds
       [] iface \in {"tun", "tap"} -> {"itc_fd"}
       [] OTHER -> {})
    \cup (CASE tp = "udp" -> {"uc_sock"}
            [] tp = "http" -> {"thc_conn[0]", "thc_conn[1]"}
            [] OTHER -> {})

(* No thread uses a descriptor that is not open yet or not open any more,  *)
(* which by then may be another file: a worker from its start to its join, *)
(* the threads of the pipeline from its start to its stop.                 *)
HoldsWhatItUses ==
    /\ "thread" \in held => UsedByWorker \subseteq held
    /\ pc \in {"pipeline", "wait", "stop"} => UsedByPipeline \subseteq held
=============================================================================
