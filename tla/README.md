# A specification of pppoat2

pppoat2 tunnels packets over transports that were not made for them. An interface module
(pppd, tun, tap, standard input and output) and a transport module (UDP, HTTP, XMPP) are put
in a pipeline; threads move packets along it in both directions until a signal ends the
program. This directory holds TLA+ modules for the parts of the program whose correctness
depends on the order of things: threads, callbacks, signals, connections that break, and for the
data structures they share: linked lists, the packets' cache, the encoding of messages. TLC
checks them on small instances, TLAPS proves the most important invariants for every value of
the constants.

Contents: the parts of the program, the modules, the checks, the proofs, what the checks found,
what is not modelled, and the plan.

## 1. The system

| Part | State it keeps | Operations | Talks to |
|---|---|---|---|
| main program, `pppoat.c` | `exit_sem`, signal actions, the two modules | `main()`, `pppoat_sighandler()`, `pppoat_cleanup()` | everything |
| pipeline, `pipeline.c` | list of modules, `pl_running`, three threads | add, start, stop, `pipeline_module_process()`, the thread functions | modules, packets |
| module layer, `module.c` | type, `m_invert`, `m_userdata` | init, run, stop, fini, process | pipeline and modules |
| packets, `packet.c` | `pks_cache`, `pks_cache_empty`, `pks_lock`, per packet type, size and buffer | get, put, flush | all threads |
| lists and queues, `list.c`, `queue.c` | links in the objects, loops through a head | insert, delete, enqueue, dequeue | packets, transports |
| HTTP transport, `tp_http.c` | two queues, `thc_send_ready`, offsets, two sockets, a pipe, a worker | process, worker, `tp_http_send_next()`, receive, stop | its peer over TCP |
| XMPP transport, `tp_xmpp.c` | two queues, two semaphores, `txc_connected`, `txc_stopping`, a timer, a worker | process, worker, connection handler, message handler, timer, stop | libstrophe, the server |
| pppd interface, `if_pppd.c` | child's pid, two pipes | run (fork), stop (kill, wait), process | pppd |
| UDP, tun/tap, fd modules | descriptors | process | the kernel |
| configuration, `conf.c`, `conf_argv.c`, `conf_file.c` | list of records, `c_lock`, `c_gen`, per record `cr_ref` | store, drop, flush, lookup, get and put of a record, the two readers | main, modules |
| semaphores, threads, mutexes | as named | as named | all of the above |
| base64, I/O helpers, logging, memory | none | conversions and wrappers | transports |

How they interact. `main()` runs each module, then starts the pipeline's threads. A
*blocking* thread asks the module at its end of the list for a packet (`mop_process(NULL)`) and
hands what it gets to the neighbour; a *loop* thread does so for the modules in between. The
queued transports (HTTP, XMPP) have a worker of their own, which shares queues with the
pipeline's threads. A packet is a pointer that is passed from hand to hand; whoever consumes
it puts it back into a cache that all threads share. At the end `main()` cancels and joins the
threads, stops the modules, and frees everything.

What is hard:

* *Concurrency.* Up to three pipeline threads, a worker per transport and `main()` touch the same
  queues; `thc_send_ready` and `thc_send_offset` have no lock at all, and the side channel leaves a packet in the
  queue while it sends it; threads are cancelled
  at any blocking call.
* *Failure.* Threads that cannot be created, reads and writes that fail, a peer that goes away, a
  connection to the server that breaks in any state.
* *Ordering.* The teardown against running threads; the handler against the semaphore; the
  enqueue against the post; command line against file; the four assignments of an insertion.
* *Reuse.* A packet's buffer is used again for packets of any size; `pkt_size` is changed by every
  user. Each operation of a module takes resources one by one and must give back just those
  when a later one fails.
* *Time.* The reconnect timer against the connection's events; signals that interrupt calls.

What makes each part correct:

* pipeline, packets, module layer: every packet has exactly one owner and none is lost; directions
  agree with what modules assert; nothing is freed under a running thread; a signal ends
  the program.
* transports: each direction is a FIFO without repetition; at most one thread sends at a
  time; a host that lost its connection tries again, once at a time; stopping returns.
* configuration: counters are exact, a record lives as long as it is used; keys are unique; the
  command line wins.
* packets' buffers and lists: no access beyond a buffer, a packet is written as it was read, the cache
  does not grow beyond need, the links make lists whatever the order of the operations.
* main program: the signal handler finds its semaphore; no child is left behind; what an operation
  took before it failed is given back; no thread uses a descriptor that is closed.

`PROJECT.json` lists the components, and every hazard with the line where it bites and the
properties that are about it.

## 2. The modules

| Module | Models | Extends |
|---|---|---|
| `Pipeline` | `pipeline.c`, `module.c`, `packet.c`, the packet side of all modules, main's build and teardown | |
| `PacketFifo` | what a transport promises for one direction (abstract) | |
| `TpHttp` | two hosts of `tp_http.c` and the TCP connections between them; implements two `PacketFifo` | `Base64` |
| `TpXmpp` | two hosts of `tp_xmpp.c`, libstrophe and the server; implements two `PacketFifo` | |
| `Base64` | `base64.c`, as operators on sequences of bytes and symbols | |
| `Conf` | `conf.c`, `conf_argv.c`, `conf_file.c` | |
| `Program` | `main()` with its signals, pppd's child, the end of the worker and the modules' memory | |
| `Modules` | what init, run, stop and fini of all modules take, give back and do on errors; implements `Program` | `Program` |
| `Lists` | `list.c`, as operators on the memory of the links | |
| `PacketStore` | what `packet.c` and `queue.c` promise to the threads (abstract) | |
| `Packets` | packets with buffers on the way through a host: cache, queues, reading, writing; implements `PacketStore` | `Lists` |
| `MCPipeline`, `MCTpHttp`, `MCTpXmpp`, `MCConf`, `MCPackets` | the instances TLC checks (`Program` and `Modules` are their own) | the module named |
| `PipelineProofs`, `ConfProofs`, `PacketStoreProofs` | theorems | the module named |
| `TpHttpProofs`, `TpXmppProofs` | theorems; they use the lemmas about sequences of `ListsProofs` through INSTANCE | the module named |
| `ProgramProofs` | theorems about `Program` and `Modules`, and that the second implements the first | `Modules` |
| `ListsProofs`, `PacketsProofs` | theorems; the second builds on the first, and on `PacketStoreProofs` through INSTANCE | `Lists`; `Packets` |

`Pipeline` looks at a transport from inside one host and leaves the network out; the two
transport modules look at two hosts, and treat each host's pipeline as someone who hands packets
over and asks for them. `Packets` looks at the memory under both: the buffers and the links.
`Program` looks at the process around them, and `Modules` at what its calls take. They meet in the
actions of `mop_process()`: `Pipeline!Enqueue`, `Dequeue`, `SendNext`, `HttpWritten` and the
worker's steps are the same code as `Enqueue`, `PktRecv`, `Take`, `SetReady`, `Write` in
`TpHttp`, where `side` is FALSE, and `Enqueue`, `PktGet`, `Send`, `Receive` in `TpXmpp`. The side channel of
http is in `TpHttp` only: there a packet stays in the send queue while a thread sends it
(`pppoat_queue_front()`), and one that is being received is in `thc_recv_pkt`. `Pipeline` and
`Packets`, and all that is checked and proved of them, are about http in normal mode. `Pipeline` keeps queues as
sets of pointers (it is about who owns a packet), the transports keep them as sequences of
packet numbers (they are about order), and `Packets` keeps them as links and shows that these make
sequences.

Some definitions are marked "mutant" in a comment. They are what a slip in the code
would do to the definition that follows (a forgotten put, a lost reset); no specification
uses them. Each property was seen to fail when one of them takes the place of its original.

### Pipeline

State: the allocated packets (`heap`), `cache`, the transports' `sendq` and `recvq`, `posts`
(`txc_recv_sem`), each packet's `dir`, and for each actor `pc` and the packet `hold` its local
variable points to. Keeping the places apart makes "put twice" and "in two queues" expressible.
Control: `running` (`pl_running`), `cancel` (pending `pthread_cancel()`), `stop` (a worker was
told), `mainpc` and `nr` (where `main()` is in the list).

A thread's turn is split where another thread can come in between or where it can be
cancelled: `TestRunning`, `PollDirect`/`ReadOk`/`ReadFail`, `PollXmpp`, `Dequeue`, `Deliver`,
`WriteOk`/`ProcessFail`, `HandleError`, `LogError`, `Enqueue`, `SendNext`, `HttpWritten`,
`HandOn`, `Drop`, `Cancelled`. The labels at which `Cancelled` is possible are those whose code
calls a cancellation point. Queue operations are single steps, as the queue's mutex makes
them. A module is described by its type and by how it moves packets (`Kinds`): `"http_normal"` is the
HTTP transport without its side channel.

Left out: payload and sizes (`pppoat_packet_get()` may return any cached packet, a new one
or NULL), addresses and devices.

### PacketFifo, TpHttp, TpXmpp

`PacketFifo` numbers the packets that one pipeline hands over and lets them come out in that
order; with `Lossy` some in transit may vanish (`Lose` keeps n of them, in their order), never come
twice or out of order.

`TpHttp` starts with both connections made. `net[h][c]` is what host h can read from connection
c. The pipeline's thread (`Enqueue`, `TestReady`) and the worker (`ReadEmpty`, `ReadData`, `ReadChunk`,
`Reply`) both run `tp_http_send_next()`. `side` is the mode both hosts were configured with (one of
`Modes`). In normal mode a thread takes the packet, tells so in `thc_send_ready` and writes it
(`Take`, `SetReady`, `Write`). On the side channel a packet takes `Chunks` messages, and what a thread does for
each is split at each access to what the two threads share, since no lock covers it: the head of the
queue (`Front`), the offset where the data is found, measured and announced (`Locate`, `Measure`,
`Begin`), after the message (`SideWrite`) the sum and its assignment (`Load`, `Store`), the test
(`Compare`, which sees what was stored or what is there by then, as a build may do either), `Reset`, `Pop`
and `PutBack`. In `Measure` the size may be 0 at the end of the packet, and behind the end it wraps round and
is a full part. `returned` has the packets that were put: a thread that goes on with one of these, or
with NULL, is `Astray`, and as what follows is not defined its host is followed no further.
`FastAnswers` are the hosts whose worker may read an answer while the other thread is still between `Load` and
`PutBack` (`ReadEmpty`): all hosts may in the code.

`Fragmenting` lets `read()` return a part of a
message, in normal mode. `Stops` lets either host stop: `PipelineStopped` cancels the pipeline's thread,
and in normal mode a packet that it was writing goes with it. An assertion that fails stops the host and
is kept in `failed`. The HTTP text is left out: a message knows which part of which packet it
carries, and a cut message (`ReadFragment`) counts as no data, as the data, or fails the base64
assertion, according to where the cut is. That a cut body is one of the last two, and never other
data, is what `Base64` is for: `Enc`, `Dec` and `IsValid` are the three functions, bit by bit, and
`SurvivesCuts` says it of one body. `Bodies` are the ones that TLC tries.

`TpXmpp` keeps per host the connection's state, the reconnect timer, `txc_connected`,
`txc_stopping`, the worker's `pc`, and what the server holds for the host (`inbox`). Callbacks of
libstrophe (`Established`, `Disconnected`, `Failed`, `Receive`, `TimerFires`) only run inside
the event loop, which is where the worker's `pc` allows them. `Lost` breaks a connection at any
moment, during an attempt too; what the server delivers late is marked so, and the handler
drops it. External: libstrophe and the server.

### Conf

One critical section of `c_lock` is one action (`Insert`, `Drop`, `Flush`, `Lookup`,
`RecordGet`); `pppoat_conf_record_put()` is two (`RecordPut`, `Unlock`), because it finds the lock
to release through the record. `phase` is what `main()` is reading: the command line, the file,
or nothing any more, which is when the other threads run. A record's value is represented
by its source.

### Program

`pc` is the next call of `main()`, one step per call, so that a signal can come between any two:
`sem` and `live` are `exit_sem`, `handled` the signals whose handler is installed. `Signal` either
kills the process (default action) or runs the handler, which posts the semaphore and may
interrupt a call that is not repeated. `child` is the pppd process from `fork()` to `waitpid()`,
`linked` and `alloc` the modules that the pipeline's list links and those whose memory is there.

### Modules

Each operation of a module is a sequence of steps; a step gets one of some sets of resources, or
fails. Its record says what a failure becomes (an error that the operation returns, an
assertion, or nothing) and what is given back before the error returns. `call` and `at` are the
operation and the step, `held` what the modules have, `before` what they had when the operation was
called. The steps take place inside the steps of `Program` (`Build`, `RunIf`, `RunTp`,
`Connected`), whose variables they leave alone until the operation returns; `Interrupt` is a signal that may end
the wait for the peer in `accept()` or `connect()`.

### Lists, PacketStore, Packets

`Lists` has the memory of the links as a function from links to `ll_prev` and `ll_next`; an operation of
`list.c` is an operator from memory to memory, with the assignments in the code's order.
`Contents` follows the links from a head.

`Packets` has two such memories, `clinks` for the caches and `qlinks` for the queues. A thread's search
of the cache and the deletion after it are two steps (`Search`, `Take`) that `pks_lock` keeps together, and
`pppoat_packet_put()` is two as well (`Reset` without the lock, `Push` with it). `size` and `actual`
are `pkt_size` and `pkt_size_actual`, `fill` what was really read into the buffer, `written` how far the
loop of `pppoat_io_write_sync()` or `tp_udp_buf_send()` has come. Two transports are enough to have
both ways: with udp the threads read and write themselves, with http a worker is between them.
`PacketStore` says what this is for: packets that have one owner, FIFO queues, a packet
that is large enough, and a new one only if every cached one is too small.

## 3. The checks

`tlc -config X.cfg M`; the table gives distinct states. The longest run takes less than three
minutes with two workers.

| Run | Instance | Checks | States |
|---|---|---|---|
| `MCPipelineForward` | interface, plugin, XMPP transport; 2 packets; fair | `TypeOK`, `SemCounts`, `ExitLeak`, `Terminates` | 230 000 |
| `MCPipelineReverse` | HTTP transport, plugin, interface; 3 packets (symmetric); threads may fail to start | `Ownership`, `NoOrphan`, `NeverPastTheEnd`, `DirectionAgrees`, `TeardownOrder` | 408 000 |
| `MCTpHttp` | both modes; 2 packets one way and 3 the other in normal mode, 1 and 2 packets of 2 messages on the side channel; answers after the offset's update; fair | `OneToken`, `OneMessage`, `InStep`, `Fifo`, `QueueDrains` | 79 000 |
| `MCTpHttpModes` | both modes, hosts that stop, 1 packet each way (2 messages long on the side channel, of 1 message that may be cut, again and again, in normal mode); early answers on the client; bodies of up to 4 bytes, cut anywhere | `TypeOK`, `AtMostOnce`, `CutsAreCaughtOrShort` | 829 000 |
| `MCTpXmpp` | 2 packets one way and 1 the other, 2 lost connections, one host with `XMPP_CONN_FAIL`; fair | `TypeOK`, `KeepsTrying`, `OneAttempt`, `NoConnectWhileStopping`, `Fifo`, `StopReturns`, `SendsWhileConnected` | 295 000 |
| `MCConf` | 3 threads, 4 records, 2 keys, 4 changes (symmetric) | `TypeOK`, `RefCounts`, `FreedWhenUnused`, `UniqueKeys`, `ArgvWins`, `GenGrows` | 89 000 |
| `Program` | `Modules`: every interface with every transport, client or server, 3 signals, any step may fail; fair | `TypeOK`, `PostsLiveSemaphore`, `ChildIsReaped`, `ReleasesWhatItTook`, `HoldsWhatItUses`, `EndsOnSignal` | 9 400 |
| `MCPackets` | udp or http, 3 packets (symmetric) of up to 3 sizes, one packet per queue | `WithinBuffer`, `WholePackets`, `CacheBounded`, `ImplementsStore` | 247 000 |

Four more runs end in a counterexample on purpose and are in section 5.

Why the bounds are enough.

* *Modules.* `pppoat_pipeline_add_module()` accepts an interface or a transport at each end and
  plugins between. With a plugin all three threads run. The forward order is the one that
  `main()` builds; in the reverse order both ends work inverted (`m_invert`), and its transport is the
  other of the two that have a worker. The theorems of section 4 cover every other pipeline.
* *Packets.* A pipeline thread holds at most one packet, and so does a worker. In
  `MCPipelineReverse` three packets let three of the four threads hold one, or leave one in a queue or
  in the cache while two are in hand; when the packets run out, `pppoat_packet_get()`
  returns NULL, which is a case of its own. `MCPipelineForward` adds liveness, for which two packets are
  enough: one is with a thread that blocks or is cancelled while the other is anywhere.
* *HTTP.* A packet in hand, one under way and one queued need three packets for order to matter. `MaxSent`
  counts messages, so the side channel has fewer packets; it needs two messages per packet, a first and a last, and
  two packets, so that one follows another. `FastAnswers` is empty in `MCTpHttp`: on the side channel
  `OneToken`, `Fifo` and `InStep` only hold if the worker reads an answer after the thread that sent the message
  has come to line 425. Nothing in the code sees to that, but a network is seldom as fast as a
  few assignments; `MCTpHttpHead` (section 5) shows what happens if it is. In
  `MCTpHttpModes` the client may read early, which gives all the states behind that race: offsets at the end of a
  packet and behind it, parts sent twice, two threads with one packet. Messages are cut with one packet
  each way, which is both a packet behind its own pieces and an answer that the pieces draw too early;
  `AtMostOnce` holds for any number of packets by the theorem of section 4.
* *XMPP.* Two packets are the least that can be out of order; two lost connections are one during
  the first attempt and one after a success, or one on each host. Only one host sees
  `XMPP_CONN_FAIL`, so that the other one shows that it always tries again.
* *Configuration.* A record in the store, its replacement, one still used after it was dropped and
  one about to be stored make four.
* *Buffers.* Three packets are one for each of the three threads, or one in each queue and one in the
  cache; the sizes 0, 1 and 2 are a packet without a buffer, one that is too small for a device, and
  one that is large enough and can be read or written in two parts. A packet that was cached as
  the larger size and is used as the smaller one comes back within these bounds.
* *Bodies.* Four bytes are one full group of three and the beginning of the next; the six values of a
  byte have ones and zeros at every place where encoding cuts a byte, and body lengths
  0 to 4 have every number of `=`. `TextSurvivesCuts` of section 4 is about bodies of any length.
* *Signals.* One to end the wait, one more to come during teardown and one before the wait.

`CHECK_DEADLOCK FALSE` stands where the system may really stop: a host that has failed an
assertion or was stopped, a process that has ended, a pipeline whose `main()` waits for a thread that
was never created, the bound on the number of changes. The end of the
program is an explicit step of `Pipeline`, so `MCPipelineForward` checks that nothing else stops.

### Fairness

* `Pipeline!Fairness`: a thread that has something to do does it (weak fairness on its internal
  steps, on the workers and on `main()`). Reads and writes of a blocking thread are *not* fair:
  they may block for ever, and `Terminates` holds regardless because the thread is cancelled. The loop
  thread is never cancelled; there the write is fair, and the program relies on it.
* `TpHttp!Fairness`: both threads of a host run. New packets are not fair.
* `TpXmpp!Fairness`: the worker runs and `xmpp_run_once()` returns (it has a timeout); libstrophe
  reports a disconnection it was asked for. Connecting is not fair: the server may be away
  for ever. `SendsWhileConnected` therefore speaks of a host that stays connected.
* `Modules!ModFairSpec`: `main()` runs, pppd obeys SIGTERM. A peer need not ever connect: the steps that
  wait for it are not fair, and neither are failures.

### Refinement

Four specifications implement another one.

`Packets!ImplementsStore`: the cache is what the links of `pks_cache` lead to, each queue what
its links lead to, and a thread that has found a packet owns it when it has unlinked it. It
is checked by TLC and proved.

`Modules` implements `Program` as it stands, without a mapping: it adds variables. Everything proved
of `Program` therefore holds with every failure of every operation; it is proved.

`TpHttp!Fifo` and `TpXmpp!Fifo` say that each direction implements `PacketFifo`. The mapping
puts the packets of a direction in one sequence, oldest first: the receiver's queue, what is on the
connections (or at the server), what a worker and a pipeline thread hold, the sender's queue. On the
side channel a packet leaves with its last message: the sequence is the receiver's queue, the last
messages on the connection, and what of the sender's queue is newer than these.
An HTTP link implements the FIFO that loses nothing as long as its hosts run and, on the side
channel, answers come after the offset's update (`MCTpHttp`); in normal mode it implements the lossy one
when they may stop. The XMPP link (`MCTpXmpp`) implements the lossy one. TLC checks the first and the last; what is
about normal mode or XMPP is proved. With cut messages an HTTP host may take a piece for a whole packet; what remains then is that no
packet comes twice (`AtMostOnce`). On the side channel with early answers a part of a
packet may come twice (section 5), and no such claim is made.

## 4. The proofs

`tlapm M.tla` checks each of the eight modules; `PacketsProofs` takes about three minutes and `TpHttpProofs` eight. The proofs
take any number of packets, records, keys, threads, modules of a pipeline, lost connections, signals, sizes and links, and
bodies of any length: only the assumptions named in the modules restrict the constants. The one that names the code's own
choices is `NamesAssumption` in `Modules`: the interfaces and transports are among those of the table
`pppoat_modules`, because what a module takes is known of these only.

| Module | Theorems | Argument |
|---|---|---|
| `PipelineProofs` | `Inductive`, `TypeCorrect`, `PacketsHaveOneOwner`, `PacketsAreNotLost` | `IInv`: types, `Ownership`, `NoOrphan`, what a thread holds at each label (`HoldsByLabel`), which threads do not exist yet. Without `HoldsByLabel` a put could put NULL or a packet that is in a queue; without `NotStartedYet`, creating a thread could overwrite the packet it holds. |
| | `PacketsStayInThePipeline`, `DirectionsAgree` | `RouteInv`: `m_invert` is what the position and type of a module say, and at each label the direction of a thread's packet fits the module it is at. `Others` uses `Ownership`: turning a packet does not touch another thread's. Both assume that the two modules at the ends consume (`ConsumingEdges`), as all real ones do. |
| | `SemaphoreCountsPackets`, `OnlyCancelledThreadsLeak` | `SemInv` counts what is between the enqueue and the post and between the wait and the dequeue; `FlushInv` says that the queues of a module are empty once it was finalised. |
| | all of the above | `Kinds` has http in normal mode. With the side channel `Ownership` is false by design (a packet is in its queue and in a thread's hand at once), and `NoOrphan` and `ExitLeak` would need `thc_recv_pkt` as one more place. |
| | `TeardownIsOrdered` | `JoinInv`: at each place of `main()`, the threads it has joined by then have ended, and an ended thread does not run again. |
| `TpHttpProofs` | `TypeCorrect`, `SendingIsExclusive`, `ReadsOneMessage` | `TypeCorrect` holds in both modes and with early answers; it bounds the receiver's offset, not the sender's, which does pass the end of the packet. The other two assume that messages are not cut (`~Fragmenting`) and, if there is a side channel, that answers come after the offset's update (`FastAnswers = {}`). `TokenInv`: the right to send is in exactly one of six places (the flag, either thread, the message, the peer's answer, the answer on its way), and each connection carries at most one message of the expected kind. They hold although no lock protects `thc_send_ready`. On the side channel they rest on the offset: a thread that sends without having data (`Measure` at the end of the packet) would send what the peer takes for an answer. So `HostInv` says that while one thread is updating the offset the other one does not send, and `OffsetInv` that outside of lines 421-423 the offset is less than the packet's size. |
| | `OffsetsAgree` | the same assumptions. `SyncInv` adds to `TokenInv` what both ends know of a packet: the parts that were sent (`Sent`: the offset, and one more between a write and the update) and those that have come or are on the connection (`Received`) are the same number, all of a packet counting as none of the next (`LinkInv`); while some but not all have come, the head of the sender's queue, the packet being put together and the one in the message are the same. `ThreadInv` says at which label a thread's copies of the head and of the offset are right; without it a thread could send an old part. |
| | `PacketsComeOnce` | `OnceInv`: on its way a packet is at most at one place of six stages (the peer's receive queue, its two connections, the two threads, the send queue), and no stage has a packet that was not sent yet. `Full` says why in normal mode this survives cut messages and hosts that stop: a message is empty or has a whole packet, whose rest is lost and never comes again. `AtMostOnce` filters and joins the stages; what the filter leaves is found by a smallest counterexample. |
| | `LinkIsFifo` | in normal mode and with whole messages, `OrderInv` (the token, what a thread holds at each label, who reads) leaves at most one packet of a direction between the two queues: with the sender's threads or in the one message. So the sequence of the mapping is a queue, one packet and a queue, and each action adds at one end, takes at the other, moves the one in the middle, or loses a part when a host stops. |
| | `TextSurvivesCuts`, `CutsAreHarmless` | three bytes put into four symbols come back (`Bits`), so every place of a group does; a cut is a number of whole groups, or `IsValid` fails. A position is reached by division, which needs no induction. |
| `TpXmppProofs` | `Inductive`, `TypeCorrect`, `OneAttemptAtATime`, `StopsForGood`, `ReconnectsAlways` | `Agree(h)`: `txc_stopping`, `txc_connected`, the timer, libstrophe's connection and the worker's place determine one another. `ReconnectsAlways` is about the hosts where libstrophe does not report `XMPP_CONN_FAIL` (the complement of `FailEvents`). `TypeCorrect` also bounds the numbers of the packets: a host holds only what was handed over on the other one. |
| | `LinkIsFifo` | each action is one of four things for the sequence of the mapping: a packet at its end, the first taken, the same, or a part of it (`Remains`). What the server keeps of a host's stanzas is such a part, and parts of parts and of joined sequences are parts. |
| `ConfProofs` | `Inductive`, `TypeCorrect`, `CountersAreExact`, `RecordsLiveWhileUsed`, `KeysAreUnique`, `CommandLineWins`, `GenerationGrows` | `Counted`: a record is allocated exactly when its counter is positive, and nobody else knows a record that is about to be stored. `Prioritised`: while `main()` reads it is alone, what the command line set stays stored, so the file finds it. |
| `ProgramProofs` | `Inductive`, `TypeCorrect`, `SemaphoreIsLive`, `ChildrenAreReaped` | where `main()` is decides whether the semaphore, the handlers and the child are there. |
| | `ModulesImplementProgram` | each step of `Modules` is a step of `Program` or leaves its variables alone. |
| | `AccountHolds`, `ModulesRelease`, `ModulesHold` | `Account`: in an operation there is what was there before, and of every step that is done one of the sets it may get (`InOperation`); after the last operation there is less at each place of `main()` (`Running`). What a failure gives back is then right if the step's record names all that earlier steps may have got (`Undoes`), which is read off the tables of all seven modules. |
| `ListsProofs` | `ContentsOfList`, `InsertHeadOfList`, `InsertTailOfList`, `DelOfList`, `AssertionsHold` | A list is a sequence of links whose neighbours are linked to each other (`IsList`). Each operation makes the links of the sequence it should, leaves every list alone that it shares no link with, and leaves a deleted link pointing to itself. What following the links yields is defined by recursion; the facts about it are proved by a smallest counterexample (`LeastNat`), which needs no induction over operators. Two more sections are about sequences that lose a part, and sequences one after the other, for the transports. |
| `PacketStoreProofs` | `PacketsAreExclusive`, `CacheIsBounded` | `Owners`: types and `Exclusive`. A miss means that every cached packet is too small, so what is made of a size was in use at that moment, and the peak counts that. |
| `PacketsProofs` | `ListsImplementStore`, `AccessesStayWithinBuffers`, `PacketsStayWhole`, `CacheStaysBounded` | `Inv`: `Linking` (each head is the head of a list), `Searching` (what a search has found stays right while its thread has the lock), `Labels`, `Places`, `Bytes`, and `Owners` of the store under the mapping. Each step is shown to keep it and to be a step of `PacketStore` or none; the exclusiveness of the store is used in turn: it is why nobody else changes `pkt_size` or the links of a packet in hand. `CacheStaysBounded` is then carried over from `CacheIsBounded`. |

Only model-checked:

* liveness (`Terminates`, `QueueDrains`, `StopReturns`, `SendsWhileConnected`, `EndsOnSignal`), which is
  out of this prover's reach;
* the counterexamples of section 5, which are about the code's promises and not theorems;
* `Fifo` on the side channel. `Fifo` of a link that cuts messages is not claimed (section 3).

Every other invariant, action property and refinement of the passing runs is a theorem.

## 5. Where the code and its promises part

Each of these runs ends in a counterexample to what a comment, a header or an
assertion of the repository says.

| Run, property | What the code does |
|---|---|
| `MCTpHttpHead`, `HeadComesFirst` | On the side channel the offset moves after the write; a fast answer makes the worker send the first part twice, and the receiver's assertion fails. |
| `MCConfUnlock`, `UnlocksLiveRecord` | `pppoat_conf_record_put()` reads the record after it may have freed it. |
| `MCTpXmppRemote`, `LocksRemote` | A host without `xmpp.remote` never learns where to send. |
| `ProgramFlush`, `FlushesLiveModules` | The modules are freed while the pipeline's list still links them, then the list is flushed. |

The models contain the following behaviour as well. It is simpler to see in the code, and no run
is about it:

* after `pthread_create()` has failed, `pppoat_pipeline_stop()` joins a thread that was never created
  (`Join` in `Pipeline`);
* a module at an end that hands a packet on makes the pipeline fail an assertion, where
  `pipeline.h` promises that it releases the packet (hence `ConsumingEdges` in the theorems);
* on the side channel the same race lets two threads pop, put and use one packet (`Astray` in `TpHttp`), and a
  client that gets a size twice forgets the packet it was putting together (`ReadChunk`);
* a `read()` that returns a part of a message fails an assertion of the base64 decoder
  (`ReadFragment` in `TpHttp`), and so does a write to a host that has stopped (`Send`);
* after `XMPP_CONN_FAIL` nothing tries to connect again (`Failed` in `TpXmpp`; `KeepsTrying`
  therefore leaves out the hosts in `FailEvents`);
* a signal during `accept()`, `connect()` or the worker's `poll()` fails an assertion
  (`Interruptible` in `Program`);
* `if_pppd_run()` leaves both pipes open when `fork()` fails (`RunPppd` in `Modules`;
  `ReleasesWhatItTook` leaves it out);
* the worker of http uses the packet it asked for even if there was no memory for it
  (`OutOfMemory` in `Packets`, where it crashes);
* a packet without a buffer is never used again (`Push` in `Packets`; `CacheBounded` leaves size 0 out);
* `pppoat_io_write_sync()` does not repeat a write that a signal interrupts, as its `continue` goes to
  the condition of the loop (`WriteFails` in `Packets`: an error to the caller);
* `c_store_nr` is never increased (`storeNr` in `Conf` stays 0).

`QueueDrains` is stated around a window of one line (tp_http.c:346-347): a packet that is queued
there waits until the next one. `EndsOnSignal` is stated for a pppd that has been
executed: before `execl()` the child swallows the SIGTERM and `waitpid()` does not return.

## 6. What is not modelled

* *The side channel of http from inside one host:* `TpHttp` has it, with the packets' numbers; `Pipeline` and
  `Packets` do not. So nothing is said of who owns a packet there, of `thc_recv_pkt` as a place where a packet is
  kept and its put in `tp_http_fini()`, or of the `memcpy()` of a part into a packet (tp_http.c:305, 316), which is
  not checked against the packet's size.
* *Text:* the HTTP header, XMPP stanzas, lexing of the command line and the file, logging, the usage and
  the table of modules. They carry no state between calls.
* *Several or restarting HTTP clients:* `tp_http_listen()` and `tp_http_accept()` take the first two connections for
  the two of one client. `Modules` has the calls and their failures, `TpHttp` starts with both
  connections made and in order.
* *Other platforms:* the utun device of Apple's systems and its compatibility layer in `if_tun.c`, and
  the Android glue.
* *XMPP's service replies:* version and disco requests, message ids, stream options. They do not touch
  the tunnel's state.
* *Mutexes and semaphores from within:* queues, semaphores and `c_lock`, `pks_lock` are atomic steps or
  holders; the POSIX calls beneath are external. A failing mutex or semaphore call is an
  assertion in the code.
* *Empty packets:* `pppoat_packet_get_empty()` has no caller outside the unit tests.
* *Device contents:* `select()`, addresses and devices return any result, and no model looks at
  the bytes but `Base64`.
* *The configuration's iterator:* a stub in the code.
* *Logging from the signal handler*, which would need the C library's locks.

## 7. Plan

In order of importance; all steps are done unless noted.

1. `Pipeline`, its instances and proofs: ownership, directions, teardown, termination.
2. `PacketFifo` and `TpHttp` with proofs: the unlocked right to send, order, the side channel's offset.
3. `Conf` with proofs: counters and priority.
4. `TpXmpp` with proofs: connection, timer and stop.
5. `Program` with proofs: signals, semaphore, child, memory.
6. `Lists` with proofs: the links make sequences.
7. `PacketStore` and `Packets` with proofs: sizes, first fit, the lock, short writes, and what they
   implement.
8. `Modules`: making connections and devices, their failures; that it implements `Program`.
9. `Base64` on bounded inputs. The lexers of `conf_argv.c` and `conf_file.c` are left (text, see above).
10. The refinements `Fifo`, the account of resources, the generation and base64 for any data, proved.
11. Left: the pairing of the connections that an HTTP server accepts; the side channel in `Pipeline` and
   `Packets`; a proof of `Fifo` on the side channel.
