# ibvBench: models, checks and proofs

ibvBench measures the latency of InfiniBand verbs. Two processes (ranks) play
ping-pong with every kind of work request: SEND, RDMA WRITE, RDMA WRITE WITH
IMMEDIATE, RDMA READ, and three rendezvous protocols made of them. The programs
are short, but each relies on an order of events between two processes, two
adapters and the wire that no test forces: which byte of a write arrives last,
whether a buffer is given back to the adapter before it is read, whether a
process may leave while its peer still waits for an acknowledgement. Beside
them the repository keeps the ping-pong programs of rdma-core, which sleep on
completion events and count receive credits, and two client libraries for the
process manager that starts the ranks. These modules state what the programs rely on and check it.

## 1. The system

| Part | State | Operations | Interacts through |
|---|---|---|---|
| `ibv_common.hpp`, Device | queue pairs, shared receive queue, two completion queues, one memory region, `posted_recv_num`, `qp2rank` | `init`, `finalize`, `pollCQ`, `postRecv`, `checkAndPostRecvs`, `postSend`, `postSendImm`, `postWrite`, `postWriteImm`, `postRead` | libibverbs; PMI for the addresses of the peers |
| `bench_common.hpp`, driver | loop counters | `RUN_VARY_MSG`, `write_buffer`, `check_buffer` | calls the benchmark's lambda |
| `ibv_pingpong_{sendrecv,write,write_imm,read}.cpp` | send and receive buffer | `run` | Device, driver, barrier |
| `rendezvous/ibv_pingpong_rdv_{write,write_imm,read}.cpp` | contexts on the heap, one cache line per kind of control message, one for all that arrive | `postRTS`, `handleRTS`, `handleRTR`, `handleWriteCompletion`, `handleReadCompletion`, `handleWriteImm`, `handleFIN`, `run` | control messages (SEND with immediate), RDMA |
| `rendezvous/lcm_archive.h` | table of addresses | `init`, `put`, `get`, `remove`, `fini` | atomic compare-and-swap |
| `modules/pmi/pmi_wrapper_mpi.c` | `l_archive`, `g_archive` | `publish`, `getname`, `barrier` | MPI collectives |
| `modules/pmi/pmi1/simple` | `PMI_fd`, `PMI_initialized` | the `PMI_` functions | lines of text to and from the process manager |
| `modules/pmi/pmi2/client` | `PMI2_fd`, `PMI2_initialized`, `PMI2_rank`, `pmi2_mutex` | the `PMI2_` functions, `PMIX_Ring` | length and text to and from the process manager; threads of one process share the socket |
| `modules/pmi/pmi_wrapper_pmi1.c`, `pmi_wrapper_pmi2.c` | - | `lcm_pm_initialize`, `get_rank`, `get_size`, `publish`, `getname`, `barrier`, `finalize` | one of the two clients |
| `mpi_pingpong.cpp` | two buffers | `run` | MPI |
| `rdma-core/{rc,uc,ud,srq}_pingpong.c` | `routs`, `scnt`, `rcnt`, `pending`, completion channel | `pp_client_exch_dest`, `pp_server_exch_dest`, `pp_connect_ctx`, `pp_post_recv`, `pp_post_send`, `parse_single_wc`, the loop of `main` | libibverbs, TCP |
| `rdma-core/xsrq_pingpong.c` | `pp_cnt` per peer, two completion queues | connection, round robin `pp_post_send`, loops of `main`, termination handshake | libibverbs (XRC), TCP |
| `modules/log`, `experiments/` | - | logging, job scripts, plots | - |

What makes each part correct:

* Device: the program's count of posted receives agrees with the adapter's, so
  that no queue overflows and no sender waits for ever; `qp2rank` leads every
  queue pair number back to its rank; every queue pair is connected to the one
  the peer made for it before anyone sends.
* Benchmarks: the data checked is the data of this very round trip (the letter
  sent never changes, so `check_buffer` cannot tell); one message is in flight
  at a time; no assertion fails; both processes end.
* Rendezvous: a handler finds the message it was called for although all of
  them arrive in one cache line; contexts are neither leaked nor used once
  freed; a buffer is not reused while the peer reads it.
* Archive: a key leads back to its address whatever other threads do.
* PMI: what was published before a barrier is found after it; nobody leaves a
  barrier before all have entered it; a call reads the answers to its own
  requests; a call that fails, or waits, does so for a reason outside of the
  library and leaves the connection and the lock usable.
* rdma-core ping-pongs: a message under way finds a connected queue pair and a
  receive; no wake-up is missed; no process leaves with somebody else's message.

The hazards, each at its line, are listed in `PROJECT.json`.

## 2. The modules

    Fabric -> IbvCommon -> BenchCommon -> SendRecv, Write, WriteImm, Read
                |                    \-> RdvCommon -> RdvWrite, RdvRead, RdvWriteImm
                |                                           ArchiveKey -^
             RecvPool (abstract) -- RecvPoolProofs
    RdvWrite, RdvRead, RdvWriteImm -> Rendezvous -- RdvProofs
    Rendezvous, the other four, PingPong (abstract) -> Benchmarks
        -- BenchmarksProofs (with RdvProofs, RecvPoolProofs)
    ArchiveKey -> LcmArchive -- TableProofs
    PmiMpi -> Bootstrap -- BootstrapProofs
    ProcessManager -> PmiWire -> SimplePmi, Pmi2Client -> PmiClients
        -- PmiClientsProofs
    QpMap -- TableProofs
    VerbsPingpong (with PingPong) -- VerbsPingpongProofs
    XsrqPingpong -- XsrqPingpongProofs

**Fabric** (external). The adapters and the wire, from the way the programs use
them: reliable connected queue pairs, messages of one queue pair in order,
receiver-not-ready retried for ever (`rnr_retry = 7`), acknowledgements that may
be lost and are retried until the peer is gone (`retry_cnt = 7`), reads executed
again after a lost answer, writes placed cell by cell. A memory cell holds what
the program sees (`v`) and, as a ghost, the number of the call that produced it
(`t`). An inline request carries its data from the time it is posted; any other
fetches it when the adapter gets to it.

*Assumption.* The cells of an RDMA write are placed in ascending or in
descending order, the same in a whole behaviour. `ibv_pingpong_write.cpp` needs
this (it polls the first and the last byte); InfiniBand does not promise it, the
adapters the benchmark is run on behave so.

**IbvCommon.** One operator per function of the Device; each is a conjunct of a
benchmark's action and sets the variables of the fields the function assigns.
`pollRecvCQ` is the sequence every benchmark uses: `pollCQ(recv_cq)`,
`--posted_recv_num`, `checkAndPostRecvs`.

**RecvPool.** What the receive side promises, for any number of ranks: three
counters. The benchmarks that receive implement it (`RecvPoolOK`).

**BenchCommon.** `RUN_VARY_MSG` as a function from one call of the lambda to the
next (`NextCall`), with a ghost number `n` of the call; `write_buffer` and
`check_buffer`; barriers (the contract PmiMpi is checked for); `Abort` for a
failed `MLOG_Assert` or `check_buffer`; `Exit` for `finalize` and the end of the
process, after which its queue pairs do not answer.
Under PMI1 and PMI2 `lcm_pm_finalize` waits for nobody, so `Exit` is no barrier.

**SendRecv, Write, WriteImm, Read, RdvWrite, RdvWriteImm, RdvRead.** One module
per benchmark. `Body(r)` lists the labels of rank `r`'s lambda in source order;
an action is the code of one label. A step ends where the code starts to wait
for its adapter; the data check and each rendezvous handler is a step of its own
because the peer may write to the memory it reads in the meantime. Each has its
`Init`, its `RankStep(r)` and the state predicates that are about its own labels.

**Benchmarks.** The seven put together: the variable `bench` says which one a
behaviour runs, `config` holds the options of `parseArgs` the program keeps
(`touch_data` is chosen in the initial state, `max_msg_size` and `inline_size`
are given by constants; a rendezvous benchmark has its own, smaller, maximum).
The promises every benchmark makes are stated here once, for all of them. The
placement order of writes matters to the two programs with a plain RDMA write
and is ascending in the others.

**RdvCommon.** Contexts are addresses from a set `Ctx` with their fields in
`heap`; `malloc` picks any address not in use, so a stale pointer may well point
to a new context. Using a dead one is an abort. A cache line is one cell. The
code allocates with `malloc` and frees with `delete`; the model makes no
difference.

**LcmArchive.** `put` and `remove` by several threads, one action per access to
the table. Two threads never put the same address (each has just allocated it).
A probe past the end of the table leads to the state `"wild"`.

**PmiMpi.** `lcm_pm_publish`, `lcm_pm_getname`, `lcm_pm_barrier`. MPI's
collectives are external: a rank leaves one once all have entered it, and may
then enter the next while a slow rank is still in the last. **Bootstrap** is
`ibv::init` on top of it.

**ProcessManager** (external). mpiexec or slurmd, from the requests the clients
send, the answers they expect and the contracts in `pmi.h` and `pmi2.h`. Per rank
a queue of requests and one of answers. It collects barriers and rings until
all ranks are in, serves the requests of a rank in order (a later one first
when an earlier one has to wait, which only threads can bring about), may refuse
a request, may answer a PMI2 fence before all have entered it and let the next
get wait instead (`lazy`), takes whatever follows the first lines of an
unfinished spawn command for a part of it (`mid`), kills the job on an abort, and
may die at any time.

**PmiWire.** What both clients share: the connection, the state of the library,
and for each thread the call in progress, as the list `todo` of the commands it
still has to exchange. A command is a write and a read, two steps that other
threads, other ranks and the manager come between; an exchange that fails leaves
its reason in `res`. A value is its length. The history variables note the
barriers a rank entered and left, what it published, and the ranks (`mixed`)
where a call that takes no lock met another call on the socket.

**SimplePmi.** The functions of `simple_pmi.c` as the exchanges they make:
`PMI_Init` finds a socket (`getPMIFD`) and exchanges the lines of `PMII_getmaxes`,
`lcm_pm_publish` is the name of the key value space and a put. `PMIU_writeline`
and `GetResponse` are the two halves of an exchange, with the line that is cut
off and never written, the write that fails (an error, or SIGPIPE), the end of
the stream, the refusal. `PMI_Spawn_multiple` may return in the middle of its
command. `pmi.h` defines `USE_PMI_PORT`, so without `PMI_FD` the client connects to
`PMI_PORT`; when that fails so does `PMI_Init`. With `PMI_ID` it asks the manager for
its rank first (`initack`, whose failure nobody notices and which leaves the rank
0), with `PMI_TOTALVIEW` it reads a line nobody asked for (`world.hello` says which).
A process with neither is a singleton: the first `PMI_Get_universe_size`,
`PMI_KVS_Get` or `PMI_Spawn_multiple` forks an mpiexec (`PMII_singinit`), waits in
`accept_one_connection` for it, exchanges greetings and becomes a client of it
(`PMIi_InitIfSingleton`; `fd` is `"own"`, `inited` becomes `"pm"`, or `"alone"` after a
failure, for there is no second attempt). This mpiexec is external and has one
client: its answers are any it may give (`MpiexecSays`), it may never connect, may
die, or may be left in an unfinished spawn command (`"stuck"`). Where `execvp`
fails, the child returns into the program as well; the model goes on with either
process.

**Pmi2Client.** The functions of `pmi2_api.c`. Those in `LockFree` write at once,
the others take `pmi2_mutex` first and give it back when they return. An answer
is read in two steps, `ReadLength` and `ReadBody`; a thread that reads in between
takes bytes of another thread's answer, after which the stream is broken.

**PmiClients.** A job over one of the two clients: two ranks call initialize,
publish, barrier, getname, barrier, finalize, and between the barriers rank 0
calls any other function of the library, from either of its threads (the second
one calls while the first is in a function, but not in `PMI2_Finalize`). `world`
says which client is linked and what the environment of the processes is
(`PMI_FD`; `PMI_PORT`, with `PMI_ID` for PMI2 and with or without for PMI1;
neither). Over PMI1 a program also asks for its size (`lcm_pm_get_size`), an
exchange that may be the one a singleton starts its mpiexec for; its result, when
it fails a variable nobody has set, is the number of keys the program looks for
(`Others`). A process without a manager is a job of its own, and rank 0 stands for
it.

**QpMap.** The search for the modulus of `qp2rank` and the table, one action per
loop iteration.

**VerbsPingpong.** The four programs share their structure, so one module holds
them: `prog` says which one a behaviour runs (`rc_ts` is `rc_pingpong -t`),
`use_event` whether with `-e`. `Script(s)` lists the steps of a side up to the
loop: the server connects before it answers with its address, the client after
it has said "done". One action is one call that the other side, the adapter or
TCP can interfere with; `Parse` and `Answer` are the two halves of
`parse_single_wc`, before and at `pp_post_send`. The programs differ in
`Reliable` (rc and srq retry, uc and ud drop), `Batch` (completions per poll) and
`Qps`. An armed completion queue raises one event and is disarmed; events stay
in the channel even when their completion has been polled. A reliable send is
`posted`, `delivered`, perhaps `unacked`, `done`, and frees its place in the send
queue (of length one) when its completion is polled. In srq the MAX_QP addresses
of a side are one message.

**XsrqPingpong.** One server, several clients. The server's message for client
`i` travels through queue pair `(i + pp_cnt) % num_clients`, hence to the adapter
of another client, and from there into client `i`'s shared receive queue; only
the last message for a peer has a completion. `NextIndex` is a loop over the
peers; clients are numbered in the order in which the server accepts them.
`QueuesSuffice` bounds `send_cq` while it is read: after the loop over it a
process waits for the handshake and nobody reads it, and an unsignaled message
whose acknowledgement is lost, to a peer that has left, adds its failure to it.
A message to a target queue pair that is not connected is repeated, and
`RetriesEnd` may end that at any time (`retry_cnt = 7`, `timeout = 14`): the queue
pair is `broken`, and its messages complete with a failure whose status main does
not read. This can happen to the server's first messages, for it posts them
without a sign that a client has connected. Messages that find no receive are
repeated without limit (`rnr_retry = 7`), and `MaxLost` lost acknowledgements are
fewer than seven in a row.

**PingPong.** What a two-sided ping-pong is: N round trips, one message at a
time, each received once, before it is answered.

## 3. The runs

| Run | Bounds | Shows |
|---|---|---|
| `qp_map` | 3 ranks, numbers below 8, `JMax` 10 | all 336 choices of three numbers; search, table, lookup |
| `recv_pool` | 2 ranks, marks 2 and 4 | exact counter, no overflow, no starvation |
| `benchmarks` | sizes 1, 2, 4 (rendezvous 1, 2), small ones 1 + 1 calls, large ones 1 + 2, inline up to 1, cache line 2, receives 2 to 3, two context addresses, one lost acknowledgement | the properties of `Benchmarks` for all seven programs, below |
| `archive` | 2 threads, 8 entries, 5 addresses, 4 of them with the same hash | keys, removes, lost entries, termination of put |
| `bootstrap` | 3 ranks, 3 queue pair numbers | names are found, once, wiring, readiness, `init` returns |
| `verbs_pingpong` | 2 iterations, 3 receives, srq with 2 queue pairs, one loss, one short read | the credits, the ping-pong and the end of rc, rc -t, uc, ud, srq; spinning and sleeping |
| `xsrq_pingpong` | 2 clients, 2 messages for each when sleeping, 3 and one lost acknowledgement when spinning; retries that run out in both | nobody leaves early, queues suffice, everybody ends unless retries ran out |
| `pmi` | 2 ranks, universe of 3, 2 threads, 2 barriers, 1 refusal, values of length 200, 300, 1100 | the properties of `PmiClients` for both clients and all environments, below |
| `send_recv_lossy` | `sendrecv` alone, one loss | violation, finding 1 |
| `archive_full` | two addresses that hash to the last entry | violation, finding 2 |
| `rc_ts_events` | rc with `-t` and `-e`, no loss | violation, finding 3 |
| `pmi_success` | as `pmi` | violation, finding 4 |

The properties of `benchmarks`, and what each would catch:

| Property | A violation would be |
|---|---|
| `AbortsExplained` | an assertion or a data check that fails, or a freed context used, other than in finding 1 |
| `FreshData` | a check of data that is not all there, or that a former call left: `check_buffer` compares letters that never change |
| `ResetIsSafe` | the receiver of a plain write resetting bytes of the next message |
| `HandlersFindTheirs` | a handler reading a control message that the next one has overwritten |
| `ContextsAccounted` | a context leaked, freed twice, or left in the archive |
| `SourceStable` | memory changing while the peer's read of it, or its repetition, is outstanding |
| `RecvPoolOK` | `posted_recv_num` out of step with the adapter: the pool is not a `RecvPool` |
| `IsPingPong` | two messages in flight, one received twice or not at all, an answer before its question |
| `Terminates` | both ranks waiting for each other, or one spinning on a byte that was wiped out |

`ibv_pingpong_read.cpp` is also run with a region smaller than its signals
(`SignalTooLong`): `AbortsExplained` says that it then stops at the first signal
and nowhere else.

The properties of the rdma-core programs:

| Property | A violation would be |
|---|---|
| `ReceiverReady` | a message under way to a queue pair that is not connected, or with no receive left for it |
| `CreditsExact` | `routs` out of step with the adapter, a completion queue that overflows |
| `FailuresExplained` | `main` returning 1 although no read came short and the peer is still there |
| `IsPingPong` | a queue pair with two messages in flight, or an answer before its question |
| `Terminates` | a missed wake-up, or both sides waiting, although nothing was lost for good; in xsrq, although no retries of the server ran out |
| `NobodyLeftEarly` | an XRC client that closes while a message for another one is in its queue pair |
| `QueuesSuffice` | a message without a receive, or a completion queue of `num_clients` entries that overflows |

The properties of `pmi`:

| Property | A violation would be |
|---|---|
| `OwnAnswers` | a call that takes another thread's answer, or a part of it, although both hold the lock for it |
| `BarrierHolds` | a rank leaving a barrier before all have entered it, with a living manager that is not lazy |
| `NamesVisible` | a name published before a barrier and not found, or found with another value, after it; after a lazy fence too |
| `CallFailuresExplained` | a call that fails although manager, arguments and key are fine, for instance because an earlier failure closed the connection |
| `CallsReturn` | a call that never returns although nothing it depends on is missing: a lock that was not given back, an answer that was lost. `Waits` lists what a call may wait for: the lock another thread's call holds, the other ranks, an attribute, the mpiexec a singleton has started and waits for in `accept`, and the two cases of PMI1 where a request was never written or was swallowed by an unfinished spawn command |

`OwnAnswers` and the others hold only where no lock-free function met another
call: with them two threads do take each other's answers, and the property says
that this is the only way. `BarrierHolds` fails for a lazy manager; that is what
`pmi_wrapper_pmi2.c:39` warns of ("Switching to PMI2 breaks this barrier").
`NamesVisible` leaves out an environment with `PMI_ID`: `PMI2_Init` returns the
rank of the manager's answer to its caller but keeps `PMI2_rank` 0, so that
`lcm_pm_get_rank` is 0 on every rank and all publish under one name. These
exceptions are what the code does; the properties state them and show that
there are no others. `PROJECT.json` says at each such hazard what is stated and
what is caught.

*Why the bounds are enough.* A call of a lambda depends on the previous one only
through what is left in buffers and queues, and at most one message and its
acknowledgement are left; two message sizes show a longer buffer after a shorter
one, 1 + 2 calls the repetition of a loop, and the refill of the receive pool
happens at least twice. In the rdma-core programs two iterations show one
repetition of the loop, and the overshoot of a side that has counted enough;
three receives with a low-water mark of one or two let the refill happen with
and without completions waiting. srq, whose two queue pairs make the most
states, runs without losses and short reads (`Mishaps`). xsrq loses acknowledgements only
without `-e` (`Lossy`): a lost one delays an entry of `send_cq`, which is polled in
both modes, and touches no event. Three messages for
each client (`SpinTests`) are the first number with which an unsignaled message
can follow the signaled one of another client in the same queue, so that the
server ends, and a client closes, before its acknowledgement is back. That
message has been delivered, and `NobodyLeftEarly` is about the others; that no
message at all is left in a queue is true with two messages and false with
three. The event loop, which shares everything but the wake-up, has two
(`EventTests`): with three in both modes the invariants hold as well, but the
2.2 million states are too many for the liveness check. One loss covers every position of a lost acknowledgement;
a second one only repeats the retry. Two context addresses let an address be
used again while the other is live, which is the most that is ever live on a
rank. Four addresses with one hash fill all three probes of `put`. In `pmi` one refusal
shows every request refused once, and the calls after it; two barriers show a
rank a barrier ahead of the other; a length of 200 fits everywhere, 300 is cut
off by the caller's buffer and too long for a singleton, 1100 is too long for a
line of PMI1 and a value of PMI2; a universe of 3 has one key nobody publishes.
A thread makes one call beyond the wrapper's, rank 0's calls of that kind come
while the other rank waits at its second barrier (what two ranks send meets only
in the manager, which serves one request at a time), and a rank whose threads
have mixed up their answers makes no further call. `Cap`, `MaxRefusals`,
`MaxBarriers`, `MaxLost`, `EventTests`, `SpinTests`, `JMax`, `QpBound`, the message sizes and the iteration counts are the
named bounds; the Device's own numbers (8 receives, at most 8 requests) are
scaled down with the order between them kept. Bodies of more than one iteration of `pollCQ`'s loop that
find nothing are stuttering steps.

*Fairness.* Weak fairness per rank: each rank is a process that spins and is
scheduled by the operating system. Weak fairness of the adapter actions per
rank: an adapter works off its send queue without the process. No fairness for
losing an acknowledgement. In `archive` the threads inside `put` or `remove` are
scheduled; nothing makes a thread call them. In `bootstrap` every rank keeps
running.

In `pmi` a thread inside the library keeps running and the manager serves what
it can, as does an mpiexec that has connected; nobody has to call anything, the
manager need not die, and a singleton's mpiexec need not connect.

In `verbs_pingpong` weak fairness of each process and of each adapter. In
`xsrq_pingpong` less is enough, since no step can be undone: while a process can
run or an adapter has work, one of them goes on. Nothing has to get lost and no
retries have to run out. Three waits without end are left out of `Terminates` by
name. In uc and ud a process may wait for a datagram that was lost, and in every
one of the five programs a client may wait for a server that gave up on a short
`"done"` when its queue pairs had already taken the client's first messages
(`MayHang`; a client whose messages were not taken yet ends with an error, and
`Terminates` says so); in xsrq everybody may wait once the retries of the server
have run out (`Stranded`).

*Findings.* (1) `ibv_pingpong_sendrecv.cpp` (and the rendezvous benchmarks, where
`AbortsExplained` states how far the trouble goes) leave without a
barrier: when the acknowledgement of the last message is lost or late, the
peer's send completes with an error and its assertion fails, in the last call
and only after the other process has left. (2) the probe of
`LCM_archive_put` is not masked and leaves the table. (3) `rc_pingpong -t -e`
gives up on an event whose completion an earlier wake-up has taken: the retry on
ENOENT is for polling only. (4) `PMI_Init` ignores that the exchange with the
manager failed and reports success; the three name functions of PMI1 and
`PMI2_Job_Spawn` do the same. Smaller observations, which are exceptions the
properties state or follow from reading: `ibv_pingpong_read.cpp` sends signals of
one cache line from a region that may be smaller; `srq_pingpong` counts `iters`
over all queue pairs where its usage says per queue pair; `PMI2_rank` stays 0
with `PMI_ID`; a PMI1 request that does not fit into a line is not sent and its
caller waits for ever; a PMI1 program without a manager starts an mpiexec to be
told its size and waits for it without a limit; the server of xsrq posts its first
messages with no sign that the clients have connected, and the status of one whose
retries ran out is not read.

## 4. What is proved

Eight modules hold proofs; they hold for every value of the constants the named
assumptions allow.

* `TableProofs`, of the two tables of the library. For `QpMap`, from
  `QpMapAssumption` (positive number of ranks, queue pair numbers
  below `QpBound`, `QpBound < JMax`): the inductive invariant says what
  the marks in `b` mean: slot `k` is marked exactly when one of the first `i`
  queue pairs falls on it; those have different remainders; every modulus below
  `j` fails to separate the queue pairs; `j <= QpBound` as long as the search
  runs, because the numbers themselves are below it and different. From it:
  `TypeOK`, `LookupCorrect`, `SmallestModulus`, `SearchSucceeds`.
  For `LcmArchive`, from `CapAssumption` and `ArchiveAssumption`: the
  inductive invariant adds to the properties that keys given out or being
  removed are pairwise different, that an address belongs to one thread or one
  key, and that a thread before its compare-and-swap owns no entry. From it:
  `ArchiveTypeOK`, `KeyLeadsBack`, `RemoveReturnsOwn`, `NothingLost`.
* `RecvPoolProofs`, from `PoolAssumption` (`1 <= min <= max < max_cqe`).
  `PoolExact` is inductive; `NoOverflow` and `NeverStarved` follow.
* `BenchmarksProofs`, from the assumptions of the benchmarks' modules: every
  step of each of the seven benchmarks is a step of `RecvPool` or leaves it
  alone (`RecvPoolOK`, `BenchmarksImplementPool`). The refinement mapping is the
  length of `srq` and of `recv_cq`. The invariant it needs says only that the
  pool is in order: a rank before its first `checkAndPostRecvs` has nothing
  posted, and the counter of a rank after it covers what lies in its two
  queues. Each of the many actions is first reduced to one of four effects on
  the pool (`RankEffect`, `FabricEffect`), and these are mapped. The theorems of
  `RecvPoolProofs` are then instantiated (`BenchmarksReceive`), and
  `checkAndPostRecvs` never asks for more than the queue takes
  (`PostRecvsNeverFail`).
  For `ibv_pingpong_write.cpp`, where a receiver polls two bytes of its buffer
  and sets them back before the next message, `ResetIsSafe` is proved from
  `WInv` (`WriteInvariant`, `ResetNeverWipes`). It counts the messages a rank has
  posted and has seen (`WOrder`: none is seen before it is posted), ties the calls
  of the two ranks together (`SameCalls`: at most one apart, so that sizes only
  grow from one message to the next), and says of the buffer (`WBuffer`) which
  cells cannot hold the letter of the peer: those beyond any message so far, the
  two polled ones while nothing is to be seen, and those of a write under way
  that have not arrived, which are the last or the first ones according to the
  order the adapter writes in. Seeing both polled cells therefore means that the
  whole write has arrived, and a rank resets only after it has seen.
* `RdvProofs`, lemmas about the three rendezvous programs, of which
  `BenchmarksProofs` makes theorems. `AdapterDoes` says what the adapter can do
  with the one request a rank has outstanding, `RRProceeds`, `RWProceeds` and
  `RIProceeds` which statement follows which. In `ibv_pingpong_rdv_write.cpp` and
  `ibv_pingpong_rdv_read.cpp` a handler frees the context whose address is in the
  message it handles, and aborts if there is none; it is enough to know between
  which statements a rank has a context (`RWContexts`, `RRContexts`: one or none,
  never two). `ibv_pingpong_rdv_write_imm.cpp` finds the context to free by the
  immediate of a write: a key that the receiver took from its archive, sent in the
  RTR, and got back from the peer. `RIInv` follows it: an RTR, wherever a copy of it
  lies, carries a key inside the archive (`RICell`, of every cell of both memories);
  so does a write, while it is under way (`RIQueue`) and when it has arrived
  (`RIReceived`); and the archive is empty, or has one entry, which is the rank's
  only context (`RIContexts`). Removing a key that is not the right one would find
  an empty entry, which the handler does not survive. From it (with `CtxAssumption`:
  malloc returns no null pointer): `RdvWriteImmInvariant` and, for all three
  programs, `ContextsNeverLeak`, that is `ContextsAccounted`.
  `HandlersFindTheirs` is about messages that all arrive in one line, so the
  invariant `RdvLines` (`ControlInOrder`) counts them: what a rank has posted is what
  its peer has taken, what waits in the peer's completion queue and what is under
  way, at most one, except that the last one may be lost on a request that has
  failed (`Link`); the one that arrived last is the one in the line, of the kind
  its place in the call demands and with the number of that call (`Fits`); and
  both counts follow from the label and the number of the call a rank is in
  (`Counted`). A handler runs with nothing more under way, so the line still holds
  its message (`HandlersNeverMixed`).
* `PmiClientsProofs`, from the assumptions of `ProcessManager` and `PmiWire`
  (`NoneAssumption`: the value for "nobody, nothing" is no thread and no request,
  so that a rank that waits in a round is told from one that does not).
  `OwnAnswers` is about
  answers that carry nothing that says whose they are, so the invariant `Wire`
  is about the socket: at most one message is on the way between a rank and the
  manager, and it belongs to the one exchange in progress. That needs the mutex
  of PMI2 (`Locks`), the phases of a client (`Socket`), and an exception for the
  one request that is never answered, the command `PMI_Spawn_multiple` gives up
  halfway (`Silent`). It is claimed of a rank until a call that takes no lock has
  met another one there (`mixed`), which is what the property says too. From it:
  `TypeOK`, `OwnAnswers`.
  On top of `Wire`: `BarrierHolds` compares what one rank has
  left with what another has entered; in between lie the request, the manager's
  round, the answers and the read. The invariant `Fence` counts on that path:
  what a rank has completed (left, or its answer is there) is at most what
  every other has entered for certain (its request is no longer to be written,
  on the socket or in the round). The step that closes a round raises both by
  one, and every other step raises neither. From it: `BarrierHolds`, for every
  number of ranks and `MaxBarriers`.
  Also on top of `Wire`: the invariant `Names` follows a value from the
  publisher's call through its request and the manager's store to an answer and
  the reader's call. Requests and answers about names carry what their call
  asked for (`Asked`, `Told`); what a rank has published is in the store,
  because only that rank puts under its key, once and before its first barrier
  (`Published`); and once a rank has its first barrier behind it and the manager
  does not hold it back (`Through`), every rank has published and the manager
  owes all of it to everyone (`Owed`). The argument does not count barriers, so
  it covers lazy fences, for which `BarrierHolds` is not claimed: there a rank
  leaves early, and its gets wait in the manager for the round. `Justified` says
  of each call in progress that it has failed for a reason or has what it asked
  for. From it: `NamesVisible` and `CallFailuresExplained`.
  All this is about jobs with a manager, or over PMI2. A PMI1 process without
  one shares no wire with anybody, and has an invariant of its own (`Apart`):
  no manager is asked, the mpiexec is started, accepted, greeted and spoken to
  in this order, and a call that has failed has done so for one of the reasons
  `CallFailuresExplained` names. Each of the five properties follows from `Wire`
  and its additions or from `Apart`.
* `VerbsPingpongProofs`, from `VerbsAssumption`, for all five programs, every
  depth and number of queue pairs and any number of losses and short reads. The
  invariant `Inv` is about the *pile* of a side: the completions its program has
  not counted yet, in main's array or in the queue. No two completions of a
  pile have the same kind and queue pair; a receive in it belongs to a message
  its sender has sent and the receiver has not counted, and such a message is
  no longer under way. Hence a pile has at most one receive per queue pair
  without a message under way, and `routs`, which does not go below the number of
  queue pairs, leaves a receive for every message that is. From it:
  `CreditsExact`, `ReceiverReady`, the refinement `IsPingPong` (an answer finds it
  is its side's turn, a receive counts a message once), and
  `FailuresExplained`, of every program but `rc_pingpong -t -e`: there a poll after
  an event may find nothing and fail, which is the subject of a run of its own.
* `BootstrapProofs`, from `NRanksAssumption`, for Bootstrap and the PmiMpi under
  it. The invariant `Boot` ties three things together: the phase a rank is in,
  the collective calls of MPI it has entered and left, and what it has
  contributed to them; that no rank leaves a collective before all have entered
  it; and that each rank's archive is the concatenation, over the ranks, of the
  names they contributed. What that concatenation holds for an arbitrary number
  of ranks is an induction over data; it is done by least counterexample
  (`LeastNatural`, from the well-foundedness of `<` on the naturals), which the
  provers can follow. From it: `Wired`, `ReadyToReceive`, `PublishedIsFound`,
  `DeliveredOnce`, and that no lookup fails (`LookupsSucceed`).
* `XsrqPingpongProofs`, from `XsrqAssumption`, for every number of clients,
  messages and lost acknowledgements. The invariant `Inv` says of each client
  that one ball is in play between it and the server, a message under way, a
  completion that waits or one that is handled, and that the two counts of
  messages tell on whose side (`Turn`). The server counts completions of all
  clients together and leaves its loop by that one number; `Progress` says that
  the number is the cardinality of a set, the messages of each client that lie
  behind the server (`Handled`), so that when it reaches `num_clients *
  num_tests` the set is everything and every client's ball is out of play.
  `Handshake` carries that to the clients: who has closed, or is told to,
  knows that everybody is done. `Completions` bounds what is or will be in
  `send_cq` by the peers that have had their last message. From it:
  `NobodyLeftEarly`, and `QueuesSuffice`, because at the server a client has
  either a message under way or a completion that waits, never both, and at a
  client all messages of the server, in whichever queue pair, are one.
  When retries run out a ball goes out of play without being counted (`Astray`);
  the failures of messages without a completion of their own then take places
  in `send_cq`, each that of a client whose last message is never posted. It
  happens to the server only (`Linked`): a client posts in answer to a message,
  and the server connects all its queue pairs before it posts the first.

Only model-checked: everything with fairness (`Terminates`, `PutReturns`,
`InitReturns` and the other temporal properties), which is out of the prover's
reach; the data the benchmarks move and their refinement of `PingPong`
(`IsPingPong` of Benchmarks, `FreshData`, `SourceStable`, `AbortsExplained`), and
the types of Benchmarks, which depend on what the driver's recursive loop
counts.

## 5. What is not modelled

* `init` before the queue pairs: choosing an adapter, queries, exits of a
  machine without one. They depend on no other process.
* `parseArgs`, timing, PAPI, printing, CPU binding.
* `min_msg_size = 0`: the driver's loop does not end (`0 << 1`); excluded by
  `BenchAssumption`.
* Growing the arrays of `pmi_wrapper_mpi.c`; strings longer than
  `STRING_LIMIT` (keys and names are shorter).
* PMI1: `PMIU_parse_keyvals` byte by byte; the functions that return a number read
  at initialisation; what the mpiexec of a singleton holds, and the child of its
  fork next to the parent. PMI2: the code under `MPICH_IS_THREADED`, with its queue
  of pending requests, which the build does not define; the splitting of an
  answer into keys and values; a partial write. `PMIU_writeline` is taken to write
  a line in one piece.
* `mpi_pingpong.cpp`: blocking `MPI_Send` and `MPI_Recv` in strict alternation; all
  of its protocol is in MPI.
* rdma-core: options, on-demand paging and device memory, the statistics of the
  timestamps, the check of the buffer with `-c`, the acknowledgement of events
  before the end (`ibv_ack_cq_events`), an `rx_depth` of 0. Of the set-up and the
  closing of the contexts (`pp_init_ctx`, `create_qps`, `pp_close_ctx`) the sizes of
  the queues and the fact that queue pairs come and go are modelled, not the error
  returns of a call that fails on its own machine. Reads of a socket come short
  or find it closed, but do not return an error: where one does, the exchange of
  srq (`srq_pingpong.c:211`, `304`) returns the addresses read so far as if they
  were all, and main goes on with them. The loops that read an address in srq and
  xsrq spin when the peer has closed the connection; no peer does before it has
  sent its addresses.
  `pingpong.c`, `devinfo.c`, `device_list.c`, `asyncwatch.c`: conversions and
  queries without a protocol.
* Job scripts and plots.

## 6. Plan

Order of the modules, the most important behaviour first. Done: QpMap, RecvPool,
Fabric to SendRecv, the other three ping-pongs, the three rendezvous protocols,
their composition Benchmarks, LcmArchive, PmiMpi, Bootstrap, VerbsPingpong,
XsrqPingpong, the process manager and both PMI clients with their composition
PmiClients. Left:

1. Proofs: the refinement of PingPong by SendRecv.
2. `mpi_pingpong.cpp` as one more implementation of PingPong.
