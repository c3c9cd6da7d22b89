# A verification project for geminidb

geminidb (`src/`) is a small data server descended from SSDB: one process that
speaks a line-framed protocol over TCP, runs the commands of its clients on a
main thread and two pools of worker threads, and stores key-value pairs and
double-ended queues in leveldb.  This directory holds TLA+ models of its core,
TLC configurations that check them, and TLAPS proofs about them.

`PROJECT.json` maps every definition to the source lines it stands for and
lists runs, mutants, findings, hazards and theorems.

    tlasany M.tla                          parse
    tlc -workers 2 -config X.cfg MCM.tla   check a configuration
    tlapm MProofs.tla                      check the proofs

## 1. The system

Paths are relative to `src/src/`.

| Component | State | Operations | Talks to |
|---|---|---|---|
| `NetworkServer` (`net/server.cpp`) | two ready lists, `link_count`, the pools, `quit` | `serve` (the event loop), `accept_link`, `proc_request`, `proc`, `proc_result` | Fdevents, Links, WorkerPools, handlers |
| `Fdevents` (`net/fde*.{h,cpp}`) | per descriptor: subscribed flags, data pointer; the epoll instance | `set`, `del`, `clr`, `wait` | kernel |
| `Link`, `Buffer` (`net/link.cpp`, `util/bytes.*`) | socket, input and output buffer, `error_`, the last decoded request (pointers into the input buffer) | `accept`, `read`, `write`, `recv`, `send` | main thread and, while a job runs, one worker |
| `ProcMap`, `ProcServer` (`net/proc.*`, `serv.cpp`) | command table with flags and counters | `set_proc`, `get_proc` | NetworkServer |
| `ProcWorker` (`net/worker.cpp`) | - | `proc`: handler, `send`, for readers `write` | WorkerPool, Link |
| `WorkerPool` (`util/thread.h`) | `jobs`, `results`, threads | `start`, `push`, `pop`, `stop` | the two queues |
| `Queue` (`util/thread.h`) | items, mutex, condition | `push`, `pop` | main thread -> workers |
| `SelectableQueue` (`util/thread.h`) | items, mutex, pipe | `push`, `pop` | workers -> main thread |
| queue commands (`proc_queue.cpp`) | a loop per call | `qpush*`, `qpop*`, `qfront`, `qback`, `qsize` | t_queue |
| t_queue (`data/t_queue.*`) | keys in leveldb: size, two ends, items | `_qpush`, `_qpop`, `qfront`, `qback`, `qsize` | BinlogQueue, leveldb |
| `BinlogQueue`, `Transaction` (`data/binlog.*`) | one shared write batch, a mutex | `begin`, `Put`, `Delete`, `commit`, `rollback` | leveldb |
| key-value (`proc_kv.cpp`, `data/t_kv.cpp`) | keys in leveldb | `get set del exists multi_*` | BinlogQueue, leveldb |
| `Config` (`util/config.cpp`) | a tree of keys and values | `load`, `get`, `get_str`, `save` | main |
| `Logger` (`util/log.cpp`) | a file, its size, a mutex | `open`, `logv`, `rotate` | every thread |
| `main` (`geminidb-server.cpp`) | pid file, and the order in which everything starts and stops | `init`, `run`, signals | all, and other server processes by pid file, port and data directory |
| `GEMINIDBImpl`, `Options`, `Response` | pointers, values | open, defaults, formatting | leveldb |
| leveldb, snappy, jemalloc (`src/deps`) | - | external | - |

**How a request runs.**  epoll reports input; `proc_request` reads it into the
input buffer and puts the link on the ready list; `serve` decodes one request
and either runs it (`info`, `version`, `ping`, unknown commands) or queues a
job to the reader pool (10 threads) or the writer pool (1 thread) and deletes
the link's events.  The worker runs the handler, appends the response, and
pushes the job back; the pool's pipe becomes readable; `proc_result` writes the
output and either watches the link for input again or, when more input is
buffered, puts it back on a ready list.

**What is hard.**  A `Link` is shared by pointer and owned by convention only;
`Fdevents` caches what the kernel knows and is not told about `close`; all
transactions share one write batch; the peeks take no lock; the two thread
queues each have a subtle protocol (signal after unlock; write with the mutex
held); storage is not synced; workers are cancelled wherever they are when the
server stops, and a second server may be starting meanwhile.  Section 6 and the `hazards` of `PROJECT.json`
go through these one by one.

**What makes each part correct.**

- t_queue: a double-ended queue per name; errors have no effect; a crash falls
  back to a boundary between two operations.
- Transactions: as if each ran alone.
- Queue commands: a multi-item call is a prefix of itself at every moment.
- Job queue, result queue: FIFO, nothing lost, nobody sleeps or blocks for ever.
- Event loop: one owner per link, no use after delete, no stale registration,
  responses in order, no request forgotten, output sent, no link dropped
  without a reason.
- Link framing: the requests decoded do not depend on how the stream was cut
  into reads; a read always finds room; no byte of an answer is lost.
- Key-value: a writing command changes all its keys or none and its answer says
  which; reading commands see committed values only.
- Logger: the files are one log, nothing that was written lost, doubled or out of order; no file
  grows without bound; kills, restarts and failed rotations included.
- Config: the tree is what the indents say, and saving keeps it.
- Life cycle: who listens owns the database; stopping releases both whatever
  the cancelled threads hold; a crash leaves nothing that keeps the next server
  from starting; the pid file outlasts what it stands for.

## 2. The modules

    DequeSpec <----- QueueStore <---- QueueService --- QueueProofs
                         |                             (about both)
                     QueueKeys        (keys, batch, staging, and the state both share)

    FifoSpec <------ JobQueue ------ JobQueueProofs
        ^----------- ResultQueue --- ResultQueueProofs

    MapSpec <------- KvService ----- KvServiceProofs

    Buffer --- LinkBuffer --- Link   Framing (pure: packets and their parser)
                   |            |       |
                   |            +-------+
                   |                |
               LinkProofs ----------+   (about all four)

    LogSpec <------- Logger ------ LoggerProofs

    Config <-------- Lifecycle --- LifecycleProofs     (Config is pure; the
                                                        proofs are about both)

    Fdevents <------ NetServer ----- NetServerProofs
    ProcMap  <---------+             (NetServer uses the pools at the grain of
                                      FifoSpec, and links as counts of requests)

Abstract specifications: `DequeSpec` (what the queue commands promise),
`MapSpec` (what the key-value commands promise), `FifoSpec` (what the two
thread queues promise) and `LogSpec` (what the logger promises).  `MC*` modules and the `.cfg`
files instantiate the others.  An operator named `X_something` standing before
`X`, under a comment that says "Mutant", is a deliberately wrong version of `X`
that one property must detect; nothing else refers to it.

### QueueKeys, QueueStore (t_queue, BinlogQueue)

A database is `[item, size]`: `item[n][s]` is what leveldb has under the key
`'q'+name+seq`, `size[n]` under `'Q'+name`; the positions of the ends are kept
under the reserved sequence numbers 2 and 3 of the *same* key space, as in the
code.  A write batch has the same shape, with `NoOp` for untouched keys.
`QPush`, `QPushFull`, `QPushError`, `QPop`, `QPopEmpty`, `QPopError` are the ways
`_qpush` and `_qpop` can go, including each place where leveldb may fail and what
is then left staged; `Sync` and `Restart` model the unsynced log.  The transaction
mutex makes one action per operation the right grain, which QueueService shows.

The numbers of the code (10000, 2^63-1) are constants constrained by
`SeqAssumption`.  A position is compared and stepped by one only and a position
read back is always one that passed the range check, so 64-bit arithmetic does
not wrap: `QueuesWellFormed` bounds every stored end.

### QueueService (proc_queue, Transaction)

The same operations with one step per lock, Get, Write and unlock, run by writer
threads in the loops of `proc_qpush_func` and `proc_qpop_func`, with reader
threads running `qfront`/`qback`.  The writers are a constant: one, as in the
code, or two, to see what the mutex alone achieves.  `before`, `held`, `emptied`,
`popped`, `seen` and `ret` are history.  A `qpop` with count 0 does nothing and is left
out; `qsize` is a single Get.

### KvService (t_kv, proc_kv)

The same for the key-value commands: a writing call is a sequence of changes
(`NotFound` deletes), staged one by one and committed by one Write; `set` refuses
the empty key before it takes the mutex, `multi_set` in the middle of staging.
`WriteReply` is what the handlers and `reply_int` make of the return value.  The
reading commands do one Get per key; `Restart` ends the process at any moment.
The abstract `MapSpec` has a client ask, the update applied as a whole or refused,
and the client answered; a call counts as answered from its commit on.  Two
replies are worth knowing: `set` of the empty key answers `ok 1` and stores
nothing, and a `multi_set` whose Write fails answers `ok -1`
(`proc_kv.cpp:68` passes the return value on as a number); `multi_set` and
`multi_get` are not isolated from each other, and a failing Get looks like an
absent key in the multi commands.  `PositiveAnswerIsStored` and
`UndisturbedReadsAreSnapshots` say what does hold.

### Buffer, LinkBuffer, Framing, Link (net/link.cpp, util/bytes)

`Buffer` has the bookkeeping of a buffer (`total`, `off`, `size`) and its
operators `space`, `incr`, `decr`, `nice`, `grow`.  `LinkBuffer` says what one
round of the server does to the two buffers of a link: read, find a packet or
not, append the answer (growing while there is no room), write from the worker
and from `proc_result`; how many bytes is left open.  `Framing` has the bytes of
`Link::send` and the parser of `Link::recv`, with its early returns in order.
`Link` puts both together: each of its steps is one of LinkBuffer's with the
bytes that go with it, so that what is proved of LinkBuffer holds for it.
`ParseLine` is what one turn of the parser's loop makes of the line at a position,
given what is made of those behind; `Decoded` is the reference, the packets of a
whole stream one after the other.  A length is written and read by digits, in any
number of them; `FramingAssumption` says that the length of whatever a packet has
room for fits a length line (9 digits and 19 bytes in the code).

### JobQueue, ResultQueue (util/thread.h)

One step per lock, condition wait, signal, pipe read or write, and unlock.
`pthread_cond_wait` may wake up spuriously.  In ResultQueue `MaxOutstanding`
stands for the number of links: a link has one job at a time (`OneOwner` of
NetServer), so no more results than links are on their way.

### ProcMap, Fdevents, NetServer (net/, serv.cpp)

`ProcMap` is the constant command table: which letters each command is
registered with, the flags `set_proc` makes of them (`w` brings the thread flag
along) and the thread that runs a command with these flags.  NetServer chooses
the flags of a request among those of the table, so that a pool never gets a
command the code would not give it.

Fdevents is a record with pure operators for `set`, `del`, `clr` and `close(2)`.
NetServer is the loop of `serve`, phase by phase: `Wait` (swap the ready lists,
epoll_wait), one event at a time in any order (`Accept`, `PopResult`,
`ProcRequest`), then the ready list in order (`ReadyDrop`, `ReadyWatch`,
`ReadyThread` followed by `DelAfterPush`, `ReadyMain`).  The worker takes a job,
runs it, hands it back.  Data are counts: a request is `Parts` units of the input
stream, a response one unit of the output; which responses were appended, in
which order, is kept as a sequence.  Clients connect, send pieces, send garbage,
read slowly, and close.  Reads and writes may be partial, accept may fail for
want of descriptors, `epoll_wait` may be interrupted.

A pool is used at the grain of `FifoSpec`: a put and a take are one step each,
which JobQueue and ResultQueue justify.

### Logger (util/log)

`Start` is `Logger::open`; a thread in `logv` takes the mutex, writes its line and
counts it, and if the counter has passed the limit rotates: `fclose`, the clock,
`rename`, `fopen`, one step each, of which the last two may fail.  The write may fail
too, on a full disk for instance: the results of `fwrite` and `fflush` are ignored
(`util/log.cpp:275`), so that any part of the line, or none, gets to the file, and
all of it is counted.  `lost` keeps, as history, the bytes by which the counter is
ahead for that reason: a file may be rotated early, never late.  What could not be
written is not tried again, as the C library drops it.  `Kill` ends the
process at any of them; the file stays and the next `Start` goes on with it.
After a failed `rename` the file pointer is dangling (the code returns without
setting it); what a write through it does is undefined, so the line is lost or
the process dies.  Rotated files are named after the second.  The model assumes
that no more bytes are logged in a second than the limit (`MaxRate`), and that
no second comes twice, which local time breaks for one hour a year.  Without
that, a rotation replaces the file of another.

### Config (util/config.cpp)

`load` reads lines into a tree, kept as the sequence of its nodes in the order of
`add_child`; a line is what its first characters make of it.  The reference beside
it says what the indents mean without climbing: an item belongs to the nearest
item above with a smaller indent.  The run compares the two, what comes back
after `save`, and what `get` finds, on all files of up to four lines, either
seven kinds of line or items of two keys, two values and two indents.  `Lines` are
the lines there can be: a line that starts with `#` is a comment, so that no item
has that key, which is the one `load` gives to comments.  Blank lines make no node;
`Place` says which node each other line makes.

### Lifecycle (geminidb-server.cpp, NetworkServer's init and teardown, WorkerPool's start and stop)

Several processes, each from `main` to its end, in the order of the code: read
the configuration, remove the old pid file, write the new one, open the database
(leveldb's LOCK), install the signal handlers, listen, start the pools (of which
threads may be missing), loop; then close the port, cancel the writer and the
reader pool, close the database, log a last line, remove the pid file.  Which pid
file, directory and port these are is what `Config` makes of the file the process
is started with.  The kernel takes LOCK and port back from a process that ends,
but not the pid file.  A signal before the handlers are installed kills; after
that it sets `quit`.  Worker threads are followed as far as it matters here:
where they are when they are cancelled, and whether they die with the logger's
mutex.  That mutex is the one main still needs: if it is gone, main hangs at its
last log line, with the port and the database released by then (`QuitReleases`)
and the pid file left behind.  Cancelled workers may also go on for a while with
the pools and the database deleted; what then happens is undefined, and `Kill`
stands for it.  `met` is history: the processes that ran at the same time as
another, whose pid file that one may have removed or overwritten.

## 3. The runs

| Run | Bounds | Shows |
|---|---|---|
| QueueStore | 1 queue, 2 items, positions 4..8 | `TypeOK`, `QueuesWellFormed`, `ImplementsDeque` |
| QueueService | 1 writer, 1 reader, positions 4..7, up to 2 items per call | `CallIsAPrefix`, `PeekIsRightWithoutPops` |
| QueueServiceTwoWriters | 2 writers, 1 reader, positions 4..7, up to 2 items per call | `TransactionsAreAtomic`, `CallsReturn` (liveness) |
| JobQueue | 1 producer, 2 workers, 4 jobs | `NotAllAsleep`, `ImplementsFifo`, `JobsAreTaken` (liveness) |
| ResultQueue | 3 workers, pipe of 2, 3 outstanding, 6 results | `BytesCountItems`, `NoMutualWait`, `ImplementsFifo`, `ResultsAreTaken` (liveness) |
| NetServer | 2 connections, 2 readers, 1 writer, 2 requests of 2 pieces, socket holds 1 response | all safety properties |
| NetServerLive | 2 connections on 1 descriptor, 2 requests of 2 pieces each | `EveryRequestIsAnswered` (liveness) |
| NetServerFlush | 1 connection, 2 requests | *violated*: `OutputIsFlushed` |
| KvService | 1 writer, 1 reader, 3 keys (one empty), 2 values, 2 keys per call | `TypeOK`, `PositiveAnswerIsStored`, `UndisturbedReadsAreSnapshots`, `ImplementsMap` |
| Link | all streams of up to 6 bytes over `\n \r 1 x`, up to 2 packets of up to 2 strings; buffers of 2, 5, 10, 20 bytes | `BuffersWithin`, `ReadHasRoom`, `CutsDoNotMatter`, `SentIsReceived`, `AnswersAreWhole` |
| Logger | 2 threads, 3 calls each, lines of 1..2, limit 3, 3 bytes per second, 2 seconds after the first, 3 starts | `CounterIsSizePlusLost`, `FilesBounded`, `ArchivesKept`, `ImplementsLog` |
| Lifecycle | 2 processes of 1 writer and 1 reader thread, 4 configuration files, one process with the main one or none; some 7500 files for Config | `TypeOK`, `ListenersOwnTheirData`, `PidfileStaysWhileHeld`, `QuitReleases`, `StartsAlone` (liveness), `ConfigMeansItsText` |

**Why the bounds are enough to be interesting.**  Positions: the first push
lands on 4, next to the lower end, the upper end is a few pushes away, and pops at
one end with pushes at the other let a queue wander, so that "queue is full"
happens at both ends, before and after pops; the proofs of
section 5 cover every range.  One queue name: the operations touch the keys of
one name, and the proofs cover several.  Several items per call, and two threads at once,
give every interleaving of a Transaction with another and of a peek with a pop.
Three workers and a pipe of two fill the pipe with a worker blocked in it.
Two requests per connection are needed for pipelining, two pieces for partial
input, two connections for one to disturb the other, one descriptor for two
for it to be waited for and reused, and a send buffer of one response
for unsent output.  Writers and readers differ in who writes the output, so there
is at least one of each; two readers take jobs concurrently.

Link's buffers are scaled down (8, 8192, ... bytes in the code) so that short
streams fill, move and grow them; `MaxHead` (19) and `MAX_PACKET_SIZE` (128 MB)
likewise, so that both limits are met.  The logger's limit is two or three lines,
so that rotations follow one another, and a file may be left over the limit by a
kill and be continued.  Two processes are enough to collide on each of pid file,
directory and port, since the files name the same or different ones, and enough
for one to find what the other left when it was killed; as the processes are alike,
one of them has the main file, or none that parses, and the other any of the four
(`MCInit`).  Two keys and two values are enough for a
half-done update and for a key named twice in a call; the empty key takes the
refused paths.

A call of two items takes its handler round the loop a second time, with the other
writer in between or not.  QueueServiceTwoWriters looks at the states through
`WritersView`, without what no step of a writer reads any more: the history of a
call, positions and return values that are assigned again before they are used, and
the reader.  States that differ only there have the same steps of the writers, so
that neither property nor the writers' fairness can tell them apart.  The reader,
which waits for nobody, is there so that writers that wait for ever are found by the
property, not as a deadlock.

Symmetry is used only in runs without liveness properties, over items,
keys, values, connections and readers, which the models treat alike (`Fds` are numbers, since
the kernel gives out the lowest one, and are not symmetric).

`CHECK_DEADLOCK FALSE` stands only in the configurations of JobQueue and
ResultQueue, where the bound on the number of jobs or results stops the system,
of Link, which stops when the stream is used up or the link dropped, of Logger,
which stops at the bounds on calls, time and starts, and of Lifecycle, where each
process is started once.
In the others every state has a successor.

**Fairness.**  Threads keep running: weak fairness of the steps a thread can take
without waiting for a lock, strong fairness of taking a mutex (a thread that
keeps asking is served in the end, which the scheduler and the mutex give in
practice).  Nothing forces a producer to push, a client to send or connect, a
wakeup to be spurious or a failure to happen.  In NetServer the main thread and
the workers are weakly fair, `Wait` strongly (the timer's signal does not
interrupt every single `epoll_wait`), and a client reads what it is sent -
needed so that `OutputIsFlushed` is refuted by the server's behaviour and not by
a client that never reads.  In Lifecycle only the main thread of each process is
fair; nothing is assumed of the workers, whose jobs may take for ever, so
`QuitReleases` holds because main does not wait for them.

## 4. What the violated run shows, and two facts beside it

- **Unsent output is not sent on the write event**: `proc_result` subscribes to
  it (`net/server.cpp:287-290`), `proc_request` (`:312`) looks at input events
  only.  The rest of a response stays until the client happens to send
  something, and the level-triggered event keeps the loop spinning.

Two disagreements with comments follow from what the other runs and theorems
show:

- A peek can say not_found about a queue that was never empty
  (`data/t_queue.cpp:85` and `:100` say that 0 means an empty queue): `qfront`
  reads the end, the writer pops that item, `qfront` finds nothing there.
  `PeekIsRightWithoutPops` has to exclude pops for this reason; it is what does
  hold.
- The result queue (`util/thread.h:95`: "multi writers, single reader", without a
  bound) has a mutual wait if `PipeSize + 2` results are outstanding, more than
  65536 links with a job at once: the main thread has read its byte and waits
  for the mutex, a worker holds the mutex and waits for room in the pipe.
  Theorem `NoMutualWaitWithFewLinks` says that one result less is safe; with
  `MaxOutstanding = 4` in `MCResultQueue.cfg` TLC finds the wait.

## 5. What is proved

| Theorem | Statement | Assumptions |
|---|---|---|
| `QueueProofs!TypeCorrect` | `StoreSpec => []TypeOK` | `SeqAssumption`, `ValueAssumption` |
| `QueueProofs!WellFormedQueues` | `StoreSpec => []QueuesWellFormed` | the same |
| `QueueProofs!StoreImplementsDeque` | `StoreSpec => ImplementsDeque` | the same |
| `QueueProofs!ServiceIsAtomic` | `Spec => TransactionsAreAtomic` | the same, `NobodyAssumption`, `MaxItemsAssumption` |
| `QueueProofs!PeeksAreRight` | `Spec => []PeekIsRightWithoutPops` | the same |
| `QueueProofs!CallsArePrefixes` | `Spec => []CallIsAPrefix` | the same, one writer thread |
| `JobQueueProofs!TypeCorrect` | `Spec => []TypeOK` | `ThreadAssumption` |
| `JobQueueProofs!NoLostWakeup` | `Spec => []NotAllAsleep` | `ThreadAssumption` |
| `JobQueueProofs!JobQueueIsFifo` | `Spec => ImplementsFifo` | `ThreadAssumption`, `JobAssumption` |
| `ResultQueueProofs!PipeCountsItems` | `Spec => []BytesCountItems` | `ThreadAssumption`, `BoundAssumption` |
| `ResultQueueProofs!NoMutualWaitWithFewLinks` | `Spec => []NoMutualWait` | the same, `MaxOutstanding <= PipeSize + 1` |
| `ResultQueueProofs!ResultQueueIsFifo` | `Spec => ImplementsFifo` | the same |
| `KvServiceProofs!TypeCorrect` | `Spec => []TypeOK` | `KvAssumption` |
| `KvServiceProofs!KvServiceIsMap` | `Spec => ImplementsMap` | `KvAssumption` |
| `KvServiceProofs!PositiveAnswers` | `Spec => []PositiveAnswerIsStored` | the same, one writer thread |
| `KvServiceProofs!ReadsAreSnapshots` | `Spec => []UndisturbedReadsAreSnapshots` | `KvAssumption` |
| `LinkProofs!DataStaysWithin` | `BufSpec => []BuffersWithin` | `BufferAssumption` |
| `LinkProofs!ReadAlwaysHasRoom` | `BufSpec => []ReadHasRoom` | the same |
| `LinkProofs!LinkIsLinkBuffer` | `Spec => BufSpec` | `BufferAssumption`, `FramingAssumption`, `StreamAssumption` |
| `LinkProofs!RequestsAreThoseOfTheStream` | `Spec => []CutsDoNotMatter` | the same |
| `LinkProofs!PacketsArrive` | `Spec => []SentIsReceived` | the same |
| `LinkProofs!AnswersArrive` | `Spec => []AnswersAreWhole` | the same |
| `LoggerProofs!TypeCorrect` | `Spec => []TypeOK` | `LogAssumption` |
| `LoggerProofs!CounterCorrect` | `Spec => []CounterIsSizePlusLost` | the same |
| `LoggerProofs!FilesStayBounded` | `Spec => []FilesBounded` | the same |
| `LoggerProofs!NoArchiveLost` | `Spec => ArchivesKept` | the same |
| `LoggerProofs!FilesAreOneLog` | `Spec => ImplementsLog` | the same |
| `LifecycleProofs!TypeCorrect` | `Spec => []TypeOK` | `LifecycleAssumption` |
| `LifecycleProofs!ServersOwnTheirData` | `Spec => []ListenersOwnTheirData` | the same |
| `LifecycleProofs!PidfileOutlasts` | `Spec => []PidfileStaysWhileHeld` | the same |
| `LifecycleProofs!ConfigIsRight` | `Spec => []ConfigMeansItsText` | the same |
| `NetServerProofs!TypeCorrect` | `Spec => []TypeOK` | `ServerAssumption` |
| `NetServerProofs!OneOwnerHolds` | `Spec => []OneOwner` | the same |
| `NetServerProofs!NoDangling` | `Spec => []NoDanglingLink` | the same |
| `NetServerProofs!FlagsAgreeHolds` | `Spec => []FlagsAgree` | the same |
| `NetServerProofs!InOrder` | `Spec => []ResponsesInOrder` | the same |
| `NetServerProofs!DropsHaveReasons` | `Spec => DroppedForAReason` | the same |

*QueueStore.*  The inductive invariant is the type invariant and
`WellFormed(db) /\ WellFormed(disk)`; it is inductive as it stands because every
operation starts from an empty batch.  The work is in two lemmas about the pure
operators: what a push (a pop) stages at every position, by key (`PushStages`,
`PopStages`), and that applying it to a well-formed database gives a well-formed
one (`PushPreserves`, `PopPreserves`); other queues are untouched because a batch
names one queue only (`OthersKept`).  For the refinement, `PushContents` and
`PopContents` say what the same batch does to the queue read from front to back:
one item more or less at one end.  A crash brings back `disk`, whose contents are
those of the end of some operation, which is what `DequeSpec` allows it.

*QueueService.*  The invariant (`ServiceInv`) says that at most the thread with the
mutex is between the lock and the unlock of a transaction, that the shared batch
is then what the lines of `_qpush` or `_qpop` so far have staged of the database as
it is (`StagedPush`, `StagedPop`), and that otherwise nothing of the batch will ever
be read.  So a commit finds the batch of one whole operation (`CommitFinds`) and is
the step of `DequeSpec`; a `_qpop` that finds the queue empty is one at the read that
finds it so; a refusal changes nothing.  *Peeks*: the position a reader has read
stays that of an item, or the queue stays empty, until something is popped or
pushed (`PeekInv`): a push moves the end but not the item at it.  *Prefixes*:
`AfterItems` computes what the first items of a call make of a queue; the invariant
(`PrefixInv`) says at every step of a call, not only when it replies, how many items
are done and that the queue is the one before the call with these done.  With a
second writer thread other items could come between, hence the assumption; the
server has one (`WRITER_THREADS`, `net/server.cpp`).

*JobQueue.*  `NotAllAsleep` needs mutual exclusion (`Holders`: between lock and
unlock a thread holds the mutex) and `PopFindsItem` (a worker that saw the queue
nonempty still finds it so).  A consumer goes to sleep in the step that tests the
queue under the mutex, so it never sleeps past an item.

*ResultQueue.*  The invariant counts: items = bytes in the pipe, plus one for the
worker between its push and its write, plus one for the main thread between its
read and its pop.  With at most `PipeSize + 1` results outstanding a full pipe, a
popped byte and a blocked writer cannot coexist, since they would need
`PipeSize + 2` items.

*KvService.*  The invariant says that the thread with the mutex is the one between
the begin and the unlock of a transaction, and that the batch all threads share
holds exactly what that thread has staged so far, of several changes of a key the
last one (`BatchIsStaged`).  Each step of a writer goes through one lemma on what a
changed call has to see to (`CallChanges`).  `CommitIsUpdate` shows that applying a
fully staged batch is the update of `MapSpec`; the other steps map to asking,
refusing, finishing or nothing.  For `PositiveAnswers` the meaning of the return
value is added to the invariant (`AnswersMean`); with a second writer thread a later
commit could overwrite the values between commit and answer, hence the assumption.
For `ReadsAreSnapshots` a reader that nothing has disturbed has so far what is stored
of the keys it has read (`ReadInv`), since a commit disturbs every reader at work; the
answer grows by an entry with each key (`KeyByKey`).

*LinkBuffer.*  The invariant is that both buffers hold their data (`Sound`) and
that, when the server waits for input, the input buffer has room or is empty
(`RoomOrEmpty`).  The second half is the point: a request that ends exactly at the
end of the block leaves no room, and only because the buffer is then empty does
`nice` at the next read start it over.

*Framing.*  Nearly half of LinkProofs is about the protocol, whatever a link does with it.
A string is read as it was written: the digits of a length are a number again
(`Decimal`, `Atoi`), and a record in front of any bytes is a string in front of
what these are parsed to.  So a packet that is complete is parsed, whatever
follows it (`PacketParsed`).  The parser is monotone: bytes behind a packet do not
change it, nor make a malformed one good (`ParseExtends`), which is why it does not
matter that `recv` starts from scratch with every piece that arrives.  And what is
parsed could have been sent (`ParsedIsSendable`), so that an answer that repeats a
request is parsed again.

*Link.*  Given the types (`LinkTypes`) and the invariant of LinkBuffer, which holds
because every step of Link is one of LinkBuffer (`LinkIsLinkBuffer`), `LinkInv` is
inductive.  It says that `input` counts its bytes; that what was decoded could be
sent; that a link that waits for input has no packet left in its buffer
(`NothingLeft`); that the requests of the stream are those decoded and those of the
bytes still to come (`WholeIs`); and what part of the last answer is in the output so
far (`Answering`).  `NothingLeft` rests on `pc`: a server that has parsed a packet
goes back to parsing before it reads.

*Logger.*  The invariant follows a rotation: only the thread between the write
and the rename has counted past the limit, from `fclose` to `fopen` the pointer
dangles, and before `fopen` there is no file (`Rotating`); after a failed rename
the file is still there and the counter still past the limit (`Dangling`); what was
lost is held against an open file only (`NothingLost`).  `RoomForALine` bounds the
counter before a write by what the lives so far allow, one line less than
`FilesBounded` does after it.  `NoArchiveLost` needs that the name a rotation has chosen is free
(`FreshNames`): if there is an archive of this second, all that is in the new file,
and all that is counted for it, was logged in this second, which is too little for
another rotation.  For
`FilesAreOneLog` the archives are read in the order of their seconds and the open
file last.  A rename takes the lines of the last to the end of the first, because
the name it has chosen is later than all there are (`NothingLater`), and so does not
show; a write appends a line that is its thread's newest, because the lines of a
thread in the log are numbered up and below the one it is writing (`Logged`).

*Lifecycle.*  The invariant says for every stage of main what the process holds:
LOCK from opening to closing the database, the port from `Listen` to `Unlisten`,
and that whatever is held is held by a process in such a stage.  The stages in
which the port is held are among those in which LOCK is.  For the pid file it
adds that a process that never met another is alone while it runs (`Alone`), so
that nobody else touches its file.

*Config.*  `ConfigIsRight` is about the operators only, and holds of every file
whose lines are `Lines`, however long.  `load` is followed line by line
(`ReadFits`): if all lines so far are readable, each has its node at its place, and
`cfg` and `last_indent` are the node and the indent of the last item.  The step is
in the climb of `last_indent - indent + 1` parents.  Indents grow by one at most, so
the nearest item above with a smaller indent than e + 1 has indent e, or none above
has (`ShallowerStep`); each parent then leads to the nearest item of the next
smaller indent, and a climb that would leave the tree stays at the root
(`ClimbFinds`).  `save` writes depths, which need not be the indents that were read
(a file may start with an indented item), so that the saved file is not the old one
without its blank lines.  It suffices that a loaded tree is sound (`LoadedIsSound`):
a node is one deeper than its parent, a comment belongs to the nearest item above,
and no item between an item and its parent is less deep (`BetweenDeeper`).  The
saved lines of such a tree are readable and have its parents for owners
(`SavedAbove`), so that they load to the same tree.  What `get` finds is the last
node of a name under the last node of a section (`FindsLast`): in a file that starts
without an indent, the section is an item of indent 0 (`OwnerIndent`), and the items
of indent 1 that it owns are those before the next item of indent 0.

*NetServer.*  None of the properties is inductive alone, and all of them follow from
one invariant, `Inv`, which says who may hold a link and what the holder may rely
on.  Its parts that carry the proof are these.  `PoolsDistinct` and `Lists`: a link
is once in the jobs, results and workers of both pools together, or once in the
ready lists, or in none of them.  `Heard`: in a pool it has no event registered
(but for the link the main thread is just queueing), in the second ready list no
input event - which is why nothing that `epoll_wait` reports can be about a link
with a worker - and in neither it is listened to.  `DataLive`: what is registered
belongs to the live link of that descriptor, so that a descriptor given out again
is clean.  `Fresh`: an event stays true until its turn comes, although earlier
events of the same round are handled first, because each of them touches another
link and no link appears twice; this is what keeps `proc_request` from reading
nothing and dropping the link.  `JobsFit` and `Answered`: a job asks for the last
request decoded, and responses lag behind requests by one exactly while that job
is owed.  `Reasons`: errors come from closed connections only.  There is one lemma
for each action, and lemmas for what a step does to the pools (`TakePools`,
`RunPools`, `PushPools`, `QueuePools`, `LeavePools`), to one descriptor
(`LinkTouched`) and what `proc_result` leaves behind (`SettlesFirst`,
`SettlesSecond`); `HeldOnce` turns the invariant into the counts `OneOwner` speaks
of.  The clients are those of the model: they send garbage only after a whole
number of requests, and the descriptors start at 1, since 0 is no link's.

**Recursive functions.**  Several references are defined by recursion: what the first
items of a call make of a queue, what a reader answers, what the archives hold up
to a second, most of Framing, and in Config what `load` and `get` loop over.  The induction theorems of the library cannot be
used, since they take an operator as a parameter.  The proofs use another form: a
set of numbers that holds 0 and the successor of each of its members holds them
all, and a set of lengths that cannot have a least member is empty
(`NatSetInduction`, from `WFMin` and `NatLessThanWellFounded`).
A function that is defined by recursion is unfolded in two steps: some function
satisfies its equation, shown by this induction over the length of its domain, so
the one that CHOOSE picks does; then the equation is a fact like any other.

**Only model-checked:** the liveness properties `CallsReturn`, `JobsAreTaken`,
`ResultsAreTaken`, `EveryRequestIsAnswered`, `StartsAlone` and `QuitReleases`:
liveness is out of the prover's reach, as is ENABLED.  Every other property that a
run checks is a theorem, with the assumptions of the table; `OutputIsFlushed` is
refuted.

## 6. What is not modelled

leveldb itself (external: a Get or Write may fail without effect, a Write is
atomic); the wording of the replies; length lines whose number does not fit
31 bits; the blocking client half of `Link`; `PROC_BACKEND` (no handler
returns it); `fde_select.cpp` (not compiled on Linux); `Config::set`, `read_pid` and
`kill_process`, which have no caller; what `Options` makes of missing settings; the
characters of a configuration line (`load` chops the last one, newline or not:
`util/config.cpp:36`); log lines to stdout; workers that run on with a deleted
database; memory exhaustion; the counters of the command table.  `Link::read` returns 0 at
the end of the stream even when it has just read data, so a client that
half-closes loses its requests; the models allow that, the code promises nothing
else.

## 7. Plan

1. Half-closed connections and the blocking client half of `Link`.
