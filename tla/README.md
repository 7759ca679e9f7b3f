# A TLA+ development of the miner

This directory specifies the control of the miner in TLA+: the dataset queue,
the miner and its threads, nonces, results, the pools and the donation. TLC
checks each part on small instances; TLAPS proves the main safety properties
for every value of the constants.

Paths are relative to `src/src/`.

## 1. Inventory

The program has one event loop (libuv), in which nearly all of it runs one
callback at a time, and three kinds of other threads: the mining threads, the
thread of the dataset queue, and the threads in which libuv resolves names.

| Component (code) | State | Operations | Talks to | What is hard | What makes it correct |
|---|---|---|---|---|---|
| Dataset queue (`crypto/rx/RxQueue`, `RxBasicStorage`, `Rx`) | `m_state`, `m_seed`, `m_queue`, the one dataset in memory | `enqueue`, `isReady`, `dataset`, the destructor, a background thread | called by Miner and by every mining thread; signals Miner by `Async` | a newer request in any phase of an older one; mutex, condition variable and signal; allocation that fails; end while working | the newest request wins, nobody reads memory that is rewritten, every request is answered, the destructor ends |
| Miner (`core/Miner`) | job, algorithm, `active`, `enabled`, `reset`, ids | `setJob`, `pause`, `setEnabled`, `stop`, `onConfigChanged`, `onDatasetReady`, `onTimer` | Network calls it; it writes Nonce's globals and drives the backends | each handler is a sequence of writes that running threads see one by one | mining only when allowed, on the right dataset and the newest job; no thread is lost |
| Automatic pause (`core/Miner`) | `battery_power`, `user_active`, `auto_pause`, `enabled` | `onTimer`, `setEnabled`, `execCommand` | the platform, the user, the configuration | two reasons and a user, in any order | paused exactly while there is a reason, unless the user said otherwise |
| CPU backend, threads (`backend/cpu/CpuBackend`, `CpuWorker`, `backend/common/Workers`, `WorkerJob.h`) | each thread's job, sequence, VM | the loop of `start`, `consumeJob`, `allocateRandomX_VM`; `start`, `stop`, `setJob` of the backend | reads Nonce, Miner's job, the dataset | threads read three shared things one after the other without a lock | stops end, pauses take effect, new jobs reach everybody |
| Nonce (`crypto/common/Nonce`) | `m_paused`, `m_sequence`, `m_nonces` | `touch`, `stop`, `pause`, `reset`, `next` | all threads | resets under threads that hold ranges; the last range; the low half | no nonce is hashed twice, none overflows |
| Results (`net/JobResults`, `base/io/Async`, `core/Controller`) | the static `handler`, the list, an eventfd | `submit` in threads, `onAsync` in the loop, `stop` | threads → Network | a result that arrives while the loop empties the list; the end of the program | each result once, in order, none left behind |
| Network and donation (`net/Network`, `net/strategies/DonateStrategy`) | state, timer, proxy, strategies | callbacks of two strategies, a client and a timer | strategies → Miner | late logins, losses at any moment, jobs that are dropped while the other side mines | the miner has the right job, the donation begins and ends |
| Pool strategies (`base/net/stratum/strategies`) | `m_index`, `m_active` | `connect`, `stop`, `onLoginSuccess`, `onClose`, `onJobReceived` | clients → strategy → Network | pools that fail and return in every order, at about the same time | one pool is active, it is the one connected, and its job is mined |
| Stratum client (`base/net/stratum/Client`, `BaseClient`) | state, socket, failures, deadline | `connect`, `disconnect`, `deleteLater`, `tick`, libuv's callbacks | server, strategy | callbacks that come after the client moved on; sockets closed later | callbacks find their client, a client does not stand still |
| Daemon client (`base/net/stratum/DaemonClient`) | state, timer, job, the tips it knows and has asked for | `connect`, `disconnect`, `submit`, `onTimer`, `onHttpData` | daemon (HTTP), strategy | answers that overtake each other, lost requests | the newest tip is mined in the end |
| Self-select client (`base/net/stratum/SelfSelectClient`) | state, failures, job and its template, the id of the last request | `submit`, `tick`, the callbacks of a `Client`, `onHttpData` | pool (a `Client`), daemon (HTTP), strategy | two servers whose answers interleave with new jobs | a job is given with its own template, and in the end |
| DNS (`base/net/dns/DnsUvBackend`, `Dns`) | queue, cache, one lookup | `resolve`, `done`, `onResolved` | clients, libuv's threads | listeners that ask again, or go away, while they are told | everyone is answered, no lookup loses its request |
| Line reader (`base/net/tools/LineReader`) | buffer and position | `parse`, `add`, `getline`, `reset` | Client | lines cut anywhere, lines longer than the buffer | each line that fits once, whole, in order |
| Benchmark (`backend/common/benchmark`, `base/net/stratum/benchmark/BenchClient`) | the sum, remaining threads, the client's request | `start`, `done`, `destroy`, replies of the server | threads, Miner, server (HTTP) | threads that start, end and change jobs while the loop starts, resets and destroys | each nonce once in the sum, the benchmark ends |
| NUMA dataset storage, memory pools, network statistics, hashrate | small data structures | | | | not modelled, see 8 |
| Configuration, HTTP API, TLS, SOCKS5, GPU backends, hash algorithms, platform code | | | | | not modelled: I/O, data transformation, numerics (see 8) |

## 2. Modules

    DatasetService          what the dataset queue promises
      ^ implemented by      ^ used by (EXTENDS)
    RxQueue                 Mining            <- the loop and its threads
    RxQueue_proofs          Mining_proofs, MC_Mining

    Nonces, Nonces_proofs, MC_Nonces          who hashes which nonces
    Results                                   results from threads to the network
    PoolService             what a pool strategy promises to Network
      ^ implemented by
    Client <- Failover, MC_Failover           pools and their connections
    Failover_proofs <- Sockets_proofs         the strategy; then each client's socket
    Network, Network_proofs                   whose job is mined
    Daemon, SelfSelect                        clients of daemons
    Dns, LineReader                           what clients stand on
    Bench, Bench_proofs                       the benchmark
    AutoPause               who pauses the miner
    MC_Services             Network, Results, Dns, LineReader, Daemon, SelfSelect, AutoPause
    Services_proofs         the same but Network, each about its own specification

The modules meet at interfaces. `DatasetService` is proved to be implemented by
`RxQueue`, and `Mining` takes its actions as the dataset side. The calls that
`Network` makes (`setJob`, `pause`) are events of `Mining`, in any order. What
`Failover` tells its listener (active, job, pause) is what `Network` hears from
a user's strategy: `PoolService` says in which order, `Failover` is proved to
implement it, and `Network` allows all of it. `Daemon` and `SelfSelect` each
stand beside `Client`, behind the same interface; `SelfSelect` takes the `Client`
inside it for what that tells it (login, job, close). `Client` looks up names by
`Dns` and is given lines by `LineReader`; each allows what the other needs.

### DatasetService and RxQueue

`RxQueue` has the event loop's calls (`RxInit` is `Rx::init`, with its
shortcut, and `enqueue`), the destructor (`DtorLock`, notify, join) and the
queue's thread, cut wherever it takes or releases `m_mutex`, waits on the
condition variable, or changes the storage it alone writes (`BgSetSeed`,
`BgCreate`, `BgFill`). Notifications wake one waiter and are lost if nobody
waits, wake-ups may be spurious, allocation may fail, and the completion signal
is separate from the state. `isReadyUnsafe` reads the storage under the mutex
while the queue's thread writes it outside: it may read either value.

`DatasetService` forgets threads and locks: a phase, the newest seed, the
content of the memory (perhaps `Rewriting`), a signal. `Abstract` in `RxQueue`
gives the mapping.

### Mining

A handler of the loop is cut at each access to something that another thread
sees; `main.at` is where it is, e.g. `sj.assign` for setJob before it takes the
mutex of the job. A thread is cut the same way (`workers[w].at`): the test of
`m_paused` (`Gate`), the wait for its end (`WakeUp`, `Awake`), the three reads
of `consumeJob` (`ConsumeCheck`, `ConsumeCopy`, `ConsumeAdd`), the loop of
`allocateRandomX_VM`, the inner loop and the hash. A thread has two history
fields: `gate` is the sequence at which it decided to go on, `overtaken` says
that `WorkerJob::add` later recorded another one. The loop has one, `unapplied`:
a thread profile was loaded together with other pools, when `onConfigChanged`
returns before the backend sees it, and the backend has not looked at it since.

### Nonces

`Draw` is one `fetch_add` of `Nonce::next` with what follows: the pause at the
last range, the failure, the retry at the end of the low half. A `WorkerJob` has
its two slots (user, donation); `Add` is `add`/`save`, `NextRound` is
`nextRound`. The loop's side is `setJob`'s choice of `reset`, then
`handleJobChange`, then perhaps `onDatasetReady`, which handles the job again;
`Restart` is a restart of the threads. Histories: `latest`, `goesOn`,
`spoilt` (a counter was reset under a thread with a range for the job),
`drained`, `raised`.

### Results

A thread tests `handler`, takes the mutex, appends, writes the eventfd. The loop
empties the eventfd, then swaps the list, then delivers. `Controller::stop`
deletes the handler, nulls the pointer, sets the sequence to zero and joins.

### Client and Failover

`Client` is a module of operators: what each method does to the record of one
client. The record keeps apart the pointer `m_socket` (`sock`) and what libuv
knows of every handle (`conn`), because a client can lose a handle. `Failover`
holds N of them with the strategy. Its actions are the owner's calls and libuv's
callbacks; each is one step with all the calls back and forth it makes, as
everything runs in one thread. `OnHandleClosed` comes any time after `uv_close`.
A failed assertion, or the deletion of a socket libuv uses, ends a behaviour in
`wrong`.

### Network

One step per callback. A changed configuration may replace the user's strategy,
and the way donations connect (`mode`) with or without it. `user` is `m_strategy->isActive()`; `job` is what the
miner was given; a user's job that comes during a donation is dropped, so the
miner's becomes `"old"`. The donation's strategy can still log in after `stop()`
if it was looking up a name then (`pools = "late"`).

### PoolService

One pool at a time serves, and its job is mined; it is replaced when it is lost,
or by the first pool. `Service` in `Failover` maps `active` and `mining` to it.

### Daemon

A request in `daemonWeb` carries the tip there was when it was sent; its answer
may be of any tip since, and answers come in any order. What the client knows
are the hash of its job (`prev`), the hash for which it has asked for a template
(`asked`), and whether the job is older than `jobTimeout`.

### SelfSelect

A request carries its id and the job it is made for, so that `made` of a job is
the job its template is for. `onHttpData` compares ids with `m_sequence`
(`Late`). The pool's answers are in `selfPool` until they come or the connection
closes.

### Dns

`done()` is cut at each listener it calls, because the listener may call
`resolve()`; everything else is one step. A request in the queue is a weak
pointer: `live` says whether it can be locked. Time is `dnsFresh`, which ends
(`DnsAge`), and which returns when the wall clock is set back (`DnsTurnBack`).

### LineReader

A byte is its place in the stream, so a line that loses, repeats or mixes bytes
is seen. A read has up to one chunk and the buffer holds one chunk, as in the
code.

### AutoPause

`enabled` and what `Miner::onTimer` remembers (`battery_power`, `user_active`, `auto_pause`), driven by
the timer, the user, the power and a changed configuration. `SetEnabled` has the veto of the
battery. In `Mining` each call of `setEnabled` is an event of its own, with what it does to
threads; `PauseTimer` is two of them.

### Bench

The threads of `Mining`, reduced to what a benchmark has of them, with
`BenchState`'s calls: each of assertion, lock and unlock is a step. `benchData`
is the set whose exclusive or `m_data` is. Online, threads hash a warm-up until
the server's seed comes, and `handleJobChange` is cut as in `Mining`.

## 3. Runs

| Run | Question | Instance and bounds |
|---|---|---|
| `rx_queue` | Is the newest request served, is memory never rewritten while readable, does the destructor end, is `DatasetService` implemented? | 2 seeds, 4 requests: a request meets every phase of the one before, a seed is asked for again after another one, an allocation fails and is retried |
| `mining_core` | Do threads mine only when allowed, with their dataset, on the newest job? | 2 threads, 3 jobs of 2 seeds, 3 of setJob/pause/setEnabled. Two threads are needed so that one hashes while the other waits; three jobs give "same seed" and "other seed" |
| `mining_stop` | Are threads stopped and started without losing one? | 2 threads, 2 seeds of 2 algorithms, all events including the API's stop and changed configuration, exhausted nonces, 3 events |
| `mining_live` | Do stops end, pauses take effect, jobs and datasets arrive? | 1 thread (what a thread waits for never is another thread), all events, 2 profiles |
| `mining_pause` (violation) | Does `p` stop hashing? | 1 thread, 1 job, 4 events |
| `nonces` | Is a nonce given out twice? Does one overflow? | 2 threads, 4 jobs (one pair with equal blobs, one of the donation), draws of 2 under masks 0..5 and 0..2, low half of 3 so that a range would cross its end; 3 jobs or restarts, counter up to 3 (so that the mask of the donation is passed) |
| `failover` | Does the strategy know which pool is connected? | 3 pools, 2 retries (the default of `Pools`), 2 handles per client, 3 calls of the owner |
| `failover_live` | Does a pool that works get used? | 2 pools, one of them reliable but for 4 faults, 2 retries, one call of the owner: the first pool fails often enough that the backup takes over, returns and displaces it, and all that again |
| `failover_redirect` (violation) | ... if a server sends `client.reconnect`? | 2 pools |
| `services` | Network: has the miner the right job, does the donation begin and end? Results: is each delivered once and in order? Dns: is everyone answered, is a lookup's request kept? LineReader: are lines whole? Daemon: is the newest tip mined? SelfSelect: is a job given, and with its own template? AutoPause: do two reasons to pause, and the user, leave no pause behind? | Network: no bound, the model is finite. Results: 2 threads with 2 results, one arrives in every phase of delivery of another. Dns: 3 listeners, 4 calls of `resolve`: one fails while two wait. LineReader: chunks of 3, 7 bytes: a line of one piece, of two, of three, and one that overflows. Daemon: 2 requests at a time (the least that overtake), 3 tips, 1 fault. SelfSelect: 2 jobs, 2 faults or results, no retries before the listener is told. AutoPause: no bound |
| `bench` | Is the sum of each nonce once, does the benchmark end? | 2 threads, 2 nonces: a thread can have none, one or both of them |
| `results_stop` (violation) | Is there a handler whenever a thread has a result? | 2 threads, 1 result |

The bounds: `MaxRequests` (RxQueue), `MaxEvents` (Mining, Nonces),
`MaxCounter` (Nonces), `MaxUser`, `MaxFaults`, `Handles` (Failover),
`MaxResults` (Results), `MaxResolves` (Dns), `MaxBytes` (LineReader),
`DaemonSlots`, `DaemonTips`, `DaemonFaults` (Daemon), `SelfJobs`, `SelfFaults`
(SelfSelect), `MaxWarm` (Bench). `SelfRetries` is 0 in the run: the count of failures
matters only when it passes `m_retries`, which then takes two failures. Two handles suffice because a client that has two is
overlapped (below), and the run of safety goes no further.

`failover` has the constraint `UntilOverlap`. The strategy sometimes connects a
client that still has a socket, because `disconnect()` did nothing to it while
it looked up its name, or because its close callback was still to come. From
then on the client deletes the wrong socket and nothing can be said. The
properties are about behaviours up to that step, including the step itself;
`failover_live` has no constraint and reaches what follows.

`services` is the disjoint sum of its components: the variable `part` says which
one a behaviour is of, and the others stay as they begin. Each property is
checked over exactly the behaviours of its own component, under the fairness its
module states, which is repeated in `MC_Services` with `part` in it. The components
share no state, so a product would show nothing more. Deadlock is not checked
there: a stream that has been read to its bound, a daemon whose user never
submits, a pool that sends no more jobs and threads that have joined rest
rightly.

Symmetry (of threads, of handles) is used only where nothing temporal but a
property of single steps is checked.

## 4. Properties that need a word

- `HashesWithItsDataset`, `HashesTheNewestJob`, `StopEnds`, `PausedThreadsRest`,
  `NewJobReachesThreads` except threads that were `overtaken`. That is the
  program's behaviour, see 6.
- `RangesDisjoint` excepts slots that are `spoilt`. Every way in which code
  resets the counter under a thread that holds a range is listed at the property.
- `MinesForSomeone` excepts `orphaned`: `SinglePoolStrategy::stop` does not call
  `onPause`.
- `PrimaryReturns` is for an owner that calls the strategy once. After a `stop()` in
  a lookup and another `connect()` the strategy begins at the second pool, and the first
  stays disconnected (see 6).
- `BackupServes` is for two pools. Of three, the second is disconnected when the
  third logs in, and is not tried again when the third fails and the first does
  not answer: the strategy stays at the third.
- `LookupKeepsItsRequest` excepts `dnsTurned`: if the wall clock goes back during
  a lookup, or the configured ttl grows, the old records are fresh again, a
  caller finds one request in the queue that is not its own, and a second lookup
  replaces the request of the first.
- `TemplateIsTheJobs` excepts a job without a template that came before the pool
  had agreed to the one before (`overtaken`). A template of another job is never
  given with it.
- `PausesAsConfigured` excepts what follows a configuration that is changed while the timer has a
  reason to pause (`reloaded`): the count of reasons is not corrected then.
- `JobsAreServed` excepts a last request that is never answered (`unheard`) and one whose
  failure was forgotten (`forgot`); `TipIsMined` excepts a request with which the
  client connects, that is never answered.
- `BenchEnds` excepts threads that fail their self-test, a server that sends no seed
  (`Seedless`), and assertions in `done()` with the causes it names. `SumIsComplete` holds until a thread is
  `overtaken`, which `Mining` is about, or a counter is used for two jobs (`mixed`).
- `LoggedInIsActive` and `Implements` of `Failover` hold without exception, also
  between two pools that log in at the same time.

## 5. Fairness

- `RxQueue`: both threads run (weak fairness of each). Nothing is owed a request,
  a shutdown or a spurious wake-up.
- `Mining`: the loop finishes its handler, threads run, the dataset queue serves
  the newest request: this is `RequestAnswered`, checked in `rx_queue`. It is
  strong fairness there, because a newer request can disable serving an older.
  No event is owed.
- `Results`: the loop and threads with a result go on; strong fairness for
  taking the mutex, which is held for a few instructions and whose waiters are
  served by the kernel. Nobody has to find a result.
- `Failover`: the loop runs timers and callbacks; `getaddrinfo` and connection
  attempts end; a pool in `reliable` answers the login and fails at most
  `MaxFaults` times. Without the last, no pool ever has to answer, and the
  properties are vacuous.
- `Dns`: a lookup ends, and the loop goes through the queue. Nobody has to ask.
- `Daemon`: the timers run out, and each request that stays is answered. Faults are owed to
  nobody; without the fairness of answers a daemon may be silent for ever.
- `SelfSelect`: `tick` is called, the daemon and the pool answer.
- `Bench`: the loop and threads run, and the server answers CREATE.
- `Network`: the loop runs the timer (`OnTimer`). `tick` and logins are not
  fair: in `UserIsServed` the donation may stay in any of its states for ever but
  `ACTIVE`.

## 6. Findings

1. `mining_pause`: `WorkerJob::add` records `Nonce::sequence` as it is *after* the
   job was copied. A thread that left its sleep just before `p`, and records
   the sequence after `p`'s touch, believes itself up to date and hashes on while
   the miner logs "paused".
2. `failover_redirect`: after `client.reconnect` the old socket stays open and
   nobody closes it. If the configuration then changes, the client is deleted
   and data on the old socket finds no client in the `Storage`
   (`assert(m_data.count(id) > 0)`).
3. `results_stop`: `Controller::stop` destroys the network, and with it the
   results' handler, before it stops the threads (`assert(handler != nullptr)`).
   In a release build the thread's test may also pass just before the deletion.

What else the models reach and no document, comment or assertion speaks of:

- A thread that is overtaken may also keep the previous job until the next touch,
  and may record sequence zero in a stop, which then only ends with its loop.
- `allocateRandomX_VM` waits for the dataset of its thread's job even if another
  seed was asked for since; a touch does not get it out, only a stop or the
  seed's return.
- `setEnabled(true)` while a dataset is being made unpauses threads of the old
  job; an API stop during it is undone by `onDatasetReady`.
- The counter of nonces is reset twice for a job whose dataset had to be made; a
  thread that started in between has its range given out again. `WorkerJob::save`
  ignores that there were no nonces.
- A login in the donation's last three seconds (`STATE_WAIT`), or of a lookup
  that outlived `stop()`, starts another period of donation. The loss of the
  donation's connection while it is active is heard by nobody: the miner goes
  on with its job until the timer ends.
- `Client::disconnect` in `HostLookup` is forgotten: the pool connects and logs in
  after the strategy was stopped. It then is the active one. If it fails after that the
  strategy moves on, and the next `connect()` begins at the second pool; the first
  one stays disconnected until the index comes back to it.
- A line from a server, whatever it is, clears the login's deadline.
- `HttpClient::onResolved` tells nobody that a name was not found, and requests of
  clients have no timeout: a `DaemonClient` that connects then waits for ever, and
  its strategy never tries another pool.
- `DaemonClient::retry` increments `m_failures` before it tests it for -1, so the
  test never holds: a disconnected client starts its timer, and reports 0 failures.
- `SelfSelectClient`: a job that comes between `block_template` and its answer is
  given without a blob; the answer for a job ends the wait to retry the next one's
  request; `submitblock` has the id of the request that follows it.
- The benchmark's threads are started before `BenchState::start`, and one of RandomX
  is not paused then (`Nonce::stop`, for the first job, ended the pause), so that they can call
  `done()` too early, if the benchmark is that short; if the server refuses, it destroys
  the state under them. If its reply has no usable seed the result of `setSeed` is ignored, and
  threads hash the warm-up for ever. The last
  `done()` unlocks a mutex that the loop may have deleted. A thread that fails its self-test is
  waited for for ever.
- A user who pauses the miner by `p`, or switches pausing on battery off while on
  battery, meets `autoPause`'s counter, which knows nothing of either.
- The API's stop while a dataset is made: threads start again when it is ready.
- A configuration with other pools and other threads: `Miner::onConfigChanged` returns
  before the backend has it, and a single pool that is stopped does not pause the miner.
  Until the next job it mines on with the threads of the configuration before.

## 7. Proofs

All theorems are about the specifications TLC runs, for every value of the
constants that satisfies the named assumptions. Each follows from one inductive
invariant `IInv` (`Init => IInv`, one lemma or step per action, `IInv => Inv`).

- **`RxQueue_proofs`** — assumptions: `DatasetAssumption`, a natural number of
  requests. `IInv` adds to the properties what the queue's thread has done so far
  at each of its places (`StorageInv`), that the state is not idle while it works
  (`WorkingInv`), that an idle queue is empty and its storage holds `m_seed`
  (`IdleInv`): without these, "ready" in the next state would not follow from
  anything. Proved: `TypeCorrect`, `ReadySeedIsUsable`, `NewestRequestWins`,
  `NobodyReadsWhileWriting`, `CallbackFindsIdle`; `NoWakeUpIsLost` and `NoAnswerIsLost`, which the
  liveness of the queue rests on; and `QueueImplements`: every step of the queue is a
  step of `DatasetService` or a stutter.
- **`Mining_proofs`** — assumptions on jobs, profiles, events. `IInv` follows
  each handler: where it returns to (`Control`), what it has made sure of about
  pauses (`Allowed`, `PausedBefore`), when threads may be gone (`Joined`). For
  threads: `Late` (none is up to date when another dataset is asked for),
  `OwnDataset`, `NewestJob`, `Machine`. The heart is that a thread counts as up
  to date only if it both decided to go on and recorded its job at the present
  sequence; each handler touches between its change and the moment when the
  change could be believed. Proved: `TypeCorrect`, `MinesOnlyWhenAllowed`,
  `LosesNoThread`, `DatasetIsTheJobs`, `JobIsTheNewest`, `HashesWithAMachine`;
  `UsesTheService`, that every step of miner and threads is one of `DatasetService`
  or a stutter, so that `RxQueue` may stand for it; `ServesTheNewest`, of the service alone.
  `MinesWhenAllowed` is the converse of `MinesOnlyWhenAllowed`: without the API's stop,
  a miner that is idle, active, enabled and has its dataset has the configured threads,
  and pauses only for want of nonces. Its exception is `unapplied`, threads of the
  configuration before that one with other pools. Its invariant `Uses` says why threads
  can be gone (`StopsForSetJob`, `RestartsThreads`) and that the handler which
  removes the last reason to pause removes the pause (`UnpausedIfServed`).
- **`Nonces_proofs`** — assumptions: ids stand for blobs, donation's blobs differ,
  a mask holds a draw and covers the low half or is within it. `RangeInv` says
  also that ranges are below the counter; `DrawInv` that a thread with the newest
  job has drawn or is about to; `PauseInv` that a counter past a mask has paused.
  The arithmetic of the low half is in `Remainder`, `EndOfBlock`, `DrawFits`.
  Proved: `TypeCorrect`, `NoRangeTwice`, `RangesAlwaysFit`, `ExhaustionPauses`,
  `HashesItsOwn`.
- **`Network_proofs`** — any set of modes. The properties are inductive together
  with `TimerInv` (the timer runs exactly in `IDLE` and `ACTIVE`), which is why a
  timer never finds the state it sets. Proved: `TypeCorrect`,
  `StateAlwaysChanges`, `MinesUserJob`, `DonatesOnlyThen`, `AlwaysForSomeone`,
  `DonationNeverStuck`.

- **`Failover_proofs`** — assumptions: two pools or more, one retry or more, the
  null handle is no handle. Of `SpecRedirected`, which allows `client.reconnect`
  too. `IInv` is the type invariant with `MinesForActive` and
  `LoggedInIsActive`. It rests on a lemma per method of a client (what it returns
  is a client, and is logged in only if the client was) and one per callback of
  the strategy: `onLoginSuccess` disconnects every pool but the first and the
  active one, and the first is always made active. Proved: `TypeCorrect`,
  `MinesForTheActive`, `LoggedInAlone`, `OnlyTheFirstDisplaces`, and
  `ImplementsPoolService`: every step is one of `PoolService` or a stutter
  (`ServiceStep`, from `MinesForActive` and the action property).

- **`Sockets_proofs`** — on top of `Failover_proofs`, with the same assumptions: what a
  client's state, its `m_socket` and libuv's handles say of each other. `SocketFits`
  says that libuv has at most one handle of a client, that which `m_socket` points
  to, in the phase that the client's state stands for; `OwnerFits`, what a
  client without listener still waits for; `TimeFits`, that one that tries has a
  lookup or a deadline; `PlaceFits`, at which client the strategy is. They hold
  until a client that has a socket begins to connect (`overlapped`), and the step
  that does so is the last that the theorems speak of. There is one lemma per
  method of a client, one per callback of the strategy, and one per handler of
  libuv. The parameter R says whether servers may send `client.reconnect`. With it
  `SocketFits` and `OwnerFits` still hold, so `CallbacksFindClients` is proved of
  `SpecRedirected`: no assertion fails up to the overlap. `TimeFits` and `PlaceFits`
  do not: the socket left open may answer the login, and any line it sends clears
  the deadline of the reconnection. `ResultsGoToAConnection` and `StartedIsTrying`
  are therefore of `Spec`; TLC finds both violated under `SpecRedirected`.
  `FirstIsSought` and `FirstIsKept` are about coming back to the first pool: something
  under way takes it further, wherever the index is, and nobody but `stop()`
  disconnects it. Their invariant `FirstInv` says that either nobody has been
  connected yet or the first pool, if not disconnected, is not `Unconnected`. A first
  pool that a `stop()` disconnected is excepted for the reason in section 6: TLC
  finds the unconditional statement violated.
- **`Services_proofs`** — for each component its own specification.
  - *AutoPause*: the count is that of the states which are set (`Counts`), and states
    are set as configured and decide `enabled` (`Settled`). Proved:
    `PausesFollowReasons`.
  - *Dns*: `LookupIsAwaited`, a lookup goes on exactly while somebody is queued and
    `done()` is not at work, and the cache has nothing to give then; that is why a
    caller that finds itself alone in the queue replaces nobody's request. Proved:
    `LookupsKeepTheirRequest`, and `WaitersAreNotForgotten` without the exception of
    the clock.
  - *LineReader*: the buffer is empty or has the unfinished line as far as it was
    read (`Keeps`), and each report is part of one line, after those before it
    (`Reported`). Proved for any chunk size: `EveryLineIsWhole`.
  - *SelfSelect*: every request has an id below `m_sequence`, and one with the last
    id that asks for a template is for the job there is (`RequestsAreItsOwn`); hence
    the comparison of ids in `onHttpData` suffices. Proved: `TemplatesFit`; and
    `JobsAreAsked`, for which `SelfSound` adds that a listener told of failures has
    them still counted, and that what was given is not ahead of the job.
  - *Results*: a result is in the list, in the batch or delivered, once, in the order
    in which its thread found it, or in the thread's hand. Proved:
    `ResultsOnceAndInOrder`, `NoResultLeftBehind`.
  - *Daemon*: `DaemonGoesOn` and `DaemonKnowsItsJob` are inductive with what a
    request says of the tips. Proved: `DaemonIsAsked`, `DaemonKnowsWhatItMines`.
- **`Bench_proofs`** — any number of threads and nonces; the threads are finitely
  many. `CountInv` (`m_remaining` is never less than the threads that are not through
  with their nonces, counted as a cardinality), `SeedInv` (nobody has the seed's
  job before the counter is reset), `NonceInv` (each nonce drawn is in the sum or in
  one thread's hand). Proved: `SumsAreComplete`. `EndInv` adds where the last thread
  can be: while the benchmark is there, and no thread failed its self-test, the thread that is
  counted last sends the async (`LastThreadSends`). `AssertionsFailForACause`: what
  `done()` asserts fails, and what it uses is gone, only for the causes section 6
  names.

Invariants that another property or the refinement makes secondary (`ReadyIsUsable`,
`CallbackSeesIdle`, `MinesForActive`, `BackupsDoNotDisplace`,
`DonatesOnlyWhileActive`, `DrainedIsPaused`), the type invariants, and those
that are the safety under a liveness property (`WakeUpIsToCome`, `AnswerIsToCome`,
`WaitersHaveALookup`, `SelfGoesOn`,
`ResultsAnnounced`, `DaemonGoesOn` with `DaemonKnowsItsJob`, `MinesWhenItCan`,
`ReadyIsAvailable`, `LastOneSends`, `FirstIsTried`: in every state that is
not yet good there is a step to come which the fairness promises) are proved and
not among the properties of the runs.

Every safety invariant that a passing run checks is stated by a theorem. Only
model-checked is liveness, which is out of the prover's reach: `RequestAnswered`,
`DestructorEnds`, `StopEnds`, `PausedThreadsRest`, `NewJobReachesThreads`,
`WaitersAreServed`, `PrimaryReturns`, `BackupServes`, `UserIsServed`, `ResultsArrive`,
`EveryoneIsAnswered`, `TipIsMined`, `JobsAreServed`, `BenchEnds`. The three
violations are counterexamples of TLC.

## 8. Not modelled, and why

Of modelled components: NUMA nodes; creation of workers (immediate, but for a
self-test that fails in `Bench`); GPU results; several hashes per round (N ways draw
N times as much); TLS, SOCKS5; the parsing of jobs; answers to results; sequence
numbers that wrap; ZMQ of `DaemonClient`; the benchmark of one thread, whose hashes
depend on each other.

`EthStratumClient` and `AutoClient` are connected, closed and retried as `Client` is, but
their logins come without a job. `Network` has that for the pools of the donation
(`LoginAwaitJob`); the user's pools there, and all in `Failover`, are plain
`Client`s, which log in with a job.
`Mining` has jobs of RandomX only: those of other algorithms need no dataset.
`DaemonClient` without an algorithm or a valid wallet, a mistake in the configuration, retries
`connect()` without asking for anything; `Daemon` has those that ask.
`NetworkState` and `Hashrate` only count for reports. The memory pools work while
threads are created, behind the mutex of `VirtualMemory`.

Components that will not be modelled: hash algorithms (numerics), JSON configuration
and reports (data transformation), HTTP, TLS and SOCKS5 (byte-level I/O around
libraries), GPU backends (off by default, same protocol as the CPU's), platform
code. These are most of the repository's lines: the tables and rounds of hash
functions alone (`crypto/ghostrider`, `crypto/cn`,
`base/tools/cryptonote`, `backend/opencl/cl`) are over two thirds of them, and
vendored or generated for the most part. The control that decides what is hashed,
when and for whom is in the files of section 1, a few thousand lines, and those
are what the modules cover.

## 9. Plan

Done: all modules of section 2, and theorems for every safety invariant of the
passing runs.

Next:

1. The safety under `StopEnds`, `PausedThreadsRest` and `BackupServes`, which no theorem
   supports yet.
2. `Network`: what is told to the miner is what `Mining` allows as events.
3. GPU results in `Results`.
