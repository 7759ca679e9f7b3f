------------------------------- MODULE RxQueue -------------------------------
(***************************************************************************)
(* The RandomX dataset queue: src/src/crypto/rx/RxQueue.cpp over           *)
(* RxBasicStorage.cpp, called through Rx::init of Rx.cpp.                  *)
(*                                                                         *)
(* Two threads share the queue. The event loop calls Rx::init and, through *)
(* the async handle, onReady and at the end the destructor; the queue's    *)
(* own thread runs backgroundInit. A section of code under m_mutex is one  *)
(* action; what happens between two sections is not atomic.                *)
(***************************************************************************)
EXTENDS Naturals, Sequences

CONSTANTS Seeds,        \* seeds of the jobs: algorithm and seed hash
          NoSeed,       \* a default RxSeed, equal to no job's
          Rewriting,    \* see DatasetService
          MaxRequests   \* bound of the model: calls of Rx::init that enqueue

ASSUME SeedAssumption == NoSeed \notin Seeds /\ Rewriting \notin Seeds /\ NoSeed # Rewriting
ASSUME BoundAssumption == MaxRequests \in Nat

VARIABLES
  m_state,    \* "IDLE", "PENDING", "SHUTDOWN"
  m_seed,     \* the seed of the last request, or of the last dataset made
  m_queue,    \* requests the thread has not taken
  storage,    \* m_storage: [made, dataset, ready, seed], see NoStorage
  notified,   \* m_cv has been notified since the thread went to wait on it
  signal,     \* m_async has been sent and its callback has not run
  bg,         \* the queue's thread: where it is, and its item
  loop,       \* the event loop's thread: where it is, and its argument
  requests,   \* enqueued so far, for the bound
  owed        \* the listener waits for onDatasetReady after a request

vars == <<m_state, m_seed, m_queue, storage, notified, signal, bg, loop, requests, owed>>

\* made: m_storage is allocated; dataset: it has memory for the dataset;
\* ready, seed: RxBasicStoragePrivate::m_ready and m_seed
NoStorage == [made |-> FALSE, dataset |-> FALSE, ready |-> FALSE, seed |-> NoSeed]

AnySeed == Seeds \union {NoSeed}

BgPlaces   == {"check", "lock", "waiting", "setSeed", "create", "fill", "relock", "exited"}
LoopPlaces == {"free", "enqueue", "notify", "callback", "dtorNotify", "join", "deleted"}

\* Variables hold values of their types.
TypeOK ==
  /\ m_state \in {"IDLE", "PENDING", "SHUTDOWN"}
  /\ m_seed \in AnySeed
  /\ m_queue \in Seq(Seeds)
  /\ storage \in [made : BOOLEAN, dataset : BOOLEAN, ready : BOOLEAN, seed : AnySeed]
  /\ notified \in BOOLEAN
  /\ signal \in BOOLEAN
  /\ bg \in [at : BgPlaces, item : AnySeed]
  /\ loop \in [at : LoopPlaces, arg : AnySeed]
  /\ requests \in 0..MaxRequests
  /\ owed \in BOOLEAN

Init ==
  /\ m_state = "IDLE"
  /\ m_seed = NoSeed
  /\ m_queue = <<>>
  /\ storage = NoStorage
  /\ notified = FALSE
  /\ signal = FALSE
  /\ bg = [at |-> "check", item |-> NoSeed]
  /\ loop = [at |-> "free", arg |-> NoSeed]
  /\ requests = 0
  /\ owed = FALSE

-----------------------------------------------------------------------------
(* Readers, under m_mutex *)

\* RxQueue::isReadyUnsafe
IsReadyAnyState(s) == storage.made /\ storage.dataset /\ m_seed = s
IsReady(s) == storage.made /\ storage.dataset /\ m_state = "IDLE" /\ m_seed = s

\* RxQueue::dataset: the storage asks again, of its own seed
HasDataset(s) == IsReady(s) /\ storage.ready /\ storage.seed = s

-----------------------------------------------------------------------------
(* The event loop *)

LoopAt(p) == loop.at = p
LoopGo(p) == loop' = [loop EXCEPT !.at = p]

\* Rx::init(seed): the first section. A ready seed needs nothing.
RxInit(s) ==
  /\ LoopAt("free")
  /\ requests < MaxRequests
  /\ ~IsReady(s)
  /\ loop' = [at |-> "enqueue", arg |-> s]
  /\ UNCHANGED <<m_state, m_seed, m_queue, storage, notified, signal, bg, requests, owed>>

\* What RxQueue::enqueue does to an item it is given
PushItem(s) ==
  /\ m_queue' = Append(m_queue, s)
  /\ m_seed' = s
  /\ m_state' = "PENDING"

\* RxQueue::enqueue, its section under the mutex
Enqueue ==
  /\ LoopAt("enqueue")
  /\ storage' = [storage EXCEPT !.made = TRUE]
  /\ owed' = TRUE
  /\ IF m_state = "PENDING" /\ m_seed = loop.arg
       THEN /\ LoopGo("free")
            /\ UNCHANGED <<m_state, m_seed, m_queue, requests>>
       ELSE /\ PushItem(loop.arg)
            /\ requests' = requests + 1
            /\ LoopGo("notify")
  /\ UNCHANGED <<notified, signal, bg>>

\* m_cv.notify_one() after the unlock: lost unless the thread is waiting
NotifyDropped == notified' = notified
NotifyOne     == notified' = (notified \/ bg.at = "waiting")

EnqueueNotify ==
  /\ LoopAt("notify")
  /\ NotifyOne
  /\ LoopGo("free")
  /\ UNCHANGED <<m_state, m_seed, m_queue, storage, signal, bg, requests, owed>>

\* RxQueue::onReady, its section under the mutex: the async callback
OnReady ==
  /\ LoopAt("free")
  /\ signal
  /\ signal' = FALSE
  /\ LoopGo(IF m_state = "IDLE" THEN "callback" ELSE "free")
  /\ UNCHANGED <<m_state, m_seed, m_queue, storage, notified, bg, requests, owed>>

\* m_listener->onDatasetReady(), after the unlock
OnReadyCallback ==
  /\ LoopAt("callback")
  /\ owed' = FALSE
  /\ LoopGo("free")
  /\ UNCHANGED <<m_state, m_seed, m_queue, storage, notified, signal, bg, requests>>

\* RxQueue::~RxQueue in four steps: the section, notify_one, join, delete
DtorLock ==
  /\ LoopAt("free")
  /\ m_state' = "SHUTDOWN"
  /\ LoopGo("dtorNotify")
  /\ UNCHANGED <<m_seed, m_queue, storage, notified, signal, bg, requests, owed>>

DtorNotify ==
  /\ LoopAt("dtorNotify")
  /\ NotifyOne
  /\ LoopGo("join")
  /\ UNCHANGED <<m_state, m_seed, m_queue, storage, signal, bg, requests, owed>>

DtorJoin ==
  /\ LoopAt("join")
  /\ bg.at = "exited"
  /\ LoopGo("deleted")
  /\ UNCHANGED <<m_state, m_seed, m_queue, storage, notified, signal, bg, requests, owed>>

LoopStep ==
  \/ Enqueue \/ EnqueueNotify \/ OnReady \/ OnReadyCallback \/ DtorNotify \/ DtorJoin

-----------------------------------------------------------------------------
(* RxQueue::backgroundInit, the queue's thread *)

BgAt(p) == bg.at = p
BgGo(p) == bg' = [bg EXCEPT !.at = p]

\* while (m_state != STATE_SHUTDOWN), read without the mutex
BgCheck ==
  /\ BgAt("check")
  /\ BgGo(IF m_state = "SHUTDOWN" THEN "exited" ELSE "lock")
  /\ UNCHANGED <<m_state, m_seed, m_queue, storage, notified, signal, loop, requests, owed>>

\* const auto item = m_queue.back(); m_queue.clear();
TakeOldest == bg' = [at |-> "setSeed", item |-> Head(m_queue)] /\ m_queue' = <<>>
TakeItem   == bg' = [at |-> "setSeed", item |-> m_queue[Len(m_queue)]] /\ m_queue' = <<>>

\* The rest of the section once the wait is over, or was not needed
BgProceed ==
  IF m_state = "PENDING"
    THEN TakeItem
    ELSE BgGo("check") /\ UNCHANGED m_queue

\* lock; wait on the condition variable while the state is idle
BgLock ==
  /\ BgAt("lock")
  /\ IF m_state = "IDLE"
       THEN BgGo("waiting") /\ notified' = FALSE /\ UNCHANGED m_queue
       ELSE BgProceed /\ UNCHANGED notified
  /\ UNCHANGED <<m_state, m_seed, storage, signal, loop, requests, owed>>

\* The wait's predicate is looked at again after every wake-up
BgWokenUpForRequest ==
  /\ notified' = FALSE
  /\ IF m_state # "PENDING" THEN UNCHANGED <<bg, m_queue>> ELSE BgProceed
  /\ UNCHANGED <<m_state, m_seed, storage, signal, loop, requests, owed>>

BgWokenUp ==
  /\ notified' = FALSE
  /\ IF m_state = "IDLE" THEN UNCHANGED <<bg, m_queue>> ELSE BgProceed
  /\ UNCHANGED <<m_state, m_seed, storage, signal, loop, requests, owed>>

BgWake         == BgAt("waiting") /\ notified /\ BgWokenUp
BgSpuriousWake == BgAt("waiting") /\ ~notified /\ BgWokenUp

\* m_storage->init without the mutex: setSeed ...
BgSetSeed ==
  /\ BgAt("setSeed")
  /\ storage' = [storage EXCEPT !.ready = FALSE, !.seed = bg.item]
  /\ BgGo(IF storage.dataset THEN "fill" ELSE "create")
  /\ UNCHANGED <<m_state, m_seed, m_queue, notified, signal, loop, requests, owed>>

\* ... createDataset, which can run out of memory ...
BgCreate ==
  /\ BgAt("create")
  /\ \/ storage' = [storage EXCEPT !.dataset = TRUE] /\ BgGo("fill")
     \/ BgGo("relock") /\ UNCHANGED storage
  /\ UNCHANGED <<m_state, m_seed, m_queue, notified, signal, loop, requests, owed>>

\* ... initDataset
BgFill ==
  /\ BgAt("fill")
  /\ storage' = [storage EXCEPT !.ready = TRUE]
  /\ BgGo("relock")
  /\ UNCHANGED <<m_state, m_seed, m_queue, notified, signal, loop, requests, owed>>

\* if (m_state == STATE_SHUTDOWN || !m_queue.empty()) continue;
AlwaysFinish == m_state # "SHUTDOWN"
NothingNewer == m_state # "SHUTDOWN" /\ m_queue = <<>>

\* lock; tell the loop, unless something newer was requested meanwhile
BgRelock ==
  /\ BgAt("relock")
  /\ BgGo("check")
  /\ IF NothingNewer
       THEN m_seed' = bg.item /\ m_state' = "IDLE" /\ signal' = TRUE
       ELSE UNCHANGED <<m_seed, m_state, signal>>
  /\ UNCHANGED <<m_queue, storage, notified, loop, requests, owed>>

BgStep == BgCheck \/ BgLock \/ BgWake \/ BgSetSeed \/ BgCreate \/ BgFill \/ BgRelock

-----------------------------------------------------------------------------

Terminated == LoopAt("deleted") /\ UNCHANGED vars

Next ==
  \/ \E s \in Seeds : RxInit(s)
  \/ DtorLock
  \/ LoopStep
  \/ BgStep
  \/ BgSpuriousWake
  \/ Terminated

\* Both threads run: a thread that can take a step eventually takes one. The
\* loop is not obliged to request a dataset or to shut down, and nothing is
\* owed a spurious wake-up.
Fairness == WF_vars(LoopStep) /\ WF_vars(BgStep)

Spec == Init /\ [][Next]_vars /\ Fairness

-----------------------------------------------------------------------------
(* Properties *)

\* Rx::isReady and Rx::dataset agree: a miner told that a seed is ready
\* (Miner::setJob, Miner::onDatasetReady) starts workers that loop in
\* allocateRandomX_VM until Rx::dataset returns the dataset, for ever if the
\* storage was left with another seed or not ready.
ReadyIsUsable == \A s \in Seeds : IsReady(s) => HasDataset(s)

\* While a request is pending, the newest seed asked for is either the last of
\* the queue or, with an empty queue, the one the thread works on: an older
\* request is never what the queue ends on.
NewestWins ==
  m_state = "PENDING" =>
    IF m_queue = <<>>
      THEN bg.at \in {"setSeed", "create", "fill", "relock"} /\ bg.item = m_seed
      ELSE m_queue[Len(m_queue)] = m_seed

\* The memory is written by the queue's thread only while nobody may read it:
\* no seed is ready from the moment the thread takes an item until it is done.
NoReaderWhileWriting ==
  bg.at \in {"setSeed", "create", "fill"} => \A s \in Seeds : ~IsReady(s)

\* The listener is called while the state is idle, so that its own isReady can
\* succeed: the unlock before the call opens no window.
CallbackSeesIdle == LoopAt("callback") => m_state = "IDLE"

\* A request is always answered: every Rx::init that returned false is followed by
\* onDatasetReady (which may find that there was no memory), or by the end of the
\* queue. No wake-up and no signal is lost.
RequestAnswered == owed ~> (~owed \/ m_state = "SHUTDOWN")

\* The destructor's join ends, wherever the thread was when it began.
DestructorEnds == LoopAt("join") ~> LoopAt("deleted")

-----------------------------------------------------------------------------
(* Refinement *)

Content ==
  IF ~storage.dataset THEN NoSeed
  ELSE IF storage.ready THEN storage.seed ELSE Rewriting

Abstract == INSTANCE DatasetService
              WITH phase <- m_state, wanted <- m_seed, content <- Content

\* The queue does what DatasetService promises.
Implements == Abstract!DSSpec
=============================================================================
