------------------------------- MODULE Bench -------------------------------
(***************************************************************************)
(* The benchmark: threads hash the nonces below benchSize, once each, and  *)
(* add what they find to one sum; the last to come to the end has the loop *)
(* report it (BenchState, BenchClient, and what they use of CpuWorker,     *)
(* Workers, Miner and Nonce). Online, threads first hash another job (the  *)
(* warm-up) until the server has answered with the seed.                   *)
(*                                                                         *)
(* The sum is kept as what it is the exclusive or of. Hashes of one thread *)
(* alone, which depend on the sum, are left out. A round's nextRound and   *)
(* add are one step: nobody looks at the sum before all are done.          *)
(***************************************************************************)
EXTENDS Naturals, FiniteSets

CONSTANTS BenchThreads,
          BenchSize,    \* benchSize: how many nonces
          BenchReserve, \* kReserveCount, for the warm-up
          MaxWarm       \* bound of the model: how far the warm-up counts

ASSUME BenchAssumption ==
  /\ IsFiniteSet(BenchThreads) /\ BenchThreads # {}
  /\ BenchSize \in Nat /\ BenchReserve \in Nat \ {0} /\ MaxWarm \in Nat

VARIABLES
  benchMiner,   \* the loop: where it is, Miner's job and `enabled`
  benchNonce,   \* Nonce's m_paused and m_nonces; m_sequence is zero
  benchState,   \* BenchState: d_ptr, its async, remaining and mutex; the async was sent to
  benchData,    \* m_data
  benchClient,  \* m_request that the server has to answer; the sum that was reported
  benchWorkers, \* the threads: `current` says that the sequence is the one recorded, `late`
                \* (history) that it is not that of the thread's copy
  benchHistory  \* history: a counter was used for two jobs (`mixed`); a thread recorded a sequence
                \* that is not that of its copy; one failed its self-test; the server said
                \* no; "assert" when an assertion failed, "freed" when d_ptr was used
                \* after its end

benchVars == <<benchMiner, benchNonce, benchState, benchData, benchClient, benchWorkers, benchHistory>>

NewHand == [at |-> "begin", back |-> "top", copy |-> "none", job |-> "none", nonce |-> 0,
            current |-> FALSE, late |-> FALSE]

\* Miner::setJob stopped everything for a job of RandomX, which ends a pause; before one
\* of another algorithm all is paused as at first
BenchInit ==
  /\ benchMiner = [at |-> "wait", job |-> "none", enabled |-> TRUE]
  /\ \E pause \in BOOLEAN : benchNonce = [paused |-> pause, stopped |-> FALSE, counter |-> 0]
  /\ benchState = [there |-> TRUE, async |-> FALSE, remaining |-> 0, mutex |-> {}, sent |-> FALSE]
  /\ benchData = {}
  /\ benchClient = [request |-> "none", reported |-> FALSE, result |-> {}]
  /\ benchWorkers = [w \in BenchThreads |-> [NewHand EXCEPT !.at = "end"]]
  /\ benchHistory = [mixed |-> FALSE, overtaken |-> FALSE, failed |-> FALSE, error |-> FALSE, wrong |-> "no"]

-----------------------------------------------------------------------------
(* The event loop *)

LoopGoes(from, to) == benchMiner.at = from /\ benchMiner' = [benchMiner EXCEPT !.at = to]

\* The dataset of the first job is ready. handleJobChange up to the start of the threads,
\* which it does not wait for
BenchWorkersStart ==
  \E job \in {"warm", "seed"} :
    /\ benchMiner.at = "wait"
    /\ benchMiner' = [benchMiner EXCEPT !.at = "ready", !.job = job]
    /\ benchNonce' = [benchNonce EXCEPT !.paused = @ \/ ~benchMiner.enabled, !.counter = 0]
    /\ benchWorkers' = [w \in BenchThreads |-> NewHand]
    /\ UNCHANGED <<benchState, benchData, benchClient, benchHistory>>

\* BenchState::start and onBenchReady
StateStartsOneLess ==
  benchState' = [benchState EXCEPT !.async = TRUE, !.remaining = Cardinality(BenchThreads) - 1]
StateStarts == benchState' = [benchState EXCEPT !.async = TRUE, !.remaining = Cardinality(BenchThreads)]

BenchReady ==
  /\ LoopGoes("ready", "touch")
  /\ StateStarts
  /\ benchClient' = [benchClient EXCEPT !.request = IF benchMiner.job = "warm" THEN "CREATE" ELSE "none"]
  /\ UNCHANGED <<benchNonce, benchData, benchWorkers, benchHistory>>

\* Another sequence
Touched == [w \in BenchThreads |-> [benchWorkers[w] EXCEPT !.current = FALSE, !.late = benchWorkers[w].at = "add"]]

BenchTouch ==
  /\ LoopGoes("touch", "unpause")
  /\ benchWorkers' = Touched
  /\ UNCHANGED <<benchNonce, benchState, benchData, benchClient, benchHistory>>

\* The end of handleJobChange, and of onCreateReply
BenchUnpause ==
  /\ LoopGoes("unpause", "idle")
  /\ benchNonce' = [benchNonce EXCEPT !.paused = @ /\ ~benchMiner.enabled]
  /\ benchClient' = [benchClient EXCEPT !.request = IF benchMiner.job = "seed" /\ @ = "CREATE" THEN "START" ELSE @]
  /\ UNCHANGED <<benchState, benchData, benchWorkers, benchHistory>>

\* onCreateReply: Miner::setJob with the seed's job, which threads may copy from now on. A
\* reply whose seed setSeed does not take has the warm-up go on, and starts it all the same
BenchCreated ==
  /\ benchMiner.at = "idle" /\ benchMiner.job = "warm" /\ benchClient.request = "CREATE"
  /\ \/ /\ benchMiner' = [benchMiner EXCEPT !.at = "reset", !.job = "seed"]
        /\ UNCHANGED benchClient
     \/ /\ benchMiner' = [benchMiner EXCEPT !.at = "touch"]
        /\ benchClient' = [benchClient EXCEPT !.request = "START"]
  /\ UNCHANGED <<benchNonce, benchState, benchData, benchWorkers, benchHistory>>

BenchResetNot ==
  /\ LoopGoes("reset", "touch")
  /\ benchNonce' = [benchNonce EXCEPT !.paused = @ \/ ~benchMiner.enabled]
  /\ UNCHANGED <<benchState, benchData, benchClient, benchWorkers, benchHistory>>

\* handleJobChange for it; the threads stay the same
BenchReset ==
  /\ LoopGoes("reset", "touch")
  /\ benchNonce' = [benchNonce EXCEPT !.paused = @ \/ ~benchMiner.enabled, !.counter = 0]
  /\ UNCHANGED <<benchState, benchData, benchClient, benchWorkers, benchHistory>>

\* BenchState::destroy
Destroyed == [benchState EXCEPT !.there = FALSE, !.async = FALSE, !.sent = FALSE]

\* setError: a request failed, or its reply
BenchError ==
  /\ benchMiner.at = "idle" /\ benchClient.request # "none"
  /\ benchClient' = [benchClient EXCEPT !.request = "none"]
  /\ benchState' = Destroyed
  /\ benchHistory' = [benchHistory EXCEPT !.error = TRUE]
  /\ UNCHANGED <<benchMiner, benchNonce, benchData, benchWorkers>>

\* The callback of the Async: onBenchDone, then destroy
BenchReport ==
  /\ benchMiner.at = "idle" /\ benchState.sent
  /\ benchClient' = [benchClient EXCEPT !.reported = TRUE, !.result = benchData]
  /\ benchState' = Destroyed
  /\ UNCHANGED <<benchMiner, benchNonce, benchData, benchWorkers, benchHistory>>

\* Miner::setEnabled
BenchSetEnabled ==
  /\ benchMiner.at \in {"wait", "idle"}
  /\ benchMiner' = [benchMiner EXCEPT !.at = IF @ = "idle" THEN "touch" ELSE @, !.enabled = ~@]
  /\ benchNonce' = [benchNonce EXCEPT !.paused = benchMiner.enabled]
  /\ UNCHANGED <<benchState, benchData, benchClient, benchWorkers, benchHistory>>

\* Miner's timer, when BenchState::isDone: Miner::stop
BenchTick ==
  /\ ~benchState.there
  /\ LoopGoes("idle", "join")
  /\ benchNonce' = [benchNonce EXCEPT !.paused = FALSE, !.stopped = TRUE]
  /\ benchWorkers' = Touched
  /\ UNCHANGED <<benchState, benchData, benchClient, benchHistory>>

BenchJoin ==
  /\ \A w \in BenchThreads : benchWorkers[w].at = "end"
  /\ LoopGoes("join", "over")
  /\ benchNonce' = [benchNonce EXCEPT !.stopped = FALSE]
  /\ UNCHANGED <<benchState, benchData, benchClient, benchWorkers, benchHistory>>

-----------------------------------------------------------------------------
(* A thread *)

At(w, place)   == benchWorkers[w].at = place
Comes(w, hand) == benchWorkers' = [benchWorkers EXCEPT ![w] = hand]
Goes(w, to)    == Comes(w, [benchWorkers[w] EXCEPT !.at = to])

\* onReady
HandBegin(w) ==
  /\ At(w, "begin")
  /\ \/ Goes(w, "top") /\ UNCHANGED benchHistory
     \/ Goes(w, "end") /\ benchHistory' = [benchHistory EXCEPT !.failed = TRUE]
  /\ UNCHANGED <<benchMiner, benchNonce, benchState, benchData, benchClient>>

\* The loop of start(): it ends, sleeps while paused, or hashes
HandTop(w) ==
  /\ \/ At(w, "top") /\ Goes(w, IF benchNonce.stopped THEN "end" ELSE IF benchNonce.paused THEN "sleep" ELSE "inner")
     \/ At(w, "sleep") /\ benchNonce.stopped /\ Goes(w, "end")
     \/ At(w, "sleep") /\ ~benchNonce.paused /\ Comes(w, [benchWorkers[w] EXCEPT !.at = "copy", !.back = "inner"])
  /\ UNCHANGED <<benchMiner, benchNonce, benchState, benchData, benchClient, benchHistory>>

\* The inner loop ends when the job is outdated (or none, which has another algorithm),
\* and start() consumes another
HandInner(w) ==
  /\ At(w, "inner")
  /\ IF ~benchWorkers[w].current \/ benchWorkers[w].job = "none"
       THEN IF benchNonce.paused THEN Goes(w, "top") ELSE Comes(w, [benchWorkers[w] EXCEPT !.at = "copy", !.back = "top"])
       ELSE Goes(w, IF benchWorkers[w].job = "seed" /\ benchWorkers[w].nonce >= BenchSize THEN "done" ELSE "hash")
  /\ UNCHANGED <<benchMiner, benchNonce, benchState, benchData, benchClient, benchHistory>>

\* consumeJob: the copy of Miner's job, then WorkerJob::add
HandCopy(w) ==
  /\ At(w, "copy")
  /\ IF benchNonce.stopped THEN Goes(w, benchWorkers[w].back)
     ELSE Comes(w, [benchWorkers[w] EXCEPT !.at = "add", !.copy = benchMiner.job])
  /\ UNCHANGED <<benchMiner, benchNonce, benchState, benchData, benchClient, benchHistory>>

\* count in consumeJob and nextRound
Count(job) == IF job = "seed" THEN 1 ELSE BenchReserve

\* The counter after a draw; that of the warm-up stops at the bound
Drawn(job) ==
  IF job = "warm" /\ benchNonce.counter >= MaxWarm THEN benchNonce.counter
  ELSE benchNonce.counter + Count(job)

\* Is a draw for this job one from a counter that is another job's?
Foreign(job) == (job = "seed") # (benchMiner.job = "seed" /\ benchMiner.at # "reset")

Draws(job) ==
  /\ benchNonce' = [benchNonce EXCEPT !.counter = Drawn(job)]
  /\ benchHistory' = [benchHistory EXCEPT !.mixed = @ \/ Foreign(job)]

\* WorkerJob::add keeps the nonce of a job the thread has
HandAdd(w) ==
  LET h    == benchWorkers[w]
      hand == [h EXCEPT !.at = h.back, !.copy = "none", !.current = TRUE, !.late = FALSE]
  IN /\ At(w, "add")
     /\ IF h.job = h.copy
          THEN /\ Comes(w, hand)
               /\ benchHistory' = [benchHistory EXCEPT !.overtaken = h.late]
               /\ UNCHANGED benchNonce
          ELSE /\ Comes(w, [hand EXCEPT !.job = h.copy, !.nonce = IF h.copy = "seed" THEN benchNonce.counter ELSE 0])
               /\ benchNonce' = [benchNonce EXCEPT !.counter = Drawn(h.copy)]
               /\ benchHistory' = [benchHistory EXCEPT !.overtaken = h.late, !.mixed = @ \/ Foreign(h.copy)]
     /\ UNCHANGED <<benchMiner, benchState, benchData, benchClient>>

Xor(S, T) == (S \ T) \union (T \ S)

\* One round: the hash of the nonce, and a draw of the next
HandHash(w) ==
  LET h == benchWorkers[w]
  IN /\ At(w, "hash") /\ h.job = "seed"
     /\ benchData' = Xor(benchData, {h.nonce})
     /\ Comes(w, [h EXCEPT !.at = "inner", !.nonce = benchNonce.counter])
     /\ Draws("seed")
     /\ UNCHANGED <<benchMiner, benchState, benchClient>>

\* ... of the warm-up, whose nonces do not matter, but for the draw of a new range
HandWarm(w) ==
  /\ At(w, "hash") /\ benchWorkers[w].job = "warm"
  /\ Goes(w, "inner")
  /\ Draws("warm") \/ UNCHANGED <<benchNonce, benchHistory>>
  /\ UNCHANGED <<benchMiner, benchState, benchData, benchClient>>

GoesWrong(what) == benchHistory' = [benchHistory EXCEPT !.wrong = what]

\* BenchState::done: the assertion
HandDone(w) ==
  /\ At(w, "done") /\ Goes(w, "lock")
  /\ IF benchState.there /\ benchState.async /\ benchState.remaining > 0 THEN UNCHANGED benchHistory ELSE GoesWrong("assert")
  /\ UNCHANGED <<benchMiner, benchNonce, benchState, benchData, benchClient>>

\* ... the mutex, and what it protects
HandLock(w) ==
  /\ At(w, "lock") /\ Goes(w, "unlock")
  /\ benchState.mutex = {}
  /\ benchState' = [benchState EXCEPT !.mutex = {w}, !.remaining = @ - 1, !.sent = @ \/ benchState.remaining = 1]
  /\ IF benchState.there THEN UNCHANGED benchHistory ELSE GoesWrong("freed")
  /\ UNCHANGED <<benchMiner, benchNonce, benchData, benchClient>>

\* ... and its end
HandUnlock(w) ==
  /\ At(w, "unlock") /\ Goes(w, "end")
  /\ benchState' = [benchState EXCEPT !.mutex = {}]
  /\ IF benchState.there THEN UNCHANGED benchHistory ELSE GoesWrong("freed")
  /\ UNCHANGED <<benchMiner, benchNonce, benchData, benchClient>>

-----------------------------------------------------------------------------
\* The model ends at a failure, where a thread is overtaken (Mining says how it goes on),
\* and where nonces of a counter are used for two jobs (their hashes are missed, or found twice)
Right == benchHistory.wrong = "no" /\ ~benchHistory.overtaken /\ ~benchHistory.mixed

BenchLoop ==
  \/ BenchWorkersStart \/ BenchReady \/ BenchTouch \/ BenchUnpause \/ BenchCreated \/ BenchReset
  \/ BenchReport \/ BenchTick \/ BenchJoin

BenchHand(w) ==
  \/ HandBegin(w) \/ HandTop(w) \/ HandInner(w) \/ HandCopy(w) \/ HandAdd(w) \/ HandHash(w) \/ HandWarm(w)
  \/ HandDone(w) \/ HandLock(w) \/ HandUnlock(w)

\* The loop may have nothing to do
BenchOver == (benchMiner.at \in {"idle", "over"} \/ ~Right) /\ UNCHANGED benchVars

BenchNext ==
  \/ Right /\ (BenchLoop \/ BenchError \/ BenchSetEnabled \/ \E w \in BenchThreads : BenchHand(w))
  \/ BenchOver

\* The loop and the threads run, and the server answers CREATE. An error or the user is
\* owed to nobody.
BenchSpec ==
  /\ BenchInit /\ [][BenchNext]_benchVars
  /\ WF_benchVars(Right /\ BenchLoop)
  /\ \A w \in BenchThreads : WF_benchVars(Right /\ BenchHand(w))

-----------------------------------------------------------------------------
(* Properties *)

\* The sum that is reported has the hash of each nonce below benchSize, and each once,
\* though threads start at any time, the seed comes while they hash the warm-up, and the
\* user pauses and resumes. Where this ends: a thread copied the seed's job before the
\* counter was reset, or drew for the warm-up after it (`mixed`).
SumIsComplete == benchClient.reported => benchClient.result = 0..(BenchSize - 1)

\* A benchmark that has begun and is not paused is reported, or the server said no, and the
\* miner stops. (Not if a thread failed its self-test, which BenchState waits for, and not
\* if the server sent no seed, when the warm-up never ends.) Until then done() finds what it
\* asserts, a benchmark with an async and threads that remain: but where the server's error
\* destroyed it under the threads, and where these, started while nothing was paused, came
\* to the end before BenchState::start.
Running == benchMiner.enabled /\ benchMiner.at \notin {"wait", "over"}
KnownCause == benchHistory.error \/ (benchState.there /\ ~benchState.async)
Seedless == benchMiner.job = "warm" /\ benchClient.request = "START"
Excused ==
  \/ Seedless
  \/ benchHistory.failed \/ benchHistory.overtaken \/ benchHistory.mixed
  \/ benchHistory.wrong = "freed"
  \/ benchHistory.wrong = "assert" /\ KnownCause

BenchEnds == Running ~> (~Running \/ Excused)
=============================================================================
