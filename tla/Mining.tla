------------------------------- MODULE Mining -------------------------------
(***************************************************************************)
(* The control of mining: Miner.cpp (the event loop), CpuBackend.cpp and   *)
(* Workers.cpp (the threads), CpuWorker.cpp and WorkerJob.h (what a thread *)
(* does) over the global flags of Nonce.h and the dataset service.         *)
(*                                                                         *)
(* The event loop runs one handler at a time; a handler is cut at every    *)
(* access to what another thread sees: Nonce::m_paused and m_sequence      *)
(* (atomics), Miner's job (under a mutex), the dataset queue (under its    *)
(* own). Workers are cut the same way. Nonces and the choice of Miner's    *)
(* `reset` are the subject of another module and change nothing here.      *)
(* All jobs are of the RandomX family, those that need a dataset.          *)
(***************************************************************************)
EXTENDS DatasetService, Naturals

CONSTANTS Workers,      \* the threads of the CPU backend
          Jobs,         \* jobs from the pools
          NoJob,        \* a default Job: no algorithm
          SeedOf,       \* the seed of a job
          AlgoOf,       \* the algorithm of a seed
          Profiles,     \* thread configurations
          Disabled,     \* the configuration of a disabled CPU backend
          Events,       \* what can reach the event loop: a subset of AllEvents
          Exhaustion,   \* may a thread run out of nonces?
          MaxEvents     \* bound of the model: events handled

AllEvents == {"setJob", "pause", "setEnabled", "stop", "config"}

Algos == {AlgoOf[s] : s \in Seeds}

ASSUME JobAssumption ==
  /\ NoJob \notin Jobs
  /\ SeedOf \in [Jobs -> Seeds]
  /\ DOMAIN AlgoOf = Seeds
ASSUME ProfileAssumption == Disabled \notin Profiles
ASSUME EventAssumption == Events \subseteq AllEvents /\ MaxEvents \in Nat /\ Exhaustion \in BOOLEAN

VARIABLES
  main,       \* the event loop's handler: [at, back, start, arg]; back is where
              \* the backend's functions return to, start says that a stop is
              \* followed by a start, arg is the job of setJob
  job,        \* MinerPrivate::job
  algorithm,  \* MinerPrivate::algorithm, or NoJob before the first job
  active,     \* MinerPrivate::active: a pool is connected
  enabled,    \* MinerPrivate::enabled: the user, the battery allow mining
  config,     \* the configured thread profile
  unapplied,  \* history: it came together with other pools, and the backend has not
              \* looked at it since
  threads,    \* CpuBackendPrivate::threads: [profile, algo], or NoThreads
  paused,     \* Nonce::m_paused
  sequence,   \* Nonce::m_sequence[CPU]
  workers,    \* the state of each thread, see NewWorker
  events      \* events handled, for the bound

minerVars == <<main, job, algorithm, active, enabled, config, unapplied, threads, events>>
vars == <<minerVars, paused, sequence, workers, dsVars>>

NoThreads == [profile |-> Disabled, algo |-> NoJob]
Running   == threads # NoThreads

\* A worker: where it is, where consumeJob returns to, the sequence and the job of
\* its WorkerJob, the copy of the miner's job consumeJob holds, and whether it has
\* a virtual machine. Two fields are history: gate is the sequence when the thread
\* saw the miner not paused and went to consume a job, and overtaken says that
\* WorkerJob::add then recorded another one.
NewWorker == [at |-> "loop", back |-> "loop", seq |-> 0, job |-> NoJob,
              copy |-> NoJob, vm |-> FALSE, gate |-> 0, overtaken |-> FALSE]
NoWorker  == [NewWorker EXCEPT !.at = "exited"]

AnyJob == Jobs \union {NoJob}

MainPlaces ==
  {"idle", "sj.pause", "sj.touch", "sj.assign", "sj.enqueue",
   "hjc.pause", "hjc.touch", "hjc.unpause",
   "cpu.setJob", "cpu.stop", "cpu.join", "cpu.start",
   "stop.unpause", "stop.zero", "se.pause", "touch"}

WorkerPlaces ==
  {"loop", "gate", "sleep", "awake", "consume", "copy", "add", "alloc", "wait",
   "inner", "hash", "bottom", "exited"}

MainType   == [at : MainPlaces, back : MainPlaces, start : BOOLEAN, arg : AnyJob]
ThreadType == [profile : Profiles, algo : Algos]
WorkerType == [at : WorkerPlaces, back : {"loop", "inner"}, seq : Nat, job : AnyJob,
               copy : AnyJob, vm : BOOLEAN, gate : Nat, overtaken : BOOLEAN]

\* Variables hold values of their types; sequence counts touches and stays small.
TypeOK ==
  /\ DSTypeOK
  /\ main \in MainType
  /\ job \in AnyJob
  /\ algorithm \in Algos \union {NoJob}
  /\ active \in BOOLEAN /\ enabled \in BOOLEAN
  /\ config \in Profiles \union {Disabled}
  /\ unapplied \in BOOLEAN
  /\ threads \in ThreadType \union {NoThreads}
  /\ paused \in BOOLEAN
  /\ sequence \in Nat
  /\ workers \in [Workers -> WorkerType]
  /\ events \in 0..MaxEvents

Init ==
  /\ DSInit
  /\ main = [at |-> "idle", back |-> "idle", start |-> FALSE, arg |-> NoJob]
  /\ job = NoJob
  /\ algorithm = NoJob
  /\ active = FALSE
  /\ enabled = TRUE
  /\ config \in Profiles
  /\ unapplied = FALSE
  /\ threads = NoThreads
  /\ paused = TRUE
  /\ sequence = 1
  /\ workers = [w \in Workers |-> NoWorker]
  /\ events = 0

-----------------------------------------------------------------------------
(* The event loop: helpers *)

MainAt(p) == main.at = p
MainGo(p) == main' = [main EXCEPT !.at = p]

\* The loop is between handlers and takes the next event
TakeEvent(e) ==
  /\ MainAt("idle")
  /\ e \in Events
  /\ events < MaxEvents
  /\ events' = events + 1

\* Nonce::touch
NoTouch == sequence' = sequence
Touch   == sequence' = sequence + 1

\* The mutex around Miner's job is held by the loop from the assignment to the end
\* of initRX
JobLocked == MainAt("sj.enqueue")

-----------------------------------------------------------------------------
(* Miner::setJob *)

SetJob(j) ==
  /\ TakeEvent("setJob")
  /\ main' = [main EXCEPT
       !.at = IF Ready(SeedOf[j]) THEN "sj.assign"
              ELSE IF algorithm # AlgoOf[SeedOf[j]] THEN "stop.unpause"
              ELSE "sj.pause",
       !.back = "sj.assign",
       !.arg = j]
  /\ UNCHANGED <<job, algorithm, active, enabled, config, unapplied, threads, paused, sequence, workers, dsVars>>

SetJobPause ==
  /\ MainAt("sj.pause")
  /\ paused' = TRUE
  /\ MainGo("sj.touch")
  /\ UNCHANGED <<job, algorithm, active, enabled, config, unapplied, threads, events, sequence, workers, dsVars>>

SetJobNoTouch ==
  /\ MainAt("sj.touch")
  /\ MainGo("sj.assign")
  /\ UNCHANGED <<job, algorithm, active, enabled, config, unapplied, threads, events, paused, sequence, workers, dsVars>>

SetJobTouch ==
  /\ MainAt("sj.touch")
  /\ Touch
  /\ MainGo("sj.assign")
  /\ UNCHANGED <<job, algorithm, active, enabled, config, unapplied, threads, events, paused, workers, dsVars>>

\* mutex.lock(); the job; Rx::init's isReady
SetJobAssign ==
  /\ MainAt("sj.assign")
  /\ job' = main.arg
  /\ algorithm' = AlgoOf[SeedOf[main.arg]]
  /\ active' = TRUE
  /\ main' = [main EXCEPT !.at = IF Ready(SeedOf[main.arg]) THEN "hjc.pause" ELSE "sj.enqueue",
                          !.back = "idle"]
  /\ UNCHANGED <<enabled, config, unapplied, threads, events, paused, sequence, workers, dsVars>>

\* Rx::init's enqueue; mutex.unlock()
SetJobEnqueue ==
  /\ MainAt("sj.enqueue")
  /\ Request(SeedOf[main.arg])
  /\ main' = [main EXCEPT !.at = "idle", !.arg = NoJob]
  /\ UNCHANGED <<job, algorithm, active, enabled, config, unapplied, threads, events, paused, sequence, workers>>

-----------------------------------------------------------------------------
(* MinerPrivate::handleJobChange *)

HandlePause ==
  /\ MainAt("hjc.pause")
  /\ paused' = (paused \/ ~enabled)
  /\ main' = [main EXCEPT !.at = "cpu.setJob", !.back = "hjc.touch", !.arg = NoJob]
  /\ UNCHANGED <<job, algorithm, active, enabled, config, unapplied, threads, events, sequence, workers, dsVars>>

HandleNoTouch ==
  /\ MainAt("hjc.touch")
  /\ main' = [main EXCEPT !.at = "hjc.unpause", !.back = "idle"]
  /\ UNCHANGED <<job, algorithm, active, enabled, config, unapplied, threads, events, paused, sequence, workers, dsVars>>

HandleTouch ==
  /\ MainAt("hjc.touch")
  /\ Touch
  /\ main' = [main EXCEPT !.at = "hjc.unpause", !.back = "idle"]
  /\ UNCHANGED <<job, algorithm, active, enabled, config, unapplied, threads, events, paused, workers, dsVars>>

UnpauseAlways == paused' = FALSE
UnpauseIfAllowed == paused' = (paused /\ ~(active /\ enabled))

HandleUnpause ==
  /\ MainAt("hjc.unpause")
  /\ UnpauseIfAllowed
  /\ MainGo("idle")
  /\ UNCHANGED <<job, algorithm, active, enabled, config, unapplied, threads, events, sequence, workers, dsVars>>

\* The async callback of the dataset queue: Miner::onDatasetReady
OnDatasetReady ==
  /\ MainAt("idle")
  /\ Deliver
  /\ main' = [main EXCEPT !.at = IF job # NoJob /\ Ready(SeedOf[job]) THEN "hjc.pause" ELSE "idle"]
  /\ UNCHANGED <<job, algorithm, active, enabled, config, unapplied, threads, events, paused, sequence, workers>>

-----------------------------------------------------------------------------
(* CpuBackend::setJob, stop and start; Workers::start and stop. They return to *)
(* main.back.                                                                   *)

\* The configuration the threads would have for the miner's job
Wanted == IF config = Disabled \/ job = NoJob
            THEN NoThreads
            ELSE [profile |-> config, algo |-> AlgoOf[SeedOf[job]]]

CpuSetJob ==
  /\ MainAt("cpu.setJob")
  /\ main' = [main EXCEPT !.at = IF Running /\ threads = Wanted THEN main.back ELSE "cpu.stop",
                          !.start = Wanted # NoThreads]
  /\ unapplied' = FALSE
  /\ UNCHANGED <<job, algorithm, active, enabled, config, threads, events, paused, sequence, workers, dsVars>>

\* What follows CpuBackend::stop: setJob goes on to start, a stop returns
AfterStop == IF main.start THEN "cpu.start" ELSE main.back

\* Workers::stop begins with Nonce::stop(backend)
CpuStop ==
  /\ MainAt("cpu.stop")
  /\ IF Running
       THEN MainGo("cpu.join") /\ sequence' = 0
       ELSE MainGo(AfterStop) /\ UNCHANGED sequence
  /\ UNCHANGED <<job, algorithm, active, enabled, config, unapplied, threads, events, paused, workers, dsVars>>

\* It joins every thread, and ends with Nonce::touch(backend)
AllExited == \A w \in Workers : workers[w].at = "exited"

CpuJoin ==
  /\ MainAt("cpu.join")
  /\ AllExited
  /\ threads' = NoThreads
  /\ Touch
  /\ MainGo(AfterStop)
  /\ UNCHANGED <<job, algorithm, active, enabled, config, unapplied, events, paused, workers, dsVars>>

\* Workers::start: Nonce::touch(backend), then the threads
CpuStart ==
  /\ MainAt("cpu.start")
  /\ threads' = Wanted
  /\ Touch
  /\ workers' = [w \in Workers |-> NewWorker]
  /\ MainGo(main.back)
  /\ UNCHANGED <<job, algorithm, active, enabled, config, unapplied, events, paused, dsVars>>

-----------------------------------------------------------------------------
(* The other events *)

\* Miner::stop, of the API or at the end of a benchmark; setJob calls it as well
Stop ==
  /\ TakeEvent("stop")
  /\ MainGo("stop.unpause")
  /\ UNCHANGED <<job, algorithm, active, enabled, config, unapplied, threads, paused, sequence, workers, dsVars>>

\* Nonce::stop: pause(false), then every sequence
StopUnpause ==
  /\ MainAt("stop.unpause")
  /\ paused' = FALSE
  /\ MainGo("stop.zero")
  /\ UNCHANGED <<job, algorithm, active, enabled, config, unapplied, threads, events, sequence, workers, dsVars>>

StopZero ==
  /\ MainAt("stop.zero")
  /\ sequence' = 0
  /\ main' = [main EXCEPT !.at = "cpu.stop", !.start = FALSE]
  /\ UNCHANGED <<job, algorithm, active, enabled, config, unapplied, threads, events, paused, workers, dsVars>>

\* Miner::pause, when the pool is lost
Pause ==
  /\ TakeEvent("pause")
  /\ active' = FALSE
  /\ paused' = TRUE
  /\ MainGo("touch")
  /\ UNCHANGED <<job, algorithm, enabled, config, unapplied, threads, sequence, workers, dsVars>>

\* Miner::setEnabled: the user's 'p' and 'r', the battery, the user's activity
SetEnabled ==
  /\ TakeEvent("setEnabled")
  /\ enabled' = ~enabled
  /\ MainGo(IF active THEN "se.pause" ELSE "idle")
  /\ UNCHANGED <<job, algorithm, active, config, unapplied, threads, paused, sequence, workers, dsVars>>

SetEnabledPause ==
  /\ MainAt("se.pause")
  /\ paused' = ~enabled
  /\ MainGo("touch")
  /\ UNCHANGED <<job, algorithm, active, enabled, config, unapplied, threads, events, sequence, workers, dsVars>>

\* Nonce::touch at the end of pause and setEnabled
LastNoTouch ==
  /\ MainAt("touch")
  /\ MainGo("idle")
  /\ UNCHANGED <<job, algorithm, active, enabled, config, unapplied, threads, events, paused, sequence, workers, dsVars>>

LastTouch ==
  /\ MainAt("touch")
  /\ Touch
  /\ MainGo("idle")
  /\ UNCHANGED <<job, algorithm, active, enabled, config, unapplied, threads, events, paused, workers, dsVars>>

\* Miner::onConfigChanged after a change of the threads' configuration. With other
\* pools it leaves the backend alone: the job of the new pool will tell it.
ConfigChanged(c) ==
  /\ TakeEvent("config")
  /\ config' = c
  /\ \E pools \in BOOLEAN :
       /\ MainGo(IF pools THEN "idle" ELSE "cpu.setJob")
       /\ unapplied' = (unapplied \/ (pools /\ c # config))
  /\ UNCHANGED <<job, algorithm, active, enabled, threads, paused, sequence, workers, dsVars>>

Event ==
  \/ \E j \in Jobs : SetJob(j)
  \/ Stop \/ Pause \/ SetEnabled
  \/ \E c \in Profiles \union {Disabled} : ConfigChanged(c)

MainStep ==
  \/ SetJobPause \/ SetJobTouch \/ SetJobAssign \/ SetJobEnqueue
  \/ HandlePause \/ HandleTouch \/ HandleUnpause \/ OnDatasetReady
  \/ CpuSetJob \/ CpuStop \/ CpuJoin \/ CpuStart
  \/ StopUnpause \/ StopZero \/ SetEnabledPause \/ LastTouch

-----------------------------------------------------------------------------
(* CpuWorker::start, a thread *)

At(w, p)      == workers[w].at = p
Becomes(w, r) == workers' = [workers EXCEPT ![w] = r]
Go(w, p)      == Becomes(w, [workers[w] EXCEPT !.at = p])
Consume(w, b) == Becomes(w, [workers[w] EXCEPT !.at = "consume", !.back = b])
Returned(w)   == [workers[w] EXCEPT !.at = workers[w].back, !.back = "loop"]
OthersSame    == UNCHANGED <<minerVars, sequence, dsVars>>

\* while (Nonce::sequence(CPU) > 0)
Loop(w) ==
  /\ At(w, "loop")
  /\ Go(w, IF sequence = 0 THEN "exited" ELSE "gate")
  /\ OthersSame /\ UNCHANGED paused

\* if (Nonce::isPaused())
Gate(w) ==
  /\ At(w, "gate")
  /\ Go(w, IF paused THEN "sleep" ELSE "inner")
  /\ OthersSame /\ UNCHANGED paused

\* sleep while (Nonce::isPaused() && Nonce::sequence(CPU) > 0)
WakeUp(w) ==
  /\ At(w, "sleep")
  /\ ~paused \/ sequence = 0
  /\ Becomes(w, [workers[w] EXCEPT !.at = "awake", !.gate = sequence])
  /\ OthersSame /\ UNCHANGED paused

\* if (Nonce::sequence(CPU) == 0) break;
Awake(w) ==
  /\ At(w, "awake")
  /\ IF sequence = 0 THEN Go(w, "exited") ELSE Consume(w, "inner")
  /\ OthersSame /\ UNCHANGED paused

\* CpuWorker::consumeJob: its first check ...
ConsumeCheck(w) ==
  /\ At(w, "consume")
  /\ IF sequence = 0 THEN Becomes(w, [Returned(w) EXCEPT !.gate = 0]) ELSE Go(w, "copy")
  /\ OthersSame /\ UNCHANGED paused

\* ... the copy of Miner::job, under Miner's mutex ...
ConsumeCopy(w) ==
  /\ At(w, "copy")
  /\ ~JobLocked
  /\ Becomes(w, [workers[w] EXCEPT !.at = "add", !.copy = job])
  /\ OthersSame /\ UNCHANGED paused

\* ... WorkerJob::add, which reads the sequence after the job was copied ...
ConsumeAdd(w) ==
  /\ At(w, "add")
  /\ Becomes(w, [workers[w] EXCEPT !.at = "alloc", !.seq = sequence,
                    !.job = workers[w].copy, !.copy = NoJob,
                    !.overtaken = workers[w].gate # sequence, !.gate = 0])
  /\ OthersSame /\ UNCHANGED paused

\* ... and allocateRandomX_VM: ask for the dataset, sleep, give up after a stop
AllocateOnce(w) ==
  /\ At(w, "alloc")
  /\ Becomes(w, [Returned(w) EXCEPT !.vm = (@ \/ Available(SeedOf[workers[w].job]))])
  /\ OthersSame /\ UNCHANGED paused

Allocate(w) ==
  /\ At(w, "alloc")
  /\ IF Available(SeedOf[workers[w].job])
       THEN Becomes(w, [Returned(w) EXCEPT !.vm = TRUE])
       ELSE Go(w, "wait")
  /\ OthersSame /\ UNCHANGED paused

AllocateWaitOnly(w) ==
  /\ At(w, "wait")
  /\ Go(w, "alloc")
  /\ OthersSame /\ UNCHANGED paused

AllocateWaitForStop(w) ==
  /\ At(w, "wait")
  /\ sequence = 0
  /\ Becomes(w, Returned(w))
  /\ OthersSame /\ UNCHANGED paused

AllocateWait(w) ==
  /\ At(w, "wait")
  /\ IF sequence = 0 THEN Becomes(w, Returned(w)) ELSE Go(w, "alloc")
  /\ OthersSame /\ UNCHANGED paused

\* Nonce::isOutdated(CPU, m_job.sequence()), and the break on an algorithm that is
\* not the thread's, which a default Job has
Outdated(w) == workers[w].seq # sequence \/ workers[w].job = NoJob

Inner(w) ==
  /\ At(w, "inner")
  /\ Go(w, IF Outdated(w) THEN "bottom" ELSE "hash")
  /\ OthersSame /\ UNCHANGED paused

\* One hash, and nextRound: a thread that draws the last nonces pauses everyone,
\* one that finds none leaves its loop
Hash(w) ==
  /\ At(w, "hash")
  /\ \/ Go(w, "inner") /\ UNCHANGED paused
     \/ Exhaustion /\ Go(w, "inner") /\ paused' = TRUE
     \/ Exhaustion /\ Go(w, "bottom") /\ paused' \in {paused, TRUE}
  /\ OthersSame

\* if (!Nonce::isPaused()) consumeJob();
Bottom(w) ==
  /\ At(w, "bottom")
  /\ IF paused
       THEN Go(w, "loop")
       ELSE Becomes(w, [workers[w] EXCEPT !.at = "consume", !.back = "loop", !.gate = sequence])
  /\ OthersSame /\ UNCHANGED paused

WorkerStep(w) ==
  \/ Loop(w) \/ Gate(w) \/ WakeUp(w) \/ Awake(w)
  \/ ConsumeCheck(w) \/ ConsumeCopy(w) \/ ConsumeAdd(w)
  \/ Allocate(w) \/ AllocateWait(w)
  \/ Inner(w) \/ Hash(w) \/ Bottom(w)

-----------------------------------------------------------------------------
(* The dataset queue's thread, as DatasetService has it *)

ServeStep(A) == A /\ UNCHANGED <<minerVars, paused, sequence, workers>>

DatasetStep ==
  \/ ServeStep(Rewrite)
  \/ \E s \in Seeds : ServeStep(Written(s))
  \/ ServeStep(Complete)

Quiet == MainAt("idle") /\ events = MaxEvents /\ UNCHANGED vars

Next ==
  \/ Event
  \/ MainStep
  \/ \E w \in Workers : WorkerStep(w)
  \/ DatasetStep
  \/ Quiet

\* The loop finishes the handler it runs and takes a signal that waits for it;
\* every thread runs; the queue serves the newest request in the end (what
\* RequestAnswered of RxQueue says). Nothing makes a pool or a user act.
Fairness ==
  /\ WF_vars(MainStep)
  /\ \A w \in Workers : WF_vars(WorkerStep(w))
  /\ WF_vars(ServeStep(Rewrite))
  /\ SF_vars(ServeStep(Written(wanted)))
  /\ SF_vars(ServeStep(Complete))

SafeSpec == Init /\ [][Next]_vars
Spec     == SafeSpec /\ Fairness

-----------------------------------------------------------------------------
(* Properties *)

Hashing(w) == workers[w].at = "hash"
Looping(w) == workers[w].at \in {"inner", "hash"}

\* A thread between a look at Nonce::m_paused and WorkerJob::add may be overtaken by
\* the loop: the sequence it then records is newer than its decision to go on, and
\* perhaps newer than its job.
Overtaken(w) == workers[w].overtaken

\* The loop is inside Miner::stop or CpuBackend::stop
Stopping == main.at \in {"cpu.stop", "cpu.join"}

\* Unless the API stops the miner or the configuration changes, threads can be
\* unpaused between handlers only while a pool is connected and mining is enabled:
\* no order of new jobs, lost pools, pauses and finished datasets leaves the miner
\* mining while it must not.
MiningOnlyWhenAllowed ==
  Events \intersect {"stop", "config"} = {} =>
    (MainAt("idle") /\ Running /\ ~paused => active /\ enabled)

\* A thread leaves its loop only while the loop joins it: the sequence is never left
\* at zero, where threads would be gone while the backend believes they mine.
NoThreadLost ==
  Running /\ (\E w \in Workers : workers[w].at = "exited") => Stopping

\* A thread that is up to date hashes with the dataset of its job: the memory is
\* rewritten only after a touch made every thread's sequence outdated. The exception
\* is a thread that was overtaken.
HashesWithItsDataset ==
  \A w \in Workers :
    Hashing(w) /\ workers[w].seq = sequence /\ ~Overtaken(w)
      => content = SeedOf[workers[w].job]

\* Between handlers a thread that is up to date, and was not overtaken, hashes the
\* newest job: every handler sets the job before its last touch.
HashesTheNewestJob ==
  \A w \in Workers :
    MainAt("idle") /\ Hashing(w) /\ workers[w].seq = sequence /\ ~Overtaken(w)
      => workers[w].job = job

\* A thread hashes without a virtual machine only if it took its sequence during a
\* stop: allocateRandomX_VM gives up for a stop alone.
NoHashWithoutVM ==
  \A w \in Workers : Hashing(w) /\ ~workers[w].vm => workers[w].seq = 0

\* A stop ends: every thread notices sequence zero, wherever it is, sleeping, waiting
\* for a dataset or for the job's mutex. The exception is a thread that recorded zero
\* as the sequence of its job.
StopEnds ==
  MainAt("cpu.join") ~>
    (~MainAt("cpu.join") \/ \E w \in Workers : Hashing(w) /\ Overtaken(w) /\ workers[w].seq = 0)

\* Without a pool, or disabled, the threads come to rest, but for the overtaken. (A
\* pause for want of nonces is another matter: threads use up those they have.)
MustRest == paused /\ ~(active /\ enabled)

PausedThreadsRest ==
  MustRest ~> (~MustRest \/ \A w \in Workers : Looping(w) => Overtaken(w))

\* When the loop has nothing more to do and may mine, every thread gets to the newest
\* job, but for one that was overtaken, or waits for the dataset of an older seed.
Current(w) == workers[w].job = job /\ workers[w].seq = sequence
Astray(w) ==
  \/ Looping(w) /\ Overtaken(w)
  \/ workers[w].at \in {"alloc", "wait"} /\ SeedOf[workers[w].job] # SeedOf[job]
MayMine == MainAt("idle") /\ Running /\ ~paused /\ Available(SeedOf[job])

NewJobReachesThreads ==
  \A w \in Workers : MayMine ~> (~MayMine \/ Current(w) \/ Astray(w))

\* A thread that waits for the dataset of its job gets it, unless there is no memory
\* for it or another seed is asked for.
WaitersAreServed ==
  \A w \in Workers :
    At(w, "wait") ~>
      (~(workers[w].at \in {"wait", "alloc"}) \/ wanted # SeedOf[workers[w].job] \/ content = NoSeed)

\* After 'p' (Summary.cpp: "'p' pause") threads stop hashing until 'r'.
PauseStopsHashing ==
  ~enabled ~> (enabled \/ \A w \in Workers : ~Looping(w))
=============================================================================
