---------------------------- MODULE Mining_proofs ----------------------------
(***************************************************************************)
(* Proofs of the safety properties of Mining.tla, for any number of        *)
(* threads, jobs, seeds and algorithms, and any number of events. The      *)
(* inductive invariant says where each handler of the loop is, what it has *)
(* made sure of so far, and which threads may still count as up to date.   *)
(***************************************************************************)
EXTENDS Mining, TLAPS

\* The API or the configuration can stop the threads
Stoppable == Events \intersect {"stop", "config"} # {}

\* Where the loop is, and where the backend's functions will return to
Control ==
  \/ /\ main.back = "idle"
     /\ main.at \in {"idle", "sj.enqueue", "hjc.pause", "hjc.unpause", "se.pause", "touch"}
  \/ /\ main.back = "idle"
     /\ main.at \in {"stop.unpause", "stop.zero", "cpu.setJob", "cpu.stop", "cpu.join", "cpu.start"}
     /\ Stoppable
  \/ /\ main.back = "sj.assign"
     /\ main.at \in {"sj.pause", "sj.touch", "sj.assign", "stop.unpause", "stop.zero"}
  \/ /\ main.back = "sj.assign"
     /\ main.at \in {"cpu.stop", "cpu.join"}
     /\ ~main.start
  \/ /\ main.back = "hjc.touch"
     /\ main.at \in {"cpu.setJob", "cpu.stop", "cpu.join", "cpu.start", "hjc.touch"}

\* The job that is being set is one of the pools'
ArgIsJob == main.back = "sj.assign" \/ main.at = "sj.enqueue" => main.arg \in Jobs

\* handleJobChange, from the first line to the touch
Changing == main.at = "hjc.pause" \/ main.back = "hjc.touch"

\* What each handler has made sure of about pauses
Allowed ==
  ~Stoppable =>
    /\ main.at \in {"idle", "touch", "sj.enqueue", "hjc.unpause"} \/ Changing => paused \/ active
    /\ main.at \in {"idle", "touch", "sj.enqueue"} => paused \/ enabled \/ ~Running
    /\ main.at = "hjc.unpause" \/ main.back = "hjc.touch" => paused \/ enabled
    /\ main.at = "se.pause" => active

\* setJob is about to ask for another dataset
Asking ==
  \/ main.at = "sj.enqueue"
  \/ main.at = "sj.assign" /\ ~Ready(SeedOf[main.arg])

PausedBefore == Asking \/ main.at = "sj.touch" => paused \/ ~Running

\* The threads and the sequence: threads there are only while the backend runs, and
\* sequence zero is there only while they are being joined
Joined ==
  /\ ~Running => AllExited
  /\ Running /\ ~Stopping => sequence # 0 /\ \A w \in Workers : workers[w].at # "exited"
  /\ main.at = "cpu.join" => sequence = 0
  /\ main.at \in {"cpu.stop", "cpu.join"} /\ main.start => Wanted # NoThreads
  /\ main.at = "cpu.start" => Wanted # NoThreads
  /\ Running => job \in Jobs

\* A thread that saw the miner not paused at the present sequence, and one whose job
\* was taken at the present sequence by such a thread
FreshGate(w) ==
  /\ workers[w].at \in {"awake", "consume", "copy", "add"}
  /\ workers[w].gate = sequence
  /\ workers[w].gate # 0
FreshJob(w) ==
  /\ workers[w].at # "exited"
  /\ workers[w].seq = sequence
  /\ workers[w].seq # 0
  /\ ~workers[w].overtaken

\* A thread's jobs are jobs where it needs one, and its numbers are of the past
Sane(w) ==
  /\ workers[w].at = "add" => workers[w].copy \in Jobs
  /\ workers[w].at \in {"alloc", "wait"} => workers[w].job \in Jobs
  /\ workers[w].at # "exited" /\ sequence # 0 => workers[w].gate <= sequence /\ workers[w].seq <= sequence
  /\ workers[w].at \in {"awake", "consume"} /\ workers[w].gate = 0 => sequence = 0
  /\ workers[w].at \in {"copy", "add"} => workers[w].gate # 0
  /\ workers[w].at # "exited" /\ workers[w].seq = 0 /\ ~workers[w].overtaken => workers[w].job = NoJob
  /\ workers[w].at = "hash" => workers[w].job # NoJob

\* No thread is up to date when another dataset is asked for
Late(w) == Asking => ~FreshGate(w) /\ ~FreshJob(w)

\* A thread that is up to date has its job's dataset, which nobody rewrites
OwnDataset(w) ==
  FreshJob(w) /\ workers[w].at \notin {"alloc", "wait"} =>
    content = SeedOf[workers[w].job] /\ phase = "IDLE"

\* ... and the newest job, but while the loop changes it
NewestJob(w) ==
  ~Changing =>
    /\ FreshJob(w) => workers[w].job = job
    /\ FreshGate(w) /\ workers[w].at = "add" => workers[w].copy = job

\* A thread without a virtual machine that is past the allocation is being stopped
Machine(w) ==
  /\ ~workers[w].vm /\ workers[w].at \notin {"alloc", "wait", "exited"} /\ workers[w].seq # 0 => sequence = 0
  /\ Hashing(w) /\ ~workers[w].vm => workers[w].seq = 0

WorkerInv(w) == Sane(w) /\ Late(w) /\ OwnDataset(w) /\ NewestJob(w) /\ Machine(w)

IInv ==
  /\ TypeOK /\ Control /\ ArgIsJob /\ Allowed /\ PausedBefore /\ Joined
  /\ \A w \in Workers : WorkerInv(w)

-----------------------------------------------------------------------------
(* Constants *)

\* A job has a seed, and a seed an algorithm.
LEMMA JobTypes ==
  /\ \A j \in Jobs : SeedOf[j] \in Seeds /\ AlgoOf[SeedOf[j]] \in Algos /\ j # NoJob
BY JobAssumption DEF Algos

\* The configuration for a job is that of no threads, or one of running threads.
LEMMA WantedType ==
  ASSUME TypeOK, job \in Jobs
  PROVE  Wanted \in ThreadType \union {NoThreads}
BY JobTypes DEF TypeOK, Wanted, ThreadType, AnyJob

-----------------------------------------------------------------------------
(* What the loop's steps do to the threads' part of the invariant *)

\* A step of the loop that leaves the threads, the sequence, the job and the dataset
\* alone keeps it, if it does not leave handleJobChange or come to ask for a dataset.
LEMMA ThreadsLeftAlone ==
  ASSUME UNCHANGED <<workers, sequence, job, content, phase>>,
         Asking' => Asking, Changing => Changing',
         NEW w \in Workers, WorkerInv(w)
  PROVE  WorkerInv(w)'
BY DEF WorkerInv, Sane, Late, OwnDataset, NewestJob, Machine, FreshGate, FreshJob, Hashing

\* After a touch no thread is up to date, whatever else the step does.
LEMMA ThreadsTouched ==
  ASSUME TypeOK, Joined, ~Stopping \/ AllExited, workers' = workers, Touch,
         NEW w \in Workers, WorkerInv(w)
  PROVE  WorkerInv(w)'
<1>1. workers[w].gate \in Nat /\ workers[w].seq \in Nat /\ sequence \in Nat
  BY DEF TypeOK, WorkerType
<1>2. workers[w].at # "exited" => sequence # 0
  BY DEF Joined, AllExited
<1>3. workers[w].at # "exited" => workers[w].gate < sequence' /\ workers[w].seq < sequence'
  BY <1>1, <1>2 DEF WorkerInv, Sane, Touch
<1>4. ~FreshGate(w)' /\ ~FreshJob(w)'
  BY <1>1, <1>3 DEF FreshGate, FreshJob, Touch
<1>5. Sane(w)'
  BY <1>1, <1>2, <1>3 DEF WorkerInv, Sane, Touch
<1>6. Machine(w)'
  BY <1>1, <1>2 DEF WorkerInv, Machine, Hashing
<1> QED
  BY <1>4, <1>5, <1>6 DEF WorkerInv, Late, OwnDataset, NewestJob

\* At sequence zero no thread is up to date.
LEMMA ThreadsStopped ==
  ASSUME workers' = workers, sequence' = 0,
         NEW w \in Workers, WorkerInv(w)
  PROVE  WorkerInv(w)'
<1>1. ~FreshGate(w)' /\ ~FreshJob(w)'
  BY DEF FreshGate, FreshJob
<1>2. Sane(w)' /\ Machine(w)'
  BY DEF WorkerInv, Sane, Machine, Hashing
<1> QED
  BY <1>1, <1>2 DEF WorkerInv, Late, OwnDataset, NewestJob

\* A thread that has ended has nothing to keep.
LEMMA ThreadsGone ==
  ASSUME AllExited, workers' = workers, NEW w \in Workers
  PROVE  WorkerInv(w)'
BY DEF AllExited, WorkerInv, Sane, Late, OwnDataset, NewestJob, Machine, FreshGate, FreshJob,
   Hashing

-----------------------------------------------------------------------------
(* The steps of the loop *)

LEMMA SetJobInv ==
  ASSUME IInv, NEW j \in Jobs, SetJob(j)
  PROVE  IInv'
<1> USE DEF IInv, dsVars, MainAt, MainGo, TakeEvent, SetJob
<1>1. TypeOK'
  <2> main \in MainType
    BY DEF TypeOK
  <2>1. main' \in MainType
    BY JobTypes DEF MainType, MainPlaces, AnyJob, Control, Ready
  <2> DSTypeOK'
    BY DEF TypeOK, DSTypeOK, Ready
  <2> QED
    BY <2>1, EventAssumption DEF TypeOK, Ready
<1>2. Control' /\ ArgIsJob'
  BY DEF TypeOK, MainType, Control, ArgIsJob, Ready
<1>3. Allowed' /\ PausedBefore'
  BY DEF TypeOK, MainType, Control, ArgIsJob, Joined, Allowed, PausedBefore, Asking, Changing,
     Ready, Running
<1>4. Joined'
  BY JobTypes, WantedType DEF TypeOK, MainType, Control, ArgIsJob, Joined, AllExited, Stopping,
     Running, Wanted, Ready
<1>5. ASSUME NEW w \in Workers PROVE WorkerInv(w)'
  <2>1. WorkerInv(w) /\ (Asking' => Asking) /\ (Changing => Changing')
    BY DEF TypeOK, Control, Asking, Changing, Ready
  <2>2. UNCHANGED <<workers, sequence, job, content, phase>>
    BY DEF Ready
  <2> QED
    BY <2>1, <2>2, ThreadsLeftAlone
<1> QED
  BY <1>1, <1>2, <1>3, <1>4, <1>5

LEMMA StopInv ==
  ASSUME IInv, Stop
  PROVE  IInv'
<1> USE DEF IInv, dsVars, MainAt, MainGo, TakeEvent, Stop
<1>1. TypeOK'
  <2> main \in MainType
    BY DEF TypeOK
  <2>1. main' \in MainType
    BY JobTypes DEF MainType, MainPlaces, AnyJob, Control
  <2> DSTypeOK'
    BY DEF TypeOK, DSTypeOK
  <2> QED
    BY <2>1, EventAssumption DEF TypeOK
<1>2. Control' /\ ArgIsJob'
  BY DEF TypeOK, MainType, Control, ArgIsJob, Stoppable
<1>3. Allowed' /\ PausedBefore'
  BY DEF TypeOK, MainType, Control, ArgIsJob, Joined, Allowed, PausedBefore, Asking, Changing,
     Ready, Running
<1>4. Joined'
  BY JobTypes, WantedType DEF TypeOK, MainType, Control, ArgIsJob, Joined, AllExited, Stopping,
     Running, Wanted
<1>5. ASSUME NEW w \in Workers PROVE WorkerInv(w)'
  <2>1. WorkerInv(w) /\ (Asking' => Asking) /\ (Changing => Changing')
    BY DEF TypeOK, Control, Asking, Changing, Ready
  <2>2. UNCHANGED <<workers, sequence, job, content, phase>>
    OBVIOUS
  <2> QED
    BY <2>1, <2>2, ThreadsLeftAlone
<1> QED
  BY <1>1, <1>2, <1>3, <1>4, <1>5

LEMMA PauseInv ==
  ASSUME IInv, Pause
  PROVE  IInv'
<1> USE DEF IInv, dsVars, MainAt, MainGo, TakeEvent, Pause
<1>1. TypeOK'
  <2> main \in MainType
    BY DEF TypeOK
  <2>1. main' \in MainType
    BY JobTypes DEF MainType, MainPlaces, AnyJob, Control
  <2>2. events' \in 0..MaxEvents
    BY EventAssumption DEF TypeOK
  <2> QED
    BY <2>1, <2>2 DEF TypeOK, DSTypeOK
<1>2. Control' /\ ArgIsJob'
  BY DEF TypeOK, MainType, Control, ArgIsJob
<1>3. Allowed' /\ PausedBefore'
  BY DEF TypeOK, MainType, Control, ArgIsJob, Joined, Allowed, PausedBefore, Asking, Changing,
     Ready, Running
<1>4. Joined'
  BY JobTypes, WantedType DEF TypeOK, MainType, Control, ArgIsJob, Joined, AllExited, Stopping,
     Running, Wanted
<1>5. ASSUME NEW w \in Workers PROVE WorkerInv(w)'
  <2>1. WorkerInv(w) /\ (Asking' => Asking) /\ (Changing => Changing')
    BY DEF TypeOK, Control, Asking, Changing, Ready
  <2>2. UNCHANGED <<workers, sequence, job, content, phase>>
    OBVIOUS
  <2> QED
    BY <2>1, <2>2, ThreadsLeftAlone
<1> QED
  BY <1>1, <1>2, <1>3, <1>4, <1>5

LEMMA SetEnabledInv ==
  ASSUME IInv, SetEnabled
  PROVE  IInv'
<1> USE DEF IInv, dsVars, MainAt, MainGo, TakeEvent, SetEnabled
<1>1. TypeOK'
  <2> main \in MainType
    BY DEF TypeOK
  <2>1. main' \in MainType
    BY JobTypes DEF MainType, MainPlaces, AnyJob, Control
  <2> DSTypeOK'
    BY DEF TypeOK, DSTypeOK
  <2> QED
    BY <2>1, EventAssumption DEF TypeOK
<1>2. Control' /\ ArgIsJob'
  BY DEF TypeOK, MainType, Control, ArgIsJob
<1>3. Allowed' /\ PausedBefore'
  BY DEF TypeOK, MainType, Control, ArgIsJob, Joined, Allowed, PausedBefore, Asking, Changing,
     Ready, Running
<1>4. Joined'
  BY JobTypes, WantedType DEF TypeOK, MainType, Control, ArgIsJob, Joined, AllExited, Stopping,
     Running, Wanted
<1>5. ASSUME NEW w \in Workers PROVE WorkerInv(w)'
  <2>1. WorkerInv(w) /\ (Asking' => Asking) /\ (Changing => Changing')
    BY DEF TypeOK, Control, Asking, Changing, Ready
  <2>2. UNCHANGED <<workers, sequence, job, content, phase>>
    OBVIOUS
  <2> QED
    BY <2>1, <2>2, ThreadsLeftAlone
<1> QED
  BY <1>1, <1>2, <1>3, <1>4, <1>5

LEMMA ConfigChangedInv ==
  ASSUME IInv, NEW c \in Profiles \union {Disabled}, ConfigChanged(c)
  PROVE  IInv'
<1> USE DEF IInv, dsVars, MainAt, MainGo, TakeEvent, ConfigChanged
<1>1. TypeOK'
  <2> main \in MainType
    BY DEF TypeOK
  <2>1. main' \in MainType
    BY JobTypes DEF MainType, MainPlaces, AnyJob, Control
  <2> DSTypeOK'
    BY DEF TypeOK, DSTypeOK
  <2> QED
    BY <2>1, EventAssumption DEF TypeOK
<1>2. Control' /\ ArgIsJob'
  BY DEF TypeOK, MainType, Control, ArgIsJob, Stoppable
<1>3. Allowed' /\ PausedBefore'
  BY DEF TypeOK, MainType, Control, ArgIsJob, Joined, Allowed, PausedBefore, Asking, Changing,
     Ready, Running
<1>4. Joined'
  BY JobTypes, WantedType DEF TypeOK, MainType, Control, ArgIsJob, Joined, AllExited, Stopping,
     Running, Wanted
<1>5. ASSUME NEW w \in Workers PROVE WorkerInv(w)'
  <2>1. WorkerInv(w) /\ (Asking' => Asking) /\ (Changing => Changing')
    BY DEF TypeOK, Control, Asking, Changing, Ready
  <2>2. UNCHANGED <<workers, sequence, job, content, phase>>
    OBVIOUS
  <2> QED
    BY <2>1, <2>2, ThreadsLeftAlone
<1> QED
  BY <1>1, <1>2, <1>3, <1>4, <1>5

LEMMA SetJobPauseInv ==
  ASSUME IInv, SetJobPause
  PROVE  IInv'
<1> USE DEF IInv, dsVars, MainAt, MainGo, SetJobPause
<1>1. TypeOK'
  <2> main \in MainType
    BY DEF TypeOK
  <2>1. main' \in MainType
    BY JobTypes DEF MainType, MainPlaces, AnyJob, Control, TakeEvent
  <2> DSTypeOK'
    BY DEF TypeOK, DSTypeOK, TakeEvent
  <2> QED
    BY <2>1 DEF TypeOK, TakeEvent
<1>2. Control' /\ ArgIsJob'
  BY DEF TypeOK, MainType, Control, ArgIsJob, TakeEvent
<1>3. Allowed' /\ PausedBefore'
  BY DEF TypeOK, MainType, Control, ArgIsJob, Joined, Allowed, PausedBefore, Asking, Changing,
     Ready, Running, TakeEvent
<1>4. Joined'
  BY JobTypes, WantedType DEF TypeOK, MainType, Control, ArgIsJob, Joined, AllExited, Stopping,
     Running, Wanted, TakeEvent
<1>5. ASSUME NEW w \in Workers PROVE WorkerInv(w)'
  <2>1. WorkerInv(w) /\ (Asking' => Asking) /\ (Changing => Changing')
    BY DEF TypeOK, Control, Asking, Changing, Ready, TakeEvent
  <2>2. UNCHANGED <<workers, sequence, job, content, phase>>
    OBVIOUS
  <2> QED
    BY <2>1, <2>2, ThreadsLeftAlone
<1> QED
  BY <1>1, <1>2, <1>3, <1>4, <1>5

LEMMA SetJobTouchInv ==
  ASSUME IInv, SetJobTouch
  PROVE  IInv'
<1> USE DEF IInv, dsVars, MainAt, MainGo, SetJobTouch, Touch
<1>1. TypeOK'
  <2> main \in MainType
    BY DEF TypeOK
  <2>1. main' \in MainType
    BY JobTypes DEF MainType, MainPlaces, AnyJob, Control, TakeEvent
  <2> DSTypeOK'
    BY DEF TypeOK, DSTypeOK, TakeEvent
  <2> QED
    BY <2>1 DEF TypeOK, TakeEvent
<1>2. Control' /\ ArgIsJob'
  BY DEF TypeOK, MainType, Control, ArgIsJob, TakeEvent
<1>3. Allowed' /\ PausedBefore'
  BY DEF TypeOK, MainType, Control, ArgIsJob, Joined, Allowed, PausedBefore, Asking, Changing,
     Ready, Running, TakeEvent
<1>4. Joined'
  BY JobTypes, WantedType DEF TypeOK, MainType, Control, ArgIsJob, Joined, AllExited, Stopping,
     Running, Wanted, TakeEvent
<1>5. ASSUME NEW w \in Workers PROVE WorkerInv(w)'
  BY ThreadsTouched DEF Stopping, Control
<1> QED
  BY <1>1, <1>2, <1>3, <1>4, <1>5

LEMMA SetJobAssignInv ==
  ASSUME IInv, SetJobAssign
  PROVE  IInv'
<1> USE DEF IInv, dsVars, MainAt, MainGo, SetJobAssign
<1>1. TypeOK'
  <2> main \in MainType
    BY DEF TypeOK
  <2>1. main' \in MainType
    BY JobTypes DEF MainType, MainPlaces, AnyJob, Control, TakeEvent, Ready
  <2> QED
    BY <2>1, JobTypes DEF TypeOK, DSTypeOK, AnyJob, Control, ArgIsJob, TakeEvent, Ready
<1>2. Control' /\ ArgIsJob'
  BY DEF TypeOK, MainType, Control, ArgIsJob, TakeEvent, Ready
<1>3. Allowed' /\ PausedBefore'
  BY DEF TypeOK, MainType, Control, ArgIsJob, Joined, Allowed, PausedBefore, Asking, Changing,
     Ready, Running, TakeEvent
<1>4. Joined'
  BY JobTypes, WantedType DEF TypeOK, MainType, Control, ArgIsJob, Joined, AllExited, Stopping,
     Running, Wanted, TakeEvent, Ready
<1>5. ASSUME NEW w \in Workers PROVE WorkerInv(w)'
  <2>1. CASE Ready(SeedOf[main.arg])
    <3>1. Changing' /\ ~Asking'
      BY <2>1 DEF TypeOK, MainType, Asking, Changing, Ready
    <3> QED
      BY <3>1 DEF WorkerInv, Sane, Late, OwnDataset, NewestJob, Machine, FreshGate, FreshJob,
         Hashing
  <2>2. CASE ~Ready(SeedOf[main.arg])
    <3>1. ~FreshGate(w) /\ ~FreshJob(w)
      BY <2>2 DEF Asking, WorkerInv, Late
    <3> QED
      BY <3>1 DEF WorkerInv, Sane, Late, OwnDataset, NewestJob, Machine, FreshGate, FreshJob,
         Hashing
  <2> QED
    BY <2>1, <2>2
<1> QED
  BY <1>1, <1>2, <1>3, <1>4, <1>5

LEMMA SetJobEnqueueInv ==
  ASSUME IInv, SetJobEnqueue
  PROVE  IInv'
<1> USE DEF IInv, dsVars, MainAt, MainGo, SetJobEnqueue, Request
<1>1. TypeOK'
  <2> main \in MainType
    BY DEF TypeOK
  <2>1. main' \in MainType
    BY JobTypes DEF MainType, MainPlaces, AnyJob, Control, TakeEvent
  <2> QED
    BY <2>1, JobTypes DEF TypeOK, DSTypeOK, AnyJob, Control, ArgIsJob, TakeEvent
<1>2. Control' /\ ArgIsJob'
  BY DEF TypeOK, MainType, Control, ArgIsJob, TakeEvent
<1>3. Allowed' /\ PausedBefore'
  BY DEF TypeOK, MainType, Control, ArgIsJob, Joined, Allowed, PausedBefore, Asking, Changing,
     Ready, Running, TakeEvent
<1>4. Joined'
  BY JobTypes, WantedType DEF TypeOK, MainType, Control, ArgIsJob, Joined, AllExited, Stopping,
     Running, Wanted, TakeEvent
<1>5. ASSUME NEW w \in Workers PROVE WorkerInv(w)'
  <2>1. ~FreshGate(w) /\ ~FreshJob(w)
    BY DEF Asking, WorkerInv, Late
  <2> QED
    BY <2>1 DEF WorkerInv, Sane, Late, OwnDataset, NewestJob, Machine, FreshGate, FreshJob, Hashing
<1> QED
  BY <1>1, <1>2, <1>3, <1>4, <1>5

LEMMA HandlePauseInv ==
  ASSUME IInv, HandlePause
  PROVE  IInv'
<1> USE DEF IInv, dsVars, MainAt, MainGo, HandlePause
<1>1. TypeOK'
  <2> main \in MainType
    BY DEF TypeOK
  <2>1. main' \in MainType
    BY JobTypes DEF MainType, MainPlaces, AnyJob, Control, TakeEvent
  <2> DSTypeOK'
    BY DEF TypeOK, DSTypeOK, TakeEvent
  <2> QED
    BY <2>1 DEF TypeOK, TakeEvent
<1>2. Control' /\ ArgIsJob'
  BY DEF TypeOK, MainType, Control, ArgIsJob, TakeEvent
<1>3. Allowed' /\ PausedBefore'
  BY DEF TypeOK, MainType, Control, ArgIsJob, Joined, Allowed, PausedBefore, Asking, Changing,
     Ready, Running, TakeEvent
<1>4. Joined'
  BY JobTypes, WantedType DEF TypeOK, MainType, Control, ArgIsJob, Joined, AllExited, Stopping,
     Running, Wanted, TakeEvent
<1>5. ASSUME NEW w \in Workers PROVE WorkerInv(w)'
  <2>1. WorkerInv(w) /\ (Asking' => Asking) /\ (Changing => Changing')
    BY DEF TypeOK, Control, Asking, Changing, Ready, TakeEvent
  <2>2. UNCHANGED <<workers, sequence, job, content, phase>>
    OBVIOUS
  <2> QED
    BY <2>1, <2>2, ThreadsLeftAlone
<1> QED
  BY <1>1, <1>2, <1>3, <1>4, <1>5

LEMMA HandleTouchInv ==
  ASSUME IInv, HandleTouch
  PROVE  IInv'
<1> USE DEF IInv, dsVars, MainAt, MainGo, HandleTouch, Touch
<1>1. TypeOK'
  <2> main \in MainType
    BY DEF TypeOK
  <2>1. main' \in MainType
    BY JobTypes DEF MainType, MainPlaces, AnyJob, Control, TakeEvent
  <2> DSTypeOK'
    BY DEF TypeOK, DSTypeOK, TakeEvent
  <2> QED
    BY <2>1 DEF TypeOK, TakeEvent
<1>2. Control' /\ ArgIsJob'
  BY DEF TypeOK, MainType, Control, ArgIsJob, TakeEvent
<1>3. Allowed' /\ PausedBefore'
  BY DEF TypeOK, MainType, Control, ArgIsJob, Joined, Allowed, PausedBefore, Asking, Changing,
     Ready, Running, TakeEvent
<1>4. Joined'
  BY JobTypes, WantedType DEF TypeOK, MainType, Control, ArgIsJob, Joined, AllExited, Stopping,
     Running, Wanted, TakeEvent
<1>5. ASSUME NEW w \in Workers PROVE WorkerInv(w)'
  BY ThreadsTouched DEF Stopping, Control
<1> QED
  BY <1>1, <1>2, <1>3, <1>4, <1>5

LEMMA HandleUnpauseInv ==
  ASSUME IInv, HandleUnpause
  PROVE  IInv'
<1> USE DEF IInv, dsVars, MainAt, MainGo, HandleUnpause, UnpauseIfAllowed
<1>1. TypeOK'
  <2> main \in MainType
    BY DEF TypeOK
  <2>1. main' \in MainType
    BY JobTypes DEF MainType, MainPlaces, AnyJob, Control, TakeEvent
  <2> DSTypeOK'
    BY DEF TypeOK, DSTypeOK, TakeEvent
  <2> QED
    BY <2>1 DEF TypeOK, TakeEvent
<1>2. Control' /\ ArgIsJob'
  BY DEF TypeOK, MainType, Control, ArgIsJob, TakeEvent
<1>3. Allowed' /\ PausedBefore'
  BY DEF TypeOK, MainType, Control, ArgIsJob, Joined, Allowed, PausedBefore, Asking, Changing,
     Ready, Running, TakeEvent
<1>4. Joined'
  BY JobTypes, WantedType DEF TypeOK, MainType, Control, ArgIsJob, Joined, AllExited, Stopping,
     Running, Wanted, TakeEvent
<1>5. ASSUME NEW w \in Workers PROVE WorkerInv(w)'
  <2>1. WorkerInv(w) /\ (Asking' => Asking) /\ (Changing => Changing')
    BY DEF TypeOK, Control, Asking, Changing, Ready, TakeEvent
  <2>2. UNCHANGED <<workers, sequence, job, content, phase>>
    OBVIOUS
  <2> QED
    BY <2>1, <2>2, ThreadsLeftAlone
<1> QED
  BY <1>1, <1>2, <1>3, <1>4, <1>5

LEMMA OnDatasetReadyInv ==
  ASSUME IInv, OnDatasetReady
  PROVE  IInv'
<1> USE DEF IInv, dsVars, MainAt, MainGo, OnDatasetReady, Deliver
<1>1. TypeOK'
  <2>1. main \in MainType
    BY DEF TypeOK
  <2>2. main' \in MainType
    <3>1. PICK at \in {"idle", "hjc.pause"} : main' = [main EXCEPT !.at = at]
      OBVIOUS
    <3> QED
      BY <2>1, <3>1 DEF MainType, MainPlaces
  <2> DSTypeOK'
    BY DEF TypeOK, DSTypeOK
  <2> QED
    BY <2>2 DEF TypeOK
<1>2. Control' /\ ArgIsJob'
  BY DEF TypeOK, MainType, Control, ArgIsJob, TakeEvent, Ready
<1>3. Allowed' /\ PausedBefore'
  BY DEF TypeOK, MainType, Control, ArgIsJob, Joined, Allowed, PausedBefore, Asking, Changing,
     Ready, Running, TakeEvent
<1>4. Joined'
  BY JobTypes, WantedType DEF TypeOK, MainType, Control, ArgIsJob, Joined, AllExited, Stopping,
     Running, Wanted, TakeEvent, Ready
<1>5. ASSUME NEW w \in Workers PROVE WorkerInv(w)'
  <2>1. WorkerInv(w) /\ (Asking' => Asking) /\ (Changing => Changing')
    BY DEF TypeOK, Control, Asking, Changing, Ready, TakeEvent
  <2>2. UNCHANGED <<workers, sequence, job, content, phase>>
    BY DEF Ready
  <2> QED
    BY <2>1, <2>2, ThreadsLeftAlone
<1> QED
  BY <1>1, <1>2, <1>3, <1>4, <1>5

LEMMA CpuSetJobInv ==
  ASSUME IInv, CpuSetJob
  PROVE  IInv'
<1> USE DEF IInv, dsVars, MainAt, MainGo, CpuSetJob
<1>1. TypeOK'
  <2> main \in MainType
    BY DEF TypeOK
  <2>1. main' \in MainType
    BY JobTypes DEF MainType, MainPlaces, AnyJob, Control, TakeEvent
  <2> DSTypeOK'
    BY DEF TypeOK, DSTypeOK, TakeEvent
  <2> QED
    BY <2>1 DEF TypeOK, TakeEvent
<1>2. Control' /\ ArgIsJob'
  BY DEF TypeOK, MainType, Control, ArgIsJob, TakeEvent
<1>3. Allowed' /\ PausedBefore'
  BY DEF TypeOK, MainType, Control, ArgIsJob, Joined, Allowed, PausedBefore, Asking, Changing,
     Ready, Running, TakeEvent
<1>4. Joined'
  BY JobTypes, WantedType DEF TypeOK, MainType, Control, ArgIsJob, Joined, AllExited, Stopping,
     Running, Wanted, TakeEvent
<1>5. ASSUME NEW w \in Workers PROVE WorkerInv(w)'
  <2>1. WorkerInv(w) /\ (Asking' => Asking) /\ (Changing => Changing')
    BY DEF TypeOK, Control, Asking, Changing, Ready, TakeEvent
  <2>2. UNCHANGED <<workers, sequence, job, content, phase>>
    OBVIOUS
  <2> QED
    BY <2>1, <2>2, ThreadsLeftAlone
<1> QED
  BY <1>1, <1>2, <1>3, <1>4, <1>5

LEMMA CpuStopInv ==
  ASSUME IInv, CpuStop
  PROVE  IInv'
<1> USE DEF IInv, dsVars, MainAt, MainGo, CpuStop, AfterStop
<1>1. TypeOK'
  <2> main \in MainType
    BY DEF TypeOK
  <2>1. main' \in MainType
    BY JobTypes DEF MainType, MainPlaces, AnyJob, Control, TakeEvent
  <2> DSTypeOK'
    BY DEF TypeOK, DSTypeOK, TakeEvent
  <2> QED
    BY <2>1 DEF TypeOK, TakeEvent
<1>2. Control' /\ ArgIsJob'
  BY DEF TypeOK, MainType, Control, ArgIsJob, TakeEvent
<1>3. Allowed' /\ PausedBefore'
  BY DEF TypeOK, MainType, Control, ArgIsJob, Joined, Allowed, PausedBefore, Asking, Changing,
     Ready, Running, TakeEvent
<1>4. Joined'
  BY JobTypes, WantedType DEF TypeOK, MainType, Control, ArgIsJob, Joined, AllExited, Stopping,
     Running, Wanted, TakeEvent
<1>5. ASSUME NEW w \in Workers PROVE WorkerInv(w)'
  <2>1. CASE Running
    BY <2>1, ThreadsStopped
  <2>2. CASE ~Running
    BY <2>2, ThreadsGone DEF Joined
  <2> QED
    BY <2>1, <2>2
<1> QED
  BY <1>1, <1>2, <1>3, <1>4, <1>5

LEMMA CpuJoinInv ==
  ASSUME IInv, CpuJoin
  PROVE  IInv'
<1> USE DEF IInv, dsVars, MainAt, MainGo, CpuJoin, Touch, AfterStop
<1>1. TypeOK'
  <2> main \in MainType
    BY DEF TypeOK
  <2>1. main' \in MainType
    BY JobTypes DEF MainType, MainPlaces, AnyJob, Control, TakeEvent
  <2> DSTypeOK'
    BY DEF TypeOK, DSTypeOK, TakeEvent
  <2> QED
    BY <2>1 DEF TypeOK, TakeEvent
<1>2. Control' /\ ArgIsJob'
  BY DEF TypeOK, MainType, Control, ArgIsJob, TakeEvent
<1>3. Allowed' /\ PausedBefore'
  BY DEF TypeOK, MainType, Control, ArgIsJob, Joined, Allowed, PausedBefore, Asking, Changing,
     Ready, Running, TakeEvent
<1>4. Joined'
  BY JobTypes, WantedType DEF TypeOK, MainType, Control, ArgIsJob, Joined, AllExited, Stopping,
     Running, Wanted, TakeEvent
<1>5. ASSUME NEW w \in Workers PROVE WorkerInv(w)'
  BY ThreadsTouched DEF Stopping, Control
<1> QED
  BY <1>1, <1>2, <1>3, <1>4, <1>5

LEMMA CpuStartInv ==
  ASSUME IInv, CpuStart
  PROVE  IInv'
<1> USE DEF IInv, dsVars, MainAt, MainGo, CpuStart, Touch
<1>1. TypeOK'
  <2> main \in MainType
    BY DEF TypeOK
  <2>1. main' \in MainType
    BY JobTypes DEF MainType, MainPlaces, AnyJob, Control, TakeEvent
  <2>2. NewWorker \in WorkerType
    BY DEF NewWorker, WorkerType, WorkerPlaces, AnyJob
  <2>3. Wanted \in ThreadType
    BY WantedType DEF Joined, Wanted, TypeOK, AnyJob
  <2> QED
    BY <2>1, <2>2, <2>3 DEF TypeOK, DSTypeOK
<1>2. Control' /\ ArgIsJob'
  BY DEF TypeOK, MainType, Control, ArgIsJob, TakeEvent
<1>3. Allowed' /\ PausedBefore'
  BY DEF TypeOK, MainType, Control, ArgIsJob, Joined, Allowed, PausedBefore, Asking, Changing,
     Ready, Running, TakeEvent
<1>4. Joined'
  <2>1. Wanted # NoThreads /\ job \in Jobs
    BY DEF Joined, Wanted, TypeOK, AnyJob
  <2>2. Running' /\ ~Stopping'
    BY <2>1 DEF Running, Stopping, TypeOK, MainType, Control
  <2>3. sequence' # 0 /\ \A w \in Workers : workers'[w].at # "exited"
    BY DEF NewWorker, TypeOK
  <2>4. main'.at \notin {"cpu.stop", "cpu.join", "cpu.start"}
    BY DEF TypeOK, MainType, Control
  <2> QED
    BY <2>1, <2>2, <2>3, <2>4 DEF Joined
<1>5. ASSUME NEW w \in Workers PROVE WorkerInv(w)'
  <2>1. workers'[w] = NewWorker
    OBVIOUS
  <2> QED
    BY <2>1 DEF NewWorker, WorkerInv, Sane, Late, OwnDataset, NewestJob, Machine, FreshGate,
       FreshJob, Hashing, TypeOK
<1> QED
  BY <1>1, <1>2, <1>3, <1>4, <1>5

LEMMA StopUnpauseInv ==
  ASSUME IInv, StopUnpause
  PROVE  IInv'
<1> USE DEF IInv, dsVars, MainAt, MainGo, StopUnpause
<1>1. TypeOK'
  <2> main \in MainType
    BY DEF TypeOK
  <2>1. main' \in MainType
    BY JobTypes DEF MainType, MainPlaces, AnyJob, Control, TakeEvent
  <2> DSTypeOK'
    BY DEF TypeOK, DSTypeOK, TakeEvent
  <2> QED
    BY <2>1 DEF TypeOK, TakeEvent
<1>2. Control' /\ ArgIsJob'
  BY DEF TypeOK, MainType, Control, ArgIsJob, TakeEvent
<1>3. Allowed' /\ PausedBefore'
  BY DEF TypeOK, MainType, Control, ArgIsJob, Joined, Allowed, PausedBefore, Asking, Changing,
     Ready, Running, TakeEvent
<1>4. Joined'
  BY JobTypes, WantedType DEF TypeOK, MainType, Control, ArgIsJob, Joined, AllExited, Stopping,
     Running, Wanted, TakeEvent
<1>5. ASSUME NEW w \in Workers PROVE WorkerInv(w)'
  <2>1. WorkerInv(w) /\ (Asking' => Asking) /\ (Changing => Changing')
    BY DEF TypeOK, Control, Asking, Changing, Ready, TakeEvent
  <2>2. UNCHANGED <<workers, sequence, job, content, phase>>
    OBVIOUS
  <2> QED
    BY <2>1, <2>2, ThreadsLeftAlone
<1> QED
  BY <1>1, <1>2, <1>3, <1>4, <1>5

LEMMA StopZeroInv ==
  ASSUME IInv, StopZero
  PROVE  IInv'
<1> USE DEF IInv, dsVars, MainAt, MainGo, StopZero
<1>1. TypeOK'
  <2> main \in MainType
    BY DEF TypeOK
  <2>1. main' \in MainType
    BY JobTypes DEF MainType, MainPlaces, AnyJob, Control, TakeEvent
  <2> DSTypeOK'
    BY DEF TypeOK, DSTypeOK, TakeEvent
  <2> QED
    BY <2>1 DEF TypeOK, TakeEvent
<1>2. Control' /\ ArgIsJob'
  BY DEF TypeOK, MainType, Control, ArgIsJob, TakeEvent
<1>3. Allowed' /\ PausedBefore'
  BY DEF TypeOK, MainType, Control, ArgIsJob, Joined, Allowed, PausedBefore, Asking, Changing,
     Ready, Running, TakeEvent
<1>4. Joined'
  BY JobTypes, WantedType DEF TypeOK, MainType, Control, ArgIsJob, Joined, AllExited, Stopping,
     Running, Wanted, TakeEvent
<1>5. ASSUME NEW w \in Workers PROVE WorkerInv(w)'
  BY ThreadsStopped
<1> QED
  BY <1>1, <1>2, <1>3, <1>4, <1>5

LEMMA SetEnabledPauseInv ==
  ASSUME IInv, SetEnabledPause
  PROVE  IInv'
<1> USE DEF IInv, dsVars, MainAt, MainGo, SetEnabledPause
<1>1. TypeOK'
  <2> main \in MainType
    BY DEF TypeOK
  <2>1. main' \in MainType
    BY JobTypes DEF MainType, MainPlaces, AnyJob, Control, TakeEvent
  <2> DSTypeOK'
    BY DEF TypeOK, DSTypeOK, TakeEvent
  <2> QED
    BY <2>1 DEF TypeOK, TakeEvent
<1>2. Control' /\ ArgIsJob'
  BY DEF TypeOK, MainType, Control, ArgIsJob, TakeEvent
<1>3. Allowed' /\ PausedBefore'
  BY DEF TypeOK, MainType, Control, ArgIsJob, Joined, Allowed, PausedBefore, Asking, Changing,
     Ready, Running, TakeEvent
<1>4. Joined'
  BY JobTypes, WantedType DEF TypeOK, MainType, Control, ArgIsJob, Joined, AllExited, Stopping,
     Running, Wanted, TakeEvent
<1>5. ASSUME NEW w \in Workers PROVE WorkerInv(w)'
  <2>1. WorkerInv(w) /\ (Asking' => Asking) /\ (Changing => Changing')
    BY DEF TypeOK, Control, Asking, Changing, Ready, TakeEvent
  <2>2. UNCHANGED <<workers, sequence, job, content, phase>>
    OBVIOUS
  <2> QED
    BY <2>1, <2>2, ThreadsLeftAlone
<1> QED
  BY <1>1, <1>2, <1>3, <1>4, <1>5

LEMMA LastTouchInv ==
  ASSUME IInv, LastTouch
  PROVE  IInv'
<1> USE DEF IInv, dsVars, MainAt, MainGo, LastTouch, Touch
<1>1. TypeOK'
  <2> main \in MainType
    BY DEF TypeOK
  <2>1. main' \in MainType
    BY JobTypes DEF MainType, MainPlaces, AnyJob, Control, TakeEvent
  <2> DSTypeOK'
    BY DEF TypeOK, DSTypeOK, TakeEvent
  <2> QED
    BY <2>1 DEF TypeOK, TakeEvent
<1>2. Control' /\ ArgIsJob'
  BY DEF TypeOK, MainType, Control, ArgIsJob, TakeEvent
<1>3. Allowed' /\ PausedBefore'
  BY DEF TypeOK, MainType, Control, ArgIsJob, Joined, Allowed, PausedBefore, Asking, Changing,
     Ready, Running, TakeEvent
<1>4. Joined'
  BY JobTypes, WantedType DEF TypeOK, MainType, Control, ArgIsJob, Joined, AllExited, Stopping,
     Running, Wanted, TakeEvent
<1>5. ASSUME NEW w \in Workers PROVE WorkerInv(w)'
  BY ThreadsTouched DEF Stopping, Control
<1> QED
  BY <1>1, <1>2, <1>3, <1>4, <1>5


-----------------------------------------------------------------------------
(* The steps of a thread *)

\* A step of one thread disturbs nothing but that thread, and perhaps pauses.
LEMMA OneThreadMoves ==
  ASSUME IInv, NEW w \in Workers, NEW r \in WorkerType, Becomes(w, r),
         OthersSame, paused' \in {paused, TRUE},
         workers[w].at # "exited", r.at = "exited" => sequence = 0,
         WorkerInv(w)'
  PROVE  IInv'
<1> USE DEF IInv, OthersSame, minerVars, dsVars
<1>1. workers' \in [Workers -> WorkerType] /\ workers'[w] = r
      /\ \A v \in Workers \ {w} : workers'[v] = workers[v]
  BY DEF TypeOK, Becomes
<1>2. TypeOK'
  <2>1. TypeOK /\ UNCHANGED <<minerVars, sequence, dsVars>>
    OBVIOUS
  <2>2. paused' \in BOOLEAN
    BY <2>1 DEF TypeOK
  <2> HIDE DEF IInv, OthersSame
  <2> QED BY <1>1, <2>1, <2>2 DEF TypeOK, DSTypeOK
<1>3. Control' /\ ArgIsJob' /\ Allowed' /\ PausedBefore'
  BY DEF TypeOK, Control, ArgIsJob, Allowed, PausedBefore, Asking, Changing, Ready, Running
<1>4. Joined'
  <2>1. Running
    BY DEF Joined, AllExited
  <2>2. ~Stopping => r.at # "exited"
    BY <2>1 DEF Joined
  <2> QED
    BY <1>1, <2>1, <2>2 DEF Joined, Running, Stopping, Wanted
<1>5. ASSUME NEW v \in Workers PROVE WorkerInv(v)'
  <2>1. CASE v = w
    BY <2>1
  <2>2. CASE v # w
    BY <1>1, <2>2 DEF WorkerInv, Sane, Late, OwnDataset, NewestJob, Machine, FreshGate, FreshJob,
       Hashing,
                      Asking, Changing, Ready
  <2> QED
    BY <2>1, <2>2
<1> QED
  BY <1>2, <1>3, <1>4, <1>5

LEMMA LoopInv ==
  ASSUME IInv, NEW w \in Workers, Loop(w)
  PROVE  IInv'
<1> DEFINE r == [workers[w] EXCEPT !.at = IF sequence = 0 THEN "exited" ELSE "gate"]
<1>1. workers[w] \in WorkerType /\ sequence \in Nat /\ job \in AnyJob
  BY DEF IInv, TypeOK
<1>2. r \in WorkerType
  BY <1>1 DEF WorkerType, WorkerPlaces, AnyJob
<1>3. Becomes(w, r) /\ OthersSame /\ paused' = paused
  BY DEF Loop, Go
<1>4. workers'[w] = r
  BY <1>3 DEF Becomes, IInv, TypeOK
<1>5. workers[w].at # "exited" /\ (r.at = "exited" => sequence = 0)
  BY <1>1 DEF Loop, At, WorkerType, Go
<1>6. Sane(w)'
  BY <1>1, <1>3, <1>4 DEF IInv, WorkerInv, WorkerType, Sane, Joined, AllExited, Stopping, AnyJob,
     OthersSame, minerVars, dsVars, Loop, At, Go
<1>7. Late(w)' /\ OwnDataset(w)' /\ NewestJob(w)'
  BY <1>1, <1>3, <1>4 DEF IInv, WorkerInv, WorkerType, Sane, Late, OwnDataset, NewestJob,
     PausedBefore,
     Joined, AllExited, FreshGate, FreshJob, Asking, Changing, Ready,
     OthersSame, minerVars, dsVars, Loop, At, Go
<1>8. Machine(w)'
  BY <1>1, <1>3, <1>4 DEF IInv, WorkerInv, WorkerType, Machine, Hashing,
     OthersSame, minerVars, dsVars, Loop, At, Go
<1> HIDE DEF r
<1> QED
  BY <1>2, <1>3, <1>5, <1>6, <1>7, <1>8, OneThreadMoves DEF WorkerInv

LEMMA GateInv ==
  ASSUME IInv, NEW w \in Workers, Gate(w)
  PROVE  IInv'
<1> DEFINE r == [workers[w] EXCEPT !.at = IF paused THEN "sleep" ELSE "inner"]
<1>1. workers[w] \in WorkerType /\ sequence \in Nat /\ job \in AnyJob
  BY DEF IInv, TypeOK
<1>2. r \in WorkerType
  BY <1>1 DEF WorkerType, WorkerPlaces, AnyJob
<1>3. Becomes(w, r) /\ OthersSame /\ paused' = paused
  BY DEF Gate, Go
<1>4. workers'[w] = r
  BY <1>3 DEF Becomes, IInv, TypeOK
<1>5. workers[w].at # "exited" /\ (r.at = "exited" => sequence = 0)
  BY <1>1 DEF Gate, At, WorkerType, Go
<1>6. Sane(w)'
  BY <1>1, <1>3, <1>4 DEF IInv, WorkerInv, WorkerType, Sane, Joined, AllExited, Stopping, AnyJob,
     OthersSame, minerVars, dsVars, Gate, At, Go
<1>7. Late(w)' /\ OwnDataset(w)' /\ NewestJob(w)'
  BY <1>1, <1>3, <1>4 DEF IInv, WorkerInv, WorkerType, Sane, Late, OwnDataset, NewestJob,
     PausedBefore,
     Joined, AllExited, FreshGate, FreshJob, Asking, Changing, Ready,
     OthersSame, minerVars, dsVars, Gate, At, Go
<1>8. Machine(w)'
  BY <1>1, <1>3, <1>4 DEF IInv, WorkerInv, WorkerType, Machine, Hashing,
     OthersSame, minerVars, dsVars, Gate, At, Go
<1> HIDE DEF r
<1> QED
  BY <1>2, <1>3, <1>5, <1>6, <1>7, <1>8, OneThreadMoves DEF WorkerInv

LEMMA WakeUpInv ==
  ASSUME IInv, NEW w \in Workers, WakeUp(w)
  PROVE  IInv'
<1> DEFINE r == [workers[w] EXCEPT !.at = "awake", !.gate = sequence]
<1>1. workers[w] \in WorkerType /\ sequence \in Nat /\ job \in AnyJob
  BY DEF IInv, TypeOK
<1>2. r \in WorkerType
  BY <1>1 DEF WorkerType, WorkerPlaces, AnyJob
<1>3. Becomes(w, r) /\ OthersSame /\ paused' = paused
  BY DEF WakeUp
<1>4. workers'[w] = r
  BY <1>3 DEF Becomes, IInv, TypeOK
<1>5. workers[w].at # "exited" /\ (r.at = "exited" => sequence = 0)
  BY <1>1 DEF WakeUp, At, WorkerType
<1>6. Sane(w)'
  BY <1>1, <1>3, <1>4 DEF IInv, WorkerInv, WorkerType, Sane, Joined, AllExited, Stopping, AnyJob,
     OthersSame, minerVars, dsVars, WakeUp, At
<1>7. Late(w)' /\ OwnDataset(w)' /\ NewestJob(w)'
  BY <1>1, <1>3, <1>4 DEF IInv, WorkerInv, WorkerType, Sane, Late, OwnDataset, NewestJob,
     PausedBefore,
     Joined, AllExited, FreshGate, FreshJob, Asking, Changing, Ready,
     OthersSame, minerVars, dsVars, WakeUp, At
<1>8. Machine(w)'
  BY <1>1, <1>3, <1>4 DEF IInv, WorkerInv, WorkerType, Machine, Hashing,
     OthersSame, minerVars, dsVars, WakeUp, At
<1> HIDE DEF r
<1> QED
  BY <1>2, <1>3, <1>5, <1>6, <1>7, <1>8, OneThreadMoves DEF WorkerInv

LEMMA AwakeInv ==
  ASSUME IInv, NEW w \in Workers, Awake(w)
  PROVE  IInv'
<1> DEFINE r == IF sequence = 0 THEN [workers[w] EXCEPT !.at = "exited"] ELSE [workers[w] EXCEPT !.at = "consume", !.back = "inner"]
<1>1. workers[w] \in WorkerType /\ sequence \in Nat /\ job \in AnyJob
  BY DEF IInv, TypeOK
<1>2. r \in WorkerType
  BY <1>1 DEF WorkerType, WorkerPlaces, AnyJob
<1>3. Becomes(w, r) /\ OthersSame /\ paused' = paused
  BY DEF Awake, Go, Consume
<1>4. workers'[w] = r
  BY <1>3 DEF Becomes, IInv, TypeOK
<1>5. workers[w].at # "exited" /\ (r.at = "exited" => sequence = 0)
  BY <1>1 DEF Awake, At, WorkerType, Go, Consume
<1>6. Sane(w)'
  BY <1>1, <1>3, <1>4 DEF IInv, WorkerInv, WorkerType, Sane, Joined, AllExited, Stopping, AnyJob,
     OthersSame, minerVars, dsVars, Awake, At, Go, Consume
<1>7. Late(w)' /\ OwnDataset(w)' /\ NewestJob(w)'
  BY <1>1, <1>3, <1>4 DEF IInv, WorkerInv, WorkerType, Sane, Late, OwnDataset, NewestJob,
     PausedBefore,
     Joined, AllExited, FreshGate, FreshJob, Asking, Changing, Ready,
     OthersSame, minerVars, dsVars, Awake, At, Go, Consume
<1>8. Machine(w)'
  BY <1>1, <1>3, <1>4 DEF IInv, WorkerInv, WorkerType, Machine, Hashing,
     OthersSame, minerVars, dsVars, Awake, At, Go, Consume
<1> HIDE DEF r
<1> QED
  BY <1>2, <1>3, <1>5, <1>6, <1>7, <1>8, OneThreadMoves DEF WorkerInv

LEMMA ConsumeCheckInv ==
  ASSUME IInv, NEW w \in Workers, ConsumeCheck(w)
  PROVE  IInv'
<1> DEFINE r == IF sequence = 0 THEN [Returned(w) EXCEPT !.gate = 0] ELSE [workers[w] EXCEPT !.at = "copy"]
<1>1. workers[w] \in WorkerType /\ sequence \in Nat /\ job \in AnyJob
  BY DEF IInv, TypeOK
<1>2. r \in WorkerType
  BY <1>1 DEF WorkerType, WorkerPlaces, AnyJob, Returned
<1>3. Becomes(w, r) /\ OthersSame /\ paused' = paused
  BY DEF ConsumeCheck, Go
<1>4. workers'[w] = r
  BY <1>3 DEF Becomes, IInv, TypeOK
<1>5. workers[w].at # "exited" /\ (r.at = "exited" => sequence = 0)
  BY <1>1 DEF ConsumeCheck, At, WorkerType, Returned, Go
<1>6. Sane(w)'
  BY <1>1, <1>3, <1>4 DEF IInv, WorkerInv, WorkerType, Sane, Joined, AllExited, Stopping, AnyJob,
     OthersSame, minerVars, dsVars, ConsumeCheck, At, Returned, Go
<1>7. Late(w)' /\ OwnDataset(w)' /\ NewestJob(w)'
  BY <1>1, <1>3, <1>4 DEF IInv, WorkerInv, WorkerType, Sane, Late, OwnDataset, NewestJob,
     PausedBefore,
     Joined, AllExited, FreshGate, FreshJob, Asking, Changing, Ready,
     OthersSame, minerVars, dsVars, ConsumeCheck, At, Returned, Go
<1>8. Machine(w)'
  BY <1>1, <1>3, <1>4 DEF IInv, WorkerInv, WorkerType, Machine, Hashing,
     OthersSame, minerVars, dsVars, ConsumeCheck, At, Returned, Go
<1> HIDE DEF r
<1> QED
  BY <1>2, <1>3, <1>5, <1>6, <1>7, <1>8, OneThreadMoves DEF WorkerInv

LEMMA ConsumeCopyInv ==
  ASSUME IInv, NEW w \in Workers, ConsumeCopy(w)
  PROVE  IInv'
<1> DEFINE r == [workers[w] EXCEPT !.at = "add", !.copy = job]
<1>1. workers[w] \in WorkerType /\ sequence \in Nat /\ job \in AnyJob
  BY DEF IInv, TypeOK
<1>2. r \in WorkerType
  BY <1>1 DEF WorkerType, WorkerPlaces, AnyJob
<1>3. Becomes(w, r) /\ OthersSame /\ paused' = paused
  BY DEF ConsumeCopy
<1>4. workers'[w] = r
  BY <1>3 DEF Becomes, IInv, TypeOK
<1>5. workers[w].at # "exited" /\ (r.at = "exited" => sequence = 0)
  BY <1>1 DEF ConsumeCopy, At, WorkerType
<1>6. Sane(w)'
  BY <1>1, <1>3, <1>4 DEF IInv, WorkerInv, WorkerType, Sane, Joined, AllExited, Stopping, AnyJob,
     OthersSame, minerVars, dsVars, ConsumeCopy, At
<1>7. Late(w)' /\ OwnDataset(w)' /\ NewestJob(w)'
  BY <1>1, <1>3, <1>4 DEF IInv, WorkerInv, WorkerType, Sane, Late, OwnDataset, NewestJob,
     PausedBefore,
     Joined, AllExited, FreshGate, FreshJob, Asking, Changing, Ready,
     OthersSame, minerVars, dsVars, ConsumeCopy, At
<1>8. Machine(w)'
  BY <1>1, <1>3, <1>4 DEF IInv, WorkerInv, WorkerType, Machine, Hashing,
     OthersSame, minerVars, dsVars, ConsumeCopy, At
<1> HIDE DEF r
<1> QED
  BY <1>2, <1>3, <1>5, <1>6, <1>7, <1>8, OneThreadMoves DEF WorkerInv

LEMMA ConsumeAddInv ==
  ASSUME IInv, NEW w \in Workers, ConsumeAdd(w)
  PROVE  IInv'
<1> DEFINE r == [workers[w] EXCEPT !.at = "alloc", !.seq = sequence, !.job = workers[w].copy, !.copy = NoJob,
                              !.overtaken = workers[w].gate # sequence, !.gate = 0]
<1>1. workers[w] \in WorkerType /\ sequence \in Nat /\ job \in AnyJob
  BY DEF IInv, TypeOK
<1>2. r \in WorkerType
  BY <1>1 DEF WorkerType, WorkerPlaces, AnyJob
<1>3. Becomes(w, r) /\ OthersSame /\ paused' = paused
  BY DEF ConsumeAdd
<1>4. workers'[w] = r
  BY <1>3 DEF Becomes, IInv, TypeOK
<1>5. workers[w].at # "exited" /\ (r.at = "exited" => sequence = 0)
  BY <1>1 DEF ConsumeAdd, At, WorkerType
<1>6. /\ workers'[w].at = "alloc" /\ workers'[w].seq = sequence /\ workers'[w].gate = 0
      /\ workers'[w].job = workers[w].copy
      /\ ~workers'[w].overtaken => workers[w].gate = sequence
  BY <1>1, <1>4 DEF WorkerType
<1>7. Sane(w)'
  <2>1. workers[w].copy \in Jobs /\ workers[w].gate # 0 /\ sequence' = sequence
    BY <1>3 DEF IInv, WorkerInv, Sane, ConsumeAdd, At, OthersSame
  <2> QED
    BY <1>1, <1>6, <2>1 DEF Sane
<1>8. Late(w)' /\ OwnDataset(w)' /\ NewestJob(w)'
  <2>1. /\ At(w, "add") /\ sequence' = sequence /\ main' = main /\ job' = job
        /\ phase' = phase /\ content' = content /\ wanted' = wanted
    BY <1>3 DEF ConsumeAdd, OthersSame, minerVars, dsVars
  <2>2. FreshJob(w)' => FreshGate(w)
    BY <1>1, <1>6, <2>1 DEF FreshJob, FreshGate, WorkerType, At
  <2>3. ~FreshGate(w)'
    BY <1>6 DEF FreshGate
  <2>4. Late(w)'
    BY <2>1, <2>2, <2>3 DEF IInv, WorkerInv, Late, Asking, Ready
  <2>5. OwnDataset(w)'
    BY <1>6 DEF OwnDataset
  <2>6. NewestJob(w)'
    BY <1>6, <2>1, <2>2, <2>3 DEF IInv, WorkerInv, NewestJob, Changing, At
  <2> QED BY <2>4, <2>5, <2>6
<1>9. Machine(w)'
  BY <1>1, <1>3, <1>4 DEF IInv, WorkerInv, WorkerType, Machine, Hashing,
     OthersSame, minerVars, dsVars, ConsumeAdd, At
<1> HIDE DEF r
<1> QED
  BY <1>2, <1>3, <1>5, <1>7, <1>8, <1>9, OneThreadMoves DEF WorkerInv

LEMMA AllocateInv ==
  ASSUME IInv, NEW w \in Workers, Allocate(w)
  PROVE  IInv'
<1> DEFINE r == IF Available(SeedOf[workers[w].job]) THEN [Returned(w) EXCEPT !.vm = TRUE] ELSE [workers[w] EXCEPT !.at = "wait"]
<1>1. workers[w] \in WorkerType /\ sequence \in Nat /\ job \in AnyJob
  BY DEF IInv, TypeOK
<1>2. r \in WorkerType
  BY <1>1 DEF WorkerType, WorkerPlaces, AnyJob, Returned
<1>3. Becomes(w, r) /\ OthersSame /\ paused' = paused
  BY DEF Allocate, Go
<1>4. workers'[w] = r
  BY <1>3 DEF Becomes, IInv, TypeOK
<1>5. workers[w].at # "exited" /\ (r.at = "exited" => sequence = 0)
  BY <1>1 DEF Allocate, At, WorkerType, Returned, Go, Available, Ready
<1>6. Sane(w)'
  BY <1>1, <1>3, <1>4 DEF IInv, WorkerInv, WorkerType, Sane, Joined, AllExited, Stopping, AnyJob,
     OthersSame, minerVars, dsVars, Allocate, At, Returned, Go, Available, Ready
<1>7. Late(w)' /\ OwnDataset(w)' /\ NewestJob(w)'
  <2>1. /\ sequence' = sequence /\ main' = main /\ job' = job
        /\ phase' = phase /\ content' = content /\ wanted' = wanted
    BY <1>3 DEF OthersSame, minerVars, dsVars
  <2>2. /\ workers'[w].job = workers[w].job /\ workers'[w].seq = workers[w].seq
        /\ workers'[w].overtaken = workers[w].overtaken
        /\ workers'[w].at \notin {"awake", "consume", "copy", "add"}
    BY <1>1, <1>4 DEF WorkerType, Returned
  <2>3. ~FreshGate(w)' /\ (FreshJob(w)' => FreshJob(w))
    BY <1>5, <2>1, <2>2 DEF FreshGate, FreshJob
  <2>4. Late(w)'
    BY <2>1, <2>3 DEF IInv, WorkerInv, Late, Asking, Ready
  <2>5. OwnDataset(w)'
    <3>1. CASE Available(SeedOf[workers[w].job])
      BY <2>1, <2>2, <3>1 DEF OwnDataset, Available, Ready
    <3>2. CASE ~Available(SeedOf[workers[w].job])
      BY <1>1, <1>4, <3>2 DEF WorkerType, OwnDataset
    <3> QED BY <3>1, <3>2
  <2>6. NewestJob(w)'
    BY <2>1, <2>2, <2>3 DEF IInv, WorkerInv, NewestJob, Changing
  <2> QED BY <2>4, <2>5, <2>6
<1>8. Machine(w)'
  BY <1>1, <1>3, <1>4 DEF IInv, WorkerInv, WorkerType, Machine, Hashing,
     OthersSame, minerVars, dsVars, Allocate, At, Returned, Go, Available, Ready
<1> HIDE DEF r
<1> QED
  BY <1>2, <1>3, <1>5, <1>6, <1>7, <1>8, OneThreadMoves DEF WorkerInv

LEMMA AllocateWaitInv ==
  ASSUME IInv, NEW w \in Workers, AllocateWait(w)
  PROVE  IInv'
<1> DEFINE r == IF sequence = 0 THEN Returned(w) ELSE [workers[w] EXCEPT !.at = "alloc"]
<1>1. workers[w] \in WorkerType /\ sequence \in Nat /\ job \in AnyJob
  BY DEF IInv, TypeOK
<1>2. r \in WorkerType
  BY <1>1 DEF WorkerType, WorkerPlaces, AnyJob, Returned
<1>3. Becomes(w, r) /\ OthersSame /\ paused' = paused
  BY DEF AllocateWait, Go
<1>4. workers'[w] = r
  BY <1>3 DEF Becomes, IInv, TypeOK
<1>5. workers[w].at # "exited" /\ (r.at = "exited" => sequence = 0)
  BY <1>1 DEF AllocateWait, At, WorkerType, Returned, Go
<1>6. Sane(w)'
  BY <1>1, <1>3, <1>4 DEF IInv, WorkerInv, WorkerType, Sane, Joined, AllExited, Stopping, AnyJob,
     OthersSame, minerVars, dsVars, AllocateWait, At, Returned, Go
<1>7. Late(w)' /\ OwnDataset(w)' /\ NewestJob(w)'
  BY <1>1, <1>3, <1>4 DEF IInv, WorkerInv, WorkerType, Sane, Late, OwnDataset, NewestJob,
     PausedBefore,
     Joined, AllExited, FreshGate, FreshJob, Asking, Changing, Ready,
     OthersSame, minerVars, dsVars, AllocateWait, At, Returned, Go
<1>8. Machine(w)'
  BY <1>1, <1>3, <1>4 DEF IInv, WorkerInv, WorkerType, Machine, Hashing,
     OthersSame, minerVars, dsVars, AllocateWait, At, Returned, Go
<1> HIDE DEF r
<1> QED
  BY <1>2, <1>3, <1>5, <1>6, <1>7, <1>8, OneThreadMoves DEF WorkerInv

LEMMA InnerInv ==
  ASSUME IInv, NEW w \in Workers, Inner(w)
  PROVE  IInv'
<1> DEFINE r == [workers[w] EXCEPT !.at = IF Outdated(w) THEN "bottom" ELSE "hash"]
<1>1. workers[w] \in WorkerType /\ sequence \in Nat /\ job \in AnyJob
  BY DEF IInv, TypeOK
<1>2. r \in WorkerType
  BY <1>1 DEF WorkerType, WorkerPlaces, AnyJob
<1>3. Becomes(w, r) /\ OthersSame /\ paused' = paused
  BY DEF Inner, Go
<1>4. workers'[w] = r
  BY <1>3 DEF Becomes, IInv, TypeOK
<1>5. workers[w].at # "exited" /\ (r.at = "exited" => sequence = 0)
  BY <1>1 DEF Inner, At, WorkerType, Go, Outdated
<1>6. Sane(w)'
  BY <1>1, <1>3, <1>4 DEF IInv, WorkerInv, WorkerType, Sane, Joined, AllExited, Stopping, AnyJob,
     OthersSame, minerVars, dsVars, Inner, At, Go, Outdated
<1>7. Late(w)' /\ OwnDataset(w)' /\ NewestJob(w)'
  BY <1>1, <1>3, <1>4 DEF IInv, WorkerInv, WorkerType, Sane, Late, OwnDataset, NewestJob,
     PausedBefore,
     Joined, AllExited, FreshGate, FreshJob, Asking, Changing, Ready,
     OthersSame, minerVars, dsVars, Inner, At, Go, Outdated
<1>8. Machine(w)'
  BY <1>1, <1>3, <1>4 DEF IInv, WorkerInv, WorkerType, Machine, Hashing,
     OthersSame, minerVars, dsVars, Inner, At, Go, Outdated
<1> HIDE DEF r
<1> QED
  BY <1>2, <1>3, <1>5, <1>6, <1>7, <1>8, OneThreadMoves DEF WorkerInv

LEMMA HashInv ==
  ASSUME IInv, NEW w \in Workers, Hash(w)
  PROVE  IInv'
<1>1. workers[w] \in WorkerType /\ workers[w].at = "hash" /\ OthersSame /\ paused' \in {paused, TRUE}
  BY DEF IInv, TypeOK, Hash, At
<1>2. PICK p \in {"inner", "bottom"} : Go(w, p)
  BY DEF Hash
<1> DEFINE r == [workers[w] EXCEPT !.at = p]
<1>3. r \in WorkerType /\ Becomes(w, r)
  BY <1>1, <1>2 DEF WorkerType, WorkerPlaces, Go
<1>4. workers'[w] = r
  BY <1>3 DEF Becomes, IInv, TypeOK
<1>5. WorkerInv(w)'
  BY <1>1, <1>3, <1>4 DEF IInv, WorkerInv, WorkerType, Sane, Late, OwnDataset, NewestJob, Machine,
     FreshGate, FreshJob, Hashing, Asking, Changing, Ready, OthersSame, minerVars, dsVars
<1> QED
  BY <1>1, <1>2, <1>3, <1>5, OneThreadMoves DEF WorkerType

LEMMA BottomInv ==
  ASSUME IInv, NEW w \in Workers, Bottom(w)
  PROVE  IInv'
<1> DEFINE r == IF paused THEN [workers[w] EXCEPT !.at = "loop"]
            ELSE [workers[w] EXCEPT !.at = "consume", !.back = "loop", !.gate = sequence]
<1>1. workers[w] \in WorkerType /\ sequence \in Nat /\ job \in AnyJob
  BY DEF IInv, TypeOK
<1>2. r \in WorkerType
  BY <1>1 DEF WorkerType, WorkerPlaces, AnyJob
<1>3. Becomes(w, r) /\ OthersSame /\ paused' = paused
  BY DEF Bottom, Go
<1>4. workers'[w] = r
  BY <1>3 DEF Becomes, IInv, TypeOK
<1>5. workers[w].at # "exited" /\ (r.at = "exited" => sequence = 0)
  BY <1>1 DEF Bottom, At, WorkerType, Go
<1>6. Sane(w)'
  BY <1>1, <1>3, <1>4 DEF IInv, WorkerInv, WorkerType, Sane, Joined, AllExited, Stopping, AnyJob,
     OthersSame, minerVars, dsVars, Bottom, At, Go
<1>7. Late(w)' /\ OwnDataset(w)' /\ NewestJob(w)'
  BY <1>1, <1>3, <1>4 DEF IInv, WorkerInv, WorkerType, Sane, Late, OwnDataset, NewestJob,
     PausedBefore,
     Joined, AllExited, FreshGate, FreshJob, Asking, Changing, Ready,
     OthersSame, minerVars, dsVars, Bottom, At, Go
<1>8. Machine(w)'
  BY <1>1, <1>3, <1>4 DEF IInv, WorkerInv, WorkerType, Machine, Hashing,
     OthersSame, minerVars, dsVars, Bottom, At, Go
<1> HIDE DEF r
<1> QED
  BY <1>2, <1>3, <1>5, <1>6, <1>7, <1>8, OneThreadMoves DEF WorkerInv


-----------------------------------------------------------------------------
(* All steps *)

\* The dataset's thread works only while a request is pending, when no thread that is
\* past its allocation is up to date.
LEMMA DatasetStepInv ==
  ASSUME IInv, DatasetStep
  PROVE  IInv'
<1> USE DEF IInv
<1>1. UNCHANGED <<minerVars, paused, sequence, workers>> /\ UNCHANGED wanted
  BY DEF DatasetStep, ServeStep, Rewrite, Written, Complete
<1>2. \/ phase # "IDLE" /\ phase' = phase /\ content' \in Seeds \union {NoSeed, Rewriting} /\ signal' = signal
      \/ phase = "PENDING" /\ phase' = "IDLE" /\ content' = content /\ signal' = TRUE
  BY DEF DatasetStep, ServeStep, Rewrite, Written, Complete
<1> USE DEF minerVars
<1>3. TypeOK'
  BY <1>1, <1>2 DEF TypeOK, DSTypeOK
<1>4. Control' /\ ArgIsJob' /\ Allowed' /\ Joined'
  BY <1>1 DEF Control, ArgIsJob, Allowed, Joined, Running, Stopping, AllExited, Wanted, Changing
<1>5. Asking' => Asking
  BY <1>1, <1>2 DEF Asking, Ready
<1>6. PausedBefore'
  BY <1>1, <1>5 DEF PausedBefore, Running
<1>7. ASSUME NEW w \in Workers PROVE WorkerInv(w)'
  BY <1>1, <1>2, <1>5 DEF WorkerInv, Sane, Late, OwnDataset, NewestJob, Machine, FreshGate,
     FreshJob,
                          Hashing, Changing
<1> QED
  BY <1>3, <1>4, <1>6, <1>7

LEMMA StepInv ==
  ASSUME IInv, [Next]_vars
  PROVE  IInv'
<1>1. CASE Event
  BY <1>1, SetJobInv, StopInv, PauseInv, SetEnabledInv, ConfigChangedInv DEF Event
<1>2. CASE MainStep
  BY <1>2, SetJobPauseInv, SetJobTouchInv, SetJobAssignInv, SetJobEnqueueInv, HandlePauseInv,
     HandleTouchInv,
     HandleUnpauseInv, OnDatasetReadyInv, CpuSetJobInv, CpuStopInv, CpuJoinInv, CpuStartInv, StopUnpauseInv,
     StopZeroInv, SetEnabledPauseInv, LastTouchInv
     DEF MainStep
<1>3. ASSUME NEW w \in Workers, WorkerStep(w) PROVE IInv'
  BY <1>3, LoopInv, GateInv, WakeUpInv, AwakeInv, ConsumeCheckInv, ConsumeCopyInv, ConsumeAddInv,
     AllocateInv,
     AllocateWaitInv, InnerInv, HashInv, BottomInv
     DEF WorkerStep
<1>4. CASE UNCHANGED vars
  <2> USE <1>4 DEF vars, minerVars, dsVars
  <2>1. TypeOK'
    BY DEF IInv, TypeOK, DSTypeOK
  <2>2. Control' /\ ArgIsJob' /\ Allowed' /\ PausedBefore'
    BY DEF IInv, Control, ArgIsJob, Allowed, PausedBefore, Running, Wanted, Asking, Changing, Ready
  <2>3. Joined'
    BY DEF IInv, Joined, AllExited, Running, Stopping, Wanted
  <2>4. ASSUME NEW w \in Workers PROVE WorkerInv(w)'
    <3>1. WorkerInv(w)
      BY DEF IInv
    <3> QED
      BY <3>1 DEF WorkerInv, Sane, Late, OwnDataset, NewestJob, Machine, FreshGate, FreshJob, Hashing,
         Asking, Changing, Ready
  <2> QED BY <2>1, <2>2, <2>3, <2>4 DEF IInv
<1> QED
  BY <1>1, <1>2, <1>3, <1>4, DatasetStepInv DEF Next, Quiet

LEMMA InitInv ==
  ASSUME Init
  PROVE  IInv
<1> USE DEF Init, DSInit
<1>1. TypeOK
  <2>1. NoWorker \in WorkerType
    BY DEF NoWorker, NewWorker, WorkerType, WorkerPlaces, AnyJob
  <2>2. main \in MainType
    BY DEF MainType, MainPlaces, AnyJob
  <2>3. events \in 0..MaxEvents /\ sequence \in Nat
    BY EventAssumption
  <2> QED
    BY <2>1, <2>2, <2>3 DEF TypeOK, DSTypeOK, AnyJob
<1>2. Control /\ ArgIsJob /\ Allowed /\ PausedBefore
  BY DEF Control, ArgIsJob, Allowed, PausedBefore, Asking, Changing, Running
<1>3. Joined
  BY DEF Joined, AllExited, Running, Stopping, NoWorker, NewWorker
<1>4. ASSUME NEW w \in Workers PROVE WorkerInv(w)
  BY DEF NoWorker, NewWorker, WorkerInv, Sane, Late, OwnDataset, NewestJob, Machine, FreshGate,
     FreshJob, Hashing
<1> QED
  BY <1>1, <1>2, <1>3, <1>4 DEF IInv

LEMMA Invariance == SafeSpec => []IInv
BY InitInv, StepInv, PTL DEF SafeSpec

-----------------------------------------------------------------------------
(* Theorems *)

\* Every variable keeps its type: no handler leaves the loop at a place it does not
\* know, whatever events come in whatever order.
THEOREM TypeCorrect == SafeSpec => []TypeOK
<1>1. IInv => TypeOK
  BY DEF IInv
<1> QED
  BY <1>1, Invariance, PTL

\* Threads are unpaused between handlers only with a pool and enabled (Miner::setJob,
\* pause, setEnabled, handleJobChange), where nothing else stops the miner.
THEOREM MinesOnlyWhenAllowed == SafeSpec => []MiningOnlyWhenAllowed
<1>1. IInv => MiningOnlyWhenAllowed
  BY DEF IInv, Allowed, Stoppable, MiningOnlyWhenAllowed, MainAt
<1> QED
  BY <1>1, Invariance, PTL

\* A thread ends only while Workers::stop joins it.
THEOREM LosesNoThread == SafeSpec => []NoThreadLost
<1>1. IInv => NoThreadLost
  BY DEF IInv, Joined, NoThreadLost
<1> QED
  BY <1>1, Invariance, PTL

\* A thread that is up to date hashes with the dataset of its job (the touch of
\* Miner::setJob comes before Rx::init's request).
THEOREM DatasetIsTheJobs == SafeSpec => []HashesWithItsDataset
<1>1. IInv => HashesWithItsDataset
  <2> SUFFICES ASSUME IInv, NEW w \in Workers, Hashing(w), workers[w].seq = sequence, ~Overtaken(w)
               PROVE  content = SeedOf[workers[w].job]
    BY DEF HashesWithItsDataset
  <2>1. FreshJob(w)
    BY DEF IInv, WorkerInv, Sane, FreshJob, Hashing, Overtaken
  <2> QED
    BY <2>1 DEF IInv, WorkerInv, OwnDataset, Hashing
<1> QED
  BY <1>1, Invariance, PTL

\* Between handlers a thread that is up to date hashes the newest job (the touch of
\* handleJobChange comes after the job was set).
THEOREM JobIsTheNewest == SafeSpec => []HashesTheNewestJob
<1>1. IInv => HashesTheNewestJob
  <2> SUFFICES ASSUME IInv, NEW w \in Workers, MainAt("idle"), Hashing(w), workers[w].seq = sequence, ~Overtaken(w)
               PROVE  workers[w].job = job
    BY DEF HashesTheNewestJob
  <2>1. FreshJob(w)
    BY DEF IInv, WorkerInv, Sane, FreshJob, Hashing, Overtaken
  <2>2. ~Changing
    BY DEF IInv, Control, Changing, MainAt
  <2> QED
    BY <2>1, <2>2 DEF IInv, WorkerInv, NewestJob
<1> QED
  BY <1>1, Invariance, PTL

\* A thread without a virtual machine hashes only if it recorded sequence zero.
THEOREM HashesWithAMachine == SafeSpec => []NoHashWithoutVM
<1>1. IInv => NoHashWithoutVM
  BY DEF IInv, WorkerInv, Machine, NoHashWithoutVM
<1> QED
  BY <1>1, Invariance, PTL

-----------------------------------------------------------------------------
(* That the threads are put to use *)

\* The miner's job has its dataset, and the loop has been told
Served == job # NoJob /\ Ready(SeedOf[job]) /\ ~signal

\* Inside CpuBackend::setJob
InBackend == main.at \in {"cpu.setJob", "cpu.stop", "cpu.join", "cpu.start"}

\* What a handler has still to do before the threads it owes the job run unpaused
StopsForSetJob ==
  main.at \in {"stop.unpause", "stop.zero"} => main.back = "sj.assign"
RestartsThreads ==
  main.at \in {"cpu.stop", "cpu.join"} /\ main.back # "sj.assign" =>
    (main.start <=> Wanted # NoThreads)
ThreadsAreWanted ==
  /\ main.at \in {"hjc.touch", "hjc.unpause"} => threads = Wanted
  /\ main.at \in {"idle", "se.pause", "touch"} /\ Served => unapplied \/ threads = Wanted
UnpausedIfServed ==
  /\ main.at \in {"idle", "touch"} \/ (main.back = "idle" /\ InBackend)
  /\ Served /\ active /\ enabled
  => (paused => Exhaustion)

Uses ==
  "stop" \notin Events =>
    StopsForSetJob /\ RestartsThreads /\ ThreadsAreWanted /\ UnpausedIfServed

\* The setJob, pause, setEnabled and config handlers begin.
LEMMA EventUses ==
  ASSUME IInv, Uses, Event
  PROVE  Uses'
<1> SUFFICES ASSUME "stop" \notin Events
             PROVE  (StopsForSetJob /\ RestartsThreads /\ ThreadsAreWanted /\ UnpausedIfServed)'
  BY DEF Uses
<1> USE DEF Uses, StopsForSetJob, RestartsThreads, ThreadsAreWanted, UnpausedIfServed, InBackend,
            Served, Ready, Wanted, TakeEvent, MainAt, MainGo, dsVars
<1>1. main \in MainType
  BY DEF IInv, TypeOK
<1>2. main.at = "idle" => main.back = "idle"
  BY DEF IInv, Control
<1>3. ASSUME NEW j \in Jobs, SetJob(j) PROVE Uses'
  BY <1>1, <1>2, <1>3 DEF SetJob, MainType
<1>4. CASE Pause
  BY <1>1, <1>2, <1>4 DEF Pause, MainType
<1>5. CASE SetEnabled
  BY <1>1, <1>2, <1>5 DEF SetEnabled, MainType
<1>6. ASSUME NEW c \in Profiles \union {Disabled}, ConfigChanged(c) PROVE Uses'
  BY <1>1, <1>2, <1>6 DEF ConfigChanged, MainType
<1>7. ~Stop
  BY DEF Stop
<1> QED
  BY <1>3, <1>4, <1>5, <1>6, <1>7 DEF Event

\* The rest of setJob and of handleJobChange, pause and setEnabled.
LEMMA HandlerUses ==
  ASSUME IInv, Uses,
         SetJobPause \/ SetJobTouch \/ SetJobAssign \/ SetJobEnqueue \/ HandlePause \/ HandleTouch
         \/ HandleUnpause \/ OnDatasetReady \/ SetEnabledPause \/ LastTouch
  PROVE  Uses'
<1> SUFFICES ASSUME "stop" \notin Events
             PROVE  (StopsForSetJob /\ RestartsThreads /\ ThreadsAreWanted /\ UnpausedIfServed)'
  BY DEF Uses
<1> USE DEF Uses, StopsForSetJob, RestartsThreads, ThreadsAreWanted, UnpausedIfServed, InBackend,
            Served, Ready, Wanted, MainAt, MainGo, dsVars
<1>1. main \in MainType
  BY DEF IInv, TypeOK
<1>2. Control /\ ArgIsJob
  BY DEF IInv
<1>3. CASE SetJobPause \/ SetJobTouch
  BY <1>1, <1>2, <1>3 DEF SetJobPause, SetJobTouch, Control, MainType
<1>4. CASE SetJobAssign
  BY <1>1, <1>2, <1>4 DEF SetJobAssign, Control, MainType
<1>5. CASE SetJobEnqueue
  BY <1>1, <1>2, <1>5 DEF SetJobEnqueue, Request, Control, MainType
<1>6. CASE HandlePause
  BY <1>1, <1>2, <1>6 DEF HandlePause, Control, MainType
<1>7. CASE HandleTouch
  BY <1>1, <1>2, <1>7 DEF HandleTouch, Control, MainType
<1>8. CASE HandleUnpause
  BY <1>1, <1>2, <1>8 DEF HandleUnpause, UnpauseIfAllowed, Control, MainType
<1>9. CASE OnDatasetReady
  BY <1>1, <1>2, <1>9 DEF OnDatasetReady, Deliver, Control, MainType
<1>10. CASE SetEnabledPause
  BY <1>1, <1>2, <1>10 DEF SetEnabledPause, Control, MainType
<1>11. CASE LastTouch
  BY <1>1, <1>2, <1>11 DEF LastTouch, Control, MainType
<1> QED
  BY <1>3, <1>4, <1>5, <1>6, <1>7, <1>8, <1>9, <1>10, <1>11

\* CpuBackend::setJob and stop: who is stopped is started again with what is wanted.
LEMMA BackendUses ==
  ASSUME IInv, Uses, CpuSetJob \/ CpuStop \/ CpuJoin \/ CpuStart \/ StopUnpause \/ StopZero
  PROVE  Uses'
<1> SUFFICES ASSUME "stop" \notin Events
             PROVE  (StopsForSetJob /\ RestartsThreads /\ ThreadsAreWanted /\ UnpausedIfServed)'
  BY DEF Uses
<1> USE DEF Uses, StopsForSetJob, RestartsThreads, ThreadsAreWanted, UnpausedIfServed, InBackend,
            Served, Ready, MainAt, MainGo, dsVars
<1>1. main \in MainType
  BY DEF IInv, TypeOK
<1>2. Control
  BY DEF IInv
<1>3. UNCHANGED <<job, config, active, enabled>> => Wanted' = Wanted
  BY DEF Wanted
<1>4. CASE CpuSetJob
  BY <1>1, <1>2, <1>3, <1>4 DEF CpuSetJob, Control, MainType, Running
<1>5. CASE CpuStop
  BY <1>1, <1>2, <1>3, <1>5 DEF CpuStop, AfterStop, Control, MainType, Running
<1>6. CASE CpuJoin
  BY <1>1, <1>2, <1>3, <1>6 DEF CpuJoin, AfterStop, Control, MainType
<1>7. CASE CpuStart
  BY <1>1, <1>2, <1>3, <1>7 DEF CpuStart, Control, MainType
<1>8. CASE StopUnpause
  BY <1>1, <1>2, <1>3, <1>8 DEF StopUnpause, Control, MainType
<1>9. CASE StopZero
  BY <1>1, <1>2, <1>3, <1>9 DEF StopZero, Control, MainType
<1> QED
  BY <1>4, <1>5, <1>6, <1>7, <1>8, <1>9

\* A thread changes what the loop relies on only when it pauses for want of nonces.
LEMMA ThreadUses ==
  ASSUME Uses, NEW w \in Workers, WorkerStep(w)
  PROVE  Uses'
<1>1. OthersSame /\ (paused' = paused \/ Exhaustion)
  BY DEF WorkerStep, Loop, Gate, WakeUp, Awake, ConsumeCheck, ConsumeCopy, ConsumeAdd, Allocate,
         AllocateWait, Inner, Hash, Bottom
<1> QED
  BY <1>1, EventAssumption DEF OthersSame, minerVars, dsVars, Uses, StopsForSetJob, RestartsThreads,
     ThreadsAreWanted, UnpausedIfServed, InBackend, Served, Ready, Wanted

\* The dataset's thread ends a request with a signal.
LEMMA DatasetUses ==
  ASSUME Uses, DatasetStep
  PROVE  Uses'
<1>1. UNCHANGED <<minerVars, paused>> /\ UNCHANGED wanted
  BY DEF DatasetStep, ServeStep, Rewrite, Written, Complete
<1>2. phase' = "IDLE" => signal'
  BY DEF DatasetStep, ServeStep, Rewrite, Written, Complete
<1> QED
  BY <1>1, <1>2 DEF minerVars, Uses, StopsForSetJob, RestartsThreads, ThreadsAreWanted,
     UnpausedIfServed, InBackend, Served, Ready, Wanted

LEMMA StepUses ==
  ASSUME IInv, Uses, [Next]_vars
  PROVE  Uses'
<1>1. CASE UNCHANGED vars
  BY <1>1 DEF vars, minerVars, dsVars, Uses, StopsForSetJob, RestartsThreads, ThreadsAreWanted,
     UnpausedIfServed, InBackend, Served, Ready, Wanted
<1> QED
  BY <1>1, EventUses, HandlerUses, BackendUses, ThreadUses, DatasetUses
     DEF Next, MainStep, Quiet

\* Between handlers, with a pool, enabled and with the dataset of the job ready, the
\* threads are paused only for want of nonces, and are those of the configuration for
\* the job's algorithm: the converse of MiningOnlyWhenAllowed. The exception is a
\* configuration that came together with other pools: Miner::onConfigChanged returns
\* before the backend sees it, and threads of the one before mine on until the next job.
MinesWhenItCan ==
  "stop" \notin Events =>
    (MainAt("idle") /\ active /\ enabled /\ Served =>
       (unapplied \/ threads = Wanted) /\ (paused => Exhaustion))

\* No order of jobs, lost pools, pauses, changes of the configuration and finished
\* datasets leaves the miner idle, or without the threads it was told of, while it may
\* mine (Miner::setJob, pause, setEnabled, onConfigChanged and onDatasetReady): the
\* safety under NewJobReachesThreads.
THEOREM MinesWhenAllowed == SafeSpec => []MinesWhenItCan
<1>1. Init => Uses
  BY DEF Init, DSInit, Uses, StopsForSetJob, RestartsThreads, ThreadsAreWanted, UnpausedIfServed,
         InBackend, Served, Ready
<1>2. SafeSpec => []Uses
  BY <1>1, Invariance, StepUses, PTL DEF SafeSpec
<1>3. Uses => MinesWhenItCan
  BY DEF Uses, ThreadsAreWanted, UnpausedIfServed, MinesWhenItCan, MainAt
<1> QED
  BY <1>2, <1>3, PTL

-----------------------------------------------------------------------------
(* The dataset service *)

\* Every step of the loop, of a thread and of the dataset's thread is one that
\* DatasetService has, or leaves the service alone.
LEMMA ServiceStep ==
  ASSUME IInv, [Next]_vars
  PROVE  [DSNext]_dsVars
<1>1. CASE Event
  BY <1>1 DEF Event, SetJob, Stop, Pause, SetEnabled, ConfigChanged
<1>2. CASE SetJobEnqueue
  <2>1. SeedOf[main.arg] \in Seeds
    BY <1>2, JobTypes DEF SetJobEnqueue, MainAt, IInv, ArgIsJob
  <2> QED
    BY <1>2, <2>1 DEF SetJobEnqueue, DSNext
<1>3. CASE OnDatasetReady
  BY <1>3 DEF OnDatasetReady, DSNext
<1>4. CASE SetJobPause \/ SetJobTouch \/ SetJobAssign \/ HandlePause \/ HandleTouch \/ HandleUnpause
  BY <1>4 DEF SetJobPause, SetJobTouch, SetJobAssign, HandlePause, HandleTouch, HandleUnpause
<1>5. CASE CpuSetJob \/ CpuStop \/ CpuJoin \/ CpuStart
  BY <1>5 DEF CpuSetJob, CpuStop, CpuJoin, CpuStart
<1>6. CASE StopUnpause \/ StopZero \/ SetEnabledPause \/ LastTouch
  BY <1>6 DEF StopUnpause, StopZero, SetEnabledPause, LastTouch
<1>7. ASSUME NEW w \in Workers, WorkerStep(w) PROVE UNCHANGED dsVars
  BY <1>7 DEF WorkerStep, Loop, Gate, WakeUp, Awake, ConsumeCheck, ConsumeCopy, ConsumeAdd, Allocate,
     AllocateWait, Inner, Hash, Bottom, OthersSame
<1>8. CASE DatasetStep
  BY <1>8 DEF DatasetStep, ServeStep, DSNext
<1>9. CASE UNCHANGED vars
  BY <1>9 DEF vars
<1> QED
  BY <1>1, <1>2, <1>3, <1>4, <1>5, <1>6, <1>7, <1>8, <1>9 DEF Next, MainStep, Quiet

\* The miner and its threads use the dataset queue as DatasetService has it, which the
\* queue implements (RxQueue_proofs): what holds of the service holds of the miner's.
THEOREM UsesTheService == SafeSpec => DSSpec
<1>1. Init => DSInit
  BY DEF Init
<1> QED
  BY <1>1, Invariance, ServiceStep, PTL DEF SafeSpec, DSSpec

\* A seed that is ready (RxQueue::isReady) has its whole dataset in the memory: it is
\* rewritten only while a request is pending, and the newest one ends it.
ReadyIsAvailable == \A s \in Seeds : Ready(s) => Available(s)

\* The service gives out the dataset that was asked for last or none (RxQueue::dataset),
\* however requests, rewriting and signals interleave.
THEOREM ServesTheNewest == DSSpec => []ReadyIsAvailable
<1> DEFINE Kept == phase = "IDLE" => content \in {wanted, NoSeed}
<1>1. DSInit => Kept
  BY DEF DSInit
<1>2. ASSUME Kept, [DSNext]_dsVars PROVE Kept'
  BY <1>2 DEF DSNext, dsVars, Request, Rewrite, Written, Complete, Deliver, Shutdown
<1>3. Kept => ReadyIsAvailable
  BY DEF ReadyIsAvailable, Ready, Available
<1> QED
  BY <1>1, <1>2, <1>3, PTL DEF DSSpec
=============================================================================
