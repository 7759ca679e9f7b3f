--------------------------- MODULE RxQueue_proofs ---------------------------
(***************************************************************************)
(* Proofs about RxQueue for every set of seeds and every number of         *)
(* requests: its invariants, and that its steps are steps of               *)
(* DatasetService.                                                         *)
(***************************************************************************)
EXTENDS RxQueue, TLAPS

Working == {"setSeed", "create", "fill", "relock"}

\* The thread works only on what was requested, and nobody calls the state idle
\* meanwhile.
WorkingInv ==
  bg.at \in Working => bg.item \in Seeds /\ m_state # "IDLE"

\* How far the storage's initialization got, by the place of the thread in it.
StorageInv ==
  /\ bg.at \in {"create", "fill", "relock"} => storage.seed = bg.item
  /\ bg.at = "create" => ~storage.dataset /\ ~storage.ready
  /\ bg.at = "fill" => storage.dataset /\ ~storage.ready
  /\ bg.at \notin {"create", "fill"} => (storage.dataset <=> storage.ready)

\* An idle queue is empty, and what its storage holds is what m_seed names.
IdleInv ==
  m_state = "IDLE" => m_queue = <<>> /\ (storage.dataset => storage.seed = m_seed)

\* Where the event loop may be in each state.
LoopInv ==
  /\ loop.at = "enqueue" => loop.arg \in Seeds /\ requests < MaxRequests
  /\ loop.at \in {"dtorNotify", "join", "deleted"} <=> m_state = "SHUTDOWN"

\* NewestWins, CallbackSeesIdle and NoReaderWhileWriting's strengthening.
IInv ==
  /\ TypeOK
  /\ WorkingInv
  /\ StorageInv
  /\ IdleInv
  /\ LoopInv
  /\ NewestWins
  /\ CallbackSeesIdle

-----------------------------------------------------------------------------
(* Two facts about the end of a sequence of requests *)

LEMMA LastOfAppend ==
  ASSUME NEW q \in Seq(Seeds), NEW s \in Seeds
  PROVE  /\ Append(q, s) \in Seq(Seeds)
         /\ Append(q, s) # <<>>
         /\ Append(q, s)[Len(Append(q, s))] = s
  OBVIOUS

LEMMA LastIsSeed ==
  ASSUME NEW q \in Seq(Seeds), q # <<>>
  PROVE  q[Len(q)] \in Seeds
  OBVIOUS

-----------------------------------------------------------------------------
(* The invariant *)

LEMMA InitInv == Init => IInv
<1>. SUFFICES ASSUME Init PROVE IInv
  OBVIOUS
<1>1. m_queue \in Seq(Seeds) /\ requests \in 0..MaxRequests
  BY BoundAssumption DEF Init
<1>2. storage \in [made : BOOLEAN, dataset : BOOLEAN, ready : BOOLEAN, seed : AnySeed]
  BY DEF Init, NoStorage, AnySeed
<1>3. TypeOK
  BY <1>1, <1>2 DEF Init, TypeOK, AnySeed, BgPlaces, LoopPlaces
<1>4. WorkingInv /\ IdleInv /\ LoopInv /\ NewestWins /\ CallbackSeesIdle
  BY DEF Init, WorkingInv, IdleInv, LoopInv, NewestWins, CallbackSeesIdle, Working,
      NoStorage, LoopAt
<1>5. StorageInv
  BY DEF Init, StorageInv, NoStorage
<1>. QED BY <1>3, <1>4, <1>5 DEF IInv

LEMMA EnqueueInv ==
  ASSUME IInv, Enqueue
  PROVE  IInv'
<1>1. loop.arg \in Seeds /\ loop.at = "enqueue" /\ requests < MaxRequests
  BY DEF IInv, LoopInv, Enqueue, LoopAt
<1>2. CASE m_state = "PENDING" /\ m_seed = loop.arg
  <2>1. TypeOK'
    BY <1>1, <1>2 DEF IInv, TypeOK, Enqueue, LoopGo, LoopPlaces, AnySeed
  <2>2. WorkingInv' /\ StorageInv'
    BY <1>1, <1>2 DEF IInv, TypeOK, WorkingInv, StorageInv, Enqueue, LoopGo, Working
  <2>3. IdleInv' /\ LoopInv' /\ NewestWins' /\ CallbackSeesIdle'
    BY <1>1, <1>2 DEF IInv, TypeOK, IdleInv, LoopInv, NewestWins, CallbackSeesIdle, Enqueue, LoopAt, LoopGo, Working
  <2>. QED BY <2>1, <2>2, <2>3 DEF IInv
<1>3. CASE ~(m_state = "PENDING" /\ m_seed = loop.arg)
  <2>1. /\ m_queue' = Append(m_queue, loop.arg)
        /\ m_seed' = loop.arg
        /\ m_state' = "PENDING"
        /\ requests' = requests + 1
        /\ loop' = [loop EXCEPT !.at = "notify"]
        /\ storage' = [storage EXCEPT !.made = TRUE]
        /\ owed' = TRUE
        /\ UNCHANGED <<notified, signal, bg>>
    BY <1>3 DEF Enqueue, PushItem, LoopGo
  <2>2. /\ m_queue' \in Seq(Seeds)
        /\ m_queue' # <<>>
        /\ m_queue'[Len(m_queue')] = m_seed'
    BY <1>1, <2>1, LastOfAppend DEF IInv, TypeOK
  <2>3. requests' \in 0..MaxRequests
    BY <1>1, <2>1, BoundAssumption DEF IInv, TypeOK
  <2>. QED
    BY <1>1, <2>1, <2>2, <2>3 DEF IInv, TypeOK, WorkingInv, StorageInv, IdleInv, LoopInv,
      NewestWins, CallbackSeesIdle, LoopAt, Working, LoopPlaces, AnySeed
<1>. QED BY <1>2, <1>3

\* Taking the newest request keeps NewestWins: it becomes the thread's item.
LEMMA ProceedInv ==
  ASSUME IInv, bg.at \in {"lock", "waiting"}, m_state # "IDLE", BgProceed,
         notified' \in BOOLEAN,
         UNCHANGED <<m_state, m_seed, storage, signal, loop, requests, owed>>
  PROVE  IInv'
<1>1. CASE m_state = "PENDING"
  <2>1. m_queue # <<>> /\ m_queue[Len(m_queue)] = m_seed
    BY <1>1 DEF IInv, NewestWins
  <2>2. m_seed \in Seeds
    BY <2>1, LastIsSeed DEF IInv, TypeOK
  <2>3. bg' = [at |-> "setSeed", item |-> m_seed] /\ m_queue' = <<>>
    BY <1>1, <2>1 DEF BgProceed, TakeItem
  <2>4. m_queue' \in Seq(Seeds)
    BY <2>3
  <2>. QED
    BY <1>1, <2>2, <2>3, <2>4 DEF IInv, TypeOK, WorkingInv, StorageInv, IdleInv, LoopInv,
      NewestWins, CallbackSeesIdle, LoopAt, Working, BgPlaces, AnySeed
<1>2. CASE m_state # "PENDING"
  <2>1. bg' = [bg EXCEPT !.at = "check"] /\ m_queue' = m_queue
    BY <1>2 DEF BgProceed, BgGo
  <2>. QED
    BY <1>2, <2>1 DEF IInv, TypeOK, WorkingInv, StorageInv, IdleInv, LoopInv,
      NewestWins, CallbackSeesIdle, LoopAt, Working, BgPlaces
<1>. QED BY <1>1, <1>2

\* Waking up, for whatever reason.
LEMMA WokenUpInv ==
  ASSUME IInv, bg.at = "waiting", BgWokenUp
  PROVE  IInv'
<1>1. notified' \in BOOLEAN /\ UNCHANGED <<m_state, m_seed, storage, signal, loop, requests, owed>>
  BY DEF BgWokenUp
<1>2. CASE m_state = "IDLE"
  <2>1. UNCHANGED <<bg, m_queue>>
    BY <1>2 DEF BgWokenUp
  <2>. QED
    BY <1>1, <2>1 DEF IInv, TypeOK, WorkingInv, StorageInv, IdleInv, LoopInv,
      NewestWins, CallbackSeesIdle, LoopAt
<1>3. CASE m_state # "IDLE"
  <2>1. BgProceed
    BY <1>3 DEF BgWokenUp
  <2>. QED BY <1>1, <1>3, <2>1, ProceedInv
<1>. QED BY <1>2, <1>3

\* A step within the storage's initialization: what remains is its place in it.
LEMMA StorageStepInv ==
  ASSUME IInv, bg.at \in Working, bg'.at \in Working, bg' = [bg EXCEPT !.at = bg'.at],
         storage' \in [made : BOOLEAN, dataset : BOOLEAN, ready : BOOLEAN, seed : AnySeed],
         UNCHANGED <<m_state, m_seed, m_queue, notified, signal, loop, requests, owed>>,
         StorageInv'
  PROVE  IInv'
<1>1. bg.item \in Seeds /\ m_state # "IDLE" /\ bg' \in [at : BgPlaces, item : AnySeed] /\ bg'.item = bg.item
  BY DEF IInv, TypeOK, WorkingInv, Working, BgPlaces
<1>2. TypeOK'
  BY <1>1 DEF IInv, TypeOK
<1>3. WorkingInv' /\ IdleInv'
  BY <1>1 DEF WorkingInv, IdleInv
<1>4. LoopInv' /\ CallbackSeesIdle'
  BY DEF IInv, LoopInv, CallbackSeesIdle, LoopAt
<1>5. NewestWins'
  BY <1>1 DEF IInv, NewestWins, Working
<1>. QED BY <1>2, <1>3, <1>4, <1>5 DEF IInv

LEMMA SetSeedInv == IInv /\ BgSetSeed => IInv'
<1>. SUFFICES ASSUME IInv, BgSetSeed PROVE IInv'
  OBVIOUS
<1>1. /\ bg.at = "setSeed" /\ bg.item \in Seeds
      /\ storage \in [made : BOOLEAN, dataset : BOOLEAN, ready : BOOLEAN, seed : AnySeed]
      /\ bg \in [at : BgPlaces, item : AnySeed]
  BY DEF IInv, TypeOK, WorkingInv, Working, BgSetSeed, BgAt
<1>2. /\ bg' = [bg EXCEPT !.at = IF storage.dataset THEN "fill" ELSE "create"]
      /\ storage' = [storage EXCEPT !.ready = FALSE, !.seed = bg.item]
      /\ UNCHANGED <<m_state, m_seed, m_queue, notified, signal, loop, requests, owed>>
  BY DEF BgSetSeed, BgGo
<1>3. /\ bg'.at \in {"fill", "create"} /\ (bg'.at = "fill" <=> storage.dataset) /\ bg'.item = bg.item
      /\ bg' = [bg EXCEPT !.at = bg'.at]
  BY <1>1, <1>2
<1>4. /\ storage' \in [made : BOOLEAN, dataset : BOOLEAN, ready : BOOLEAN, seed : AnySeed]
      /\ storage'.seed = bg.item /\ ~storage'.ready /\ storage'.dataset = storage.dataset
  BY <1>1, <1>2 DEF AnySeed
<1>5. StorageInv'
  BY <1>3, <1>4 DEF StorageInv
<1>. QED BY <1>1, <1>2, <1>3, <1>4, <1>5, StorageStepInv DEF Working

LEMMA CreateInv == IInv /\ BgCreate => IInv'
<1>. SUFFICES ASSUME IInv, BgCreate PROVE IInv'
  OBVIOUS
<1>1. /\ bg.at = "create" /\ storage.seed = bg.item /\ ~storage.dataset /\ ~storage.ready
      /\ storage \in [made : BOOLEAN, dataset : BOOLEAN, ready : BOOLEAN, seed : AnySeed]
      /\ bg \in [at : BgPlaces, item : AnySeed]
  BY DEF IInv, TypeOK, StorageInv, BgCreate, BgAt
<1>2. UNCHANGED <<m_state, m_seed, m_queue, notified, signal, loop, requests, owed>>
  BY DEF BgCreate
<1>3. CASE storage' = [storage EXCEPT !.dataset = TRUE] /\ BgGo("fill")
  <2>1. /\ bg' = [bg EXCEPT !.at = bg'.at] /\ bg'.at = "fill" /\ bg'.item = bg.item
        /\ storage' \in [made : BOOLEAN, dataset : BOOLEAN, ready : BOOLEAN, seed : AnySeed]
        /\ storage'.dataset /\ ~storage'.ready /\ storage'.seed = bg.item
    BY <1>1, <1>3 DEF BgGo
  <2>2. StorageInv'
    BY <2>1 DEF StorageInv
  <2>. QED BY <1>1, <1>2, <2>1, <2>2, StorageStepInv DEF Working
<1>4. CASE BgGo("relock") /\ UNCHANGED storage
  <2>1. bg' = [bg EXCEPT !.at = bg'.at] /\ bg'.at = "relock" /\ bg'.item = bg.item
    BY <1>1, <1>4 DEF BgGo
  <2>2. StorageInv'
    BY <1>1, <1>4, <2>1 DEF StorageInv
  <2>. QED BY <1>1, <1>2, <1>4, <2>1, <2>2, StorageStepInv DEF Working
<1>. QED BY <1>3, <1>4 DEF BgCreate

LEMMA FillInv == IInv /\ BgFill => IInv'
<1>. SUFFICES ASSUME IInv, BgFill PROVE IInv'
  OBVIOUS
<1>1. /\ bg.at = "fill" /\ storage.seed = bg.item /\ storage.dataset
      /\ storage \in [made : BOOLEAN, dataset : BOOLEAN, ready : BOOLEAN, seed : AnySeed]
      /\ bg \in [at : BgPlaces, item : AnySeed]
  BY DEF IInv, TypeOK, StorageInv, BgFill, BgAt
<1>2. /\ bg' = [bg EXCEPT !.at = "relock"] /\ storage' = [storage EXCEPT !.ready = TRUE]
      /\ UNCHANGED <<m_state, m_seed, m_queue, notified, signal, loop, requests, owed>>
  BY DEF BgFill, BgGo
<1>3. bg'.at = "relock" /\ bg'.item = bg.item
  BY <1>1, <1>2
<1>4. /\ storage' \in [made : BOOLEAN, dataset : BOOLEAN, ready : BOOLEAN, seed : AnySeed]
      /\ storage'.dataset /\ storage'.ready /\ storage'.seed = bg.item
  BY <1>1, <1>2
<1>5. StorageInv'
  BY <1>3, <1>4 DEF StorageInv
<1>. QED BY <1>1, <1>2, <1>3, <1>4, <1>5, StorageStepInv DEF Working

\* The thread is done with its item, which is the newest request if there is no newer one.
LEMMA RelockInv == IInv /\ BgRelock => IInv'
<1>. SUFFICES ASSUME IInv, BgRelock PROVE IInv'
  OBVIOUS
<1>1. /\ bg.at = "relock" /\ bg.item \in Seeds /\ m_state # "IDLE"
      /\ storage.seed = bg.item /\ (storage.dataset <=> storage.ready)
      /\ bg \in [at : BgPlaces, item : AnySeed]
  BY DEF IInv, TypeOK, WorkingInv, StorageInv, Working, BgRelock, BgAt
<1>2. /\ bg' = [bg EXCEPT !.at = "check"]
      /\ UNCHANGED <<m_queue, storage, notified, loop, requests, owed>>
  BY DEF BgRelock, BgGo
<1>3. bg'.at = "check" /\ bg' \in [at : BgPlaces, item : AnySeed]
  BY <1>1, <1>2 DEF BgPlaces
<1>4. WorkingInv' /\ StorageInv'
  BY <1>1, <1>2, <1>3 DEF WorkingInv, StorageInv, Working
<1>5. CASE NothingNewer
  <2>1. /\ m_state = "PENDING" /\ m_queue = <<>> /\ m_state' = "IDLE" /\ m_seed' = bg.item /\ signal' = TRUE
    BY <1>1, <1>5 DEF BgRelock, NothingNewer, IInv, TypeOK
  <2>2. TypeOK'
    BY <1>1, <1>2, <1>3, <2>1 DEF IInv, TypeOK, AnySeed
  <2>3. IdleInv' /\ NewestWins' /\ CallbackSeesIdle'
    BY <1>1, <1>2, <2>1 DEF IdleInv, NewestWins, CallbackSeesIdle
  <2>4. LoopInv'
    BY <1>2, <2>1 DEF IInv, LoopInv
  <2>. QED BY <1>4, <2>2, <2>3, <2>4 DEF IInv
<1>6. CASE ~NothingNewer
  <2>1. UNCHANGED <<m_seed, m_state, signal>> /\ (m_state = "PENDING" => m_queue # <<>>)
    BY <1>6 DEF BgRelock, NothingNewer
  <2>2. TypeOK'
    BY <1>2, <1>3, <2>1 DEF IInv, TypeOK
  <2>3. IdleInv' /\ LoopInv'
    BY <1>1, <1>2, <2>1 DEF IInv, IdleInv, LoopInv
  <2>4. NewestWins' /\ CallbackSeesIdle'
    BY <1>2, <2>1 DEF IInv, NewestWins, CallbackSeesIdle, LoopAt
  <2>. QED BY <1>4, <2>2, <2>3, <2>4 DEF IInv
<1>. QED BY <1>5, <1>6

LEMMA StepInv == IInv /\ [Next]_vars => IInv'
<1>. SUFFICES ASSUME IInv, [Next]_vars PROVE IInv'
  OBVIOUS
<1>. USE DEF IInv, TypeOK, WorkingInv, StorageInv, IdleInv, LoopInv, NewestWins,
             CallbackSeesIdle, LoopAt
<1>1. ASSUME NEW s \in Seeds, RxInit(s) PROVE IInv'
  BY <1>1 DEF RxInit, LoopPlaces, AnySeed
<1>2. CASE Enqueue
  BY <1>2, EnqueueInv
<1>3. CASE EnqueueNotify
  BY <1>3 DEF EnqueueNotify, NotifyOne, LoopGo, LoopPlaces
<1>4. CASE OnReady
  BY <1>4 DEF OnReady, LoopGo, LoopPlaces
<1>5. CASE OnReadyCallback
  BY <1>5 DEF OnReadyCallback, LoopGo, LoopPlaces
<1>6. CASE DtorLock
  BY <1>6 DEF DtorLock, LoopGo, LoopPlaces, Working
<1>7. CASE DtorNotify
  BY <1>7 DEF DtorNotify, NotifyOne, LoopGo, LoopPlaces
<1>8. CASE DtorJoin
  BY <1>8 DEF DtorJoin, LoopGo, LoopPlaces
<1>9. CASE BgCheck
  BY <1>9 DEF BgCheck, BgAt, BgGo, BgPlaces, Working
<1>10. CASE BgLock
  <2>1. CASE m_state = "IDLE"
    BY <1>10, <2>1 DEF BgLock, BgAt, BgGo, BgPlaces, Working
  <2>2. CASE m_state # "IDLE"
    BY <1>10, <2>2, ProceedInv DEF BgLock, BgAt
  <2>. QED BY <2>1, <2>2
<1>11. CASE BgWake \/ BgSpuriousWake
  BY <1>11, WokenUpInv DEF BgWake, BgSpuriousWake, BgAt
<1>12. CASE BgSetSeed
  BY <1>12, SetSeedInv
<1>13. CASE BgCreate
  BY <1>13, CreateInv
<1>14. CASE BgFill
  BY <1>14, FillInv
<1>15. CASE BgRelock
  BY <1>15, RelockInv
<1>16. CASE UNCHANGED vars
  BY <1>16 DEF vars
<1>. QED
  BY <1>1, <1>2, <1>3, <1>4, <1>5, <1>6, <1>7, <1>8, <1>9, <1>10, <1>11, <1>12, <1>13,
     <1>14, <1>15, <1>16
  DEF Next, LoopStep, BgStep, Terminated

LEMMA InvHolds == Spec => []IInv
<1>1. Init => IInv
  BY InitInv
<1>2. IInv /\ [Next]_vars => IInv'
  BY StepInv
<1>. QED BY <1>1, <1>2, PTL DEF Spec

-----------------------------------------------------------------------------
(* The theorems *)

\* Variables keep their types.
THEOREM TypeCorrect == Spec => []TypeOK
<1>1. IInv => TypeOK
  BY DEF IInv
<1>. QED BY <1>1, InvHolds, PTL

\* A seed that Rx::isReady calls ready has its dataset: IdleInv names the seed of
\* the storage, and StorageInv says that it is initialized.
THEOREM ReadySeedIsUsable == Spec => []ReadyIsUsable
<1>1. IInv => ReadyIsUsable
  BY DEF IInv, TypeOK, WorkingInv, StorageInv, IdleInv, ReadyIsUsable, IsReady, HasDataset,
         Working
<1>. QED BY <1>1, InvHolds, PTL

\* The newest of the pending requests is the one the queue ends on.
THEOREM NewestRequestWins == Spec => []NewestWins
<1>1. IInv => NewestWins
  BY DEF IInv
<1>. QED BY <1>1, InvHolds, PTL

\* The memory is rewritten only while no seed is ready.
THEOREM NobodyReadsWhileWriting == Spec => []NoReaderWhileWriting
<1>1. IInv => NoReaderWhileWriting
  BY DEF IInv, WorkingInv, Working, NoReaderWhileWriting, IsReady
<1>. QED BY <1>1, InvHolds, PTL

\* The listener hears of a dataset only while the queue is idle: OnReady tests the
\* state under the mutex, and nobody but the event loop itself ends the idle state.
THEOREM CallbackFindsIdle == Spec => []CallbackSeesIdle
<1>1. IInv => CallbackSeesIdle
  BY DEF IInv
<1>. QED BY <1>1, InvHolds, PTL

-----------------------------------------------------------------------------
(* The safety under RequestAnswered and DestructorEnds *)

\* A thread that waits for what has come already was notified, or is about to be
WakeUpIsToCome ==
  bg.at = "waiting" /\ m_state # "IDLE" => notified \/ loop.at \in {"notify", "dtorNotify"}

\* A request that was not answered is still pending, or its answer is on the way
AnswerIsToCome ==
  owed => m_state # "IDLE" \/ signal \/ loop.at = "callback"

LEMMA WakeUpStep == IInv /\ WakeUpIsToCome /\ [Next]_vars => WakeUpIsToCome'
<1>. SUFFICES ASSUME IInv, WakeUpIsToCome, [Next]_vars PROVE WakeUpIsToCome'
  OBVIOUS
<1>. USE DEF IInv, TypeOK, WakeUpIsToCome, LoopAt, BgAt
<1>1. ASSUME NEW s \in Seeds, RxInit(s) PROVE WakeUpIsToCome'
  BY <1>1 DEF RxInit
<1>2. CASE Enqueue
  BY <1>2 DEF Enqueue, PushItem, LoopGo
<1>3. CASE EnqueueNotify \/ DtorNotify
  BY <1>3 DEF EnqueueNotify, DtorNotify, NotifyOne, LoopGo
<1>4. CASE OnReady \/ OnReadyCallback \/ DtorJoin
  BY <1>4 DEF OnReady, OnReadyCallback, DtorJoin
<1>5. CASE DtorLock
  BY <1>5 DEF DtorLock, LoopGo
<1>6. CASE BgLock
  <2>1. bg'.at # "waiting" \/ m_state' = "IDLE"
    BY <1>6 DEF BgLock, BgProceed, TakeItem, BgGo
  <2>. QED BY <2>1
<1>7. CASE BgWake \/ BgSpuriousWake
  <2>1. bg'.at # "waiting" \/ m_state' = "IDLE"
    BY <1>7 DEF BgWake, BgSpuriousWake, BgWokenUp, BgProceed, TakeItem, BgGo
  <2>. QED BY <2>1
<1>8. CASE BgCheck \/ BgSetSeed \/ BgCreate \/ BgFill \/ BgRelock
  <2>1. bg'.at # "waiting"
    BY <1>8 DEF BgCheck, BgSetSeed, BgCreate, BgFill, BgRelock, BgGo
  <2>. QED BY <2>1
<1>9. CASE UNCHANGED vars
  BY <1>9 DEF vars
<1>. QED
  BY <1>1, <1>2, <1>3, <1>4, <1>5, <1>6, <1>7, <1>8, <1>9 DEF Next, LoopStep, BgStep, Terminated

\* No wake-up is lost, though notify_one comes after the unlock and is lost unless the thread
\* waits, and the thread may go to wait between the two.
THEOREM NoWakeUpIsLost == Spec => []WakeUpIsToCome
<1>1. Init => WakeUpIsToCome
  BY DEF Init, WakeUpIsToCome
<1>. QED BY <1>1, WakeUpStep, InvHolds, PTL DEF Spec

LEMMA AnswerStep == IInv /\ AnswerIsToCome /\ [Next]_vars => AnswerIsToCome'
<1>. SUFFICES ASSUME IInv, AnswerIsToCome, [Next]_vars PROVE AnswerIsToCome'
  OBVIOUS
<1>. USE DEF IInv, TypeOK, AnswerIsToCome, LoopAt
<1>1. ASSUME NEW s \in Seeds, RxInit(s) PROVE AnswerIsToCome'
  BY <1>1 DEF RxInit
<1>2. CASE Enqueue
  BY <1>2 DEF Enqueue, PushItem
<1>3. CASE OnReady
  BY <1>3 DEF OnReady, LoopGo
<1>4. CASE OnReadyCallback
  BY <1>4 DEF OnReadyCallback
<1>5. CASE DtorLock
  BY <1>5 DEF DtorLock
<1>6. CASE EnqueueNotify \/ DtorNotify \/ DtorJoin
  BY <1>6 DEF EnqueueNotify, DtorNotify, DtorJoin, LoopGo
<1>7. CASE BgRelock
  BY <1>7 DEF BgRelock
<1>8. CASE BgCheck \/ BgLock \/ BgWake \/ BgSpuriousWake \/ BgSetSeed \/ BgCreate \/ BgFill
  <2>1. UNCHANGED <<owed, m_state, signal, loop>>
    BY <1>8 DEF BgCheck, BgLock, BgWake, BgSpuriousWake, BgWokenUp, BgSetSeed, BgCreate, BgFill
  <2>. QED BY <2>1
<1>9. CASE UNCHANGED vars
  BY <1>9 DEF vars
<1>. QED
  BY <1>1, <1>2, <1>3, <1>4, <1>5, <1>6, <1>7, <1>8, <1>9 DEF Next, LoopStep, BgStep, Terminated

\* No answer is lost: the listener that waits for onDatasetReady has a request that is pending, a
\* signal that was sent or a callback that runs, though a newer request can come between them.
THEOREM NoAnswerIsLost == Spec => []AnswerIsToCome
<1>1. Init => AnswerIsToCome
  BY DEF Init, AnswerIsToCome
<1>. QED BY <1>1, AnswerStep, InvHolds, PTL DEF Spec

-----------------------------------------------------------------------------
(* RxQueue implements DatasetService *)

LEMMA InitImplements == Init => Abstract!DSInit
  BY DEF Init, NoStorage, Content, Abstract!DSInit

LEMMA StepImplements == IInv /\ [Next]_vars => [Abstract!DSNext]_(Abstract!dsVars)
<1>. SUFFICES ASSUME IInv, [Next]_vars
              PROVE  Abstract!DSNext \/ UNCHANGED Abstract!dsVars
  OBVIOUS
<1>. USE DEF Content, Abstract!dsVars
<1>1. ASSUME NEW s \in Seeds, RxInit(s) PROVE UNCHANGED Abstract!dsVars
  BY <1>1 DEF RxInit
<1>2. CASE Enqueue
  <2>1. loop.arg \in Seeds /\ m_state # "SHUTDOWN"
    BY <1>2 DEF IInv, LoopInv, Enqueue, LoopAt
  <2>2. UNCHANGED <<Content, signal>>
    BY <1>2 DEF Enqueue, IInv, TypeOK
  <2>3. Abstract!Request(loop.arg)
    BY <1>2, <2>1, <2>2 DEF Enqueue, PushItem, Abstract!Request
  <2>. QED BY <2>1, <2>3 DEF Abstract!DSNext
<1>3. CASE OnReady
  BY <1>3 DEF OnReady, Abstract!Deliver, Abstract!DSNext
<1>4. CASE DtorLock
  BY <1>4 DEF DtorLock, Abstract!Shutdown, Abstract!DSNext
<1>5. CASE EnqueueNotify \/ OnReadyCallback \/ DtorNotify \/ DtorJoin
  BY <1>5 DEF EnqueueNotify, OnReadyCallback, DtorNotify, DtorJoin
<1>6. CASE BgCheck
  BY <1>6 DEF BgCheck
<1>7. CASE BgLock
  BY <1>7 DEF BgLock
<1>8. CASE BgWake \/ BgSpuriousWake
  BY <1>8 DEF BgWake, BgSpuriousWake, BgWokenUp
<1>9. CASE BgSetSeed
  <2>1. m_state # "IDLE" /\ (storage.dataset <=> storage.ready)
    BY <1>9 DEF IInv, WorkingInv, StorageInv, Working, BgSetSeed, BgAt
  <2>2. /\ Content' = IF storage.dataset THEN Rewriting ELSE NoSeed
        /\ UNCHANGED <<m_state, m_seed, signal>>
    BY <1>9 DEF IInv, TypeOK, BgSetSeed
  <2>3. CASE storage.dataset
    BY <2>1, <2>2, <2>3 DEF Abstract!Rewrite, Abstract!DSNext
  <2>4. CASE ~storage.dataset
    BY <2>2, <2>4
  <2>. QED BY <2>3, <2>4
<1>10. CASE BgCreate
  <2>1. m_state # "IDLE" /\ ~storage.dataset /\ ~storage.ready
    BY <1>10 DEF IInv, WorkingInv, StorageInv, Working, BgCreate, BgAt
  <2>2. Content' \in {NoSeed, Rewriting} /\ UNCHANGED <<m_state, m_seed, signal>>
    BY <1>10, <2>1 DEF IInv, TypeOK, BgCreate
  <2>. QED BY <2>1, <2>2 DEF Abstract!Rewrite, Abstract!DSNext
<1>11. CASE BgFill
  <2>1. /\ m_state # "IDLE" /\ bg.item \in Seeds
        /\ storage.dataset /\ ~storage.ready /\ storage.seed = bg.item
    BY <1>11 DEF IInv, WorkingInv, StorageInv, Working, BgFill, BgAt
  <2>2. Content' = bg.item /\ UNCHANGED <<m_state, m_seed, signal>>
    BY <1>11, <2>1 DEF IInv, TypeOK, BgFill
  <2>3. Abstract!Written(bg.item)
    BY <2>1, <2>2 DEF Abstract!Written
  <2>. QED BY <2>1, <2>3 DEF Abstract!DSNext
<1>12. CASE BgRelock
  <2>1. /\ bg.at = "relock" /\ m_state # "IDLE"
        /\ storage.seed = bg.item /\ (storage.dataset <=> storage.ready)
    BY <1>12 DEF IInv, WorkingInv, StorageInv, Working, BgRelock, BgAt
  <2>2. CASE NothingNewer
    <3>1. m_state = "PENDING" /\ m_seed = bg.item
      BY <2>1, <2>2 DEF NothingNewer, IInv, TypeOK, NewestWins
    <3>2. Content \in {m_seed, NoSeed}
      BY <2>1, <3>1
    <3>3. /\ m_state' = "IDLE" /\ signal' = TRUE
          /\ UNCHANGED <<m_seed, Content>>
      BY <1>12, <2>2, <3>1 DEF BgRelock
    <3>. QED BY <3>1, <3>2, <3>3 DEF Abstract!Complete, Abstract!DSNext
  <2>3. CASE ~NothingNewer
    BY <1>12, <2>3 DEF BgRelock
  <2>. QED BY <2>2, <2>3
<1>13. CASE UNCHANGED vars
  BY <1>13 DEF vars
<1>. QED
  BY <1>1, <1>2, <1>3, <1>4, <1>5, <1>6, <1>7, <1>8, <1>9, <1>10, <1>11, <1>12, <1>13
  DEF Next, LoopStep, BgStep, Terminated

\* The queue does what DatasetService promises, whatever the interleaving.
THEOREM QueueImplements == Spec => Implements
<1>1. Init => Abstract!DSInit
  BY InitImplements
<1>2. IInv /\ [Next]_vars => [Abstract!DSNext]_(Abstract!dsVars)
  BY StepImplements
<1>. QED BY <1>1, <1>2, InvHolds, PTL DEF Spec, Implements, Abstract!DSSpec
=============================================================================
