------------------------------- MODULE Nonces -------------------------------
(***************************************************************************)
(* Who hashes which nonces: Nonce::next and reset (Nonce.cpp), the two     *)
(* slots of a thread's WorkerJob (WorkerJob.h; slot 0 is the user's, slot  *)
(* 1 the donation's) and the choice of Miner's `reset` (Miner.cpp).        *)
(*                                                                         *)
(* When a thread looks for a job is the subject of Mining; here it may at  *)
(* any moment. A nonce is its part under the mask, so that a range is an   *)
(* interval of numbers. One thread has one way: a thread with N ways draws *)
(* N times what one thread draws.                                          *)
(***************************************************************************)
EXTENDS Integers

CONSTANTS Workers,
          Jobs, NoJob,    \* NoJob: a default Job
          DonateJobs,     \* the jobs of the donation's pool
          Ids, IdOf,      \* Job::id
          Blobs, BlobOf,  \* what is hashed, but for the nonce
          Mask,           \* Job::nonceMask
          Reserve,        \* kReserveCount: nonces of one draw
          Low,            \* 2^32: nextRound adds to the low half of a nonce
          MaxEvents,      \* bound of the model: jobs and restarts
          MaxCounter      \* bound of the model: nonces drawn from one counter

\* Job ids stand for one blob, and the donation's blobs are not the user's
ASSUME JobAssumption ==
  /\ NoJob \notin Jobs /\ NoJob \notin Ids /\ DonateJobs \subseteq Jobs
  /\ IdOf \in [Jobs -> Ids] /\ BlobOf \in [Jobs -> Blobs]
  /\ \A j, k \in Jobs : IdOf[j] = IdOf[k] => BlobOf[j] = BlobOf[k]
  /\ \A j \in DonateJobs, k \in Jobs \ DonateJobs : BlobOf[j] # BlobOf[k]

\* A mask holds one draw, and covers the low half or is within it
ASSUME NumberAssumption ==
  /\ Reserve \in Nat \ {0} /\ Low \in Nat /\ Low >= Reserve
  /\ Mask \in [Jobs -> Nat]
  /\ \A j \in Jobs : Mask[j] >= Reserve - 1 /\ (Mask[j] < Low \/ Mask[j] % Low = Low - 1)
  /\ MaxEvents \in Nat /\ MaxCounter \in Nat

Slots     == {0, 1}
SlotOf(j) == IF j \in DonateJobs THEN 1 ELSE 0

VARIABLES
  main,      \* the event loop: "idle", or "handle" before handleJobChange
  job,       \* MinerPrivate::job
  userJobId, \* MinerPrivate::userJobId
  reset,     \* MinerPrivate::reset
  signal,    \* a dataset was asked for and its onDatasetReady has not come yet
  nonces,    \* Nonce::m_nonces
  workers,   \* each thread's WorkerJob, see NewWorker
  latest,    \* history: the last job of each slot
  goesOn,    \* history: the last job goes on with the nonces of its slot
  spoilt,    \* history: the counter was, or will be, reset although some thread has
             \* a range for the job of this slot
  drained,   \* history: a draw for the job of this slot found no nonces
  raised,    \* history: a draw from this counter called Nonce::pause(true)
  events     \* jobs and restarts, for the bound

history  == <<latest, goesOn, spoilt, drained, raised>>
mainVars == <<main, job, userJobId, reset, signal, events>>
vars     == <<mainVars, nonces, workers, history>>

AnyJob == Jobs \union {NoJob}

\* What a thread knows of one slot: m_jobs, the nonce in its blob, m_rounds modulo
\* Reserve, and (history) whether the nonce is of a range that was drawn and is not used up.
NoWork     == [job |-> NoJob, nonce |-> 0, rounds |-> 0, drawn |-> FALSE]
WorkType   == [job : AnyJob, nonce : Nat, rounds : 0..(Reserve - 1), drawn : BOOLEAN]
NewWorker  == [at |-> "run", copy |-> NoJob, index |-> 0, slot |-> [i \in Slots |-> NoWork]]
WorkerType == [at : {"run", "add", "draw"}, copy : AnyJob, index : Slots, slot : [Slots -> WorkType]]

\* Variables hold values of their types.
TypeOK ==
  /\ main \in {"idle", "handle"}
  /\ job \in AnyJob /\ userJobId \in Ids \union {NoJob}
  /\ reset \in BOOLEAN /\ signal \in BOOLEAN
  /\ nonces \in [Slots -> Nat]
  /\ workers \in [Workers -> WorkerType]
  /\ latest \in [Slots -> AnyJob]
  /\ goesOn \in BOOLEAN
  /\ spoilt \in [Slots -> BOOLEAN] /\ drained \in [Slots -> BOOLEAN] /\ raised \in [Slots -> BOOLEAN]
  /\ events \in 0..MaxEvents

Init ==
  /\ main = "idle"
  /\ job = NoJob /\ userJobId = NoJob
  /\ reset = TRUE /\ signal = FALSE
  /\ nonces = [i \in Slots |-> 0]
  /\ workers = [w \in Workers |-> NewWorker]
  /\ latest = [i \in Slots |-> NoJob]
  /\ goesOn = FALSE
  /\ spoilt = [i \in Slots |-> FALSE]
  /\ drained = [i \in Slots |-> FALSE]
  /\ raised = [i \in Slots |-> FALSE]
  /\ events = 0

Holds(w, i, j) == workers[w].slot[i].job # NoJob /\ BlobOf[workers[w].slot[i].job] = BlobOf[j]

-----------------------------------------------------------------------------
(* The event loop *)

EqualBlob(j) == job # NoJob /\ BlobOf[job] = BlobOf[j]

FreshUnlessEqual(j) == ~EqualBlob(j)

\* Not after the donation, when the user's job goes on, and not for the same blob
FreshJob(j) ==
  /\ ~(job \in DonateJobs /\ j \notin DonateJobs /\ userJobId = IdOf[j])
  /\ ~EqualBlob(j)

\* What that is for: a job that goes on with the nonces its slot has, because its
\* blob is the one before it, or the user's job of before a donation
GoesOn(j) ==
  LET l == latest[SlotOf(j)]
  IN l # NoJob /\ BlobOf[l] = BlobOf[j] /\ (job = l \/ (SlotOf(j) = 0 /\ IdOf[l] = IdOf[j]))

Taken(i, j) == \E w \in Workers : Holds(w, i, j)

\* Miner::setJob under its mutex; ready says whether the dataset is
SetJob(j, ready) ==
  LET i == SlotOf(j)
      r == FreshJob(j) \/ ~ready
  IN /\ main = "idle" /\ events < MaxEvents
     /\ events' = events + 1
     /\ job' = j
     /\ userJobId' = IF j \in DonateJobs THEN userJobId ELSE IdOf[j]
     /\ reset' = r
     /\ signal' = (signal \/ ~ready)
     /\ main' = IF ready THEN "handle" ELSE "idle"
     /\ latest' = [latest EXCEPT ![i] = j]
     /\ goesOn' = (GoesOn(j) /\ ready)
     /\ spoilt' = [spoilt EXCEPT ![i] = IF GoesOn(j) THEN @ \/ ~ready ELSE Taken(i, j)]
     /\ drained' = [drained EXCEPT ![i] = @ /\ GoesOn(j)]
     /\ UNCHANGED <<nonces, workers, raised>>

\* handleJobChange: Nonce::reset
HandleJobChange ==
  LET i == SlotOf(job)
  IN /\ main = "handle"
     /\ main' = "idle"
     /\ IF reset
          THEN /\ nonces' = [nonces EXCEPT ![i] = 0]
               /\ spoilt' = [spoilt EXCEPT ![i] = IF goesOn THEN @ ELSE Taken(i, job)]
               /\ drained' = [drained EXCEPT ![i] = FALSE]
               /\ raised' = [raised EXCEPT ![i] = FALSE]
          ELSE UNCHANGED <<nonces, spoilt, drained, raised>>
     /\ UNCHANGED <<job, userJobId, reset, signal, workers, latest, goesOn, events>>

\* onDatasetReady, which calls handleJobChange again for the job there is
OnDatasetReady ==
  /\ main = "idle" /\ signal
  /\ signal' = FALSE
  /\ main' = "handle"
  /\ UNCHANGED <<job, userJobId, reset, nonces, workers, history, events>>

\* The backend stops its threads and starts others
Restart ==
  /\ main = "idle" /\ events < MaxEvents
  /\ events' = events + 1
  /\ workers' = [w \in Workers |-> NewWorker]
  /\ UNCHANGED <<main, job, userJobId, reset, signal, nonces, history>>

-----------------------------------------------------------------------------
(* A thread *)

Current(w) == workers[w].slot[workers[w].index]

\* consumeJob: the copy of Miner's job (one of the job the thread has changes nothing)
Copy(w) ==
  /\ workers[w].at = "run" /\ job \notin {NoJob, Current(w).job}
  /\ workers' = [workers EXCEPT ![w].at = "add", ![w].copy = job]
  /\ UNCHANGED <<mainVars, nonces, history>>

\* Other work in the slot the thread is at
WithWork(r, p, s) == [r EXCEPT !.at = p, !.slot = [@ EXCEPT ![r.index] = s]]

\* WorkerJob::save, up to Nonce::next
SaveOnly(r, j) == WithWork([r EXCEPT !.index = SlotOf(j)], "run", [NoWork EXCEPT !.job = j])
Save(r, j)     == WithWork([r EXCEPT !.index = SlotOf(j)], "draw", [NoWork EXCEPT !.job = j])

\* WorkerJob::add: nothing for the same job, back to the user's job after a donation
Added(r, j) ==
  IF r.slot[r.index].job = j THEN [r EXCEPT !.at = "run"]
  ELSE IF r.index = 1 /\ SlotOf(j) = 0 /\ r.slot[0].job = j THEN [r EXCEPT !.at = "run", !.index = 0]
  ELSE Save(r, j)

Add(w) ==
  /\ workers[w].at = "add"
  /\ workers' = [workers EXCEPT ![w] = [Added(workers[w], workers[w].copy) EXCEPT !.copy = NoJob]]
  /\ UNCHANGED <<mainVars, nonces, history>>

WithinRange(s) == s.rounds + 1 < Reserve

\* WorkerJob::nextRound: the next nonce, or a new range
NextRound(w) ==
  LET i == workers[w].index
      s == Current(w)
  IN /\ workers[w].at = "run" /\ s.job # NoJob
     /\ nonces[i] < MaxCounter
     /\ workers' = [workers EXCEPT ![w] =
          IF WithinRange(s)
            THEN WithWork(@, "run", [s EXCEPT !.rounds = @ + 1, !.nonce = @ + 1])
            ELSE WithWork(@, "draw", [s EXCEPT !.rounds = 0, !.drawn = FALSE])]
     /\ UNCHANGED <<mainVars, nonces, history>>

\* Nonce::next for the range that starts at c under mask m
Last(c, m)  == m - c <= Reserve - 1
Fails(c, m) == m < c \/ m - c < Reserve - 1

Pauses(c, m) == c <= m /\ Last(c, m)

RetriesNot(c, m) == FALSE
Retries(c, m)    == ~Last(c, m) /\ Low - 1 - (c % Low) < Reserve - 1

\* One fetch_add and what follows. A draw that fails leaves the nonce of the blob, or
\* of the range used up: save ignores it, nextRound ends the round.
Draw(w) ==
  LET i == workers[w].index
      c == nonces[i]
      m == Mask[Current(w).job]
  IN /\ workers[w].at = "draw"
     /\ nonces' = [nonces EXCEPT ![i] = c + Reserve]
     /\ raised' = [raised EXCEPT ![i] = @ \/ Pauses(c, m)]
     /\ drained' = [drained EXCEPT ![i] = @ \/ (Fails(c, m) /\ Holds(w, i, latest[i]))]
     /\ workers' = [workers EXCEPT ![w] =
          IF Fails(c, m) THEN [@ EXCEPT !.at = "run"]
          ELSE IF Retries(c, m) THEN @
          ELSE WithWork(@, "run", [Current(w) EXCEPT !.nonce = c, !.drawn = TRUE])]
     /\ UNCHANGED <<mainVars, latest, goesOn, spoilt>>

Quiet ==
  /\ main = "idle" /\ ~signal /\ events = MaxEvents
  /\ \A w \in Workers : workers[w].at = "run"
  /\ UNCHANGED vars

Next ==
  \/ \E j \in Jobs, ready \in BOOLEAN : SetJob(j, ready)
  \/ HandleJobChange \/ OnDatasetReady \/ Restart
  \/ \E w \in Workers : Copy(w) \/ Add(w) \/ NextRound(w) \/ Draw(w)
  \/ Quiet

Spec == Init /\ [][Next]_vars

-----------------------------------------------------------------------------
(* Properties *)

\* The range the nonce of thread w in slot i belongs to, if it was drawn
Has(w, i)   == workers[w].slot[i].drawn /\ Holds(w, i, latest[i])
First(w, i) == workers[w].slot[i].nonce - workers[w].slot[i].rounds
Final(w, i) == First(w, i) + Reserve - 1

\* No two threads have nonces of one range for the newest job of a slot, whether the
\* job came anew, kept its blob, or was taken up again after a donation or a restart.
\* Where this ends: the counter was reset under a thread that already had a range for
\* the job (a thread that took the job between setJob and the reset; a dataset's late
\* signal; a job whose dataset had to be made again).
RangesDisjoint ==
  \A i \in Slots : ~spoilt[i] =>
    \A w, v \in Workers : w # v /\ Has(w, i) /\ Has(v, i) =>
      Final(w, i) < First(v, i) \/ Final(v, i) < First(w, i)

\* A range that was drawn is within the mask, and adding to the low half of its first
\* nonce walks through it without a carry.
RangesFit ==
  \A w \in Workers, i \in Slots : workers[w].slot[i].drawn =>
    /\ First(w, i) >= 0
    /\ Final(w, i) <= Mask[workers[w].slot[i].job]
    /\ (First(w, i) % Low) + Reserve <= Low

\* Whoever finds no nonces for the newest job, the miner has been paused before, so
\* that threads do not go on with ranges used up (if the slot's masks are all alike).
SameMask == \A j, k \in Jobs : SlotOf(j) = SlotOf(k) => Mask[j] = Mask[k]

DrainedIsPaused == SameMask => \A i \in Slots : drained[i] => raised[i]

\* Unless nonces ran out or the counter was reset under it, a thread that hashes the
\* newest job of its slot has drawn its nonces: it never hashes what the blob came with.
HashesDrawnNonces ==
  \A w \in Workers :
    LET i == workers[w].index
    IN workers[w].at = "run" /\ Holds(w, i, latest[i]) /\ ~drained[i] /\ ~spoilt[i] => workers[w].slot[i].drawn
=============================================================================
