--------------------------- MODULE Nonces_proofs ---------------------------
(***************************************************************************)
(* Proofs about Nonces for any number of threads and jobs, any masks,      *)
(* any size of a draw and of the low half.                                 *)
(***************************************************************************)
EXTENDS Nonces, TLAPS

\* What holds of every thread's WorkerJob: its jobs are in their slots, and a range
\* that was drawn fits.
Fits(s) ==
  /\ s.nonce - s.rounds >= 0
  /\ s.nonce - s.rounds + Reserve - 1 <= Mask[s.job]
  /\ ((s.nonce - s.rounds) % Low) + Reserve <= Low

SlotOK(s, i) ==
  /\ s.job # NoJob => SlotOf(s.job) = i
  /\ s.drawn => s.job # NoJob /\ Fits(s)

WorkerOK(r) ==
  /\ r.at = "add" => r.copy # NoJob
  /\ r.at = "draw" => r.slot[r.index].job # NoJob /\ r.slot[r.index].rounds = 0
  /\ \A i \in Slots : SlotOK(r.slot[i], i)

\* The newest job and the newest job of each slot; a job that goes on resets nothing.
JobInv ==
  /\ main = "handle" \/ signal => job # NoJob
  /\ job # NoJob => latest[SlotOf(job)] = job
  /\ \A i \in Slots : latest[i] # NoJob => job # NoJob /\ SlotOf(latest[i]) = i
  /\ latest[0] # NoJob => userJobId = IdOf[latest[0]]
  /\ reset => ~goesOn

\* A range that a thread has for the newest job was drawn from this counter, and no
\* two threads have the same.
RangeInv ==
  \A i \in Slots : ~spoilt[i] =>
    \A w \in Workers : Has(w, i) =>
      /\ Final(w, i) < nonces[i]
      /\ \A v \in Workers : w # v /\ Has(v, i) =>
           Final(w, i) < First(v, i) \/ Final(v, i) < First(w, i)

\* A thread that has the newest job has drawn for it, or is about to.
DrawInv ==
  \A i \in Slots : ~spoilt[i] /\ ~drained[i] =>
    \A w \in Workers : Holds(w, i, latest[i]) =>
      workers[w].slot[i].drawn \/ (workers[w].at = "draw" /\ workers[w].index = i)

\* A counter past a mask has paused the miner.
PauseInv ==
  SameMask => \A i \in Slots :
    /\ drained[i] => raised[i]
    /\ \A j \in Jobs : SlotOf(j) = i /\ nonces[i] > Mask[j] => raised[i]

IInv ==
  /\ TypeOK
  /\ \A w \in Workers : WorkerOK(workers[w])
  /\ JobInv
  /\ RangeInv
  /\ DrawInv
  /\ PauseInv

-----------------------------------------------------------------------------
(* Division *)

LEMMA Remainder ==
  ASSUME NEW x \in Int, NEW q \in Int, NEW r \in 0..(Low - 1), x = Low * q + r
  PROVE  x % Low = r
<1> DEFINE d == x \div Low
           e == x % Low
<1>1. Low \in Nat /\ Low > 0
  BY NumberAssumption
<1>2. d \in Int /\ e \in 0..(Low - 1) /\ x = Low * d + e
  BY <1>1
<1> HIDE DEF d, e
<1>3. PICK k \in Int : k = q - d
  BY <1>2
<1>4. Low * k = e - r
  <2>1. Low * q = Low * k + Low * d
    BY <1>1, <1>2, <1>3
  <2> QED BY <2>1, <1>1, <1>2
<1>5. ~(k >= 1)
  <2>1. k >= 1 => Low * k >= Low
    BY <1>1, <1>3
  <2> QED BY <2>1, <1>1, <1>2, <1>4
<1>6. ~(k <= -1)
  <2>1. k <= -1 => Low * k <= -Low
    BY <1>1, <1>3
  <2> QED BY <2>1, <1>1, <1>2, <1>4
<1> QED BY <1>1, <1>2, <1>3, <1>4, <1>5, <1>6 DEF e

LEMMA EndOfBlock ==
  ASSUME NEW m \in Nat, m % Low = Low - 1, m >= Reserve - 1
  PROVE  (m - (Reserve - 1)) % Low = Low - Reserve
<1> DEFINE q == m \div Low
<1>1. q \in Int /\ m = Low * q + (Low - 1)
  BY NumberAssumption
<1> HIDE DEF q
<1>2. m - (Reserve - 1) = Low * q + (Low - Reserve)
  BY <1>1, NumberAssumption
<1>3. Low - Reserve \in 0..(Low - 1) /\ m - (Reserve - 1) \in Int
  BY NumberAssumption
<1> QED BY <1>1, <1>2, <1>3, Remainder

\* The range of a draw that succeeds at c fits: the last range under a mask does because
\* the mask ends where a low half ends.
LEMMA DrawFits ==
  ASSUME NEW c \in Nat, NEW j \in Jobs, ~Fails(c, Mask[j]), ~Retries(c, Mask[j])
  PROVE  c + Reserve - 1 <= Mask[j] /\ (c % Low) + Reserve <= Low
<1> DEFINE m == Mask[j]
           e == c % Low
<1>1. m \in Nat /\ Low \in Nat /\ Low > 0 /\ Reserve \in Nat \ {0} /\ Reserve <= Low
  BY NumberAssumption
<1>2. e \in 0..(Low - 1)
  BY <1>1
<1>3. m < Low \/ m % Low = Low - 1
  BY NumberAssumption
<1>4. ~(m < c) /\ ~(m - c < Reserve - 1)
  BY DEF Fails
<1>5. m - c <= Reserve - 1 \/ ~(Low - 1 - e < Reserve - 1)
  BY DEF Retries, Last
<1>6. ASSUME m - c <= Reserve - 1, m < Low PROVE e = c
  <2>1. c = Low * 0 + c /\ c \in 0..(Low - 1)
    BY <1>1, <1>4, <1>6
  <2> QED BY <2>1, Remainder, <1>1
<1>7. ASSUME m - c <= Reserve - 1, m % Low = Low - 1 PROVE e = Low - Reserve
  <2>1. c = m - (Reserve - 1) /\ m >= Reserve - 1
    BY <1>1, <1>4, <1>7
  <2> QED BY <2>1, <1>1, <1>7, EndOfBlock
<1> SUFFICES c + Reserve - 1 <= m /\ e + Reserve <= Low
  OBVIOUS
<1> HIDE DEF m, e
<1> QED BY <1>1, <1>2, <1>3, <1>4, <1>5, <1>6, <1>7

-----------------------------------------------------------------------------
(* The invariant *)

LEMMA SlotsOfJobs == \A j : SlotOf(j) \in Slots
  BY DEF SlotOf, Slots

LEMMA InitInv == Init => IInv
<1> SUFFICES ASSUME Init PROVE IInv
  OBVIOUS
<1> USE DEF Init, NewWorker, NoWork, Slots
<1>1. TypeOK
  <2>1. NewWorker \in WorkerType
    <3>1. 0 \in 0..(Reserve - 1)
      BY NumberAssumption
    <3> QED BY <3>1 DEF WorkerType, WorkType, AnyJob
  <2>2. 0 \in 0..MaxEvents
    BY NumberAssumption
  <2> QED BY <2>1, <2>2 DEF TypeOK, AnyJob
<1>2. \A w \in Workers : WorkerOK(workers[w])
  BY DEF WorkerOK, SlotOK
<1>3. JobInv
  BY DEF JobInv
<1>4. RangeInv
  BY DEF RangeInv, Has
<1>5. DrawInv
  BY DEF DrawInv, Holds
<1>6. PauseInv
  BY NumberAssumption DEF PauseInv
<1> QED BY <1>1, <1>2, <1>3, <1>4, <1>5, <1>6 DEF IInv

\* What TypeOK says of one thread.
LEMMA WorkerFacts ==
  ASSUME IInv, NEW w \in Workers
  PROVE  /\ workers[w] \in WorkerType
         /\ workers[w].slot \in [Slots -> WorkType]
         /\ workers[w].index \in Slots
         /\ Current(w) \in WorkType
         /\ WorkerOK(workers[w])
<1>1. workers[w] \in WorkerType /\ WorkerOK(workers[w])
  BY DEF IInv, TypeOK
<1> QED BY <1>1 DEF WorkerType, Current

\* An intended fresh job and the code's reset are the same.
LEMMA FreshDoesNotGoOn ==
  ASSUME IInv, NEW j \in Jobs, FreshJob(j)
  PROVE  ~GoesOn(j)
<1> SUFFICES ASSUME GoesOn(j) PROVE FALSE
  OBVIOUS
<1> DEFINE l == latest[SlotOf(j)]
<1>1. l \in Jobs /\ BlobOf[l] = BlobOf[j] /\ job # NoJob /\ SlotOf(l) = SlotOf(j)
  BY SlotsOfJobs DEF GoesOn, IInv, TypeOK, AnyJob, JobInv
<1>2. CASE job = l
  BY <1>1, <1>2 DEF FreshJob, EqualBlob
<1>3. CASE SlotOf(j) = 0 /\ IdOf[l] = IdOf[j]
  <2>1. userJobId = IdOf[j]
    BY <1>1, <1>3, JobAssumption DEF IInv, JobInv
  <2>2. j \notin DonateJobs
    BY <1>3 DEF SlotOf
  <2>3. job \notin DonateJobs
    BY <2>1, <2>2 DEF FreshJob
  <2>4. job = l
    BY <1>1, <1>3, <2>3 DEF IInv, JobInv, SlotOf
  <2> QED BY <1>2, <2>4
<1> QED BY <1>2, <1>3 DEF GoesOn

LEMMA SetJobStep ==
  ASSUME IInv, NEW j \in Jobs, NEW ready \in BOOLEAN, SetJob(j, ready)
  PROVE  IInv'
<1> DEFINE i == SlotOf(j)
<1>1. i \in Slots
  BY SlotsOfJobs
<1>2. TypeOK'
  <2>1. job' \in AnyJob /\ userJobId' \in Ids \union {NoJob} /\ latest' \in [Slots -> AnyJob]
    BY <1>1, JobAssumption DEF SetJob, IInv, TypeOK, AnyJob
  <2>2. spoilt' \in [Slots -> BOOLEAN] /\ drained' \in [Slots -> BOOLEAN]
    <3> DEFINE b == IF GoesOn(j) THEN spoilt[i] \/ ~ready ELSE Taken(i, j)
               c == drained[i] /\ GoesOn(j)
    <3>1. b \in BOOLEAN /\ c \in BOOLEAN
      BY DEF Taken
    <3>2. spoilt' = [spoilt EXCEPT ![i] = b] /\ drained' = [drained EXCEPT ![i] = c]
      BY DEF SetJob
    <3> HIDE DEF b, c
    <3> QED BY <1>1, <3>1, <3>2 DEF IInv, TypeOK
  <2>3. main' \in {"idle", "handle"} /\ reset' \in BOOLEAN /\ signal' \in BOOLEAN /\ goesOn' \in BOOLEAN
    BY DEF SetJob, IInv, TypeOK
  <2>4. events' \in 0..MaxEvents
    BY NumberAssumption DEF SetJob, IInv, TypeOK
  <2>5. UNCHANGED <<workers, nonces, raised>>
    BY DEF SetJob
  <2> QED BY <2>1, <2>2, <2>3, <2>4, <2>5 DEF IInv, TypeOK
<1>3. UNCHANGED <<workers, nonces, raised>>
  BY DEF SetJob
<1>4. \A w \in Workers : WorkerOK(workers[w])'
  BY <1>3 DEF IInv
<1>5. JobInv'
  <2>1. latest' = [latest EXCEPT ![i] = j] /\ job' = j
    BY DEF SetJob
  <2>2. latest'[i] = j /\ \A k \in Slots : k # i => latest'[k] = latest[k]
    BY <1>1, <2>1 DEF IInv, TypeOK
  <2>3. \A k \in Slots : latest'[k] # NoJob => SlotOf(latest'[k]) = k
    BY <2>2 DEF IInv, JobInv
  <2>4. latest'[0] # NoJob => userJobId' = IdOf[latest'[0]]
    <3>1. CASE j \in DonateJobs
      BY <2>2, <3>1 DEF SetJob, SlotOf, Slots, IInv, JobInv
    <3>2. CASE j \notin DonateJobs
      BY <2>2, <3>2 DEF SetJob, SlotOf
    <3> QED BY <3>1, <3>2
  <2>5. reset' => ~goesOn'
    BY FreshDoesNotGoOn DEF SetJob
  <2>6. j # NoJob
    BY JobAssumption
  <2> QED BY <2>1, <2>2, <2>3, <2>4, <2>5, <2>6 DEF JobInv
<1>6. ASSUME NEW k \in Slots, ~spoilt'[k]
      PROVE  /\ ~spoilt[k] \/ \A w \in Workers : ~Holds(w, k, latest[k])'
             /\ \A w \in Workers : Holds(w, k, latest[k])' => Holds(w, k, latest[k])
  <2>1. CASE k # i
    BY <1>1, <1>3, <1>6, <2>1 DEF SetJob, IInv, TypeOK, Holds
  <2>2. CASE k = i /\ GoesOn(j)
    BY <1>1, <1>3, <1>6, <2>2 DEF SetJob, IInv, TypeOK, Holds, GoesOn
  <2>3. CASE k = i /\ ~GoesOn(j)
    BY <1>1, <1>3, <1>6, <2>3 DEF SetJob, IInv, TypeOK, Holds, Taken
  <2> QED BY <2>1, <2>2, <2>3
<1>7. RangeInv'
  BY <1>3, <1>6 DEF IInv, RangeInv, Has, First, Final
<1>8. DrawInv'
  <2>1. ASSUME NEW k \in Slots, ~drained'[k]
        PROVE  ~drained[k] \/ (k = i /\ ~GoesOn(j))
    BY <1>1, <2>1 DEF SetJob, IInv, TypeOK
  <2>2. ~GoesOn(j) /\ ~spoilt'[i] => \A w \in Workers : ~Holds(w, i, latest[i])'
    BY <1>1, <1>3 DEF SetJob, IInv, TypeOK, Holds, Taken
  <2> QED BY <1>3, <1>6, <2>1, <2>2 DEF IInv, DrawInv
<1>9. PauseInv'
  <2>1. \A k \in Slots : drained'[k] => drained[k]
    BY <1>1 DEF SetJob, IInv, TypeOK
  <2> QED BY <1>3, <2>1 DEF IInv, PauseInv
<1> QED BY <1>2, <1>4, <1>5, <1>7, <1>8, <1>9 DEF IInv
\* A step that leaves the threads and the counters alone
LEMMA RangesStay ==
  ASSUME IInv, UNCHANGED <<nonces, workers, latest, spoilt, drained, raised>>
  PROVE  /\ \A w \in Workers : WorkerOK(workers[w])'
         /\ RangeInv' /\ DrawInv' /\ PauseInv'
<1>1. \A w \in Workers, i \in Slots :
        /\ Has(w, i)' <=> Has(w, i)
        /\ Holds(w, i, latest[i])' <=> Holds(w, i, latest[i])
        /\ First(w, i)' = First(w, i) /\ Final(w, i)' = Final(w, i)
  BY DEF Has, Holds, First, Final
<1>2. \A w \in Workers : WorkerOK(workers[w])'
  BY DEF IInv
<1>3. RangeInv'
  BY <1>1 DEF IInv, RangeInv
<1>4. DrawInv'
  BY <1>1 DEF IInv, DrawInv
<1>5. PauseInv'
  BY DEF IInv, PauseInv
<1> QED BY <1>2, <1>3, <1>4, <1>5


LEMMA HandleStep ==
  ASSUME IInv, HandleJobChange
  PROVE  IInv'
<1> DEFINE i == SlotOf(job)
<1>1. i \in Slots /\ job # NoJob /\ latest[i] = job
  BY SlotsOfJobs DEF HandleJobChange, IInv, JobInv
<1>2. TypeOK'
  <2>1. nonces' \in [Slots -> Nat]
    BY <1>1 DEF HandleJobChange, IInv, TypeOK
  <2>2. /\ spoilt' \in [Slots -> BOOLEAN]
        /\ drained' \in [Slots -> BOOLEAN]
        /\ raised' \in [Slots -> BOOLEAN]
    <3> DEFINE b == IF goesOn THEN spoilt[i] ELSE Taken(i, job)
    <3>1. b \in BOOLEAN
      BY <1>1 DEF Taken, IInv, TypeOK
    <3>2. /\ spoilt' = spoilt \/ spoilt' = [spoilt EXCEPT ![i] = b]
          /\ drained' = drained \/ drained' = [drained EXCEPT ![i] = FALSE]
          /\ raised' = raised \/ raised' = [raised EXCEPT ![i] = FALSE]
      BY DEF HandleJobChange
    <3> HIDE DEF b
    <3> QED BY <1>1, <3>1, <3>2 DEF IInv, TypeOK
  <2>3. main' \in {"idle", "handle"}
    BY DEF HandleJobChange
  <2>4. UNCHANGED <<job, userJobId, reset, signal, workers, latest, goesOn, events>>
    BY DEF HandleJobChange
  <2> QED BY <2>1, <2>2, <2>3, <2>4 DEF IInv, TypeOK
<1>3. UNCHANGED <<workers, latest, job>>
  BY DEF HandleJobChange
<1>4. \A w \in Workers : WorkerOK(workers[w])'
  BY <1>3 DEF IInv
<1>5. JobInv'
  BY DEF HandleJobChange, IInv, JobInv
<1>6. CASE ~reset
  <2>1. UNCHANGED <<nonces, spoilt, drained, raised>>
    BY <1>6 DEF HandleJobChange
  <2>2. RangeInv' /\ DrawInv' /\ PauseInv'
    BY <1>3, <2>1, RangesStay
  <2> QED BY <1>2, <1>4, <1>5, <2>2 DEF IInv
<1>7. CASE reset
  <2>1. /\ nonces' = [nonces EXCEPT ![i] = 0]
        /\ spoilt' = [spoilt EXCEPT ![i] = Taken(i, job)]
        /\ drained' = [drained EXCEPT ![i] = FALSE]
        /\ raised' = [raised EXCEPT ![i] = FALSE]
    BY <1>7 DEF HandleJobChange, IInv, JobInv
  <2>2. ASSUME NEW w \in Workers, ~spoilt'[i] PROVE ~Holds(w, i, latest[i])'
    <3>1. ~Taken(i, job)
      BY <1>1, <2>1, <2>2 DEF IInv, TypeOK
    <3> QED BY <1>1, <1>3, <3>1 DEF Holds, Taken
  <2>3. \A k \in Slots : k # i => UNCHANGED <<nonces[k], spoilt[k], drained[k], raised[k]>>
    BY <1>1, <2>1 DEF IInv, TypeOK
  <2>4. nonces'[i] = 0 /\ ~drained'[i]
    BY <1>1, <2>1 DEF IInv, TypeOK
  <2>5. RangeInv'
    <3> SUFFICES ASSUME NEW k \in Slots, ~spoilt'[k], NEW w \in Workers, Has(w, k)'
                 PROVE  /\ (Final(w, k) < nonces[k])'
                        /\ \A v \in Workers : w # v /\ Has(v, k)' =>
                             (Final(w, k) < First(v, k) \/ Final(v, k) < First(w, k))'
      BY DEF RangeInv
    <3>1. k # i
      BY <1>3, <2>2 DEF Has
    <3> QED BY <1>3, <2>3, <3>1 DEF IInv, RangeInv, Has, Holds, First, Final
  <2>6. DrawInv'
    <3> SUFFICES ASSUME NEW k \in Slots, ~spoilt'[k], ~drained'[k],
                        NEW w \in Workers, Holds(w, k, latest[k])'
                 PROVE  (workers[w].slot[k].drawn \/ (workers[w].at = "draw" /\ workers[w].index = k))'
      BY DEF DrawInv
    <3>1. k # i
      BY <1>3, <2>2
    <3> QED BY <1>3, <2>3, <3>1 DEF IInv, DrawInv, Holds
  <2>7. PauseInv'
    <3> SUFFICES ASSUME SameMask, NEW k \in Slots
                 PROVE  /\ drained'[k] => raised'[k]
                        /\ \A j \in Jobs : SlotOf(j) = k /\ nonces'[k] > Mask[j] => raised'[k]
      BY DEF PauseInv
    <3>1. CASE k = i
      BY <2>4, <3>1, NumberAssumption
    <3>2. CASE k # i
      BY <2>3, <3>2 DEF IInv, PauseInv
    <3> QED BY <3>1, <3>2
  <2> QED BY <1>2, <1>4, <1>5, <2>5, <2>6, <2>7 DEF IInv
<1> QED BY <1>6, <1>7

LEMMA ReadyStep ==
  ASSUME IInv, OnDatasetReady
  PROVE  IInv'
<1>1. UNCHANGED <<job, userJobId, reset, nonces, workers, latest, goesOn, spoilt, drained, raised, events>>
  BY DEF OnDatasetReady, history
<1>2. main' = "handle" /\ signal' = FALSE /\ job # NoJob
  BY DEF OnDatasetReady, IInv, JobInv
<1>4. TypeOK'
  BY <1>1, <1>2 DEF IInv, TypeOK
<1>5. JobInv'
  BY <1>1, <1>2 DEF IInv, JobInv
<1> QED BY <1>1, <1>4, <1>5, RangesStay DEF IInv

LEMMA RestartStep ==
  ASSUME IInv, Restart
  PROVE  IInv'
<1>1. UNCHANGED <<main, job, userJobId, reset, signal, nonces, latest, goesOn, spoilt, drained, raised>>
  BY DEF Restart, history
<1>2. \A w \in Workers : workers'[w] = NewWorker
  BY DEF Restart
<1>3. NewWorker \in WorkerType
  <2>1. 0 \in 0..(Reserve - 1)
    BY NumberAssumption
  <2> QED BY <2>1 DEF NewWorker, NoWork, WorkerType, WorkType, AnyJob, Slots
<1>4. events' \in 0..MaxEvents
  BY NumberAssumption DEF Restart, IInv, TypeOK
<1>5. TypeOK'
  BY <1>1, <1>3, <1>4 DEF Restart, IInv, TypeOK
<1>6. \A w \in Workers : WorkerOK(workers[w])'
  BY <1>2 DEF WorkerOK, SlotOK, NewWorker, NoWork
<1>7. JobInv' /\ PauseInv'
  BY <1>1 DEF IInv, JobInv, PauseInv
<1>8. \A w \in Workers, k \in Slots : ~Holds(w, k, latest[k])'
  BY <1>2 DEF Holds, NewWorker, NoWork
<1>9. RangeInv' /\ DrawInv'
  BY <1>8 DEF RangeInv, DrawInv, Has
<1> QED BY <1>5, <1>6, <1>7, <1>9 DEF IInv

-----------------------------------------------------------------------------
(* The steps of a thread *)

\* What another WorkerJob in a slot changes.
LEMMA WithWorkFacts ==
  ASSUME NEW o \in WorkerType, NEW n \in WorkType, NEW p \in {"run", "add", "draw"}
  PROVE  LET r == WithWork(o, p, n)
         IN /\ r \in WorkerType
            /\ r.at = p /\ r.index = o.index /\ r.copy = o.copy
            /\ r.slot[o.index] = n
            /\ \A k \in Slots : k # o.index => r.slot[k] = o.slot[k]
  BY DEF WithWork, WorkerType

\* A thread that keeps what it has drawn, or is about to draw, keeps the invariant.
Keeps(w, r) ==
  \A i \in Slots :
    LET s == workers[w].slot[i]
        t == r.slot[i]
    IN /\ t.drawn =>
            s.drawn /\ t.job = s.job /\ t.nonce - t.rounds = s.nonce - s.rounds
       /\ ~t.drawn => \/ t.job = s.job /\ ~s.drawn /\ (workers[w].at = "draw" => r.at = "draw" /\ r.index = workers[w].index)
                      \/ r.at = "draw" /\ r.index = i

LEMMA KeepsStep ==
  ASSUME IInv, NEW w \in Workers, NEW r \in WorkerType, WorkerOK(r), Keeps(w, r),
         workers' = [workers EXCEPT ![w] = r], UNCHANGED <<mainVars, nonces, history>>
  PROVE  IInv'
<1>1. UNCHANGED <<main, job, userJobId, reset, signal, events, nonces, latest, goesOn, spoilt, drained, raised>>
  BY DEF mainVars, history
<1>2. workers'[w] = r /\ \A v \in Workers : v # w => workers'[v] = workers[v]
  BY DEF IInv, TypeOK
<1>3. TypeOK'
  BY <1>1 DEF IInv, TypeOK
<1>4. \A v \in Workers : WorkerOK(workers[v])'
  BY <1>2 DEF IInv
<1>5. JobInv' /\ PauseInv'
  BY <1>1 DEF IInv, JobInv, PauseInv
<1>6. \A v \in Workers, i \in Slots : Has(v, i)' =>
        Has(v, i) /\ First(v, i)' = First(v, i) /\ Final(v, i)' = Final(v, i)
  <2> SUFFICES ASSUME NEW v \in Workers, NEW i \in Slots, Has(v, i)'
               PROVE  Has(v, i) /\ First(v, i)' = First(v, i)
    BY DEF Final
  <2>1. CASE v # w
    BY <1>1, <1>2, <2>1 DEF Has, Holds, First
  <2>2. CASE v = w
    BY <1>1, <1>2, <2>2 DEF Has, Holds, First, Keeps
  <2> QED BY <2>1, <2>2
<1>7. RangeInv'
  BY <1>1, <1>6 DEF IInv, RangeInv
<1>8. DrawInv'
  <2> SUFFICES ASSUME NEW i \in Slots, ~spoilt'[i], ~drained'[i],
                      NEW v \in Workers, Holds(v, i, latest[i])', ~workers'[v].slot[i].drawn
               PROVE  workers'[v].at = "draw" /\ workers'[v].index = i
    BY DEF DrawInv
  <2>1. CASE v # w
    BY <1>1, <1>2, <2>1 DEF IInv, DrawInv, Holds
  <2>2. CASE v = w
    BY <1>1, <1>2, <2>2 DEF IInv, DrawInv, Holds, Keeps
  <2> QED BY <2>1, <2>2
<1> QED BY <1>3, <1>4, <1>5, <1>7, <1>8 DEF IInv

LEMMA CopyStep ==
  ASSUME IInv, NEW w \in Workers, Copy(w)
  PROVE  IInv'
<1> DEFINE r == [workers[w] EXCEPT !.at = "add", !.copy = job]
<1>1. workers' = [workers EXCEPT ![w] = r]
  BY DEF Copy, IInv, TypeOK
<1>2. r \in WorkerType
  BY WorkerFacts DEF IInv, TypeOK, WorkerType
<1>3. WorkerOK(r)
  BY WorkerFacts DEF Copy, WorkerOK, WorkerType
<1>4. Keeps(w, r)
  BY WorkerFacts DEF Copy, Keeps, WorkerType
<1>5. UNCHANGED <<mainVars, nonces, history>>
  BY DEF Copy
<1> QED BY <1>1, <1>2, <1>3, <1>4, <1>5, KeepsStep

LEMMA AddStep ==
  ASSUME IInv, NEW w \in Workers, Add(w)
  PROVE  IInv'
<1> DEFINE o == workers[w]
           j == o.copy
           r == [Added(o, j) EXCEPT !.copy = NoJob]
<1>1. workers' = [workers EXCEPT ![w] = r] /\ o.at = "add" /\ UNCHANGED <<mainVars, nonces, history>>
  BY DEF Add
<1>2. o \in WorkerType /\ WorkerOK(o) /\ j \in Jobs
  BY <1>1, WorkerFacts DEF WorkerOK, WorkerType, AnyJob
<1>3. CASE Added(o, j) = [o EXCEPT !.at = "run"]
  <2>1. r \in WorkerType /\ WorkerOK(r) /\ Keeps(w, r)
    BY <1>1, <1>2, <1>3 DEF WorkerType, WorkerOK, Keeps, AnyJob
  <2> QED BY <1>1, <2>1, KeepsStep
<1>4. CASE Added(o, j) = [o EXCEPT !.at = "run", !.index = 0]
  <2>1. r \in WorkerType /\ WorkerOK(r) /\ Keeps(w, r)
    BY <1>1, <1>2, <1>4 DEF WorkerType, WorkerOK, Keeps, AnyJob, Slots
  <2> QED BY <1>1, <2>1, KeepsStep
<1>5. CASE Added(o, j) = Save(o, j)
  <2> DEFINE i == SlotOf(j)
             q == [o EXCEPT !.index = i]
             n == [NoWork EXCEPT !.job = j]
             u == WithWork(q, "draw", n)
  <2>1. i \in Slots /\ n \in WorkType /\ n.job = j /\ ~n.drawn /\ n.rounds = 0
    <3>1. 0 \in 0..(Reserve - 1)
      BY NumberAssumption
    <3> QED BY <1>2, <3>1, SlotsOfJobs DEF NoWork, WorkType, AnyJob
  <2>2. q \in WorkerType /\ q.index = i /\ q.slot = o.slot
    BY <1>2, <2>1 DEF WorkerType
  <2> HIDE DEF n, q
  <2>3. /\ u \in WorkerType /\ u.at = "draw" /\ u.index = i
        /\ u.slot[i] = n /\ \A k \in Slots : k # i => u.slot[k] = o.slot[k]
    BY <2>1, <2>2, WithWorkFacts
  <2>4. Added(o, j) = u
    BY <1>5 DEF Save, n, q
  <2> HIDE DEF u
  <2>5. r \in WorkerType /\ r.at = "draw" /\ r.index = i /\ r.slot = u.slot
    BY <2>3, <2>4 DEF WorkerType, AnyJob
  <2> HIDE DEF r
  <2>6. WorkerOK(r)
    BY <1>2, <2>1, <2>3, <2>5, JobAssumption DEF WorkerOK, SlotOK
  <2>7. Keeps(w, r)
    BY <1>1, <2>1, <2>3, <2>5 DEF Keeps
  <2> QED BY <1>1, <2>5, <2>6, <2>7, KeepsStep
<1> QED BY <1>3, <1>4, <1>5 DEF Added

LEMMA NextRoundStep ==
  ASSUME IInv, NEW w \in Workers, NextRound(w)
  PROVE  IInv'
<1> DEFINE o == workers[w]
           i == o.index
           s == o.slot[i]
<1>1. o.at = "run" /\ s.job # NoJob /\ UNCHANGED <<mainVars, nonces, history>>
  BY DEF NextRound, Current
<1>2. o \in WorkerType /\ WorkerOK(o) /\ i \in Slots /\ s \in WorkType
  BY WorkerFacts DEF WorkerType
<1>3. CASE WithinRange(s)
  <2> DEFINE n == [s EXCEPT !.rounds = @ + 1, !.nonce = @ + 1]
             r == WithWork(o, "run", n)
  <2>1. workers' = [workers EXCEPT ![w] = r]
    BY <1>3 DEF NextRound, Current
  <2>2. n \in WorkType /\ n.job = s.job /\ n.drawn = s.drawn /\ n.nonce - n.rounds = s.nonce - s.rounds
    <3>1. s.rounds + 1 \in 0..(Reserve - 1) /\ s.nonce + 1 \in Nat
      BY <1>2, <1>3, NumberAssumption DEF WithinRange, WorkType
    <3>2. /\ n.job = s.job /\ n.nonce = s.nonce + 1 /\ n.rounds = s.rounds + 1 /\ n.drawn = s.drawn
          /\ n = [job |-> n.job, nonce |-> n.nonce, rounds |-> n.rounds, drawn |-> n.drawn]
      <4> HIDE DEF o, i, s
      <4>1. /\ s = [job |-> s.job, nonce |-> s.nonce, rounds |-> s.rounds, drawn |-> s.drawn]
            /\ s.nonce \in Nat /\ s.rounds \in Int
        BY <1>2, NumberAssumption DEF WorkType
      <4>2. n = [[s EXCEPT !.rounds = s.rounds + 1] EXCEPT !.nonce = s.nonce + 1]
        BY <4>1
      <4> HIDE DEF n
      <4> QED BY <4>1, <4>2
    <3>3. s.job \in AnyJob /\ s.drawn \in BOOLEAN /\ s.nonce \in Nat /\ s.rounds \in Nat
      BY <1>2, NumberAssumption DEF WorkType
    <3> HIDE DEF n
    <3> QED BY <3>1, <3>2, <3>3 DEF WorkType
  <2> HIDE DEF n
  <2>3. /\ r \in WorkerType /\ r.at = "run" /\ r.index = i
        /\ r.slot[i] = n /\ \A k \in Slots : k # i => r.slot[k] = o.slot[k]
    <3> HIDE DEF o, i, s
    <3>1. o \in WorkerType /\ n \in WorkType /\ i = o.index
      BY <1>2, <2>2 DEF i
    <3> QED BY <3>1, WithWorkFacts
  <2> HIDE DEF r
  <2>4. WorkerOK(r)
    <3>1. SlotOK(n, i)
      BY <1>2, <2>2 DEF WorkerOK, SlotOK, Fits
    <3> QED BY <1>2, <2>3, <3>1 DEF WorkerOK
  <2>5. Keeps(w, r)
    BY <1>1, <2>2, <2>3 DEF Keeps
  <2> QED BY <1>1, <2>1, <2>3, <2>4, <2>5, KeepsStep
<1>4. CASE ~WithinRange(s)
  <2> DEFINE n == [s EXCEPT !.rounds = 0, !.drawn = FALSE]
             r == WithWork(o, "draw", n)
  <2>1. workers' = [workers EXCEPT ![w] = r]
    BY <1>4 DEF NextRound, Current
  <2>2. n \in WorkType /\ n.job = s.job /\ ~n.drawn /\ n.rounds = 0
    <3>1. 0 \in 0..(Reserve - 1)
      BY NumberAssumption
    <3> QED BY <1>2, <3>1 DEF WorkType
  <2> HIDE DEF n
  <2>3. /\ r \in WorkerType /\ r.at = "draw" /\ r.index = i
        /\ r.slot[i] = n /\ \A k \in Slots : k # i => r.slot[k] = o.slot[k]
    <3> HIDE DEF o, i, s
    <3>1. o \in WorkerType /\ n \in WorkType /\ i = o.index
      BY <1>2, <2>2 DEF i
    <3> QED BY <3>1, WithWorkFacts
  <2> HIDE DEF r
  <2>4. WorkerOK(r)
    <3>1. SlotOK(n, i)
      BY <1>2, <2>2 DEF WorkerOK, SlotOK
    <3> QED BY <1>1, <1>2, <2>2, <2>3, <3>1 DEF WorkerOK
  <2>5. Keeps(w, r)
    BY <1>1, <2>2, <2>3 DEF Keeps
  <2> QED BY <1>1, <2>1, <2>3, <2>4, <2>5, KeepsStep
<1> QED BY <1>3, <1>4

\* A draw: of what is drawn before, nothing changes but the counter and its flags.
LEMMA DrawStep ==
  ASSUME IInv, NEW w \in Workers, Draw(w)
  PROVE  IInv'
<1> DEFINE o == workers[w]
           i == o.index
           s == o.slot[i]
           c == nonces[i]
           m == Mask[s.job]
           n == [s EXCEPT !.nonce = c, !.drawn = TRUE]
           r == WithWork(o, "run", n)
<1>1. o.at = "draw" /\ UNCHANGED <<main, job, userJobId, reset, signal, events, latest, goesOn, spoilt>>
  BY DEF Draw, mainVars
<1>2. o \in WorkerType /\ WorkerOK(o) /\ i \in Slots /\ s \in WorkType
  BY WorkerFacts DEF WorkerType
<1>3. c \in Nat /\ s.job \in Jobs /\ m \in Nat /\ SlotOf(s.job) = i
  BY <1>1, <1>2, NumberAssumption DEF IInv, TypeOK, WorkerOK, SlotOK, WorkType, AnyJob
<1>4. nonces' = [nonces EXCEPT ![i] = c + Reserve]
  BY DEF Draw
<1>5. nonces' \in [Slots -> Nat] /\ nonces'[i] = c + Reserve
      /\ \A k \in Slots : k # i => nonces'[k] = nonces[k]
  BY <1>2, <1>3, <1>4, NumberAssumption DEF IInv, TypeOK
<1>6. /\ raised' \in [Slots -> BOOLEAN] /\ drained' \in [Slots -> BOOLEAN]
      /\ raised'[i] <=> raised[i] \/ Pauses(c, m)
      /\ drained'[i] <=> drained[i] \/ (Fails(c, m) /\ Holds(w, i, latest[i]))
      /\ \A k \in Slots : k # i => raised'[k] = raised[k] /\ drained'[k] = drained[k]
  <2> DEFINE a == raised[i] \/ Pauses(c, m)
             b == drained[i] \/ (Fails(c, m) /\ Holds(w, i, latest[i]))
  <2>1. a \in BOOLEAN /\ b \in BOOLEAN
    OBVIOUS
  <2>2. raised' = [raised EXCEPT ![i] = a] /\ drained' = [drained EXCEPT ![i] = b]
    BY DEF Draw, Current
  <2>3. (a <=> raised[i] \/ Pauses(c, m)) /\ (b <=> drained[i] \/ (Fails(c, m) /\ Holds(w, i, latest[i])))
    OBVIOUS
  <2> HIDE DEF a, b
  <2> QED BY <1>2, <2>1, <2>2, <2>3 DEF IInv, TypeOK
<1>7. PICK x \in WorkerType :
        /\ workers' = [workers EXCEPT ![w] = x]
        /\ WorkerOK(x)
        /\ \A k \in Slots : k # i => x.slot[k] = o.slot[k]
        /\ x.slot[i].job = s.job
        /\ \/ x.slot[i] = s /\ x.at = "run" /\ Fails(c, m)
           \/ x = o
           \/ x.slot[i].drawn /\ x.slot[i].nonce = c /\ x.slot[i].rounds = 0
  <2>1. CASE Fails(c, m)
    <3> DEFINE u == [o EXCEPT !.at = "run"]
    <3>1. workers' = [workers EXCEPT ![w] = u]
      BY <2>1 DEF Draw, Current
    <3>2. u \in WorkerType /\ WorkerOK(u) /\ u.at = "run" /\ u.slot = o.slot
      BY <1>2 DEF WorkerType, WorkerOK
    <3> HIDE DEF u
    <3> QED BY <2>1, <3>1, <3>2
  <2>2. CASE ~Fails(c, m) /\ Retries(c, m)
    <3>1. workers' = [workers EXCEPT ![w] = o]
      BY <2>2 DEF Draw, Current
    <3> QED BY <1>2, <3>1
  <2>3. CASE ~Fails(c, m) /\ ~Retries(c, m)
    <3>1. workers' = [workers EXCEPT ![w] = r]
      BY <2>3 DEF Draw, Current
    <3>2. n \in WorkType /\ n.job = s.job /\ n.drawn /\ n.nonce = c /\ n.rounds = 0
      <4>1. s.rounds = 0
        BY <1>1, <1>2 DEF WorkerOK
      <4> HIDE DEF o, i, s, c
      <4> QED BY <1>2, <1>3, <4>1 DEF WorkType
    <3>3. c + Reserve - 1 <= m /\ (c % Low) + Reserve <= Low
      BY <1>3, <2>3, DrawFits
    <3>4. SlotOK(n, i)
      <4>1. c - 0 = c
        BY <1>3
      <4> HIDE DEF n, c
      <4> QED BY <1>2, <1>3, <3>2, <3>3, <4>1, JobAssumption DEF SlotOK, Fits
    <3> HIDE DEF n
    <3>5. /\ r \in WorkerType /\ r.at = "run" /\ r.index = i
          /\ r.slot[i] = n /\ \A k \in Slots : k # i => r.slot[k] = o.slot[k]
      <4> HIDE DEF o, i, s
      <4>1. o \in WorkerType /\ n \in WorkType /\ i = o.index
        BY <1>2, <3>2 DEF i
      <4> QED BY <4>1, WithWorkFacts
    <3> HIDE DEF r
    <3>6. WorkerOK(r)
      BY <1>2, <3>4, <3>5 DEF WorkerOK
    <3> QED BY <3>1, <3>2, <3>5, <3>6
  <2> QED BY <2>1, <2>2, <2>3
<1>8. workers'[w] = x /\ \A v \in Workers : v # w => workers'[v] = workers[v]
  BY <1>7 DEF IInv, TypeOK
<1>9. TypeOK'
  BY <1>1, <1>5, <1>6, <1>7 DEF IInv, TypeOK
<1>10. (\A v \in Workers : WorkerOK(workers[v]))' /\ JobInv'
  BY <1>1, <1>7, <1>8 DEF IInv, JobInv
<1>11. \A v \in Workers, k \in Slots : Holds(v, k, latest[k])' <=> Holds(v, k, latest[k])
  BY <1>1, <1>7, <1>8 DEF Holds
<1>12. \A v \in Workers, k \in Slots : Has(v, k)' =>
         \/ Has(v, k) /\ First(v, k)' = First(v, k)
         \/ v = w /\ k = i /\ First(v, k)' = c
  <2> SUFFICES ASSUME NEW v \in Workers, NEW k \in Slots, Has(v, k)'
               PROVE  \/ Has(v, k) /\ First(v, k)' = First(v, k)
                      \/ v = w /\ k = i /\ First(v, k)' = c
    OBVIOUS
  <2>1. CASE ~(v = w /\ k = i)
    BY <1>7, <1>8, <1>11, <2>1 DEF Has, First
  <2>2. CASE v = w /\ k = i
    <3>1. c - 0 = c
      BY <1>3
    <3> QED BY <1>7, <1>8, <1>11, <2>2, <3>1 DEF Has, First
  <2> QED BY <2>1, <2>2
<1>13. RangeInv'
  <2> SUFFICES ASSUME NEW k \in Slots, ~spoilt[k], NEW v \in Workers, Has(v, k)'
               PROVE  /\ (Final(v, k) < nonces[k])'
                      /\ \A u \in Workers : v # u /\ Has(u, k)' =>
                           (Final(v, k) < First(u, k) \/ Final(u, k) < First(v, k))'
    BY <1>1 DEF RangeInv
  <2>1. \A u \in Workers : Has(u, k) =>
          /\ First(u, k) \in Int /\ Final(u, k) = First(u, k) + Reserve - 1
          /\ Final(u, k) < nonces[k]
    BY NumberAssumption, WorkerFacts DEF IInv, RangeInv, First, Final, WorkType
  <2>2. \A u \in Workers : Final(u, k)' = First(u, k)' + Reserve - 1
    BY DEF Final
  <2>3. nonces[k] \in Nat /\ nonces'[k] \in Nat /\ nonces'[k] >= nonces[k] /\ (k = i => nonces[k] = c /\ nonces'[k] = c + Reserve)
    BY <1>3, <1>5, NumberAssumption DEF IInv, TypeOK
  <2>4. \A u \in Workers : Has(u, k) => \A t \in Workers : u # t /\ Has(t, k) =>
          Final(u, k) < First(t, k) \/ Final(t, k) < First(u, k)
    BY DEF IInv, RangeInv
  <2>5. Reserve \in Nat \ {0}
    BY NumberAssumption
  <2> HIDE DEF c, i
  <2>6. (Final(v, k) < nonces[k])'
    <3>1. CASE Has(v, k) /\ First(v, k)' = First(v, k)
      <4>1. Final(v, k)' = Final(v, k)
        BY <3>1, <2>1, <2>2
      <4> QED BY <3>1, <4>1, <2>1, <2>3, <2>5
    <3>2. CASE v = w /\ k = i /\ First(v, k)' = c
      <4>1. Final(v, k)' = c + Reserve - 1
        BY <3>2, <2>2
      <4> QED BY <3>2, <4>1, <2>3, <2>5
    <3> QED BY <1>12, <3>1, <3>2
  <2>7. ASSUME NEW u \in Workers, v # u, Has(u, k)'
        PROVE  Final(v, k)' < First(u, k)' \/ Final(u, k)' < First(v, k)'
    BY <1>12, <2>1, <2>2, <2>3, <2>4, <2>5, <2>7
  <2> QED BY <2>6, <2>7
<1>14. DrawInv'
  <2> SUFFICES ASSUME NEW k \in Slots, ~spoilt[k], ~drained'[k],
                      NEW v \in Workers, Holds(v, k, latest[k])
               PROVE  (workers[v].slot[k].drawn \/ (workers[v].at = "draw" /\ workers[v].index = k))'
    BY <1>1, <1>11 DEF DrawInv
  <2>1. ~drained[k]
    BY <1>6
  <2>2. workers[v].slot[k].drawn \/ (workers[v].at = "draw" /\ workers[v].index = k)
    BY <2>1 DEF IInv, DrawInv
  <2>3. CASE v # w
    BY <1>8, <2>2, <2>3
  <2>4. CASE v = w /\ k # i
    BY <1>7, <1>8, <2>2, <2>4
  <2>5. CASE v = w /\ k = i
    BY <1>1, <1>6, <1>7, <1>8, <2>5
  <2> QED BY <2>3, <2>4, <2>5
<1>15. PauseInv'
  <2> SUFFICES ASSUME SameMask, NEW k \in Slots
               PROVE  /\ drained'[k] => raised'[k]
                      /\ \A j \in Jobs : SlotOf(j) = k /\ nonces'[k] > Mask[j] => raised'[k]
    BY DEF PauseInv
  <2>1. CASE k # i
    BY <1>5, <1>6, <2>1 DEF IInv, PauseInv
  <2>2. CASE k = i
    <3>1. \A j \in Jobs : SlotOf(j) = i => Mask[j] = m
      BY <1>3 DEF SameMask
    <3>2. c > m => raised[i]
      <4>1. \A j \in Jobs : SlotOf(j) = i /\ nonces[i] > Mask[j] => raised[i]
        BY <1>2 DEF IInv, PauseInv
      <4>2. s.job \in Jobs /\ SlotOf(s.job) = i
        BY <1>3
      <4> QED BY <4>1, <4>2
    <3>3. drained[i] => raised[i]
      BY <1>2 DEF IInv, PauseInv
    <3>4. Reserve \in Nat \ {0}
      BY NumberAssumption
    <3> HIDE DEF m, c
    <3>5. Fails(c, m) => raised[i] \/ Pauses(c, m)
      BY <1>3, <3>2, <3>4 DEF Fails, Pauses, Last
    <3>6. c + Reserve > m => raised[i] \/ Pauses(c, m)
      BY <1>3, <3>2, <3>4 DEF Pauses, Last
    <3> QED BY <1>5, <1>6, <2>2, <3>1, <3>3, <3>5, <3>6
  <2> QED BY <2>1, <2>2
<1> QED BY <1>9, <1>10, <1>13, <1>14, <1>15 DEF IInv

LEMMA InvStep == IInv /\ [Next]_vars => IInv'
<1> SUFFICES ASSUME IInv, [Next]_vars PROVE IInv'
  OBVIOUS
<1>1. CASE \E j \in Jobs, ready \in BOOLEAN : SetJob(j, ready)
  BY <1>1, SetJobStep
<1>2. CASE HandleJobChange \/ OnDatasetReady \/ Restart
  BY <1>2, HandleStep, ReadyStep, RestartStep
<1>3. CASE \E w \in Workers : Copy(w) \/ Add(w) \/ NextRound(w) \/ Draw(w)
  BY <1>3, CopyStep, AddStep, NextRoundStep, DrawStep
<1>4. CASE UNCHANGED vars
  <2>1. UNCHANGED <<main, job, userJobId, reset, signal, events, nonces, workers, latest, goesOn, spoilt, drained, raised>>
    BY <1>4 DEF vars, mainVars, history
  <2>2. TypeOK'
    BY <2>1 DEF IInv, TypeOK
  <2>3. JobInv'
    BY <2>1 DEF IInv, JobInv
  <2> QED BY <2>1, <2>2, <2>3, RangesStay DEF IInv
<1> QED BY <1>1, <1>2, <1>3, <1>4 DEF Next, Quiet

LEMMA Invariant == Spec => []IInv
  BY InitInv, InvStep, PTL DEF Spec

-----------------------------------------------------------------------------
(* The theorems *)

\* Every variable of the nonces' module keeps its type.
THEOREM TypeCorrect == Spec => []TypeOK
<1>1. IInv => TypeOK
  BY DEF IInv
<1> QED BY <1>1, Invariant, PTL

\* No two threads hash nonces of one range of the newest job of a slot, unless the
\* counter was reset under one that had it.
THEOREM NoRangeTwice == Spec => []RangesDisjoint
<1>1. IInv => RangesDisjoint
  BY DEF IInv, RangeInv, RangesDisjoint
<1> QED BY <1>1, Invariant, PTL

\* Every range drawn fits the mask of its job and is walked through without a carry.
THEOREM RangesAlwaysFit == Spec => []RangesFit
<1>1. IInv => RangesFit
  <2> SUFFICES ASSUME IInv, NEW w \in Workers, NEW i \in Slots, workers[w].slot[i].drawn
               PROVE  /\ First(w, i) >= 0
                      /\ Final(w, i) <= Mask[workers[w].slot[i].job]
                      /\ (First(w, i) % Low) + Reserve <= Low
    BY DEF RangesFit
  <2> QED BY DEF IInv, WorkerOK, SlotOK, Fits, First, Final
<1> QED BY <1>1, Invariant, PTL

\* Who finds no nonces finds the miner's pause raised before it.
THEOREM ExhaustionPauses == Spec => []DrainedIsPaused
<1>1. IInv => DrainedIsPaused
  BY DEF IInv, PauseInv, DrainedIsPaused
<1> QED BY <1>1, Invariant, PTL

\* A thread hashes nonces it has drawn.
THEOREM HashesItsOwn == Spec => []HashesDrawnNonces
<1>1. IInv => HashesDrawnNonces
  <2> SUFFICES ASSUME IInv, NEW w \in Workers,
                      workers[w].at = "run", Holds(w, workers[w].index, latest[workers[w].index]),
                      ~drained[workers[w].index], ~spoilt[workers[w].index]
               PROVE  workers[w].slot[workers[w].index].drawn
    BY DEF HashesDrawnNonces
  <2>1. workers[w].index \in Slots
    BY WorkerFacts
  <2> QED BY <2>1 DEF IInv, DrawInv
<1> QED BY <1>1, Invariant, PTL
=============================================================================
