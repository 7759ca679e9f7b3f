---------------------------- MODULE Bench_proofs ----------------------------
(***************************************************************************)
(* Proofs about Bench for any number of threads and of nonces.             *)
(***************************************************************************)
EXTENDS Bench, FiniteSetTheorems, TLAPS

Jobs == {"none", "warm", "seed"}

Hands ==
  [at : {"begin", "top", "sleep", "inner", "copy", "add", "hash", "done", "lock", "unlock", "end"},
   back : {"top", "inner"}, copy : Jobs, job : Jobs, nonce : Nat, current : BOOLEAN, late : BOOLEAN]

BenchTypeOK ==
  /\ benchMiner \in [at : {"wait", "ready", "touch", "unpause", "idle", "reset", "join", "over"},
                     job : Jobs, enabled : BOOLEAN]
  /\ benchNonce \in [paused : BOOLEAN, stopped : BOOLEAN, counter : Nat]
  /\ benchState \in [there : BOOLEAN, async : BOOLEAN, remaining : Nat, mutex : SUBSET BenchThreads, sent : BOOLEAN]
  /\ benchData \in SUBSET Nat
  /\ benchWorkers \in [BenchThreads -> Hands]

OutcomeOK ==
  /\ benchHistory \in [mixed : BOOLEAN, overtaken : BOOLEAN, failed : BOOLEAN, error : BOOLEAN, wrong : {"no", "assert", "freed"}]
  /\ benchClient \in [request : {"none", "CREATE", "START"}, reported : BOOLEAN, result : SUBSET Nat]

\* BenchState::start was called
Begun == benchMiner.at \notin {"wait", "ready"}

\* Threads that BenchState waits for, when it counts right
Busy == {w \in BenchThreads : benchWorkers[w].at \notin {"unlock", "end"}}

\* The counter is that of the seed's job
Seeded == benchMiner.job = "seed" /\ benchMiner.at # "reset"

\* Only threads that are through with their nonces are counted, and never more than there are
CountInv ==
  /\ benchState.async \/ benchState.sent => Begun
  /\ \A w \in BenchThreads : benchWorkers[w].at \in {"lock", "unlock"} => Begun
  /\ Begun => benchState.remaining >= Cardinality(Busy)
  /\ benchNonce.stopped => ~benchState.there

\* No thread has the seed's job, or draws for it, before the counter is reset
SeedInv ==
  /\ benchMiner.at = "wait" => benchMiner.job = "none"
  /\ ~Seeded => benchData = {}
  /\ \A w \in BenchThreads :
       LET h == benchWorkers[w]
       IN /\ h.at = "begin" => h.job # "seed"
          /\ h.job = "seed" => Seeded /\ h.nonce < benchNonce.counter
          /\ h.at \in {"done", "lock", "unlock"} => h.job = "seed" /\ h.nonce >= BenchSize
          /\ h.at = "hash" /\ h.job = "seed" => h.nonce < BenchSize

\* Each nonce that was drawn is in the sum or one thread's, and none is twice
NonceInv ==
  /\ \A n \in benchData : n < BenchSize /\ n < benchNonce.counter
  /\ \A w \in BenchThreads : benchWorkers[w].job = "seed" =>
       /\ benchWorkers[w].nonce \notin benchData
       /\ benchWorkers[w].at = "end" => benchWorkers[w].nonce >= BenchSize
       /\ \A v \in BenchThreads \ {w} : benchWorkers[v].job = "seed" => benchWorkers[v].nonce # benchWorkers[w].nonce
  /\ Seeded => \A n \in 0..(BenchSize - 1) :
       n < benchNonce.counter /\ n \notin benchData =>
         \E w \in BenchThreads : benchWorkers[w].job = "seed" /\ benchWorkers[w].nonce = n

SentInv ==
  benchState.sent => benchState.there /\ Busy = {} /\ benchData = 0..(BenchSize - 1)

SumInv ==
  /\ BenchTypeOK
  /\ CountInv
  /\ SeedInv
  /\ benchState.there => NonceInv
  /\ SentInv

\* Nothing is left to show of where the model ends
BenchInv ==
  /\ SumIsComplete
  /\ OutcomeOK
  /\ Right => SumInv

LEMMA BenchInitInv == BenchInit => BenchInv
<1> SUFFICES ASSUME BenchInit PROVE BenchInv
  OBVIOUS
<1>1. \A w \in BenchThreads : benchWorkers[w] = [NewHand EXCEPT !.at = "end"]
  BY DEF BenchInit
<1>2. [NewHand EXCEPT !.at = "end"] \in Hands
  BY DEF NewHand, Hands, Jobs
<1>3. BenchTypeOK
  BY <1>2 DEF BenchInit, BenchTypeOK, Jobs
<1>4. CountInv
  BY <1>1 DEF BenchInit, CountInv, Begun, NewHand
<1>5. SeedInv
  BY <1>1 DEF BenchInit, SeedInv, Seeded, NewHand
<1>6. NonceInv
  BY <1>1 DEF BenchInit, NonceInv, Seeded, NewHand
<1>7. SentInv /\ SumIsComplete /\ OutcomeOK
  BY DEF BenchInit, SentInv, SumIsComplete, OutcomeOK
<1> QED BY <1>3, <1>4, <1>5, <1>6, <1>7 DEF BenchInv, SumInv

-----------------------------------------------------------------------------
(* The event loop *)

LEMMA BusyIs ==
  /\ IsFiniteSet(Busy) /\ Cardinality(Busy) \in Nat
  /\ Cardinality(Busy) <= Cardinality(BenchThreads) /\ Cardinality(BenchThreads) \in Nat
<1>1. Busy \subseteq BenchThreads
  BY DEF Busy
<1> QED BY <1>1, BenchAssumption, FS_Subset, FS_CardinalityType

\* A step that leaves the threads where they are, with their nonces
LEMMA LoopKeeps ==
  ASSUME SumInv, BenchTypeOK', UNCHANGED benchData, UNCHANGED benchNonce.counter,
         \A w \in BenchThreads : UNCHANGED <<benchWorkers[w].at, benchWorkers[w].job, benchWorkers[w].nonce>>,
         Seeded' <=> Seeded, Begun => Begun', benchState'.async => Begun',
         Begun' => benchState'.remaining >= Cardinality(Busy),
         benchMiner'.at = "wait" => benchMiner'.job = "none",
         benchState'.there => benchState.there, benchNonce'.stopped => ~benchState'.there,
         benchState'.sent => benchState.sent /\ benchState'.there
  PROVE  SumInv'
<1>1. Busy' = Busy
  BY DEF Busy
<1>2. CountInv'
  BY <1>1 DEF SumInv, CountInv, SentInv
<1>3. SeedInv'
  BY DEF SumInv, SeedInv
<1>4. benchState'.there => NonceInv'
  BY DEF SumInv, NonceInv
<1>5. SentInv'
  BY <1>1 DEF SumInv, SentInv
<1> QED BY <1>2, <1>3, <1>4, <1>5 DEF SumInv

LEMMA BenchReadyInv == SumInv /\ BenchReady => SumInv'
<1> SUFFICES ASSUME SumInv, BenchReady PROVE SumInv'
  OBVIOUS
<1>1. /\ benchMiner.at = "ready" /\ benchMiner' = [benchMiner EXCEPT !.at = "touch"]
      /\ benchState' = [benchState EXCEPT !.async = TRUE, !.remaining = Cardinality(BenchThreads)]
      /\ UNCHANGED <<benchNonce, benchData, benchWorkers>>
  BY DEF BenchReady, LoopGoes, StateStarts
<1>2. BenchTypeOK'
  BY <1>1, BusyIs DEF SumInv, BenchTypeOK
<1>3. /\ Seeded' <=> Seeded
      /\ Begun' /\ benchMiner'.at # "wait" /\ benchState'.remaining = Cardinality(BenchThreads)
      /\ benchState'.there = benchState.there /\ benchState'.sent = benchState.sent
  BY <1>1 DEF SumInv, BenchTypeOK, Seeded, Begun
<1> QED BY <1>1, <1>2, <1>3, BusyIs, LoopKeeps DEF SumInv, CountInv, SentInv

\* Of the steps that leave the benchmark's state alone, or destroy it
LEMMA LoopRestInv ==
  SumInv /\ (BenchTouch \/ BenchUnpause \/ BenchCreated \/ BenchReport \/ BenchTick \/ BenchJoin \/ BenchError \/ BenchSetEnabled)
    => SumInv'
<1> SUFFICES ASSUME SumInv, BenchTouch \/ BenchUnpause \/ BenchCreated \/ BenchReport \/ BenchTick \/ BenchJoin \/ BenchError \/ BenchSetEnabled
             PROVE  SumInv'
  OBVIOUS
<1> USE DEF LoopGoes
<1>1. benchMiner' \in [at : {"wait", "ready", "touch", "unpause", "idle", "reset", "join", "over"}, job : Jobs, enabled : BOOLEAN]
  <2> USE DEF SumInv, BenchTypeOK, Jobs
  <2>1. CASE BenchTouch \/ BenchUnpause \/ BenchCreated \/ BenchReport
    BY <2>1 DEF BenchTouch, BenchUnpause, BenchCreated, BenchReport
  <2>2. CASE BenchTick \/ BenchJoin \/ BenchError \/ BenchSetEnabled
    BY <2>2 DEF BenchTick, BenchJoin, BenchError, BenchSetEnabled
  <2> QED BY <2>1, <2>2
<1>2. /\ benchNonce' \in [paused : BOOLEAN, stopped : BOOLEAN, counter : Nat] /\ benchNonce'.counter = benchNonce.counter
      /\ benchNonce'.stopped => benchNonce.stopped \/ ~benchState.there
  <2>1. (benchNonce.paused /\ ~benchMiner.enabled) \in BOOLEAN /\ benchMiner.enabled \in BOOLEAN
    BY DEF SumInv, BenchTypeOK
  <2>2. \/ benchNonce' = benchNonce
        \/ \E b \in BOOLEAN : benchNonce' = [benchNonce EXCEPT !.paused = b]
        \/ benchNonce' = [benchNonce EXCEPT !.stopped = FALSE]
        \/ ~benchState.there /\ benchNonce' = [benchNonce EXCEPT !.paused = FALSE, !.stopped = TRUE]
    BY <2>1 DEF BenchTouch, BenchUnpause, BenchCreated, BenchReport, BenchTick, BenchJoin, BenchError, BenchSetEnabled
  <2> QED BY <2>2 DEF SumInv, BenchTypeOK
<1>3. benchState' = benchState \/ benchState' = Destroyed
  BY DEF BenchTouch, BenchUnpause, BenchCreated, BenchReport, BenchTick, BenchJoin, BenchError, BenchSetEnabled
<1>4. /\ benchState' \in [there : BOOLEAN, async : BOOLEAN, remaining : Nat, mutex : SUBSET BenchThreads, sent : BOOLEAN]
      /\ benchState'.remaining = benchState.remaining
      /\ benchState'.there => benchState.there /\ benchState' = benchState
      /\ benchState'.sent => benchState'.there
      /\ benchState'.sent => benchState.sent
      /\ benchState'.async => benchState.async
  BY <1>3 DEF SumInv, BenchTypeOK, Destroyed, SentInv
<1>5. benchWorkers' = benchWorkers \/ benchWorkers' = Touched
  BY DEF BenchTouch, BenchUnpause, BenchCreated, BenchReport, BenchTick, BenchJoin, BenchError, BenchSetEnabled
<1>6. /\ benchWorkers' \in [BenchThreads -> Hands]
      /\ \A w \in BenchThreads : UNCHANGED <<benchWorkers[w].at, benchWorkers[w].job, benchWorkers[w].nonce>>
  <2>1. \A w \in BenchThreads : benchWorkers[w] \in Hands
    BY DEF SumInv, BenchTypeOK
  <2>2. \A w \in BenchThreads :
          LET h == [benchWorkers[w] EXCEPT !.current = FALSE, !.late = benchWorkers[w].at = "add"]
          IN /\ h \in Hands /\ h.at = benchWorkers[w].at /\ h.job = benchWorkers[w].job /\ h.nonce = benchWorkers[w].nonce
    <3> TAKE w \in BenchThreads
    <3> DEFINE b == benchWorkers[w].at = "add"
    <3>1. b \in BOOLEAN
      OBVIOUS
    <3> HIDE DEF b
    <3>2. LET h == [benchWorkers[w] EXCEPT !.current = FALSE, !.late = b]
          IN /\ h \in Hands /\ h.at = benchWorkers[w].at /\ h.job = benchWorkers[w].job /\ h.nonce = benchWorkers[w].nonce
      BY <2>1, <3>1 DEF Hands
    <3> QED BY <3>2 DEF b
  <2>3. CASE benchWorkers' = benchWorkers
    BY <2>3 DEF SumInv, BenchTypeOK
  <2>4. CASE benchWorkers' = Touched
    BY <2>2, <2>4 DEF Touched
  <2> QED BY <1>5, <2>3, <2>4
<1>7. UNCHANGED benchData
  BY DEF BenchTouch, BenchUnpause, BenchCreated, BenchReport, BenchTick, BenchJoin, BenchError, BenchSetEnabled
<1>8. (Seeded' <=> Seeded) /\ (Begun' <=> Begun) /\ (benchMiner'.at = "wait" => benchMiner'.job = "none")
  <2> USE DEF SumInv, BenchTypeOK, Seeded, Begun, SeedInv
  <2>1. CASE BenchTouch \/ BenchUnpause \/ BenchCreated \/ BenchReport
    BY <2>1 DEF BenchTouch, BenchUnpause, BenchCreated, BenchReport
  <2>2. CASE BenchTick \/ BenchJoin \/ BenchError \/ BenchSetEnabled
    BY <2>2 DEF BenchTick, BenchJoin, BenchError, BenchSetEnabled
  <2> QED BY <2>1, <2>2
<1>9. BenchTypeOK'
  BY <1>1, <1>2, <1>4, <1>6, <1>7 DEF SumInv, BenchTypeOK
<1>10. Begun' => benchState'.remaining >= Cardinality(Busy)
  BY <1>4, <1>8 DEF SumInv, CountInv
<1>11. (benchState'.async => Begun') /\ (benchNonce'.stopped => ~benchState'.there)
  BY <1>2, <1>4, <1>8 DEF SumInv, CountInv
<1> QED BY <1>2, <1>4, <1>6, <1>7, <1>8, <1>9, <1>10, <1>11, LoopKeeps

LEMMA BenchWorkersStartInv == SumInv /\ BenchWorkersStart => SumInv'
<1> SUFFICES ASSUME SumInv, BenchWorkersStart PROVE SumInv'
  OBVIOUS
<1>1. PICK job \in {"warm", "seed"} :
        /\ benchMiner.at = "wait"
        /\ benchMiner' = [benchMiner EXCEPT !.at = "ready", !.job = job]
  BY DEF BenchWorkersStart
<1>2. /\ \E b \in BOOLEAN : benchNonce' = [benchNonce EXCEPT !.paused = b, !.counter = 0]
      /\ benchWorkers' = [w \in BenchThreads |-> NewHand]
      /\ UNCHANGED <<benchState, benchData>>
  <2>1. (benchNonce.paused \/ ~benchMiner.enabled) \in BOOLEAN
    BY DEF SumInv, BenchTypeOK
  <2> QED BY <2>1 DEF BenchWorkersStart
<1>3. NewHand \in Hands /\ NewHand.at = "begin" /\ NewHand.job = "none"
  BY DEF NewHand, Hands, Jobs
<1>4. BenchTypeOK' /\ benchNonce'.counter = 0 /\ benchNonce'.stopped = benchNonce.stopped
  <2>1. benchMiner' \in [at : {"wait", "ready", "touch", "unpause", "idle", "reset", "join", "over"}, job : Jobs, enabled : BOOLEAN]
    BY <1>1 DEF SumInv, BenchTypeOK, Jobs
  <2>2. /\ benchNonce' \in [paused : BOOLEAN, stopped : BOOLEAN, counter : Nat]
        /\ benchNonce'.counter = 0 /\ benchNonce'.stopped = benchNonce.stopped
    <3>1. PICK b \in BOOLEAN : benchNonce' = [benchNonce EXCEPT !.paused = b, !.counter = 0]
      BY <1>2
    <3> QED BY <3>1 DEF SumInv, BenchTypeOK
  <2>3. benchWorkers' \in [BenchThreads -> Hands]
    BY <1>2, <1>3
  <2> QED BY <1>2, <2>1, <2>2, <2>3 DEF SumInv, BenchTypeOK
<1>5. ~Begun /\ ~Begun' /\ benchData = {}
  <2>1. benchMiner'.at = "ready" /\ benchMiner.job # "seed"
    BY <1>1 DEF SumInv, BenchTypeOK, SeedInv
  <2> QED BY <1>1, <2>1 DEF Begun, Seeded, SumInv, SeedInv
<1>6. CountInv'
  BY <1>2, <1>3, <1>4, <1>5 DEF SumInv, CountInv
<1>7. SeedInv'
  BY <1>1, <1>2, <1>3, <1>4, <1>5 DEF SeedInv, SumInv, BenchTypeOK
<1>8. NonceInv'
  BY <1>2, <1>3, <1>4, <1>5 DEF NonceInv
<1>9. SentInv'
  BY <1>2, <1>5 DEF SumInv, SentInv, CountInv
<1> QED BY <1>4, <1>6, <1>7, <1>8, <1>9 DEF SumInv

\* The counter is the seed's from now on, and no thread has that job yet
LEMMA BenchResetInv == SumInv /\ BenchReset => SumInv'
<1> SUFFICES ASSUME SumInv, BenchReset PROVE SumInv'
  OBVIOUS
<1>1. benchMiner.at = "reset" /\ benchMiner' = [benchMiner EXCEPT !.at = "touch"] /\ UNCHANGED <<benchState, benchData, benchWorkers>>
  BY DEF BenchReset, LoopGoes
<1>2. /\ benchNonce' \in [paused : BOOLEAN, stopped : BOOLEAN, counter : Nat]
      /\ benchNonce'.counter = 0 /\ benchNonce'.stopped = benchNonce.stopped
  <2>1. (benchNonce.paused \/ ~benchMiner.enabled) \in BOOLEAN
    BY DEF SumInv, BenchTypeOK
  <2>2. PICK b \in BOOLEAN : benchNonce' = [benchNonce EXCEPT !.paused = b, !.counter = 0]
    BY <2>1 DEF BenchReset
  <2> QED BY <2>2 DEF SumInv, BenchTypeOK
<1>3. BenchTypeOK'
  BY <1>1, <1>2 DEF SumInv, BenchTypeOK
<1>4. ~Seeded /\ Begun /\ Begun' /\ Busy' = Busy
  BY <1>1, <1>3 DEF Seeded, Begun, Busy, SumInv, BenchTypeOK
<1>5. CountInv'
  BY <1>1, <1>2, <1>4 DEF SumInv, CountInv
<1>6. \A w \in BenchThreads : benchWorkers[w].job # "seed"
  BY <1>4 DEF SumInv, SeedInv
<1>7. SeedInv'
  BY <1>1, <1>4, <1>6 DEF SumInv, SeedInv
<1>8. NonceInv'
  BY <1>1, <1>2, <1>4, <1>6 DEF SumInv, SeedInv, NonceInv
<1>9. SentInv'
  BY <1>1, <1>4 DEF SumInv, SentInv
<1> QED BY <1>3, <1>5, <1>7, <1>8, <1>9 DEF SumInv

-----------------------------------------------------------------------------
(* The threads *)

\* A thread goes on with the job and the nonce it has
LEMMA HandKeeps ==
  ASSUME SumInv, NEW w \in BenchThreads, NEW hand \in Hands, Comes(w, hand),
         hand.job = benchWorkers[w].job, hand.nonce = benchWorkers[w].nonce,
         benchWorkers[w].at \in {"unlock", "end"} => hand.at = "end",
         hand.at # "begin", hand.at \in {"lock", "unlock"} => Begun,
         hand.at \in {"done", "lock", "unlock"} => hand.job = "seed" /\ hand.nonce >= BenchSize,
         hand.at = "hash" /\ hand.job = "seed" => hand.nonce < BenchSize,
         hand.at = "end" /\ benchState.there => hand.job # "seed" \/ hand.nonce >= BenchSize,
         UNCHANGED <<benchMiner, benchNonce, benchState, benchData>>
  PROVE  SumInv'
<1>1. /\ benchWorkers' = [benchWorkers EXCEPT ![w] = hand]
      /\ \A v \in BenchThreads : benchWorkers'[v] = IF v = w THEN hand ELSE benchWorkers[v]
  BY DEF Comes, SumInv, BenchTypeOK
<1>2. BenchTypeOK'
  BY <1>1 DEF SumInv, BenchTypeOK
<1>3. \A v \in BenchThreads : UNCHANGED <<benchWorkers[v].job, benchWorkers[v].nonce>>
  BY <1>1
<1>4. Busy' \subseteq Busy
  BY <1>1 DEF Busy
<1>5. Cardinality(Busy') \in Nat /\ Cardinality(Busy) \in Nat /\ Cardinality(Busy') <= Cardinality(Busy)
  BY <1>4, BusyIs, FS_Subset, FS_CardinalityType
<1>6. (Begun' <=> Begun) /\ (Seeded' <=> Seeded)
  BY DEF Begun, Seeded
<1>7. CountInv'
  BY <1>1, <1>2, <1>5, <1>6 DEF SumInv, CountInv, BenchTypeOK
<1>8. SeedInv'
  BY <1>1, <1>6 DEF SumInv, SeedInv
<1>9. benchState.there => NonceInv'
  BY <1>1, <1>3, <1>6 DEF SumInv, NonceInv
<1>10. SentInv'
  BY <1>4 DEF SumInv, SentInv
<1> QED BY <1>2, <1>7, <1>8, <1>9, <1>10 DEF SumInv

\* A thread has another nonce from the seed's counter, with the hash of the one before, if it had one
LEMMA DrawKeeps ==
  ASSUME SumInv, Seeded, NEW w \in BenchThreads, NEW hand \in Hands, Comes(w, hand),
         benchWorkers[w].at \in {"add", "hash"}, hand.at \in {"top", "inner"},
         hand.job = "seed", hand.nonce = benchNonce.counter, benchNonce' = [benchNonce EXCEPT !.counter = benchNonce.counter + 1],
         UNCHANGED <<benchMiner, benchState>>,
         \/ benchWorkers[w].job # "seed" /\ UNCHANGED benchData
         \/ /\ benchWorkers[w].job = "seed" /\ benchWorkers[w].nonce < BenchSize
            /\ benchData' = Xor(benchData, {benchWorkers[w].nonce})
  PROVE  SumInv'
<1>1. /\ benchWorkers' = [benchWorkers EXCEPT ![w] = hand]
      /\ \A v \in BenchThreads : benchWorkers'[v] = IF v = w THEN hand ELSE benchWorkers[v]
  BY DEF Comes, SumInv, BenchTypeOK
<1>2. benchNonce.counter \in Nat /\ benchNonce'.counter = benchNonce.counter + 1 /\ benchNonce'.stopped = benchNonce.stopped
  BY DEF SumInv, BenchTypeOK
<1>3. BenchTypeOK'
  <2>1. \A v \in BenchThreads : benchWorkers[v].nonce \in Nat
    BY DEF SumInv, BenchTypeOK, Hands
  <2>2. benchData' \in SUBSET Nat
    BY <2>1 DEF SumInv, BenchTypeOK, Xor
  <2>3. benchNonce' \in [paused : BOOLEAN, stopped : BOOLEAN, counter : Nat]
    <3>1. benchNonce.counter + 1 \in Nat
      BY <1>2
    <3> QED BY <3>1 DEF SumInv, BenchTypeOK
  <2> QED BY <1>1, <2>2, <2>3 DEF SumInv, BenchTypeOK
<1>4. Busy' = Busy /\ w \in Busy
  BY <1>1 DEF Busy
<1>5. (Begun' <=> Begun) /\ (Seeded' <=> Seeded)
  BY DEF Begun, Seeded
<1>6. CountInv'
  BY <1>1, <1>2, <1>4, <1>5 DEF SumInv, CountInv
<1>7. \A v \in BenchThreads : benchWorkers[v].nonce \in Nat
  BY DEF SumInv, BenchTypeOK, Hands
<1>8. SeedInv'
  BY <1>1, <1>2, <1>5, <1>7 DEF SumInv, SeedInv
<1>9. ASSUME benchState.there
      PROVE  NonceInv'
  <2>1. NonceInv
    BY <1>9 DEF SumInv
  <2>2. \A v \in BenchThreads : benchWorkers[v].job = "seed" => benchWorkers[v].nonce < benchNonce.counter
    BY DEF SumInv, SeedInv
  <2>3. \A n \in benchData' : n < BenchSize /\ n < benchNonce.counter
    BY <2>1, <2>2 DEF NonceInv, Xor
  <2>4. benchWorkers[w].job = "seed" => benchData' = benchData \union {benchWorkers[w].nonce}
    BY <2>1 DEF NonceInv, Xor
  <2>5. benchWorkers[w].job # "seed" => benchData' = benchData
    OBVIOUS
  <2>6. \A n \in benchData' : n \in Nat /\ n < BenchSize /\ n < benchNonce'.counter
    BY <1>2, <1>3, <2>3 DEF BenchTypeOK
  <2>7. ASSUME NEW v \in BenchThreads, benchWorkers'[v].job = "seed"
        PROVE  /\ benchWorkers'[v].nonce \notin benchData'
               /\ benchWorkers'[v].at = "end" => benchWorkers'[v].nonce >= BenchSize
               /\ \A u \in BenchThreads \ {v} : benchWorkers'[u].job = "seed" => benchWorkers'[u].nonce # benchWorkers'[v].nonce
    <3>1. CASE v = w
      <4>1. benchWorkers'[v] = hand
        BY <1>1, <3>1
      <4>2. benchNonce.counter \notin benchData'
        BY <1>2, <2>3
      <4>3. \A u \in BenchThreads \ {w} : benchWorkers[u].job = "seed" => benchWorkers[u].nonce # benchNonce.counter
        BY <1>2, <2>2
      <4> QED BY <1>1, <3>1, <4>1, <4>2, <4>3
    <3>2. CASE v # w
      <4>1. benchWorkers'[v] = benchWorkers[v]
        BY <1>1, <3>2
      <4>2. benchWorkers[v].nonce \notin benchData'
        BY <2>1, <2>4, <2>5, <2>7, <3>2, <4>1 DEF NonceInv
      <4>3. benchWorkers[v].nonce # benchNonce.counter
        BY <1>2, <2>2, <2>7, <4>1
      <4> QED BY <1>1, <2>1, <2>7, <3>2, <4>1, <4>2, <4>3 DEF NonceInv
    <3> QED BY <3>1, <3>2
  <2>8. ASSUME NEW n \in 0..(BenchSize - 1), n < benchNonce'.counter, n \notin benchData'
        PROVE  \E v \in BenchThreads : benchWorkers'[v].job = "seed" /\ benchWorkers'[v].nonce = n
    <3>1. CASE n = benchNonce.counter
      BY <1>1, <3>1
    <3>2. CASE n # benchNonce.counter
      <4>1. n < benchNonce.counter /\ n \notin benchData
        <5>1. n < benchNonce.counter
          BY <1>2, <2>8, <3>2
        <5> QED BY <2>4, <2>5, <2>8, <5>1
      <4>2. PICK v \in BenchThreads : benchWorkers[v].job = "seed" /\ benchWorkers[v].nonce = n
        BY <2>1, <4>1 DEF NonceInv
      <4>3. v # w
        BY <2>4, <2>8, <4>2
      <4> QED BY <1>1, <4>2, <4>3
    <3> QED BY <3>1, <3>2
  <2> QED BY <2>6, <2>7, <2>8 DEF NonceInv
<1>10. SentInv'
  BY <1>4 DEF SumInv, SentInv
<1> QED BY <1>3, <1>6, <1>8, <1>9, <1>10 DEF SumInv

\* A thread takes a job that is not the seed's, from a counter that is not either
LEMMA WarmKeeps ==
  ASSUME SumInv, ~Seeded, NEW w \in BenchThreads, NEW hand \in Hands, Comes(w, hand),
         benchWorkers[w].at \notin {"unlock", "end"}, hand.at \in {"top", "inner"}, hand.job # "seed",
         NEW counter \in Nat, benchNonce' = [benchNonce EXCEPT !.counter = counter],
         UNCHANGED <<benchMiner, benchState, benchData>>
  PROVE  SumInv'
<1>1. /\ benchWorkers' = [benchWorkers EXCEPT ![w] = hand]
      /\ \A v \in BenchThreads : benchWorkers'[v] = IF v = w THEN hand ELSE benchWorkers[v]
  BY DEF Comes, SumInv, BenchTypeOK
<1>2. BenchTypeOK' /\ benchNonce'.stopped = benchNonce.stopped
  BY <1>1 DEF SumInv, BenchTypeOK
<1>3. Busy' = Busy /\ w \in Busy
  BY <1>1 DEF Busy
<1>4. (Begun' <=> Begun) /\ ~Seeded'
  BY DEF Begun, Seeded
<1>5. CountInv'
  BY <1>1, <1>2, <1>3, <1>4 DEF SumInv, CountInv
<1>6. \A v \in BenchThreads : benchWorkers[v].job # "seed" /\ benchWorkers'[v].job # "seed"
  BY <1>1 DEF SumInv, SeedInv
<1>7. SeedInv'
  BY <1>1, <1>4, <1>6 DEF SumInv, SeedInv
<1>8. NonceInv'
  BY <1>4, <1>6 DEF SumInv, SeedInv, NonceInv
<1>9. SentInv'
  BY <1>3 DEF SumInv, SentInv
<1> QED BY <1>2, <1>5, <1>7, <1>8, <1>9 DEF SumInv

\* The places that a thread goes to with its job, and what it must be then
LEMMA GoesKeeps ==
  ASSUME SumInv, NEW w \in BenchThreads,
         NEW to \in {"top", "sleep", "inner", "copy", "hash", "done", "lock", "end"}, Goes(w, to),
         benchWorkers[w].at \in {"unlock", "end"} => to = "end", to = "lock" => Begun,
         to \in {"done", "lock"} => benchWorkers[w].job = "seed" /\ benchWorkers[w].nonce >= BenchSize,
         to = "hash" /\ benchWorkers[w].job = "seed" => benchWorkers[w].nonce < BenchSize,
         to = "end" /\ benchState.there => benchWorkers[w].job # "seed" \/ benchWorkers[w].nonce >= BenchSize,
         UNCHANGED <<benchMiner, benchNonce, benchState, benchData>>
  PROVE  SumInv'
<1> DEFINE hand == [benchWorkers[w] EXCEPT !.at = to]
<1>1. benchWorkers[w] \in Hands
  BY DEF SumInv, BenchTypeOK
<1>2. hand \in Hands /\ hand.at = to /\ hand.job = benchWorkers[w].job /\ hand.nonce = benchWorkers[w].nonce
  BY <1>1 DEF Hands
<1>3. Comes(w, hand)
  BY DEF Goes
<1> HIDE DEF hand
<1> QED BY <1>2, <1>3, HandKeeps

LEMMA HandBeginInv == \A w \in BenchThreads : SumInv /\ HandBegin(w) => SumInv'
<1> SUFFICES ASSUME NEW w \in BenchThreads, SumInv, HandBegin(w) PROVE SumInv'
  OBVIOUS
<1>1. benchWorkers[w].at = "begin" /\ benchWorkers[w].job # "seed"
  BY DEF HandBegin, At, SumInv, SeedInv
<1>2. UNCHANGED <<benchMiner, benchNonce, benchState, benchData>> /\ (Goes(w, "top") \/ Goes(w, "end"))
  BY DEF HandBegin
<1> QED BY <1>1, <1>2, GoesKeeps

\* A thread ends with a nonce that it has not hashed only when there is no benchmark any more
LEMMA HandTopInv == \A w \in BenchThreads : SumInv /\ HandTop(w) => SumInv'
<1> SUFFICES ASSUME NEW w \in BenchThreads, SumInv, HandTop(w) PROVE SumInv'
  OBVIOUS
<1>1. benchWorkers[w].at \in {"top", "sleep"} /\ UNCHANGED <<benchMiner, benchNonce, benchState, benchData>>
  BY DEF HandTop, At
<1>2. CASE Goes(w, "end") /\ benchNonce.stopped
  <2>1. ~benchState.there
    BY <1>2 DEF SumInv, CountInv
  <2> QED BY <1>1, <1>2, <2>1, GoesKeeps
<1>3. CASE Goes(w, "sleep") \/ Goes(w, "inner")
  BY <1>1, <1>3, GoesKeeps
<1>4. CASE Comes(w, [benchWorkers[w] EXCEPT !.at = "copy", !.back = "inner"])
  <2> DEFINE hand == [benchWorkers[w] EXCEPT !.at = "copy", !.back = "inner"]
  <2>1. benchWorkers[w] \in Hands
    BY DEF SumInv, BenchTypeOK
  <2>2. hand \in Hands /\ hand.at = "copy" /\ hand.job = benchWorkers[w].job /\ hand.nonce = benchWorkers[w].nonce
    BY <2>1 DEF Hands
  <2> HIDE DEF hand
  <2>3. Comes(w, hand)
    BY <1>4 DEF hand
  <2> QED BY <1>1, <2>2, <2>3, HandKeeps
<1> QED BY <1>2, <1>3, <1>4 DEF HandTop

LEMMA HandInnerInv == \A w \in BenchThreads : SumInv /\ HandInner(w) => SumInv'
<1> SUFFICES ASSUME NEW w \in BenchThreads, SumInv, HandInner(w) PROVE SumInv'
  OBVIOUS
<1>1. benchWorkers[w].at = "inner" /\ UNCHANGED <<benchMiner, benchNonce, benchState, benchData>>
  BY DEF HandInner, At
<1>2. benchWorkers[w] \in Hands
  BY DEF SumInv, BenchTypeOK
<1>3. CASE Goes(w, "top")
  BY <1>1, <1>3, GoesKeeps
<1>4. CASE Comes(w, [benchWorkers[w] EXCEPT !.at = "copy", !.back = "top"])
  <2> DEFINE hand == [benchWorkers[w] EXCEPT !.at = "copy", !.back = "top"]
  <2>1. hand \in Hands /\ hand.at = "copy" /\ hand.job = benchWorkers[w].job /\ hand.nonce = benchWorkers[w].nonce
    BY <1>2 DEF Hands
  <2> HIDE DEF hand
  <2>2. Comes(w, hand)
    BY <1>4 DEF hand
  <2> QED BY <1>1, <2>1, <2>2, HandKeeps
<1>5. CASE Goes(w, "done") /\ benchWorkers[w].job = "seed" /\ benchWorkers[w].nonce >= BenchSize
  BY <1>1, <1>5, GoesKeeps
<1>6. CASE Goes(w, "hash") /\ ~(benchWorkers[w].job = "seed" /\ benchWorkers[w].nonce >= BenchSize)
  <2>1. benchWorkers[w].job = "seed" => benchWorkers[w].nonce < BenchSize
    BY <1>2, <1>6, BenchAssumption DEF Hands
  <2> QED BY <1>1, <1>6, <2>1, GoesKeeps
<1>7. \/ Goes(w, "top") \/ Comes(w, [benchWorkers[w] EXCEPT !.at = "copy", !.back = "top"])
      \/ Goes(w, "done") /\ benchWorkers[w].job = "seed" /\ benchWorkers[w].nonce >= BenchSize
      \/ Goes(w, "hash") /\ ~(benchWorkers[w].job = "seed" /\ benchWorkers[w].nonce >= BenchSize)
  BY DEF HandInner
<1> QED BY <1>3, <1>4, <1>5, <1>6, <1>7

LEMMA HandCopyInv == \A w \in BenchThreads : SumInv /\ HandCopy(w) => SumInv'
<1> SUFFICES ASSUME NEW w \in BenchThreads, SumInv, HandCopy(w) PROVE SumInv'
  OBVIOUS
<1>1. benchWorkers[w].at = "copy" /\ UNCHANGED <<benchMiner, benchNonce, benchState, benchData>>
  BY DEF HandCopy, At
<1>2. benchWorkers[w] \in Hands /\ benchMiner.job \in Jobs
  BY DEF SumInv, BenchTypeOK
<1>3. CASE Goes(w, benchWorkers[w].back)
  BY <1>1, <1>2, <1>3, GoesKeeps DEF Hands
<1>4. CASE Comes(w, [benchWorkers[w] EXCEPT !.at = "add", !.copy = benchMiner.job])
  <2> DEFINE hand == [benchWorkers[w] EXCEPT !.at = "add", !.copy = benchMiner.job]
  <2>1. hand \in Hands /\ hand.at = "add" /\ hand.job = benchWorkers[w].job /\ hand.nonce = benchWorkers[w].nonce
    BY <1>2 DEF Hands
  <2> HIDE DEF hand
  <2>2. Comes(w, hand)
    BY <1>4 DEF hand
  <2> QED BY <1>1, <2>1, <2>2, HandKeeps
<1> QED BY <1>3, <1>4 DEF HandCopy

LEMMA DrawnType ==
  ASSUME SumInv, NEW job \in Jobs
  PROVE  Drawn(job) \in Nat /\ (job = "seed" => Drawn(job) = benchNonce.counter + 1)
  BY BenchAssumption DEF Drawn, Count, SumInv, BenchTypeOK

\* The seed's job comes with a nonce of the seed's counter, or the counter was used for two jobs
LEMMA HandAddInv == \A w \in BenchThreads : OutcomeOK /\ SumInv /\ HandAdd(w) /\ ~benchHistory'.mixed => SumInv'
<1> SUFFICES ASSUME NEW w \in BenchThreads, OutcomeOK, SumInv, HandAdd(w), ~benchHistory'.mixed PROVE SumInv'
  OBVIOUS
<1> DEFINE h    == benchWorkers[w]
           hand == [h EXCEPT !.at = h.back, !.copy = "none", !.current = TRUE, !.late = FALSE]
           next == [hand EXCEPT !.job = h.copy, !.nonce = IF h.copy = "seed" THEN benchNonce.counter ELSE 0]
<1>1. h.at = "add" /\ UNCHANGED <<benchMiner, benchState, benchData>>
  BY DEF HandAdd, At
<1>2. h \in Hands /\ benchNonce.counter \in Nat
  BY DEF SumInv, BenchTypeOK
<1>3. hand \in Hands /\ hand.at \in {"top", "inner"} /\ hand.job = h.job /\ hand.nonce = h.nonce
  BY <1>2 DEF Hands, Jobs
<1>4. next \in Hands /\ next.at \in {"top", "inner"} /\ next.job = h.copy /\ (h.copy = "seed" => next.nonce = benchNonce.counter)
  <2> DEFINE nonce == IF h.copy = "seed" THEN benchNonce.counter ELSE 0
  <2>1. nonce \in Nat /\ (h.copy = "seed" => nonce = benchNonce.counter)
    BY <1>2
  <2>2. h.copy \in Jobs
    BY <1>2 DEF Hands
  <2>3. next = [hand EXCEPT !.job = h.copy, !.nonce = nonce]
    OBVIOUS
  <2> HIDE DEF nonce, hand, next
  <2> QED BY <1>3, <2>1, <2>2, <2>3 DEF Hands
<1>5. h.copy \in Jobs
  BY <1>2 DEF Hands
<1>6. CASE h.job = h.copy
  <2>1. Comes(w, hand) /\ UNCHANGED benchNonce
    BY <1>6 DEF HandAdd
  <2> HIDE DEF hand
  <2> QED BY <1>1, <1>3, <2>1, HandKeeps
<1>7. CASE h.job # h.copy
  <2>1. Comes(w, next) /\ benchNonce' = [benchNonce EXCEPT !.counter = Drawn(h.copy)]
    BY <1>7 DEF HandAdd
  <2>2. ~Foreign(h.copy)
    <3>1. benchHistory' = [benchHistory EXCEPT !.overtaken = h.late, !.mixed = benchHistory.mixed \/ Foreign(h.copy)]
      BY <1>7 DEF HandAdd
    <3> QED BY <3>1 DEF OutcomeOK
  <2> HIDE DEF next, hand
  <2>3. CASE h.copy = "seed"
    <3>1. Seeded /\ h.job # "seed"
      BY <1>7, <2>2, <2>3 DEF Foreign, Seeded
    <3>2. benchNonce' = [benchNonce EXCEPT !.counter = benchNonce.counter + 1]
      BY <1>5, <2>1, <2>3, DrawnType
    <3> QED BY <1>1, <1>4, <2>1, <2>3, <3>1, <3>2, DrawKeeps
  <2>4. CASE h.copy # "seed"
    <3>1. ~Seeded
      BY <2>2, <2>4 DEF Foreign, Seeded
    <3>2. Drawn(h.copy) \in Nat
      BY <1>5, DrawnType
    <3> QED BY <1>1, <1>4, <2>1, <2>4, <3>1, <3>2, WarmKeeps
  <2> QED BY <2>3, <2>4
<1> QED BY <1>6, <1>7

LEMMA HandHashInv == \A w \in BenchThreads : SumInv /\ HandHash(w) => SumInv'
<1> SUFFICES ASSUME NEW w \in BenchThreads, SumInv, HandHash(w) PROVE SumInv'
  OBVIOUS
<1> DEFINE h    == benchWorkers[w]
           hand == [h EXCEPT !.at = "inner", !.nonce = benchNonce.counter]
<1>1. /\ h.at = "hash" /\ h.job = "seed" /\ UNCHANGED <<benchMiner, benchState>>
      /\ benchData' = Xor(benchData, {h.nonce}) /\ Comes(w, hand)
      /\ benchNonce' = [benchNonce EXCEPT !.counter = Drawn("seed")]
  BY DEF HandHash, At, Draws
<1>2. h \in Hands /\ benchNonce.counter \in Nat
  BY DEF SumInv, BenchTypeOK
<1>3. hand \in Hands /\ hand.at = "inner" /\ hand.job = "seed" /\ hand.nonce = benchNonce.counter
  BY <1>1, <1>2 DEF Hands
<1>4. Seeded /\ h.nonce < BenchSize
  BY <1>1 DEF SumInv, SeedInv
<1>5. benchNonce' = [benchNonce EXCEPT !.counter = benchNonce.counter + 1]
  BY <1>1, DrawnType DEF Jobs
<1> HIDE DEF hand
<1> QED BY <1>1, <1>3, <1>4, <1>5, DrawKeeps

LEMMA HandWarmInv == \A w \in BenchThreads : OutcomeOK /\ SumInv /\ HandWarm(w) /\ ~benchHistory'.mixed => SumInv'
<1> SUFFICES ASSUME NEW w \in BenchThreads, OutcomeOK, SumInv, HandWarm(w), ~benchHistory'.mixed PROVE SumInv'
  OBVIOUS
<1> DEFINE h    == benchWorkers[w]
           hand == [h EXCEPT !.at = "inner"]
<1>1. /\ h.at = "hash" /\ h.job = "warm" /\ UNCHANGED <<benchMiner, benchState, benchData>> /\ Goes(w, "inner")
      /\ Draws("warm") \/ UNCHANGED <<benchNonce, benchHistory>>
  BY DEF HandWarm, At
<1>2. CASE UNCHANGED benchNonce
  BY <1>1, <1>2, GoesKeeps
<1>3. CASE Draws("warm")
  <2>1. ~Foreign("warm")
    <3>1. benchHistory' = [benchHistory EXCEPT !.mixed = benchHistory.mixed \/ Foreign("warm")]
      BY <1>3 DEF Draws
    <3> QED BY <3>1 DEF OutcomeOK
  <2>2. ~Seeded
    BY <2>1 DEF Foreign, Seeded
  <2>3. h \in Hands
    BY DEF SumInv, BenchTypeOK
  <2>4. hand \in Hands /\ hand.at = "inner" /\ hand.job = "warm"
    BY <1>1, <2>3 DEF Hands
  <2>5. Drawn("warm") \in Nat /\ benchNonce' = [benchNonce EXCEPT !.counter = Drawn("warm")]
    BY <1>3, DrawnType DEF Draws, Jobs
  <2>6. Comes(w, hand)
    BY <1>1 DEF Goes
  <2> HIDE DEF hand
  <2> QED BY <1>1, <2>2, <2>4, <2>5, <2>6, WarmKeeps
<1> QED BY <1>1, <1>2, <1>3

\* What done() asserts says that the benchmark has begun
LEMMA HandDoneInv == \A w \in BenchThreads : OutcomeOK /\ SumInv /\ HandDone(w) /\ benchHistory'.wrong = "no" => SumInv'
<1> SUFFICES ASSUME NEW w \in BenchThreads, OutcomeOK, SumInv, HandDone(w), benchHistory'.wrong = "no" PROVE SumInv'
  OBVIOUS
<1>1. benchWorkers[w].at = "done" /\ Goes(w, "lock") /\ UNCHANGED <<benchMiner, benchNonce, benchState, benchData>>
  BY DEF HandDone, At
<1>2. benchState.async
  BY DEF HandDone, GoesWrong, OutcomeOK
<1>3. Begun /\ benchWorkers[w].job = "seed" /\ benchWorkers[w].nonce >= BenchSize
  BY <1>1, <1>2 DEF SumInv, CountInv, SeedInv
<1> QED BY <1>1, <1>3, GoesKeeps

\* The last one that is counted: the others are through with their nonces, and the counter is past the last
LEMMA HandLockInv == \A w \in BenchThreads : OutcomeOK /\ SumInv /\ HandLock(w) /\ benchHistory'.wrong = "no" => SumInv'
<1> SUFFICES ASSUME NEW w \in BenchThreads, OutcomeOK, SumInv, HandLock(w), benchHistory'.wrong = "no" PROVE SumInv'
  OBVIOUS
<1> DEFINE hand == [benchWorkers[w] EXCEPT !.at = "unlock"]
           last == benchState.sent \/ benchState.remaining = 1
<1>1. /\ benchWorkers[w].at = "lock" /\ Comes(w, hand) /\ UNCHANGED <<benchMiner, benchNonce, benchData>>
      /\ benchState' = [benchState EXCEPT !.mutex = {w}, !.remaining = benchState.remaining - 1, !.sent = last]
  BY DEF HandLock, At, Goes
<1>2. benchState.there
  BY DEF HandLock, GoesWrong, OutcomeOK
<1>3. benchWorkers[w] \in Hands
  BY DEF SumInv, BenchTypeOK
<1>4. hand \in Hands /\ hand.at = "unlock" /\ hand.job = benchWorkers[w].job /\ hand.nonce = benchWorkers[w].nonce
  BY <1>3 DEF Hands
<1>5. Begun /\ benchWorkers[w].job = "seed" /\ benchWorkers[w].nonce >= BenchSize /\ w \in Busy
  BY <1>1 DEF SumInv, CountInv, SeedInv, Busy
<1> HIDE DEF hand
<1>6. /\ benchWorkers' = [benchWorkers EXCEPT ![w] = hand]
      /\ \A v \in BenchThreads : benchWorkers'[v] = IF v = w THEN hand ELSE benchWorkers[v]
  BY <1>1 DEF Comes, SumInv, BenchTypeOK
<1>7. Busy' = Busy \ {w}
  BY <1>4, <1>6 DEF Busy
<1>8. /\ Cardinality(Busy) \in Nat /\ Cardinality(Busy) >= 1 /\ Cardinality(Busy') = Cardinality(Busy) - 1
      /\ Cardinality(Busy) = 1 => Busy' = {}
  <2>1. IsFiniteSet(Busy) /\ Cardinality(Busy) \in Nat
    BY BusyIs
  <2>2. Cardinality(Busy) # 0
    BY <1>5, <2>1, FS_EmptySet
  <2>3. IsFiniteSet(Busy') /\ Cardinality(Busy') = Cardinality(Busy) - 1
    BY <1>5, <1>7, <2>1, FS_RemoveElement
  <2>4. Cardinality(Busy') = 0 => Busy' = {}
    BY <2>3, FS_EmptySet
  <2> QED BY <2>1, <2>2, <2>3, <2>4
<1>9. benchState.remaining \in Nat /\ benchState.remaining >= Cardinality(Busy)
  BY <1>5 DEF SumInv, CountInv, BenchTypeOK
<1>10. /\ benchState' \in [there : BOOLEAN, async : BOOLEAN, remaining : Nat, mutex : SUBSET BenchThreads, sent : BOOLEAN]
       /\ benchState'.there = benchState.there /\ benchState'.async = benchState.async
       /\ benchState'.remaining = benchState.remaining - 1 /\ benchState'.sent = last
  <2>1. benchState.remaining - 1 \in Nat
    BY <1>8, <1>9
  <2>2. last \in BOOLEAN
    BY DEF SumInv, BenchTypeOK
  <2> HIDE DEF last
  <2> QED BY <1>1, <2>1, <2>2 DEF SumInv, BenchTypeOK
<1>11. BenchTypeOK'
  BY <1>1, <1>4, <1>6, <1>10 DEF SumInv, BenchTypeOK
<1>12. (Begun' <=> Begun) /\ (Seeded' <=> Seeded)
  BY <1>1 DEF Begun, Seeded
<1>13. CountInv'
  <2>1. benchState'.remaining >= Cardinality(Busy')
    BY <1>8, <1>9, <1>10
  <2> QED BY <1>1, <1>2, <1>5, <1>6, <1>10, <1>12, <2>1 DEF SumInv, CountInv
<1>14. SeedInv'
  BY <1>1, <1>4, <1>5, <1>6, <1>12 DEF SumInv, SeedInv
<1>15. NonceInv'
  <2>1. \A v \in BenchThreads : UNCHANGED <<benchWorkers[v].job, benchWorkers[v].nonce>>
    BY <1>4, <1>6
  <2>2. \A v \in BenchThreads : benchWorkers'[v].at = "end" => benchWorkers[v].at = "end"
    BY <1>4, <1>6
  <2> QED BY <1>1, <1>2, <1>12, <2>1, <2>2 DEF SumInv, NonceInv
<1>16. ASSUME last
       PROVE  Busy' = {} /\ benchData' = 0..(BenchSize - 1)
  <2>1. ~benchState.sent
    BY <1>5 DEF SumInv, SentInv
  <2>2. Busy' = {}
    BY <1>8, <1>9, <1>16, <2>1
  <2>3. \A v \in BenchThreads : benchWorkers[v].job = "seed" => benchWorkers[v].nonce >= BenchSize
    <3>1. \A v \in BenchThreads : v # w => benchWorkers[v].at \in {"unlock", "end"}
      BY <1>7, <2>2 DEF Busy
    <3> QED BY <1>2, <1>5, <3>1 DEF SumInv, SeedInv, NonceInv
  <2>4. Seeded /\ benchNonce.counter > BenchSize /\ benchNonce.counter \in Nat
    <3>1. Seeded /\ benchWorkers[w].nonce < benchNonce.counter
      BY <1>5 DEF SumInv, SeedInv
    <3> QED BY <1>3, <1>5, <3>1, BenchAssumption DEF SumInv, BenchTypeOK, Hands
  <2>5. \A n \in 0..(BenchSize - 1) : n \in benchData
    <3> SUFFICES ASSUME NEW n \in 0..(BenchSize - 1), n \notin benchData PROVE FALSE
      OBVIOUS
    <3>1. n < benchNonce.counter
      BY <2>4, BenchAssumption
    <3>2. PICK v \in BenchThreads : benchWorkers[v].job = "seed" /\ benchWorkers[v].nonce = n
      BY <1>2, <2>4, <3>1 DEF SumInv, NonceInv
    <3> QED BY <2>3, <3>2, BenchAssumption
  <2>6. \A n \in benchData : n \in 0..(BenchSize - 1)
    BY <1>2, BenchAssumption DEF SumInv, NonceInv, BenchTypeOK
  <2> QED BY <1>1, <2>2, <2>5, <2>6
<1>17. SentInv'
  BY <1>2, <1>10, <1>16 DEF SentInv
<1> QED BY <1>11, <1>13, <1>14, <1>15, <1>17 DEF SumInv

LEMMA HandUnlockInv == \A w \in BenchThreads : SumInv /\ HandUnlock(w) => SumInv'
<1> SUFFICES ASSUME NEW w \in BenchThreads, SumInv, HandUnlock(w) PROVE SumInv'
  OBVIOUS
<1> DEFINE hand == [benchWorkers[w] EXCEPT !.at = "end"]
<1>1. /\ benchWorkers[w].at = "unlock" /\ Comes(w, hand) /\ UNCHANGED <<benchMiner, benchNonce, benchData>>
      /\ benchState' = [benchState EXCEPT !.mutex = {}]
  BY DEF HandUnlock, At, Goes
<1>2. benchWorkers[w] \in Hands
  BY DEF SumInv, BenchTypeOK
<1>3. hand \in Hands /\ hand.at = "end" /\ hand.job = benchWorkers[w].job /\ hand.nonce = benchWorkers[w].nonce
  BY <1>2 DEF Hands
<1>4. benchWorkers[w].job = "seed" /\ benchWorkers[w].nonce >= BenchSize
  BY <1>1 DEF SumInv, SeedInv
<1> HIDE DEF hand
<1>5. /\ benchWorkers' = [benchWorkers EXCEPT ![w] = hand]
      /\ \A v \in BenchThreads : benchWorkers'[v] = IF v = w THEN hand ELSE benchWorkers[v]
  BY <1>1 DEF Comes, SumInv, BenchTypeOK
<1>6. /\ benchState' \in [there : BOOLEAN, async : BOOLEAN, remaining : Nat, mutex : SUBSET BenchThreads, sent : BOOLEAN]
      /\ UNCHANGED <<benchState.there, benchState.async, benchState.remaining, benchState.sent>>
  BY <1>1 DEF SumInv, BenchTypeOK
<1>7. BenchTypeOK'
  BY <1>1, <1>3, <1>5, <1>6 DEF SumInv, BenchTypeOK
<1>8. Busy' = Busy /\ (Begun' <=> Begun) /\ (Seeded' <=> Seeded)
  BY <1>1, <1>3, <1>5 DEF Busy, Begun, Seeded
<1>9. CountInv'
  BY <1>1, <1>3, <1>5, <1>6, <1>8 DEF SumInv, CountInv
<1>10. SeedInv'
  BY <1>1, <1>3, <1>5, <1>8 DEF SumInv, SeedInv
<1>11. benchState.there => NonceInv'
  BY <1>1, <1>3, <1>4, <1>5, <1>8 DEF SumInv, NonceInv
<1>12. SentInv'
  BY <1>1, <1>6, <1>8 DEF SumInv, SentInv
<1> QED BY <1>6, <1>7, <1>9, <1>10, <1>11, <1>12 DEF SumInv

-----------------------------------------------------------------------------
BenchStep ==
  BenchLoop \/ BenchError \/ BenchSetEnabled \/ \E w \in BenchThreads : BenchHand(w)

\* Only a sum that was sent is reported
LEMMA ReportIsComplete ==
  ASSUME SumIsComplete, OutcomeOK, SumInv, BenchStep
  PROVE  SumIsComplete' /\ benchClient' \in [request : {"none", "CREATE", "START"}, reported : BOOLEAN, result : SUBSET Nat]
<1>1. CASE BenchReport
  <2>1. benchData = 0..(BenchSize - 1) /\ benchData \in SUBSET Nat
    BY <1>1 DEF BenchReport, SumInv, SentInv, BenchTypeOK
  <2>2. benchClient' = [benchClient EXCEPT !.reported = TRUE, !.result = benchData]
    BY <1>1 DEF BenchReport
  <2> QED BY <2>1, <2>2 DEF SumIsComplete, OutcomeOK
<1>2. CASE \E request \in {"none", "CREATE", "START"} : benchClient' = [benchClient EXCEPT !.request = request]
  BY <1>2 DEF SumIsComplete, OutcomeOK
<1>3. CASE UNCHANGED benchClient
  BY <1>3 DEF SumIsComplete, OutcomeOK
<1>4. CASE BenchReady \/ BenchUnpause \/ BenchError
  <2>1. benchClient.request \in {"none", "CREATE", "START"}
    BY DEF OutcomeOK
  <2>2. \E request \in {"none", "CREATE", "START"} : benchClient' = [benchClient EXCEPT !.request = request]
    BY <1>4, <2>1 DEF BenchReady, BenchUnpause, BenchError
  <2> QED BY <1>2, <2>2
<1>5. CASE BenchWorkersStart \/ BenchTouch \/ BenchReset \/ BenchTick \/ BenchJoin \/ BenchSetEnabled
  BY <1>3, <1>5 DEF BenchWorkersStart, BenchTouch, BenchReset, BenchTick, BenchJoin, BenchSetEnabled
<1>6. CASE \E w \in BenchThreads : BenchHand(w)
  BY <1>3, <1>6 DEF BenchHand, HandBegin, HandTop, HandInner, HandCopy, HandAdd, HandHash, HandWarm, HandDone, HandLock, HandUnlock
<1>7. CASE BenchCreated
  BY <1>2, <1>3, <1>7 DEF BenchCreated
<1> QED BY <1>1, <1>4, <1>5, <1>6, <1>7 DEF BenchStep, BenchLoop

LEMMA HistoryKeeps ==
  ASSUME OutcomeOK, SumInv, BenchStep
  PROVE  benchHistory' \in [mixed : BOOLEAN, overtaken : BOOLEAN, failed : BOOLEAN, error : BOOLEAN, wrong : {"no", "assert", "freed"}]
<1>1. CASE BenchLoop \/ BenchSetEnabled
  BY <1>1 DEF BenchLoop, OutcomeOK, BenchWorkersStart, BenchReady, BenchTouch, BenchUnpause, BenchCreated, BenchReset, BenchReport,
              BenchTick, BenchJoin, BenchSetEnabled
<1>2. CASE BenchError
  BY <1>2 DEF BenchError, OutcomeOK
<1>3. ASSUME NEW w \in BenchThreads, BenchHand(w)
      PROVE  benchHistory' \in [mixed : BOOLEAN, overtaken : BOOLEAN, failed : BOOLEAN, error : BOOLEAN, wrong : {"no", "assert", "freed"}]
  <2>1. CASE HandBegin(w) \/ HandTop(w) \/ HandInner(w) \/ HandCopy(w) \/ HandDone(w) \/ HandLock(w) \/ HandUnlock(w)
    BY <2>1 DEF HandBegin, HandTop, HandInner, HandCopy, HandDone, HandLock, HandUnlock, GoesWrong, OutcomeOK
  <2>2. CASE HandHash(w) \/ HandWarm(w)
    <3>1. \A job : (benchHistory.mixed \/ Foreign(job)) \in BOOLEAN
      BY DEF OutcomeOK, Foreign
    <3>2. benchHistory' = benchHistory \/ \E b \in BOOLEAN : benchHistory' = [benchHistory EXCEPT !.mixed = b]
      BY <2>2, <3>1 DEF HandHash, HandWarm, Draws
    <3> QED BY <3>2 DEF OutcomeOK
  <2>3. CASE HandAdd(w)
    <3> DEFINE late == benchWorkers[w].late
               copy == benchWorkers[w].copy
    <3>1. late \in BOOLEAN /\ (benchHistory.mixed \/ Foreign(copy)) \in BOOLEAN
      BY DEF OutcomeOK, Foreign, SumInv, BenchTypeOK, Hands
    <3>2. \/ benchHistory' = [benchHistory EXCEPT !.overtaken = late]
          \/ benchHistory' = [benchHistory EXCEPT !.overtaken = late, !.mixed = benchHistory.mixed \/ Foreign(copy)]
      BY <2>3 DEF HandAdd
    <3> DEFINE mixed == benchHistory.mixed \/ Foreign(copy)
    <3>3. /\ benchHistory' = [benchHistory EXCEPT !.overtaken = late] \/ benchHistory' = [benchHistory EXCEPT !.overtaken = late, !.mixed = mixed]
          /\ mixed \in BOOLEAN
      BY <3>1, <3>2
    <3> HIDE DEF late, mixed
    <3> QED BY <3>1, <3>3 DEF OutcomeOK, late
  <2> QED BY <1>3, <2>1, <2>2, <2>3 DEF BenchHand
<1> QED BY <1>1, <1>2, <1>3 DEF BenchStep

LEMMA BenchNextInv == BenchInv /\ [BenchNext]_benchVars => BenchInv'
<1> SUFFICES ASSUME BenchInv, [BenchNext]_benchVars PROVE BenchInv'
  OBVIOUS
<1>1. CASE UNCHANGED benchVars
  <2>1. UNCHANGED <<benchMiner, benchNonce, benchState, benchData, benchClient, benchWorkers, benchHistory>>
    BY <1>1 DEF benchVars
  <2> QED BY <2>1 DEF BenchInv, SumIsComplete, OutcomeOK, Right, SumInv, BenchTypeOK, CountInv, SeedInv, NonceInv, SentInv,
                      Begun, Busy, Seeded
<1>2. CASE Right /\ BenchStep
  <2>1. SumInv /\ OutcomeOK /\ SumIsComplete
    BY <1>2 DEF BenchInv
  <2>2. SumIsComplete' /\ OutcomeOK'
    BY <1>2, <2>1, ReportIsComplete, HistoryKeeps DEF OutcomeOK
  <2>3. Right' => SumInv'
    <3>1. CASE BenchLoop \/ BenchError \/ BenchSetEnabled
      BY <2>1, <3>1, BenchWorkersStartInv, BenchReadyInv, BenchResetInv, LoopRestInv DEF BenchLoop
    <3>2. ASSUME NEW w \in BenchThreads, BenchHand(w), Right'
          PROVE  SumInv'
      <4>1. ~benchHistory'.mixed /\ benchHistory'.wrong = "no"
        BY <3>2 DEF Right
      <4> QED BY <2>1, <3>2, <4>1, HandBeginInv, HandTopInv, HandInnerInv, HandCopyInv, HandAddInv, HandHashInv, HandWarmInv,
                 HandDoneInv, HandLockInv, HandUnlockInv DEF BenchHand
    <3> QED BY <1>2, <3>1, <3>2 DEF BenchStep
  <2> QED BY <2>2, <2>3 DEF BenchInv
<1> QED BY <1>1, <1>2 DEF BenchNext, BenchOver, BenchStep

\* For any number of threads and of nonces: a sum that is reported has the hash of each nonce below
\* benchSize, and each once, though the threads, the user and the server do what they do at any time.
THEOREM SumsAreComplete == BenchSpec => []SumIsComplete
<1>1. BenchInv => SumIsComplete
  BY DEF BenchInv
<1> QED BY <1>1, BenchInitInv, BenchNextInv, PTL DEF BenchSpec

-----------------------------------------------------------------------------
(* How it ends *)

\* The sum was reported, and no thread is before the end of done()'s protected part
Delivered == benchClient.reported /\ Busy = {}

\* The benchmark is there until an error or its report ends it, and unless a thread failed its
\* self-test it counts the threads exactly: the last one sends
EndInv ==
  /\ benchState.there => (benchState.async <=> Begun)
  /\ ~benchState.there => Begun /\ (benchHistory.error \/ Delivered)
  /\ benchState.there /\ ~benchHistory.failed =>
       /\ benchMiner.at = "ready" => Busy = BenchThreads
       /\ Begun => benchState.remaining = Cardinality(Busy) /\ (Busy = {} => benchState.sent)

\* What done() asserts fails for the causes that BenchEnds names; d_ptr is used after its end
\* after an error, or by the thread that was last when it unlocks the mutex it had.
DoneFailsForACause ==
  /\ benchHistory.wrong = "assert" => KnownCause
  /\ benchHistory.wrong = "freed" => benchHistory.error \/ Delivered

\* While the benchmark is there, and no thread failed its self-test, a benchmark all of whose
\* threads are through has its report under way.
LastOneSends ==
  Right /\ Begun /\ benchState.there /\ ~benchHistory.failed /\ Busy = {} => benchState.sent

EndsInv == (Right => EndInv) /\ DoneFailsForACause

LEMMA BusyAfter ==
  ASSUME BenchTypeOK, NEW w \in BenchThreads, NEW hand, Comes(w, hand)
  PROVE  Busy' = IF hand.at \in {"unlock", "end"} THEN Busy \ {w} ELSE Busy \union {w}
<1>1. \A v \in BenchThreads : benchWorkers'[v] = IF v = w THEN hand ELSE benchWorkers[v]
  BY DEF Comes, BenchTypeOK
<1> QED BY <1>1 DEF Busy

\* The loop's steps that start the threads and the benchmark
LEMMA StartEnds ==
  ASSUME OutcomeOK, SumInv, EndInv, BenchWorkersStart \/ BenchReady
  PROVE  EndInv'
<1>1. CASE BenchWorkersStart
  <2>1. PICK job \in {"warm", "seed"} :
          benchMiner.at = "wait" /\ benchMiner' = [benchMiner EXCEPT !.at = "ready", !.job = job]
    BY <1>1 DEF BenchWorkersStart
  <2>2. ~Begun /\ ~Begun'
    BY <2>1 DEF Begun, SumInv, BenchTypeOK
  <2>3. benchWorkers' = [w \in BenchThreads |-> NewHand] /\ UNCHANGED <<benchState, benchHistory>>
    BY <1>1 DEF BenchWorkersStart
  <2>4. Busy' = BenchThreads
    BY <2>3 DEF Busy, NewHand
  <2> QED BY <2>2, <2>3, <2>4 DEF EndInv
<1>2. CASE BenchReady
  <2>1. /\ benchMiner.at = "ready" /\ benchMiner' = [benchMiner EXCEPT !.at = "touch"]
        /\ benchState' = [benchState EXCEPT !.async = TRUE, !.remaining = Cardinality(BenchThreads)]
        /\ UNCHANGED <<benchWorkers, benchHistory>>
    BY <1>2 DEF BenchReady, LoopGoes, StateStarts
  <2>2. ~Begun /\ Begun' /\ benchMiner'.at # "ready" /\ Busy' = Busy
    BY <2>1 DEF Begun, Busy, SumInv, BenchTypeOK
  <2>3. benchState.there
    BY <2>2 DEF EndInv
  <2>4. benchState'.there /\ benchState'.async /\ benchState'.remaining = Cardinality(BenchThreads)
    BY <2>1, <2>3 DEF SumInv, BenchTypeOK
  <2>5. ~benchHistory.failed => Busy = BenchThreads
    BY <2>1, <2>3 DEF EndInv
  <2> QED BY <2>1, <2>2, <2>4, <2>5, BenchAssumption DEF EndInv
<1> QED BY <1>1, <1>2

\* Of the others some end it: a report that was sent, or an error
LEMMA LoopEnds ==
  ASSUME OutcomeOK, SumInv, EndInv,
         BenchTouch \/ BenchUnpause \/ BenchCreated \/ BenchReset \/ BenchReport \/ BenchTick \/ BenchJoin
         \/ BenchError \/ BenchSetEnabled
  PROVE  EndInv'
<1>1. (Begun' <=> Begun) /\ (benchMiner'.at = "ready" => benchMiner.at = "ready")
  BY DEF LoopGoes, Begun, SumInv, BenchTypeOK, BenchTouch, BenchUnpause, BenchCreated, BenchReset, BenchReport, BenchTick,
         BenchJoin, BenchError, BenchSetEnabled
<1>2. benchWorkers' = benchWorkers \/ benchWorkers' = Touched
  BY DEF BenchTouch, BenchUnpause, BenchCreated, BenchReset, BenchReport, BenchTick, BenchJoin, BenchError, BenchSetEnabled
<1>3. Busy' = Busy
  <2>1. \A w \in BenchThreads : benchWorkers[w] \in Hands
    BY DEF SumInv, BenchTypeOK
  <2>2. CASE benchWorkers' = Touched
    <3>1. \A w \in BenchThreads : benchWorkers'[w].at = benchWorkers[w].at
      BY <2>1, <2>2 DEF Touched, Hands
    <3> QED BY <3>1 DEF Busy
  <2> QED BY <1>2, <2>2 DEF Busy
<1>4. CASE BenchReport
  <2>1. benchState.sent /\ benchState' = Destroyed /\ benchClient'.reported
    BY <1>4 DEF BenchReport, OutcomeOK
  <2>2. ~benchState'.there /\ Busy = {} /\ Begun
    BY <2>1 DEF Destroyed, SumInv, BenchTypeOK, SentInv, CountInv
  <2> QED BY <1>1, <1>3, <2>1, <2>2 DEF EndInv, Delivered
<1>5. CASE BenchError
  <2>1. benchMiner.at = "idle" /\ benchState' = Destroyed /\ benchHistory'.error
    BY <1>5 DEF BenchError, OutcomeOK
  <2>2. ~benchState'.there /\ Begun
    BY <2>1 DEF Destroyed, SumInv, BenchTypeOK, Begun
  <2> QED BY <1>1, <2>1, <2>2 DEF EndInv
<1>6. CASE BenchTouch \/ BenchUnpause \/ BenchCreated \/ BenchReset \/ BenchTick \/ BenchJoin \/ BenchSetEnabled
  <2>1. UNCHANGED <<benchState, benchHistory>>
    BY <1>6 DEF BenchTouch, BenchUnpause, BenchCreated, BenchReset, BenchTick, BenchJoin, BenchSetEnabled
  <2>2. benchClient'.reported = benchClient.reported
    BY <1>6 DEF BenchTouch, BenchUnpause, BenchCreated, BenchReset, BenchTick, BenchJoin, BenchSetEnabled, OutcomeOK
  <2> QED BY <1>1, <1>3, <2>1, <2>2 DEF EndInv, Delivered
<1> QED BY <1>4, <1>5, <1>6

\* A thread that is not counted, or that the benchmark does not wait for
LEMMA HandEnds ==
  ASSUME SumInv, EndInv, NEW w \in BenchThreads, NEW hand, Comes(w, hand),
         UNCHANGED <<benchMiner, benchState, benchClient, benchHistory.error>>,
         benchHistory.failed => benchHistory'.failed,
         \/ hand.at \in {"unlock", "end"} <=> benchWorkers[w].at \in {"unlock", "end"}
         \/ hand.at \in {"unlock", "end"} /\ (~benchState.there \/ benchHistory'.failed)
  PROVE  EndInv'
<1>1. Busy' = IF hand.at \in {"unlock", "end"} THEN Busy \ {w} ELSE Busy \union {w}
  BY BusyAfter DEF SumInv
<1>2. Begun' <=> Begun
  BY DEF Begun
<1>3. CASE hand.at \in {"unlock", "end"} <=> benchWorkers[w].at \in {"unlock", "end"}
  <2>1. Busy' = Busy
    BY <1>1, <1>3 DEF Busy
  <2> QED BY <1>2, <2>1 DEF EndInv, Delivered
<1>4. CASE hand.at \in {"unlock", "end"} /\ (~benchState.there \/ benchHistory'.failed)
  <2>1. Busy' \subseteq Busy
    BY <1>1, <1>4
  <2> QED BY <1>2, <1>4, <2>1 DEF EndInv, Delivered
<1> QED BY <1>3, <1>4

LEMMA HandsEnd ==
  ASSUME OutcomeOK, SumInv, EndInv, NEW w \in BenchThreads, BenchHand(w), Right'
  PROVE  EndInv'
<1> DEFINE h == benchWorkers[w]
<1>1. h \in Hands
  BY DEF SumInv, BenchTypeOK
<1>2. CASE HandBegin(w)
  <2>1. PICK to \in {"top", "end"} : Goes(w, to) /\ (to = "end" => benchHistory'.failed)
    BY <1>2 DEF HandBegin, OutcomeOK
  <2>2. [h EXCEPT !.at = to].at = to /\ h.at = "begin"
    BY <1>1, <1>2 DEF Hands, HandBegin, At
  <2>3. UNCHANGED <<benchMiner, benchState, benchClient, benchHistory.error>> /\ (benchHistory.failed => benchHistory'.failed)
    BY <1>2 DEF HandBegin, OutcomeOK
  <2> QED BY <2>1, <2>2, <2>3, HandEnds DEF Goes
<1>3. CASE HandTop(w)
  <2>1. UNCHANGED <<benchMiner, benchState, benchClient, benchHistory>>
    BY <1>3 DEF HandTop
  <2>2. PICK hand \in Hands : Comes(w, hand) /\ (hand.at \in {"unlock", "end"} => hand.at = "end" /\ benchNonce.stopped)
    <3>1. \A to \in {"end", "sleep", "inner"} : [h EXCEPT !.at = to] \in Hands /\ [h EXCEPT !.at = to].at = to
      BY <1>1 DEF Hands
    <3>2. [h EXCEPT !.at = "copy", !.back = "inner"] \in Hands /\ [h EXCEPT !.at = "copy", !.back = "inner"].at = "copy"
      BY <1>1 DEF Hands
    <3>3. \/ \E to \in {"end", "sleep", "inner"} : Goes(w, to) /\ (to = "end" => benchNonce.stopped)
          \/ Comes(w, [h EXCEPT !.at = "copy", !.back = "inner"])
      BY <1>3 DEF HandTop
    <3> QED BY <3>1, <3>2, <3>3 DEF Goes
  <2>3. h.at \notin {"unlock", "end"} /\ (benchNonce.stopped => ~benchState.there)
    BY <1>3 DEF HandTop, At, SumInv, CountInv
  <2> QED BY <2>1, <2>2, <2>3, HandEnds
<1>4. CASE HandInner(w) \/ HandCopy(w) \/ HandDone(w) \/ HandWarm(w)
  <2>1. UNCHANGED <<benchMiner, benchState, benchClient>> /\ h.at \in {"inner", "copy", "done", "hash"}
    BY <1>4 DEF HandInner, HandCopy, HandDone, HandWarm, At
  <2>2. UNCHANGED <<benchHistory.error, benchHistory.failed>>
    BY <1>4 DEF HandInner, HandCopy, HandDone, HandWarm, Draws, GoesWrong, OutcomeOK
  <2>3. PICK hand : Comes(w, hand) /\ hand.at \notin {"unlock", "end"}
    <3>1. \A to \in {"top", "inner", "done", "hash", "lock"} : [h EXCEPT !.at = to].at = to
      BY <1>1 DEF Hands
    <3>2. h.back \in {"top", "inner"}
      BY <1>1 DEF Hands
    <3>3. CASE HandInner(w)
      <4>1. [h EXCEPT !.at = "copy", !.back = "top"].at = "copy"
        BY <1>1 DEF Hands
      <4>2. \/ \E to \in {"top", "inner", "done", "hash", "lock"} : Goes(w, to)
            \/ Comes(w, [h EXCEPT !.at = "copy", !.back = "top"])
        BY <3>3 DEF HandInner
      <4> QED BY <3>1, <4>1, <4>2 DEF Goes
    <3>4. CASE HandCopy(w)
      <4>1. [h EXCEPT !.at = "add", !.copy = benchMiner.job].at = "add"
        BY <1>1 DEF Hands
      <4>2. Goes(w, h.back) \/ Comes(w, [h EXCEPT !.at = "add", !.copy = benchMiner.job])
        BY <3>4 DEF HandCopy
      <4> QED BY <3>1, <3>2, <4>1, <4>2 DEF Goes
    <3>5. CASE HandDone(w) \/ HandWarm(w)
      <4>1. Goes(w, "lock") \/ Goes(w, "inner")
        BY <3>5 DEF HandDone, HandWarm
      <4> QED BY <3>1, <4>1 DEF Goes
    <3> QED BY <1>4, <3>3, <3>4, <3>5
  <2> QED BY <2>1, <2>2, <2>3, HandEnds
<1>5. CASE HandAdd(w)
  <2> DEFINE hand == [h EXCEPT !.at = h.back, !.copy = "none", !.current = TRUE, !.late = FALSE]
             next == [hand EXCEPT !.job = h.copy, !.nonce = IF h.copy = "seed" THEN benchNonce.counter ELSE 0]
  <2>1. UNCHANGED <<benchMiner, benchState, benchClient>> /\ h.at = "add" /\ (Comes(w, hand) \/ Comes(w, next))
    BY <1>5 DEF HandAdd, At
  <2>2. UNCHANGED <<benchHistory.error, benchHistory.failed>>
    BY <1>5 DEF HandAdd, OutcomeOK
  <2>3. hand.at \in {"top", "inner"} /\ next.at = hand.at
    BY <1>1 DEF Hands
  <2> HIDE DEF hand, next
  <2> QED BY <2>1, <2>2, <2>3, HandEnds
<1>6. CASE HandHash(w)
  <2> DEFINE hand == [h EXCEPT !.at = "inner", !.nonce = benchNonce.counter]
  <2>1. UNCHANGED <<benchMiner, benchState, benchClient>> /\ h.at = "hash" /\ Comes(w, hand)
    BY <1>6 DEF HandHash, At
  <2>2. UNCHANGED <<benchHistory.error, benchHistory.failed>>
    BY <1>6 DEF HandHash, Draws, OutcomeOK
  <2>3. hand.at = "inner"
    BY <1>1 DEF Hands
  <2> HIDE DEF hand
  <2> QED BY <2>1, <2>2, <2>3, HandEnds
<1>7. CASE HandLock(w)
  <2> DEFINE hand == [h EXCEPT !.at = "unlock"]
  <2>1. /\ h.at = "lock" /\ Comes(w, hand) /\ UNCHANGED <<benchMiner, benchClient>>
        /\ benchState' = [benchState EXCEPT !.mutex = {w}, !.remaining = benchState.remaining - 1,
                                            !.sent = benchState.sent \/ benchState.remaining = 1]
    BY <1>7 DEF HandLock, At, Goes
  <2>2. benchState.there /\ UNCHANGED benchHistory
    BY <1>7 DEF HandLock, GoesWrong, OutcomeOK, Right
  <2>3. hand.at = "unlock"
    BY <1>1 DEF Hands
  <2> HIDE DEF hand
  <2>4. Busy' = Busy \ {w} /\ w \in Busy /\ (Begun' <=> Begun)
    BY <2>1, <2>3, BusyAfter DEF SumInv, Busy, Begun
  <2>5. IsFiniteSet(Busy) /\ Cardinality(Busy) \in Nat /\ Cardinality(Busy') = Cardinality(Busy) - 1
    BY <2>4, BusyIs, FS_RemoveElement
  <2>6. Busy' = {} => Cardinality(Busy) = 1
    BY <2>5, FS_EmptySet
  <2>7. /\ benchState'.there /\ benchState'.async = benchState.async /\ benchState'.remaining = benchState.remaining - 1
        /\ benchState.remaining = 1 => benchState'.sent
    <3>1. (benchState.sent \/ benchState.remaining = 1) \in BOOLEAN /\ benchState.remaining \in Nat
      BY DEF SumInv, BenchTypeOK
    <3> QED BY <2>1, <2>2, <3>1 DEF SumInv, BenchTypeOK
  <2>8. Begun
    BY <2>1 DEF SumInv, CountInv
  <2> QED BY <2>1, <2>2, <2>4, <2>5, <2>6, <2>7, <2>8 DEF EndInv, Begun
<1>8. CASE HandUnlock(w)
  <2>1. /\ h.at = "unlock" /\ Goes(w, "end") /\ UNCHANGED <<benchMiner, benchClient>>
        /\ benchState' = [benchState EXCEPT !.mutex = {}]
    BY <1>8 DEF HandUnlock, At
  <2>2. benchState.there /\ UNCHANGED benchHistory
    BY <1>8 DEF HandUnlock, GoesWrong, OutcomeOK, Right
  <2>3. [h EXCEPT !.at = "end"].at = "end"
    BY <1>1 DEF Hands
  <2>4. Busy' = Busy /\ (Begun' <=> Begun)
    BY <2>1, <2>3, BusyAfter DEF SumInv, Busy, Begun, Goes
  <2>5. UNCHANGED <<benchState.there, benchState.async, benchState.remaining, benchState.sent>>
    BY <2>1 DEF SumInv, BenchTypeOK
  <2> QED BY <2>1, <2>2, <2>4, <2>5 DEF EndInv
<1> QED BY <1>2, <1>3, <1>4, <1>5, <1>6, <1>7, <1>8 DEF BenchHand

\* An assertion fails, or memory is used after its end, only in done()
LEMMA DoneFails ==
  ASSUME OutcomeOK, SumInv, EndInv, Right, BenchStep
  PROVE  DoneFailsForACause'
<1>1. benchHistory.wrong = "no"
  BY DEF Right
<1>2. CASE BenchLoop \/ BenchError \/ BenchSetEnabled
  BY <1>1, <1>2 DEF BenchLoop, BenchError, OutcomeOK, BenchWorkersStart, BenchReady, BenchTouch, BenchUnpause, BenchCreated,
     BenchReset, BenchReport, BenchTick, BenchJoin, BenchSetEnabled, DoneFailsForACause
<1>3. ASSUME NEW w \in BenchThreads, BenchHand(w)
      PROVE  DoneFailsForACause'
  <2>1. CASE HandDone(w)
    <3>1. UNCHANGED benchState /\ benchWorkers[w].at = "done" /\ benchHistory'.error = benchHistory.error
      BY <2>1 DEF HandDone, At, GoesWrong, OutcomeOK
    <3>2. benchHistory'.wrong # "no" => ~(benchState.there /\ benchState.async /\ benchState.remaining > 0)
      BY <1>1, <2>1 DEF HandDone
    <3>3. w \in Busy
      BY <3>1 DEF Busy
    <3>4. benchState.async => benchState.remaining > 0
      <4>1. IsFiniteSet(Busy) /\ Cardinality(Busy) \in Nat /\ Cardinality(Busy) # 0
        BY <3>3, BusyIs, FS_EmptySet
      <4> QED BY <4>1 DEF SumInv, CountInv, BenchTypeOK
    <3>5. ~benchState.there => benchHistory.error
      BY <3>3 DEF EndInv, Delivered
    <3>6. benchHistory'.wrong \in {"no", "assert"}
      BY <1>1, <2>1 DEF HandDone, GoesWrong, OutcomeOK
    <3> QED BY <3>1, <3>2, <3>4, <3>5, <3>6 DEF DoneFailsForACause, KnownCause
  <2>2. CASE HandLock(w) \/ HandUnlock(w)
    <3>1. benchHistory'.wrong \in {"no", "freed"} /\ benchHistory'.error = benchHistory.error
      BY <1>1, <2>2 DEF HandLock, HandUnlock, GoesWrong, OutcomeOK
    <3>2. benchHistory'.wrong # "no" => ~benchState.there
      BY <1>1, <2>2 DEF HandLock, HandUnlock
    <3>3. Busy' \subseteq Busy /\ UNCHANGED benchClient
      <4>1. PICK to \in {"unlock", "end"} : Goes(w, to) /\ UNCHANGED benchClient
        BY <2>2 DEF HandLock, HandUnlock
      <4>2. [benchWorkers[w] EXCEPT !.at = to].at = to
        BY DEF SumInv, BenchTypeOK, Hands
      <4> QED BY <4>1, <4>2, BusyAfter DEF SumInv, Goes
    <3> QED BY <3>1, <3>2, <3>3 DEF EndInv, Delivered, DoneFailsForACause
  <2>3. CASE ~HandDone(w) /\ ~HandLock(w) /\ ~HandUnlock(w)
    <3>1. benchHistory'.wrong = benchHistory.wrong
      BY <1>3, <2>3 DEF BenchHand, HandBegin, HandTop, HandInner, HandCopy, HandAdd, HandHash, HandWarm, Draws, OutcomeOK
    <3> QED BY <1>1, <3>1 DEF DoneFailsForACause
  <2> QED BY <2>1, <2>2, <2>3
<1> QED BY <1>2, <1>3 DEF BenchStep

LEMMA EndsStep ==
  ASSUME BenchInv, EndsInv, [BenchNext]_benchVars
  PROVE  EndsInv'
<1>1. CASE UNCHANGED benchVars
  BY <1>1 DEF benchVars, EndsInv, EndInv, DoneFailsForACause, Right, Begun, Busy, Delivered, KnownCause
<1>2. CASE Right /\ BenchStep
  <2>1. OutcomeOK /\ SumInv /\ EndInv
    BY <1>2 DEF BenchInv, EndsInv
  <2>2. Right' => EndInv'
    BY <1>2, <2>1, StartEnds, LoopEnds, HandsEnd DEF BenchStep, BenchLoop
  <2> QED BY <1>2, <2>1, <2>2, DoneFails DEF EndsInv
<1> QED BY <1>1, <1>2 DEF BenchNext, BenchOver, BenchStep

LEMMA EndsAlways == BenchSpec => [](BenchInv /\ EndsInv)
<1>1. BenchInit => EndsInv
  BY DEF BenchInit, EndsInv, EndInv, DoneFailsForACause, Begun
<1> QED BY <1>1, BenchInitInv, BenchNextInv, EndsStep, PTL DEF BenchSpec

\* For any number of threads and of nonces: BenchState::done asserts what is not so only where the
\* server's error, or threads that came before BenchState::start, made it so, and uses the state after
\* its end only after an error, or to unlock its mutex as the last thread.
THEOREM AssertionsFailForACause == BenchSpec => []DoneFailsForACause
<1>1. EndsInv => DoneFailsForACause
  BY DEF EndsInv
<1> QED BY <1>1, EndsAlways, PTL

\* The thread that is counted last sends the async (BenchState::done), whatever the order in which they
\* come, so that a benchmark whose threads are through is reported: the safety under BenchEnds.
THEOREM LastThreadSends == BenchSpec => []LastOneSends
<1>1. EndsInv => LastOneSends
  BY DEF EndsInv, EndInv, LastOneSends
<1> QED BY <1>1, EndsAlways, PTL
=============================================================================
