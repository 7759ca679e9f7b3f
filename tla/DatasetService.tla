--------------------------- MODULE DatasetService ---------------------------
(***************************************************************************)
(* What the RandomX dataset queue (src/src/crypto/rx/RxQueue.cpp) promises *)
(* to the rest of the miner: a client asks for the dataset of a seed, the  *)
(* one block of dataset memory is rewritten for the newest request only,   *)
(* and the client is signalled when the rewriting is over.                 *)
(*                                                                         *)
(* RxQueue.tla, the queue with its thread, mutex and condition variable,   *)
(* implements this specification; Mining.tla composes it with the miner    *)
(* and its worker threads, and takes its actions one by one.               *)
(***************************************************************************)
CONSTANTS Seeds,     \* the seeds (algorithm and seed hash) jobs can ask for
          NoSeed,    \* no seed: nothing was requested, or no memory
          Rewriting  \* the memory holds parts of two datasets

ASSUME DatasetAssumption == NoSeed \notin Seeds /\ Rewriting \notin Seeds /\ NoSeed # Rewriting

VARIABLES
  phase,    \* "IDLE", "PENDING" or "SHUTDOWN": RxQueue::m_state
  wanted,   \* the newest seed asked for: RxQueue::m_seed
  content,  \* the seed whose dataset is in memory, Rewriting, or NoSeed before
            \* memory is allocated
  signal    \* the completion signal is on its way to the event loop

dsVars == <<phase, wanted, content, signal>>

DSTypeOK ==
  /\ phase \in {"IDLE", "PENDING", "SHUTDOWN"}
  /\ wanted \in Seeds \union {NoSeed}
  /\ content \in Seeds \union {NoSeed, Rewriting}
  /\ signal \in BOOLEAN

DSInit == phase = "IDLE" /\ wanted = NoSeed /\ content = NoSeed /\ signal = FALSE

\* Rx::isReady(seed)
Ready(s) == phase = "IDLE" /\ content # NoSeed /\ wanted = s

\* Rx::dataset(job) is not null
Available(s) == Ready(s) /\ content = s

\* RxQueue::enqueue(seed): a request for what is already being made changes nothing
Request(s) ==
  /\ phase # "SHUTDOWN"
  /\ IF phase = "PENDING" /\ wanted = s
       THEN UNCHANGED dsVars
       ELSE /\ phase' = "PENDING"
            /\ wanted' = s
            /\ UNCHANGED <<content, signal>>

\* The queue's thread starts to overwrite the memory it has, if it has any
Rewrite ==
  /\ phase # "IDLE"
  /\ content' \in IF content = NoSeed THEN {NoSeed, Rewriting} ELSE {Rewriting}
  /\ UNCHANGED <<phase, wanted, signal>>

\* It has written one whole dataset, perhaps not of the newest seed
Written(s) ==
  /\ phase # "IDLE"
  /\ content = Rewriting
  /\ content' = s
  /\ UNCHANGED <<phase, wanted, signal>>

\* The newest request is served, or there is no memory for it
Complete ==
  /\ phase = "PENDING"
  /\ content \in {wanted, NoSeed}
  /\ phase' = "IDLE"
  /\ signal' = TRUE
  /\ UNCHANGED <<wanted, content>>

\* The event loop takes the signal
Deliver ==
  /\ signal
  /\ signal' = FALSE
  /\ UNCHANGED <<phase, wanted, content>>

Shutdown ==
  /\ phase' = "SHUTDOWN"
  /\ UNCHANGED <<wanted, content, signal>>

DSNext ==
  \/ \E s \in Seeds : Request(s)
  \/ Rewrite
  \/ \E s \in Seeds : Written(s)
  \/ Complete
  \/ Deliver
  \/ Shutdown

DSSpec == DSInit /\ [][DSNext]_dsVars
=============================================================================
