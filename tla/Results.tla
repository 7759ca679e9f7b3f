------------------------------- MODULE Results -------------------------------
(***************************************************************************)
(* How results get from the threads to the network: JobResults, which      *)
(* hands them to the event loop by a list, a mutex and an Async (on Linux  *)
(* an eventfd), and Controller::stop, which ends both sides.               *)
(*                                                                         *)
(* The threads are those of Mining: here one finds results, until it is    *)
(* joined. Results for the GPUs' bundles take another way, left out.       *)
(***************************************************************************)
EXTENDS Naturals, Sequences, SequencesExt

CONSTANTS Workers,
          NoWorker,   \* nobody
          MaxResults  \* bound of the model: results a thread finds

ASSUME ResultsAssumption == NoWorker \notin Workers /\ MaxResults \in Nat

VARIABLES
  handler,   \* the static pointer: "set", "freed" or "null"
  results,   \* m_results
  mutex,     \* the thread that holds m_mutex
  event,     \* the eventfd has been written to
  batch,     \* what onAsync took out of m_results
  delivered, \* what IJobResultListener::onJobResult was called with
  loop,      \* "run", "swap", "deliver"; the steps of stop; "end"
  workers,   \* each thread's place
  found,     \* how many results it has found
  wrong      \* "no"; "assert" when a thread found no handler, "freed" when it used it

resultsVars == <<handler, results, mutex, event, batch, delivered, loop, workers, found, wrong>>

Result == Workers \X (1..MaxResults)

ResultsTypeOK ==
  /\ handler \in {"set", "freed", "null"}
  /\ results \in Seq(Result) /\ batch \in Seq(Result) /\ delivered \in Seq(Result)
  /\ mutex \in Workers \union {NoWorker}
  /\ \A w \in Workers : workers[w] \in {"push", "send"} <=> mutex = w
  /\ event \in BOOLEAN
  /\ loop \in {"run", "swap", "deliver", "stop", "null", "miner", "join", "end"}
  /\ workers \in [Workers -> {"hash", "submit", "lock", "push", "send", "end"}]
  /\ found \in [Workers -> 0..MaxResults]
  /\ wrong \in {"no", "assert", "freed"}

ResultsInit ==
  /\ handler = "set"
  /\ results = <<>> /\ batch = <<>> /\ delivered = <<>>
  /\ mutex = NoWorker /\ event = FALSE
  /\ loop = "run"
  /\ workers = [w \in Workers |-> "hash"]
  /\ found = [w \in Workers |-> 0]
  /\ wrong = "no"

-----------------------------------------------------------------------------
(* A thread *)

Moves(w, from, to) == workers[w] = from /\ workers' = [workers EXCEPT ![w] = to]

\* A hash is below the target
Find(w) ==
  /\ Moves(w, "hash", "submit")
  /\ found[w] < MaxResults
  /\ found' = [found EXCEPT ![w] = @ + 1]
  /\ UNCHANGED <<handler, results, mutex, event, batch, delivered, loop, wrong>>

\* JobResults::submit asserts and tests the handler
Test(w) ==
  /\ IF handler = "null" THEN Moves(w, "submit", "hash") /\ wrong' = "assert"
     ELSE Moves(w, "submit", "lock") /\ UNCHANGED wrong
  /\ UNCHANGED <<handler, results, mutex, event, batch, delivered, loop, found>>

Uses == wrong' = IF handler = "set" THEN wrong ELSE "freed"

\* JobResultsPrivate::submit under its mutex
Lock(w) ==
  /\ mutex = NoWorker
  /\ Moves(w, "lock", "push")
  /\ mutex' = w
  /\ Uses
  /\ UNCHANGED <<handler, results, event, batch, delivered, loop, found>>

Push(w) ==
  /\ Moves(w, "push", "send")
  /\ results' = Append(results, <<w, found[w]>>)
  /\ Uses
  /\ UNCHANGED <<handler, mutex, event, batch, delivered, loop, found>>

\* Async::send, and the mutex is released
Send(w) ==
  /\ Moves(w, "send", "hash")
  /\ event' = TRUE
  /\ mutex' = NoWorker
  /\ Uses
  /\ UNCHANGED <<handler, results, batch, delivered, loop, found>>

\* The sequence is zero: the thread ends
Leave(w) ==
  /\ loop = "join"
  /\ Moves(w, "hash", "end")
  /\ UNCHANGED <<handler, results, mutex, event, batch, delivered, loop, found, wrong>>

-----------------------------------------------------------------------------
(* The event loop *)

Turns(from, to) == loop = from /\ loop' = to

\* on_schedule reads the eventfd until it is empty, then calls onAsync
OnSchedule ==
  /\ event
  /\ Turns("run", "swap")
  /\ event' = FALSE
  /\ UNCHANGED <<handler, results, mutex, batch, delivered, workers, found, wrong>>

SwapCopies ==
  /\ mutex = NoWorker
  /\ Turns("swap", "deliver")
  /\ batch' = results
  /\ UNCHANGED <<handler, results, mutex, event, delivered, workers, found, wrong>>

\* JobResultsPrivate::submit in the loop
Swap ==
  /\ mutex = NoWorker
  /\ Turns("swap", "deliver")
  /\ batch' = results /\ results' = <<>>
  /\ UNCHANGED <<handler, mutex, event, delivered, workers, found, wrong>>

DeliverThenDrain ==
  /\ Turns("deliver", "run")
  /\ delivered' = delivered \o batch /\ batch' = <<>>
  /\ event' = FALSE
  /\ UNCHANGED <<handler, results, mutex, workers, found, wrong>>

Deliver ==
  /\ Turns("deliver", "run")
  /\ delivered' = delivered \o batch /\ batch' = <<>>
  /\ UNCHANGED <<handler, results, mutex, event, workers, found, wrong>>

\* Controller::stop: the network goes first, and with it JobResults
Stop ==
  /\ Turns("run", "stop")
  /\ UNCHANGED <<handler, results, mutex, event, batch, delivered, workers, found, wrong>>

DeleteHandler ==
  /\ Turns("stop", "null")
  /\ handler' = "freed" /\ event' = FALSE
  /\ UNCHANGED <<results, mutex, batch, delivered, workers, found, wrong>>

NullHandler ==
  /\ Turns("null", "miner")
  /\ handler' = "null"
  /\ UNCHANGED <<results, mutex, event, batch, delivered, workers, found, wrong>>

\* Miner::stop: the sequence is set to zero, the threads are joined
MinerStop ==
  /\ Turns("miner", "join")
  /\ UNCHANGED <<handler, results, mutex, event, batch, delivered, workers, found, wrong>>

Join ==
  /\ \A w \in Workers : workers[w] = "end"
  /\ Turns("join", "end")
  /\ UNCHANGED <<handler, results, mutex, event, batch, delivered, workers, found, wrong>>

Over == (loop = "end" \/ wrong # "no") /\ UNCHANGED resultsVars

Thread(w) == Find(w) \/ Test(w) \/ Lock(w) \/ Push(w) \/ Send(w) \/ Leave(w)
Loop      == OnSchedule \/ Swap \/ Deliver \/ Stop \/ DeleteHandler \/ NullHandler \/ MinerStop \/ Join

ResultsNext == Over \/ (wrong = "no" /\ (Loop \/ \E w \in Workers : Thread(w)))

\* The loop takes what is there, and a thread that has a result submits it (the mutex
\* is held for a moment only, whoever waits for it gets it)
ResultsSpec ==
  /\ ResultsInit /\ [][ResultsNext]_resultsVars
  /\ WF_resultsVars(wrong = "no" /\ (OnSchedule \/ Deliver)) /\ SF_resultsVars(wrong = "no" /\ Swap)
  /\ \A w \in Workers :
       /\ WF_resultsVars(wrong = "no" /\ (Test(w) \/ Push(w) \/ Send(w)))
       /\ SF_resultsVars(wrong = "no" /\ Lock(w))

-----------------------------------------------------------------------------
(* Properties *)

\* JobResults::submit asserts that there is a handler when a thread has a result.
HandlerIsSet == wrong # "assert"

\* How many results of thread w it has not yet put into the list
InHand(w) == IF workers[w] \in {"submit", "lock", "push"} THEN 1 ELSE 0

\* All that the threads put into the list, in that order
Submitted == delivered \o batch \o results
IndexesOf(w) == {i \in DOMAIN Submitted : Submitted[i][1] = w}

\* Until the end begins every result is at one place, and the results of a thread are
\* delivered in the order in which it found them.
OnceAndInOrder ==
  handler = "set" =>
    \A w \in Workers :
      /\ {Submitted[i][2] : i \in IndexesOf(w)} = 1..(found[w] - InHand(w))
      /\ \A i, j \in IndexesOf(w) : i < j => Submitted[i][2] < Submitted[j][2]

\* A result that is found is delivered, unless the end begins before.
ResultsArrive ==
  \A w \in Workers, n \in 1..MaxResults :
    found[w] >= n ~> Contains(delivered, <<w, n>>) \/ loop \notin {"run", "swap", "deliver"}
=============================================================================
