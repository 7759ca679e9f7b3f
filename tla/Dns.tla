-------------------------------- MODULE Dns --------------------------------
(***************************************************************************)
(* Looking up one host: DnsUvBackend, of which Dns has one for each host.  *)
(* Clients of a host (stratum, HTTP, benchmark) wait for one lookup, which *)
(* libuv runs in a thread of its own; all else is the event loop's. done() *)
(* is cut at every listener it calls, since a listener may call resolve()  *)
(* in turn: nothing else runs while it is at work.                         *)
(***************************************************************************)
EXTENDS Naturals, Sequences

CONSTANTS Listeners,  \* IDnsListeners that ask for this host
          MaxResolves \* bound of the model: calls of resolve()

ASSUME DnsAssumption == MaxResolves \in Nat

VARIABLES
  dnsQueue,   \* m_queue, weak pointers: whose request, and whether it is still there
  dnsRecords, \* m_records is not empty
  dnsFailed,  \* m_status < 0
  dnsFresh,   \* m_ts is no older than the ttl
  dnsLookups, \* lookups that libuv runs
  dnsDone,    \* done() is at work
  dnsResolves,\* for the bound
  dnsFreed,   \* the uv_getaddrinfo_t of a lookup was freed, or done() entered twice
  dnsTurned   \* history: during a lookup what was too old became fresh again

dnsBackend == <<dnsQueue, dnsRecords, dnsFailed, dnsFresh, dnsLookups, dnsDone>>
dnsHistory == <<dnsFreed, dnsTurned>>
dnsVars    == <<dnsBackend, dnsResolves, dnsHistory>>

Request == [listener : Listeners, live : BOOLEAN]

DnsTypeOK ==
  /\ dnsQueue \in Seq(Request)
  /\ dnsRecords \in BOOLEAN /\ dnsFailed \in BOOLEAN /\ dnsFresh \in BOOLEAN
  /\ dnsLookups \in {0, 1}
  /\ dnsDone \in BOOLEAN
  /\ dnsResolves \in 0..MaxResolves
  /\ dnsFreed \in BOOLEAN /\ dnsTurned \in BOOLEAN

DnsInit ==
  /\ dnsQueue = <<>>
  /\ dnsRecords = FALSE /\ dnsFailed = FALSE /\ dnsFresh = FALSE
  /\ dnsLookups = 0 /\ dnsDone = FALSE
  /\ dnsResolves = 0
  /\ dnsFreed = FALSE /\ dnsTurned = FALSE

-----------------------------------------------------------------------------
(* resolve() *)

\* The listener lets go of the request it had: its m_dns is assigned or reset
Dropped(queue, l) ==
  [i \in DOMAIN queue |->
    [queue[i] EXCEPT !.live = @ /\ queue[i].listener # l]]

Cached == dnsFresh /\ dnsRecords

\* A listener that finds records in the cache is called at once and is content
Queued(queue, l) ==
  IF Cached THEN Dropped(queue, l)
  ELSE Append(Dropped(queue, l), [listener |-> l, live |-> TRUE])

\* resolve(host), for the only one in the queue; the request of a lookup that goes on
\* is replaced and so freed. What fails is called for: done().
StartsUnheeded ==
  \/ dnsLookups' = 1 /\ dnsFailed' = FALSE /\ dnsFreed' = (dnsLookups > 0) /\ UNCHANGED dnsDone
  \/ dnsFailed' = TRUE /\ dnsFreed' = (dnsLookups > 0) /\ UNCHANGED <<dnsLookups, dnsDone>>

Starts ==
  \/ dnsLookups' = 1 /\ dnsFailed' = FALSE /\ dnsFreed' = (dnsLookups > 0) /\ UNCHANGED dnsDone
  \/ dnsFailed' = TRUE /\ dnsDone' = TRUE /\ dnsFreed' = (dnsDone \/ dnsLookups > 0) /\ UNCHANGED dnsLookups

Resolves(queue, l) ==
  /\ dnsResolves < MaxResolves
  /\ dnsResolves' = dnsResolves + 1
  /\ dnsQueue' = Queued(queue, l)
  /\ IF Len(dnsQueue') = 1 THEN Starts ELSE UNCHANGED <<dnsFailed, dnsDone, dnsLookups, dnsFreed>>

\* From a timer, a callback of another host, or the start
DnsResolve(l) ==
  /\ ~dnsDone
  /\ Resolves(dnsQueue, l)
  /\ UNCHANGED <<dnsRecords, dnsFresh, dnsTurned>>

\* A listener is deleted, its request with it; in done() by the listener that is called
DnsForget(l) ==
  /\ dnsDone => dnsQueue # <<>> /\ Head(dnsQueue).live /\ Head(dnsQueue).listener # l
  /\ dnsQueue' = Dropped(dnsQueue, l) /\ dnsQueue' # dnsQueue
  /\ UNCHANGED <<dnsRecords, dnsFailed, dnsFresh, dnsLookups, dnsDone, dnsResolves, dnsHistory>>

-----------------------------------------------------------------------------
(* The end of a lookup *)

\* onResolved: records are kept when the lookup fails, and lost when it finds none
DnsResolved ==
  /\ ~dnsDone /\ dnsLookups > 0
  /\ dnsLookups' = 0 /\ dnsFresh' = TRUE /\ dnsDone' = TRUE
  /\ \/ dnsFailed' = TRUE /\ dnsRecords' \in {dnsRecords, FALSE}
     \/ dnsFailed' = FALSE /\ dnsRecords' = TRUE
  /\ UNCHANGED <<dnsQueue, dnsResolves, dnsHistory>>

\* What a listener takes for a failure: it has no records, old ones either
FailsByStatus == dnsFailed
Fails         == dnsFailed /\ ~dnsRecords

\* done() calls the listener of the request in front, and takes it out of the queue
\* afterwards
DnsAnswer ==
  /\ dnsDone /\ dnsQueue # <<>>
  /\ dnsQueue' = Tail(dnsQueue)
  /\ UNCHANGED <<dnsRecords, dnsFailed, dnsFresh, dnsLookups, dnsDone, dnsResolves, dnsHistory>>

\* ... which may tell its owner of the failure, who has another client connect
DnsAnswerAndResolve(l) ==
  /\ dnsDone /\ dnsQueue # <<>>
  /\ Head(dnsQueue).live /\ Head(dnsQueue).listener # l
  /\ Fails
  /\ \E queue \in {Dropped(dnsQueue, Head(dnsQueue).listener)} :
       /\ dnsResolves < MaxResolves /\ dnsResolves' = dnsResolves + 1
       /\ dnsQueue' = Tail(Queued(queue, l))
       /\ IF Len(Queued(queue, l)) = 1 THEN Starts ELSE UNCHANGED <<dnsFailed, dnsDone, dnsLookups, dnsFreed>>
  /\ UNCHANGED <<dnsRecords, dnsFresh, dnsTurned>>

\* The queue is empty: m_req.reset()
DnsRest ==
  /\ dnsDone /\ dnsQueue = <<>>
  /\ dnsDone' = FALSE
  /\ dnsFreed' = (dnsLookups > 0)
  /\ UNCHANGED <<dnsQueue, dnsRecords, dnsFailed, dnsFresh, dnsLookups, dnsResolves, dnsTurned>>

-----------------------------------------------------------------------------
(* The clock and the configuration *)

DnsAge ==
  /\ ~dnsDone /\ dnsFresh
  /\ dnsFresh' = FALSE
  /\ UNCHANGED <<dnsQueue, dnsRecords, dnsFailed, dnsLookups, dnsDone, dnsResolves, dnsHistory>>

\* The clock of the wall is set back, or a longer ttl configured
DnsTurnBack ==
  /\ ~dnsDone /\ dnsRecords /\ ~dnsFresh
  /\ dnsFresh' = TRUE
  /\ dnsTurned' = (dnsTurned \/ dnsLookups > 0)
  /\ UNCHANGED <<dnsQueue, dnsRecords, dnsFailed, dnsLookups, dnsDone, dnsResolves, dnsFreed>>

DnsNext ==
  /\ ~dnsFreed
  /\ \/ \E l \in Listeners : DnsResolve(l) \/ DnsForget(l) \/ DnsAnswerAndResolve(l)
     \/ DnsResolved \/ DnsAnswer \/ DnsRest \/ DnsAge \/ DnsTurnBack

\* A lookup ends, and done() with it
DnsFairness == WF_dnsVars(DnsNext /\ (DnsResolved \/ DnsAnswer \/ DnsRest))

DnsSpec == DnsInit /\ [][DnsNext]_dnsVars /\ DnsFairness

-----------------------------------------------------------------------------
(* Properties *)

\* The memory that libuv's lookup uses stays until its end: no second one is started,
\* and done() is not entered again, though listeners call resolve() while they are
\* told of a failure. (It is not so if an old answer gets fresh again in a lookup.)
LookupKeepsItsRequest == dnsFreed => dnsTurned

\* Who waits for the host's address gets an answer, or is deleted.
Waits(l) == \E i \in DOMAIN dnsQueue : dnsQueue[i].listener = l /\ dnsQueue[i].live

EveryoneIsAnswered == \A l \in Listeners : Waits(l) ~> (~Waits(l) \/ dnsFreed)
=============================================================================
