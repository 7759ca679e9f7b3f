--------------------------- MODULE Services_proofs ---------------------------
(***************************************************************************)
(* Proofs about the components that MC_Services checks side by side, each  *)
(* about its own specification: AutoPause, Dns, LineReader, SelfSelect,    *)
(* Results and Daemon. (Those about Network are in Network_proofs.)        *)
(***************************************************************************)
EXTENDS Results, Dns, LineReader, SelfSelect, AutoPause, Daemon, SequenceTheorems, TLAPS

-----------------------------------------------------------------------------
(* AutoPause *)

One(b) == IF b THEN 1 ELSE 0

\* auto_pause counts the states that are set
Counts(m) == m.count = One(m.battery) + One(m.active)

\* ... which were set because the configuration said so, and unless the user said otherwise
\* the miner is paused while there are any
Settled(m, user) ==
  /\ m.battery => pauseConfig.battery /\ ~m.enabled
  /\ m.active => pauseConfig.active
  /\ ~user => (m.enabled <=> m.count = 0)

\* Since the timer came the states are those of the world
UpToDate(m) ==
  /\ m.battery <=> OnBattery
  /\ m.active <=> (pauseConfig.active /\ pauseWorld.active)

PauseInv ==
  /\ PauseTypeOK
  /\ Counts(pauseMiner)
  /\ ~pauseHistory.reloaded => Settled(pauseMiner, pauseHistory.user)
  /\ pauseHistory.seen /\ ~pauseHistory.reloaded => UpToDate(pauseMiner)

PauseMiner == [battery : BOOLEAN, active : BOOLEAN, count : 0..2, enabled : BOOLEAN]

\* A state that changes leaves the miner enabled exactly if no other is set: the battery's veto
\* is never in the way
LEMMA PauseByBatteryIs ==
  ASSUME NEW m \in PauseMiner, Counts(m), PauseTypeOK
  PROVE  /\ PauseByBattery(m) \in PauseMiner /\ Counts(PauseByBattery(m))
         /\ PauseByBattery(m).active = m.active
         /\ \/ PauseByBattery(m) = m /\ (~pauseConfig.battery \/ m.battery = pauseWorld.battery)
            \/ /\ PauseByBattery(m).battery = pauseWorld.battery /\ pauseConfig.battery
               /\ PauseByBattery(m).enabled <=> PauseByBattery(m).count = 0
<1>1. CASE ~pauseConfig.battery \/ m.battery = pauseWorld.battery
  BY <1>1 DEF PauseByBattery
<1>2. CASE pauseConfig.battery /\ m.battery # pauseWorld.battery
  <2> DEFINE n == m.count + (IF pauseWorld.battery THEN 1 ELSE -1)
             e == [m EXCEPT !.battery = pauseWorld.battery, !.count = n]
  <2>1. m.battery \in BOOLEAN /\ m.active \in BOOLEAN /\ pauseWorld.battery \in BOOLEAN
    BY DEF PauseMiner, PauseTypeOK, Reason
  <2>2. n = One(pauseWorld.battery) + One(m.active) /\ n \in 0..2
    BY <1>2, <2>1 DEF Counts, One
  <2>3. e \in PauseMiner /\ Counts(e) /\ e.battery = pauseWorld.battery /\ e.active = m.active /\ e.count = n
    BY <2>1, <2>2 DEF PauseMiner, Counts
  <2>4. n = 0 => ~e.battery
    BY <2>1, <2>2, <2>3 DEF One
  <2>5. PauseByBattery(m) = SetEnabled(e, n = 0)
    BY <1>2 DEF PauseByBattery
  <2> HIDE DEF n, e
  <2>6. PauseByBattery(m) = [e EXCEPT !.enabled = (n = 0)]
    BY <2>4, <2>5 DEF SetEnabled, Vetoed
  <2> QED BY <1>2, <2>3, <2>6 DEF PauseMiner, Counts
<1> QED BY <1>1, <1>2

LEMMA PauseByActivityIs ==
  ASSUME NEW m \in PauseMiner, Counts(m), PauseTypeOK
  PROVE  /\ PauseByActivity(m) \in PauseMiner /\ Counts(PauseByActivity(m))
         /\ PauseByActivity(m).battery = m.battery
         /\ \/ PauseByActivity(m) = m /\ (~pauseConfig.active \/ m.active = pauseWorld.active)
            \/ /\ PauseByActivity(m).active = pauseWorld.active /\ pauseConfig.active
               /\ PauseByActivity(m).enabled <=> PauseByActivity(m).count = 0
<1>1. CASE ~pauseConfig.active \/ m.active = pauseWorld.active
  BY <1>1 DEF PauseByActivity
<1>2. CASE pauseConfig.active /\ m.active # pauseWorld.active
  <2> DEFINE n == m.count + (IF pauseWorld.active THEN 1 ELSE -1)
             e == [m EXCEPT !.active = pauseWorld.active, !.count = n]
  <2>1. m.battery \in BOOLEAN /\ m.active \in BOOLEAN /\ pauseWorld.active \in BOOLEAN
    BY DEF PauseMiner, PauseTypeOK, Reason
  <2>2. n = One(m.battery) + One(pauseWorld.active) /\ n \in 0..2
    BY <1>2, <2>1 DEF Counts, One
  <2>3. e \in PauseMiner /\ Counts(e) /\ e.active = pauseWorld.active /\ e.battery = m.battery /\ e.count = n
    BY <2>1, <2>2 DEF PauseMiner, Counts
  <2>4. n = 0 => ~e.battery
    BY <2>1, <2>2, <2>3 DEF One
  <2>5. PauseByActivity(m) = SetEnabled(e, n = 0)
    BY <1>2 DEF PauseByActivity
  <2> HIDE DEF n, e
  <2>6. PauseByActivity(m) = [e EXCEPT !.enabled = (n = 0)]
    BY <2>4, <2>5 DEF SetEnabled, Vetoed
  <2> QED BY <1>2, <2>3, <2>6 DEF PauseMiner, Counts
<1> QED BY <1>1, <1>2

\* A miner that was settled still is after a change of which that can be said
LEMMA Settles ==
  ASSUME NEW m \in PauseMiner, NEW d \in PauseMiner, NEW u \in BOOLEAN, Settled(m, u), Counts(d),
         d = m \/ (d.enabled <=> d.count = 0),
         d.battery => pauseConfig.battery, d.active => pauseConfig.active
  PROVE  Settled(d, u /\ d.enabled = m.enabled)
<1>1. CASE d = m
  BY <1>1 DEF Settled
<1>2. CASE d.enabled <=> d.count = 0
  <2>1. d.battery => d.count # 0
    BY DEF Counts, One, PauseMiner
  <2> QED BY <1>2, <2>1 DEF Settled
<1> QED BY <1>1, <1>2

LEMMA PauseInitInv == PauseInit => PauseInv
  BY DEF PauseInit, PauseInv, PauseTypeOK, Counts, One, Settled, UpToDate, OnBattery

LEMMA PauseTimerInv == PauseInv /\ PauseTimer => PauseInv'
<1> SUFFICES ASSUME PauseInv, PauseTimer PROVE PauseInv'
  OBVIOUS
<1> DEFINE m == pauseMiner
           d == PauseByBattery(m)
           e == PauseByActivity(d)
<1>1. PauseTypeOK /\ m \in PauseMiner /\ Counts(m)
  BY DEF PauseInv, PauseTypeOK, PauseMiner
<1>2. /\ d \in PauseMiner /\ Counts(d) /\ d.active = m.active
      /\ \/ d = m /\ (~pauseConfig.battery \/ m.battery = pauseWorld.battery)
         \/ d.battery = pauseWorld.battery /\ pauseConfig.battery /\ (d.enabled <=> d.count = 0)
  BY <1>1, PauseByBatteryIs
<1>3. /\ e \in PauseMiner /\ Counts(e) /\ e.battery = d.battery
      /\ \/ e = d /\ (~pauseConfig.active \/ d.active = pauseWorld.active)
         \/ e.active = pauseWorld.active /\ pauseConfig.active /\ (e.enabled <=> e.count = 0)
  BY <1>1, <1>2, PauseByActivityIs
<1>4. /\ pauseMiner' = e /\ UNCHANGED <<pauseConfig, pauseWorld>>
      /\ pauseHistory' = [pauseHistory EXCEPT !.seen = TRUE, !.user = @ /\ e.enabled = m.enabled]
  BY DEF PauseTimer
<1> HIDE DEF d, e
<1>5. PauseTypeOK'
  BY <1>1, <1>3, <1>4 DEF PauseTypeOK, PauseMiner
<1>6. pauseHistory'.reloaded = pauseHistory.reloaded /\ (pauseHistory'.user <=> pauseHistory.user /\ e.enabled = m.enabled)
  BY <1>1, <1>4 DEF PauseTypeOK
<1>7. ASSUME ~pauseHistory.reloaded
      PROVE  Settled(e, pauseHistory'.user) /\ UpToDate(e)
  <2>1. Settled(m, pauseHistory.user)
    BY <1>7 DEF PauseInv
  <2>2. d.battery => pauseConfig.battery
    BY <1>2, <2>1 DEF Settled
  <2>3. d.active => pauseConfig.active
    BY <1>2, <2>1 DEF Settled
  <2>4. Settled(d, pauseHistory.user /\ d.enabled = m.enabled)
    <3>1. pauseHistory.user \in BOOLEAN /\ m \in PauseMiner
      BY <1>1 DEF PauseTypeOK
    <3> QED BY <3>1, <1>2, <2>1, <2>2, <2>3, Settles
  <2>5. e.battery => pauseConfig.battery
    BY <1>3, <2>2
  <2>6. e.active => pauseConfig.active
    BY <1>3, <2>3
  <2>7. Settled(e, (pauseHistory.user /\ d.enabled = m.enabled) /\ e.enabled = d.enabled)
    BY <1>2, <1>3, <2>4, <2>5, <2>6, Settles
  <2>8. Settled(e, pauseHistory'.user)
    BY <1>6, <2>7 DEF Settled
  <2>9. e.battery <=> OnBattery
    BY <1>1, <1>2, <1>3, <2>2 DEF OnBattery, PauseTypeOK, Reason, PauseMiner
  <2>10. e.active <=> (pauseConfig.active /\ pauseWorld.active)
    BY <1>1, <1>3, <2>6 DEF PauseTypeOK, Reason, PauseMiner
  <2> QED BY <2>8, <2>9, <2>10 DEF UpToDate
<1>8. UpToDate(e) => UpToDate(pauseMiner)'
  BY <1>4 DEF UpToDate, OnBattery
<1>9. Settled(e, pauseHistory'.user) => Settled(pauseMiner, pauseHistory.user)'
  BY <1>4 DEF Settled
<1>10. Counts(pauseMiner)'
  BY <1>3, <1>4 DEF Counts
<1> QED BY <1>5, <1>6, <1>7, <1>8, <1>9, <1>10 DEF PauseInv

LEMMA PauseByUserInv == \A e \in BOOLEAN : PauseInv /\ PauseByUser(e) => PauseInv'
<1> SUFFICES ASSUME NEW e \in BOOLEAN, PauseInv, PauseByUser(e) PROVE PauseInv'
  OBVIOUS
<1> DEFINE m == pauseMiner
           d == SetEnabled(m, e)
<1>1. m \in PauseMiner /\ Counts(m) /\ PauseTypeOK
  BY DEF PauseInv, PauseTypeOK, PauseMiner
<1>2. d = m \/ (d = [m EXCEPT !.enabled = e] /\ ~(pauseConfig.battery /\ m.battery /\ e))
  BY DEF SetEnabled, Vetoed
<1>3. /\ pauseMiner' = d /\ UNCHANGED <<pauseConfig, pauseWorld>>
      /\ pauseHistory' = [pauseHistory EXCEPT !.user = @ \/ d.enabled # m.enabled]
  BY DEF PauseByUser
<1> HIDE DEF d
<1>4. d \in PauseMiner /\ d.battery = m.battery /\ d.active = m.active /\ d.count = m.count
  BY <1>1, <1>2 DEF PauseMiner
<1>5. PauseTypeOK'
  BY <1>1, <1>3, <1>4 DEF PauseTypeOK, PauseMiner
<1>6. /\ pauseHistory'.reloaded = pauseHistory.reloaded /\ pauseHistory'.seen = pauseHistory.seen
      /\ pauseHistory'.user <=> pauseHistory.user \/ d.enabled # m.enabled
  BY <1>1, <1>3 DEF PauseTypeOK
<1>7. ASSUME Settled(m, pauseHistory.user)
      PROVE  Settled(d, pauseHistory'.user)
  <2>1. d.battery => pauseConfig.battery /\ ~d.enabled
    BY <1>1, <1>2, <1>4, <1>7 DEF Settled, PauseMiner
  <2> QED BY <1>4, <1>6, <1>7, <2>1 DEF Settled
<1>8. Settled(d, pauseHistory'.user) => Settled(pauseMiner, pauseHistory.user)'
  BY <1>3 DEF Settled
<1>9. UpToDate(m) => UpToDate(pauseMiner)'
  BY <1>3, <1>4 DEF UpToDate, OnBattery
<1>10. Counts(pauseMiner)'
  BY <1>1, <1>3, <1>4 DEF Counts
<1> QED BY <1>5, <1>6, <1>7, <1>8, <1>9, <1>10 DEF PauseInv

LEMMA PauseWorldInv == PauseInv /\ PauseWorld => PauseInv'
<1> SUFFICES ASSUME PauseInv, PauseWorld PROVE PauseInv'
  OBVIOUS
<1>1. PauseTypeOK' /\ ~pauseHistory'.seen /\ UNCHANGED <<pauseHistory.reloaded, pauseHistory.user, pauseMiner, pauseConfig>>
  BY DEF PauseInv, PauseTypeOK, PauseWorld
<1> QED BY <1>1 DEF PauseInv, Settled, Counts

\* Where nothing is counted no state is set, so that any configuration agrees with them
LEMMA PauseReloadInv == PauseInv /\ PauseReload => PauseInv'
<1> SUFFICES ASSUME PauseInv, PauseReload PROVE PauseInv'
  OBVIOUS
<1>1. /\ PauseTypeOK' /\ ~pauseHistory'.seen /\ UNCHANGED <<pauseHistory.user, pauseMiner>>
      /\ pauseHistory'.reloaded <=> pauseHistory.reloaded \/ pauseMiner.count > 0
  BY DEF PauseInv, PauseTypeOK, PauseReload
<1>2. Counts(pauseMiner)'
  BY <1>1 DEF PauseInv, Counts
<1>3. ASSUME ~pauseHistory'.reloaded
      PROVE  Settled(pauseMiner, pauseHistory.user)'
  <2>1. ~pauseHistory.reloaded /\ ~pauseMiner.battery /\ ~pauseMiner.active
    BY <1>1, <1>3 DEF PauseInv, PauseTypeOK, Counts, One
  <2> QED BY <1>1, <2>1 DEF PauseInv, Settled
<1> QED BY <1>1, <1>2, <1>3 DEF PauseInv

LEMMA PauseStep == PauseInv /\ [PauseNext]_pauseVars => PauseInv'
<1>1. PauseInv /\ UNCHANGED pauseVars => PauseInv'
  BY DEF PauseInv, PauseTypeOK, Counts, Settled, UpToDate, OnBattery, pauseVars
<1> QED BY <1>1, PauseTimerInv, PauseByUserInv, PauseWorldInv, PauseReloadInv DEF PauseNext

LEMMA PauseImplied == PauseInv => PausesAsConfigured
<1> SUFFICES ASSUME PauseInv, pauseHistory.seen, ~pauseHistory.reloaded
             PROVE  /\ OnBattery => ~pauseMiner.enabled
                    /\ pauseMiner.enabled = ~Called \/ pauseHistory.user
  BY DEF PausesAsConfigured
<1>1. Settled(pauseMiner, pauseHistory.user) /\ UpToDate(pauseMiner) /\ Counts(pauseMiner) /\ PauseTypeOK
  BY DEF PauseInv
<1>2. pauseMiner.count = 0 <=> ~Called
  BY <1>1 DEF UpToDate, Counts, One, Called, PauseTypeOK
<1>3. pauseMiner.enabled \in BOOLEAN /\ Called \in BOOLEAN
  BY <1>1 DEF PauseTypeOK, Called, OnBattery, Reason
<1> QED BY <1>1, <1>2, <1>3 DEF Settled, UpToDate

\* Two reasons to pause that come and go in any order, and what the user asks for in between,
\* leave no pause behind; on battery the user cannot resume.
THEOREM PausesFollowReasons == PauseSpec => []PausesAsConfigured
BY PauseInitInv, PauseStep, PauseImplied, PTL DEF PauseSpec

-----------------------------------------------------------------------------
(* Dns *)

\* A lookup goes on exactly while someone waits and done() is not at work, and the cache has
\* nothing to give then
LookupIsAwaited ==
  /\ dnsLookups = 1 <=> dnsQueue # <<>> /\ ~dnsDone
  /\ dnsLookups = 1 => ~Cached

DnsInv == DnsTypeOK /\ (~dnsTurned => ~dnsFreed /\ LookupIsAwaited)

LEMMA DroppedType ==
  ASSUME NEW queue \in Seq(Request), NEW l \in Listeners
  PROVE  Dropped(queue, l) \in Seq(Request) /\ Len(Dropped(queue, l)) = Len(queue)
<1>1. ASSUME NEW r \in Request
      PROVE  [r EXCEPT !.live = @ /\ r.listener # l] \in Request
  BY DEF Request
<1>2. DOMAIN queue = 1..Len(queue) /\ Len(queue) \in Nat /\ \A i \in 1..Len(queue) : queue[i] \in Request
  OBVIOUS
<1>3. Dropped(queue, l) = [i \in 1..Len(queue) |-> [queue[i] EXCEPT !.live = @ /\ queue[i].listener # l]]
  BY <1>2 DEF Dropped
<1>4. \A i \in 1..Len(queue) : Dropped(queue, l)[i] \in Request
  BY <1>1, <1>2, <1>3
<1>5. Dropped(queue, l) \in [1..Len(queue) -> Request]
  BY <1>3, <1>4
<1> QED BY <1>2, <1>5, IsASeq

LEMMA QueuedType ==
  ASSUME NEW queue \in Seq(Request), NEW l \in Listeners
  PROVE  /\ Queued(queue, l) \in Seq(Request)
         /\ Len(Queued(queue, l)) = IF Cached THEN Len(queue) ELSE Len(queue) + 1
<1>1. [listener |-> l, live |-> TRUE] \in Request
  BY DEF Request
<1> QED BY <1>1, DroppedType DEF Queued

LEMMA DnsInitInv == DnsInit => DnsInv
<1> SUFFICES ASSUME DnsInit PROVE DnsInv
  OBVIOUS
<1>1. dnsQueue \in Seq(Request) /\ dnsResolves \in 0..MaxResolves /\ dnsLookups # 1
  BY DnsAssumption DEF DnsInit
<1> QED BY <1>1, Zenon DEF DnsInit, DnsInv, DnsTypeOK, LookupIsAwaited

LEMMA LookupsAre == ASSUME DnsTypeOK PROVE (dnsLookups > 0) \in BOOLEAN /\ (dnsLookups > 0 <=> dnsLookups = 1)
  BY DEF DnsTypeOK

\* A lookup that starts where none goes on replaces nothing
LEMMA StartsType ==
  ASSUME DnsTypeOK, Starts, dnsDone = FALSE
  PROVE  /\ dnsLookups' \in {0, 1} /\ dnsFailed' \in BOOLEAN /\ dnsDone' \in BOOLEAN /\ dnsFreed' \in BOOLEAN
         /\ dnsLookups # 1 => dnsFreed' = FALSE /\ (dnsLookups' = 1 <=> ~dnsDone')
<1>1. (dnsLookups > 0) \in BOOLEAN /\ (dnsLookups # 1 => (dnsLookups > 0) = FALSE)
  BY DEF DnsTypeOK
<1>2. CASE dnsLookups' = 1 /\ dnsFailed' = FALSE /\ dnsFreed' = (dnsLookups > 0) /\ UNCHANGED dnsDone
  BY <1>1, <1>2, Zenon DEF DnsTypeOK
<1>3. CASE dnsFailed' = TRUE /\ dnsDone' = TRUE /\ dnsFreed' = (dnsDone \/ dnsLookups > 0) /\ UNCHANGED dnsLookups
  BY <1>1, <1>3, Zenon DEF DnsTypeOK
<1> QED BY <1>2, <1>3 DEF Starts

\* Only for a queue that was empty a lookup starts: where the cache answers, none goes on
LEMMA DnsResolveInv == \A l \in Listeners : DnsInv /\ DnsResolve(l) => DnsInv'
<1> SUFFICES ASSUME NEW l \in Listeners, DnsInv, DnsResolve(l) PROVE DnsInv'
  OBVIOUS
<1>1. /\ dnsQueue' = Queued(dnsQueue, l) /\ dnsQueue' \in Seq(Request)
      /\ Len(dnsQueue') = IF Cached THEN Len(dnsQueue) ELSE Len(dnsQueue) + 1
  BY QueuedType DEF DnsInv, DnsTypeOK, DnsResolve, Resolves
<1>2. dnsResolves' \in 0..MaxResolves
  BY DnsAssumption DEF DnsInv, DnsTypeOK, DnsResolve, Resolves
<1>3. UNCHANGED <<dnsRecords, dnsFresh, dnsTurned>> /\ ~dnsDone /\ dnsDone \in BOOLEAN
  BY DEF DnsResolve, DnsInv, DnsTypeOK
<1>4. dnsQueue # <<>> <=> Len(dnsQueue) # 0
  BY DEF DnsInv, DnsTypeOK
<1>5. CASE Len(dnsQueue') = 1
  <2>1. Starts
    BY <1>5, <1>1 DEF DnsResolve, Resolves
  <2>2. DnsTypeOK'
    BY <1>1, <1>2, <1>3, <2>1, StartsType DEF DnsInv, DnsTypeOK
  <2>3. ASSUME ~dnsTurned
        PROVE  ~dnsFreed' /\ LookupIsAwaited'
    <3>1. dnsLookups # 1 /\ ~Cached
      <4>1. LookupIsAwaited
        BY <2>3 DEF DnsInv
      <4>2. Cached => dnsQueue # <<>>
        BY <1>1, <1>4, <1>5
      <4>3. ~Cached => dnsQueue = <<>>
        BY <1>1, <1>4, <1>5 DEF DnsInv, DnsTypeOK
      <4> QED BY <1>3, <4>1, <4>2, <4>3, Zenon DEF LookupIsAwaited
    <3>2. dnsFreed' = FALSE /\ (dnsLookups' = 1 <=> ~dnsDone')
      BY <1>3, <2>1, <3>1, StartsType DEF DnsInv
    <3>3. dnsQueue' # <<>> /\ ~Cached'
      BY <1>1, <1>3, <1>5, <3>1 DEF Cached
    <3> QED BY <3>2, <3>3 DEF LookupIsAwaited
  <2> QED BY <1>3, <2>2, <2>3 DEF DnsInv
<1>6. CASE Len(dnsQueue') # 1
  <2>1. UNCHANGED <<dnsFailed, dnsDone, dnsLookups, dnsFreed>>
    BY <1>6, <1>1 DEF DnsResolve, Resolves
  <2>2. dnsQueue' # <<>> <=> dnsQueue # <<>>
    BY <1>1, <1>4, <1>6 DEF DnsInv, DnsTypeOK
  <2>3. DnsTypeOK'
    BY <1>1, <1>2, <1>3, <2>1 DEF DnsInv, DnsTypeOK
  <2>4. Cached' <=> Cached
    BY <1>3 DEF Cached
  <2> QED BY <1>3, <2>1, <2>2, <2>3, <2>4 DEF DnsInv, LookupIsAwaited
<1> QED BY <1>5, <1>6

LEMMA DnsForgetInv == \A l \in Listeners : DnsInv /\ DnsForget(l) => DnsInv'
<1> SUFFICES ASSUME NEW l \in Listeners, DnsInv, DnsForget(l) PROVE DnsInv'
  OBVIOUS
<1>1. dnsQueue' \in Seq(Request) /\ (dnsQueue' # <<>> <=> dnsQueue # <<>>)
  BY DroppedType DEF DnsInv, DnsTypeOK, DnsForget
<1>2. UNCHANGED <<dnsRecords, dnsFailed, dnsFresh, dnsLookups, dnsDone, dnsResolves, dnsFreed, dnsTurned>>
  BY DEF DnsForget, dnsHistory
<1> QED BY <1>1, <1>2 DEF DnsInv, DnsTypeOK, LookupIsAwaited, Cached

LEMMA DnsResolvedInv == DnsInv /\ DnsResolved => DnsInv'
<1> SUFFICES ASSUME DnsInv, DnsResolved PROVE DnsInv'
  OBVIOUS
<1>1. DnsTypeOK'
  BY DEF DnsInv, DnsTypeOK, DnsResolved, dnsHistory
<1>2. dnsLookups' = 0 /\ dnsDone' = TRUE /\ UNCHANGED <<dnsFreed, dnsTurned>>
  BY DEF DnsResolved, dnsHistory
<1>3. LookupIsAwaited'
  BY <1>2 DEF LookupIsAwaited
<1> QED BY <1>1, <1>2, <1>3 DEF DnsInv

LEMMA DnsAnswerInv == DnsInv /\ DnsAnswer => DnsInv'
<1> SUFFICES ASSUME DnsInv, DnsAnswer PROVE DnsInv'
  OBVIOUS
<1>1. dnsQueue' \in Seq(Request)
  BY DEF DnsInv, DnsTypeOK, DnsAnswer
<1>2. dnsDone /\ UNCHANGED <<dnsRecords, dnsFailed, dnsFresh, dnsLookups, dnsDone, dnsResolves, dnsFreed, dnsTurned>>
  BY DEF DnsAnswer, dnsHistory
<1> QED BY <1>1, <1>2 DEF DnsInv, DnsTypeOK, LookupIsAwaited, Cached

\* The request that is answered is still in the queue, so that the new one is not the only one
LEMMA DnsAnswerAndResolveInv == \A l \in Listeners : DnsInv /\ DnsAnswerAndResolve(l) => DnsInv'
<1> SUFFICES ASSUME NEW l \in Listeners, DnsInv, DnsAnswerAndResolve(l) PROVE DnsInv'
  OBVIOUS
<1> DEFINE queue == Dropped(dnsQueue, Head(dnsQueue).listener)
<1>1. Head(dnsQueue).listener \in Listeners
  <2>1. Head(dnsQueue) \in Request
    BY DEF DnsInv, DnsTypeOK, DnsAnswerAndResolve
  <2> QED BY <2>1 DEF Request
<1>2. queue \in Seq(Request) /\ Len(queue) # 0
  BY <1>1, DroppedType DEF DnsInv, DnsTypeOK, DnsAnswerAndResolve
<1>3. ~Cached
  BY DEF DnsAnswerAndResolve, Fails, Cached
<1>4. /\ dnsQueue' = Tail(Queued(queue, l)) /\ dnsResolves < MaxResolves /\ dnsResolves' = dnsResolves + 1
      /\ Len(Queued(queue, l)) = 1 \/ UNCHANGED <<dnsFailed, dnsDone, dnsLookups, dnsFreed>>
      /\ UNCHANGED <<dnsRecords, dnsFresh, dnsTurned>> /\ dnsDone
  BY DEF DnsAnswerAndResolve
<1> HIDE DEF queue
<1>5. Queued(queue, l) \in Seq(Request) /\ Len(Queued(queue, l)) # 1 /\ Queued(queue, l) # <<>>
  <2>1. Queued(queue, l) \in Seq(Request) /\ Len(Queued(queue, l)) = Len(queue) + 1
    BY <1>2, <1>3, QueuedType
  <2>2. Len(queue) \in Nat
    BY <1>2
  <2> QED BY <1>2, <2>1, <2>2
<1>6. dnsQueue' \in Seq(Request) /\ dnsResolves' \in 0..MaxResolves
  BY <1>4, <1>5, DnsAssumption DEF DnsInv, DnsTypeOK
<1>7. UNCHANGED <<dnsFailed, dnsDone, dnsLookups, dnsFreed>>
  BY <1>4, <1>5, Zenon
<1> QED BY <1>4, <1>6, <1>7 DEF DnsInv, DnsTypeOK, LookupIsAwaited, Cached

LEMMA DnsRestInv == DnsInv /\ DnsRest => DnsInv'
<1> SUFFICES ASSUME DnsInv, DnsRest PROVE DnsInv'
  OBVIOUS
<1>1. dnsDone /\ dnsQueue = <<>> /\ dnsDone' = FALSE /\ dnsFreed' = (dnsLookups > 0)
  BY DEF DnsRest
<1>2. UNCHANGED <<dnsQueue, dnsRecords, dnsFailed, dnsFresh, dnsLookups, dnsResolves, dnsTurned>>
  BY DEF DnsRest
<1>3. DnsTypeOK'
  BY <1>1, <1>2, LookupsAre, Zenon DEF DnsInv, DnsTypeOK
<1>4. ASSUME ~dnsTurned PROVE ~dnsFreed' /\ LookupIsAwaited'
  BY <1>1, <1>2, <1>4, LookupsAre, Zenon DEF DnsInv, LookupIsAwaited, Cached
<1> QED BY <1>2, <1>3, <1>4 DEF DnsInv

LEMMA DnsAgeInv == DnsInv /\ DnsAge => DnsInv'
<1> SUFFICES ASSUME DnsInv, DnsAge PROVE DnsInv'
  OBVIOUS
<1>1. dnsFresh' = FALSE /\ UNCHANGED <<dnsQueue, dnsRecords, dnsFailed, dnsLookups, dnsDone, dnsResolves, dnsFreed, dnsTurned>>
  BY DEF DnsAge, dnsHistory
<1> QED BY <1>1, Zenon DEF DnsInv, DnsTypeOK, LookupIsAwaited, Cached

LEMMA DnsTurnBackInv == DnsInv /\ DnsTurnBack => DnsInv'
<1> SUFFICES ASSUME DnsInv, DnsTurnBack PROVE DnsInv'
  OBVIOUS
<1>1. dnsTurned' = (dnsTurned \/ dnsLookups > 0) /\ ~dnsDone /\ dnsFresh' = TRUE
  BY DEF DnsTurnBack
<1>2. UNCHANGED <<dnsQueue, dnsRecords, dnsFailed, dnsLookups, dnsDone, dnsResolves, dnsFreed>>
  BY DEF DnsTurnBack, dnsHistory
<1>3. DnsTypeOK'
  BY <1>1, <1>2, LookupsAre, Zenon DEF DnsInv, DnsTypeOK
<1>4. ASSUME ~dnsTurned' PROVE ~dnsFreed' /\ LookupIsAwaited'
  BY <1>1, <1>2, <1>4, LookupsAre, Zenon DEF DnsInv, LookupIsAwaited
<1> QED BY <1>3, <1>4 DEF DnsInv

LEMMA DnsStep == DnsInv /\ [DnsNext]_dnsVars => DnsInv'
<1>1. DnsInv /\ UNCHANGED dnsVars => DnsInv'
  BY DEF DnsInv, DnsTypeOK, LookupIsAwaited, Cached, dnsVars, dnsBackend, dnsHistory
<1> QED
  BY <1>1, DnsResolveInv, DnsForgetInv, DnsResolvedInv, DnsAnswerInv, DnsAnswerAndResolveInv, DnsRestInv,
     DnsAgeInv, DnsTurnBackInv DEF DnsNext

\* libuv's lookup keeps the memory it uses until it ends, and done() is not entered again while it
\* is at work, unless an answer that was too old became fresh again during a lookup.
THEOREM LookupsKeepTheirRequest == DnsSpec => []LookupKeepsItsRequest
<1>1. DnsInv => LookupKeepsItsRequest
  BY DEF DnsInv, LookupKeepsItsRequest
<1> QED BY <1>1, DnsInitInv, DnsStep, PTL DEF DnsSpec

\* Who waits has a lookup that goes on, or done() is about to call it
WaitersHaveALookup == dnsQueue # <<>> => dnsLookups = 1 \/ dnsDone

LEMMA WaitersStep == DnsTypeOK /\ WaitersHaveALookup /\ [DnsNext]_dnsVars => WaitersHaveALookup'
<1> SUFFICES ASSUME DnsTypeOK, WaitersHaveALookup, [DnsNext]_dnsVars, dnsQueue' # <<>>
             PROVE  dnsLookups' = 1 \/ dnsDone'
  BY DEF WaitersHaveALookup
<1>1. CASE \E l \in Listeners : DnsResolve(l)
  <2>1. PICK l \in Listeners : DnsResolve(l)
    BY <1>1
  <2>2. /\ dnsQueue' \in Seq(Request)
        /\ Len(dnsQueue') = IF Cached THEN Len(dnsQueue) ELSE Len(dnsQueue) + 1
    BY <2>1, QueuedType DEF DnsTypeOK, DnsResolve, Resolves
  <2>3. CASE Len(dnsQueue') = 1
    <3>1. Starts
      BY <2>1, <2>2, <2>3 DEF DnsResolve, Resolves
    <3> QED BY <3>1 DEF Starts
  <2>4. CASE Len(dnsQueue') # 1
    <3>1. UNCHANGED <<dnsDone, dnsLookups>>
      BY <2>1, <2>2, <2>4 DEF DnsResolve, Resolves
    <3>2. dnsQueue # <<>>
      BY <2>2, <2>4 DEF DnsTypeOK
    <3> QED BY <3>1, <3>2 DEF WaitersHaveALookup
  <2> QED BY <2>3, <2>4
<1>2. CASE \E l \in Listeners : DnsForget(l)
  <2>1. PICK l \in Listeners : DnsForget(l)
    BY <1>2
  <2>2. UNCHANGED <<dnsDone, dnsLookups>> /\ dnsQueue # <<>>
    BY <2>1, DroppedType DEF DnsForget, DnsTypeOK
  <2> QED BY <2>2 DEF WaitersHaveALookup
<1>3. CASE \E l \in Listeners : DnsAnswerAndResolve(l)
  <2>1. dnsDone /\ (UNCHANGED dnsDone \/ Starts)
    BY <1>3 DEF DnsAnswerAndResolve
  <2>2. CASE UNCHANGED dnsDone
    BY <2>1, <2>2, Zenon
  <2>3. CASE Starts
    BY <2>1, <2>3, Zenon DEF Starts
  <2> QED BY <2>1, <2>2, <2>3
<1>4. CASE DnsResolved \/ DnsAnswer
  <2>1. CASE DnsResolved
    <3>1. dnsDone' = TRUE
      BY <2>1 DEF DnsResolved
    <3> QED BY <3>1
  <2>2. CASE DnsAnswer
    <3>1. dnsDone = TRUE
      BY <2>2, Zenon DEF DnsAnswer, DnsTypeOK
    <3>2. dnsDone' = dnsDone
      BY <2>2 DEF DnsAnswer
    <3>3. dnsDone' = TRUE
      BY <3>1, <3>2
    <3> QED BY <3>3
  <2> QED BY <1>4, <2>1, <2>2
<1>5. CASE DnsRest
  <2>1. dnsQueue = <<>> /\ dnsQueue' = dnsQueue
    BY <1>5 DEF DnsRest
  <2> QED BY <2>1
<1>6. CASE DnsAge \/ DnsTurnBack \/ UNCHANGED dnsVars
  <2>1. UNCHANGED <<dnsQueue, dnsLookups, dnsDone>>
    BY <1>6 DEF DnsAge, DnsTurnBack, dnsVars, dnsBackend
  <2> QED BY <2>1, Zenon DEF WaitersHaveALookup
<1> QED BY <1>1, <1>2, <1>3, <1>4, <1>5, <1>6 DEF DnsNext

\* Nobody is left in the queue without a lookup, though listeners ask while they are told and the
\* clock may be set back: the safety that EveryoneIsAnswered rests on.
THEOREM WaitersAreNotForgotten == DnsSpec => []WaitersHaveALookup
<1>1. DnsInit => WaitersHaveALookup
  BY DEF DnsInit, WaitersHaveALookup
<1>2. DnsInv => DnsTypeOK
  BY DEF DnsInv
<1> QED BY <1>1, <1>2, WaitersStep, DnsInitInv, DnsStep, PTL DEF DnsSpec

-----------------------------------------------------------------------------
(* SelfSelect *)

SelfClients == [state : {"Idle", "Wait", "Retry"}, sequence : Nat, failures : Nat, job : Nat, made : Nat]
SelfJobsGiven == [job : Nat, made : Nat, login : BOOLEAN]
SelfRequests == [kind : {"template", "submit"}, id : Nat, job : Nat]
SelfHistories == [overtaken : BOOLEAN, forgot : BOOLEAN, unheard : BOOLEAN]

SelfTypeOK ==
  /\ selfClient \in SelfClients
  /\ selfGiven \in SelfJobsGiven
  /\ selfWeb \subseteq SelfRequests
  /\ selfHistory \in SelfHistories

\* Requests of client c have the ids before its sequence, and the last one for a template, if it
\* is in web, is made for the job there is
RequestsAreItsOwn(c, web) ==
  \A r \in web : r.id < c.sequence /\ (r.kind = "template" /\ r.id = c.sequence - 1 => r.job = c.job)

\* A job has the template made for it, or none where it was overtaken
TemplateFits(made, job) == made = job \/ (made = 0 /\ selfHistory.overtaken)

SelfInv ==
  /\ SelfTypeOK
  /\ RequestsAreItsOwn(selfClient, selfWeb)
  /\ selfPool # {} => TemplateFits(selfClient.made, selfClient.job)
  /\ TemplateFits(selfGiven.made, selfGiven.job)

LEMMA SelfInitInv == SelfInit => SelfInv
  BY DEF SelfInit, SelfInv, SelfTypeOK, SelfClients, SelfJobsGiven, SelfRequests, SelfHistories,
         RequestsAreItsOwn, TemplateFits

LEMMA IdleType ==
  ASSUME NEW c \in SelfClients
  PROVE  /\ Idle(c) \in SelfClients
         /\ Idle(c).job = c.job /\ Idle(c).made = c.made /\ Idle(c).sequence = c.sequence
  BY DEF Idle, SelfClients

\* The requests of before are now earlier than the last
LEMMA GetBlockTemplateKeeps ==
  ASSUME NEW c \in SelfClients, NEW web \in SUBSET SelfRequests, NEW history \in SelfHistories,
         \A r \in web : r.id < c.sequence \/ (r.kind = "submit" /\ r.id = c.sequence),
         GetBlockTemplate(c, web, history)
  PROVE  /\ selfClient' \in SelfClients /\ selfWeb' \in SUBSET SelfRequests /\ selfHistory' \in SelfHistories
         /\ RequestsAreItsOwn(selfClient, selfWeb)'
         /\ selfClient'.job = c.job /\ selfClient'.made = c.made
         /\ selfHistory'.overtaken = history.overtaken
<1> DEFINE last == [kind |-> "template", id |-> c.sequence, job |-> c.job]
<1>1. /\ selfClient' \in SelfClients
      /\ selfClient'.job = c.job /\ selfClient'.made = c.made /\ selfClient'.sequence = c.sequence + 1
  <2>1. c.sequence + 1 \in Nat
    BY DEF SelfClients
  <2>2. selfClient' = [c EXCEPT !.state = "Wait", !.sequence = c.sequence + 1]
    BY DEF GetBlockTemplate
  <2> QED BY <2>1, <2>2 DEF SelfClients
<1>2. last \in SelfRequests /\ last.id = c.sequence /\ last.job = c.job
  BY DEF SelfRequests, SelfClients
<1>3. selfHistory' \in SelfHistories /\ selfHistory'.overtaken = history.overtaken
  BY DEF GetBlockTemplate, SelfHistories
<1>4. selfWeb' = web \union {last}
  BY DEF GetBlockTemplate
<1> HIDE DEF last
<1>5. RequestsAreItsOwn(selfClient', selfWeb')
  BY <1>1, <1>2, <1>4 DEF RequestsAreItsOwn, SelfRequests, SelfClients
<1> QED BY <1>1, <1>2, <1>3, <1>4, <1>5 DEF RequestsAreItsOwn

LEMMA TakesJobKeeps ==
  ASSUME SelfInv, NEW c \in SelfClients, c.sequence = selfClient.sequence, TakesJob(c)
  PROVE  /\ selfClient' \in SelfClients /\ selfWeb' \in SUBSET SelfRequests /\ selfHistory' \in SelfHistories
         /\ RequestsAreItsOwn(selfClient, selfWeb)'
         /\ selfClient'.made = 0
         /\ selfHistory'.overtaken <=> selfHistory.overtaken \/ selfPool # {}
<1> DEFINE d == [c EXCEPT !.job = @ + 1, !.made = 0]
           history == [selfHistory EXCEPT !.overtaken = @ \/ selfPool # {}, !.forgot = FALSE]
<1>1. d \in SelfClients /\ d.sequence = selfClient.sequence /\ d.made = 0
  <2>1. c.job + 1 \in Nat
    BY DEF SelfClients
  <2> QED BY <2>1 DEF SelfClients
<1>2. history \in SelfHistories /\ (history.overtaken <=> selfHistory.overtaken \/ selfPool # {})
  BY DEF SelfInv, SelfTypeOK, SelfHistories
<1>3. GetBlockTemplate(d, selfWeb, history)
  BY DEF TakesJob
<1> HIDE DEF d, history
<1>4. selfWeb \in SUBSET SelfRequests /\ \A r \in selfWeb : r.id < d.sequence
  BY <1>1 DEF SelfInv, SelfTypeOK, RequestsAreItsOwn
<1> QED BY <1>1, <1>2, <1>3, <1>4, GetBlockTemplateKeeps

LEMMA SelfLoginInv == SelfInv /\ SelfLogin => SelfInv'
<1> SUFFICES ASSUME SelfInv, SelfLogin PROVE SelfInv'
  OBVIOUS
<1>1. Idle(selfClient) \in SelfClients /\ Idle(selfClient).sequence = selfClient.sequence
  BY IdleType DEF SelfInv, SelfTypeOK
<1>2. selfGiven' \in SelfJobsGiven /\ selfGiven'.made = selfGiven.made /\ selfGiven'.job = selfGiven.job
  BY DEF SelfInv, SelfTypeOK, SelfJobsGiven, SelfLogin
<1>3. TakesJob(Idle(selfClient)) /\ UNCHANGED selfPool
  BY DEF SelfLogin
<1> QED BY <1>1, <1>2, <1>3, TakesJobKeeps DEF SelfInv, SelfTypeOK, TemplateFits

\* A job that comes while the pool is asked overtakes the one it is asked about
LEMMA SelfJobInv == SelfInv /\ SelfJob => SelfInv'
<1> SUFFICES ASSUME SelfInv, SelfJob PROVE SelfInv'
  OBVIOUS
<1>1. selfClient \in SelfClients /\ TakesJob(selfClient) /\ UNCHANGED <<selfPool, selfGiven>>
  BY DEF SelfInv, SelfTypeOK, SelfJob
<1> QED BY <1>1, TakesJobKeeps DEF SelfInv, SelfTypeOK, TemplateFits

LEMMA SelfCloseInv == SelfInv /\ SelfClose => SelfInv'
<1> SUFFICES ASSUME SelfInv, SelfClose PROVE SelfInv'
  OBVIOUS
<1>1. /\ selfClient' \in SelfClients /\ selfClient'.sequence = selfClient.sequence /\ selfClient'.job = selfClient.job
      /\ selfPool' = {} /\ UNCHANGED <<selfWeb, selfHistory>>
  BY IdleType DEF SelfInv, SelfTypeOK, SelfClose
<1>2. selfGiven' \in SelfJobsGiven /\ selfGiven'.made = selfGiven.made /\ selfGiven'.job = selfGiven.job
  BY DEF SelfInv, SelfTypeOK, SelfJobsGiven, SelfClose
<1> QED BY <1>1, <1>2 DEF SelfInv, SelfTypeOK, RequestsAreItsOwn, TemplateFits

LEMMA SelfRetryType ==
  ASSUME SelfTypeOK, SelfRetry
  PROVE  /\ selfClient' \in SelfClients /\ selfGiven' \in SelfJobsGiven
         /\ UNCHANGED <<selfClient.sequence, selfClient.job, selfClient.made, selfGiven.job, selfGiven.made>>
<1>1. CASE selfClient.state = "Retry"
  BY <1>1 DEF SelfRetry, SelfTypeOK
<1>2. CASE selfClient.state # "Retry"
  <2> DEFINE n == IF GivenUp(selfClient) THEN selfClient.failures ELSE selfClient.failures + 1
             login == selfGiven.login /\ ~GivenUp(selfClient)
  <2>1. n \in Nat /\ login \in BOOLEAN
    BY DEF SelfTypeOK, SelfClients, SelfJobsGiven
  <2>2. /\ selfClient' = [selfClient EXCEPT !.state = "Retry", !.failures = n]
        /\ selfGiven' = [selfGiven EXCEPT !.login = login]
    BY <1>2 DEF SelfRetry
  <2> HIDE DEF n, login
  <2> QED BY <2>1, <2>2 DEF SelfTypeOK, SelfClients, SelfJobsGiven
<1> QED BY <1>1, <1>2

\* A step that only takes requests away, or waits to ask again
LEMMA SelfFewerRequests ==
  ASSUME SelfInv, selfClient' \in SelfClients, selfGiven' \in SelfJobsGiven, selfHistory' \in SelfHistories,
         UNCHANGED <<selfClient.sequence, selfClient.job, selfClient.made, selfGiven.job, selfGiven.made>>,
         UNCHANGED selfHistory.overtaken,
         selfWeb' \subseteq selfWeb, selfPool' \subseteq selfPool
  PROVE  SelfInv'
  BY DEF SelfInv, SelfTypeOK, RequestsAreItsOwn, TemplateFits

\* What the pool agreed to is given: the job, which may be another by now
LEMMA SelfAcceptedInv == \A p \in selfPool : SelfInv /\ SelfAccepted(p) => SelfInv'
<1> SUFFICES ASSUME NEW p \in selfPool, SelfInv, SelfAccepted(p) PROVE SelfInv'
  OBVIOUS
<1>1. /\ selfClient' \in SelfClients /\ selfClient'.sequence = selfClient.sequence
      /\ selfClient'.job = selfClient.job /\ selfClient'.made = selfClient.made
  BY IdleType DEF SelfInv, SelfTypeOK, SelfAccepted
<1>2. LoginTold(selfGiven) \in BOOLEAN
  BY DEF SelfInv, SelfTypeOK, SelfJobsGiven, LoginTold, GivenUp
<1>3. selfGiven' \in SelfJobsGiven /\ selfGiven'.job = selfClient.job /\ selfGiven'.made = selfClient.made
  BY <1>2 DEF SelfInv, SelfTypeOK, SelfClients, SelfJobsGiven, SelfAccepted
<1>4. selfHistory' \in SelfHistories /\ selfHistory'.overtaken = selfHistory.overtaken
  BY DEF SelfInv, SelfTypeOK, SelfHistories, SelfAccepted
<1>5. selfWeb' = selfWeb /\ selfPool' \subseteq selfPool
  BY DEF SelfAccepted
<1> QED BY <1>1, <1>3, <1>4, <1>5 DEF SelfInv, SelfTypeOK, RequestsAreItsOwn, TemplateFits

LEMMA SelfRefusedInv == \A p \in selfPool : SelfInv /\ SelfRefused(p) => SelfInv'
<1> SUFFICES ASSUME NEW p \in selfPool, SelfInv, SelfRefused(p) PROVE SelfInv'
  OBVIOUS
<1>1. SelfRetry /\ UNCHANGED <<selfWeb, selfHistory>> /\ selfPool' \subseteq selfPool
  BY DEF SelfRefused
<1> QED BY <1>1, SelfRetryType, SelfFewerRequests DEF SelfInv, SelfTypeOK

LEMMA SelfTickInv == SelfInv /\ SelfTick => SelfInv'
<1> SUFFICES ASSUME SelfInv, SelfTick PROVE SelfInv'
  OBVIOUS
<1>1. GetBlockTemplate(selfClient, selfWeb, selfHistory) /\ UNCHANGED <<selfPool, selfGiven>>
  BY DEF SelfTick
<1>2. /\ selfClient' \in SelfClients /\ selfWeb' \in SUBSET SelfRequests /\ selfHistory' \in SelfHistories
      /\ RequestsAreItsOwn(selfClient, selfWeb)'
      /\ selfClient'.job = selfClient.job /\ selfClient'.made = selfClient.made
      /\ selfHistory'.overtaken = selfHistory.overtaken
  BY <1>1, GetBlockTemplateKeeps DEF SelfInv, SelfTypeOK, RequestsAreItsOwn
<1> QED BY <1>1, <1>2 DEF SelfInv, SelfTypeOK, TemplateFits

\* The result for the daemon has the id of the request that follows, but asks for no template
LEMMA SelfSubmitInv == SelfInv /\ SelfSubmit => SelfInv'
<1> SUFFICES ASSUME SelfInv, SelfSubmit PROVE SelfInv'
  OBVIOUS
<1> DEFINE result == [kind |-> "submit", id |-> selfClient.sequence, job |-> selfGiven.job]
<1>1. PICK block \in {{}, {result}} : GetBlockTemplate(selfClient, selfWeb \union block, selfHistory)
  BY DEF SelfSubmit
<1>2. result \in SelfRequests /\ result.kind = "submit" /\ result.id = selfClient.sequence
  BY DEF SelfInv, SelfTypeOK, SelfRequests, SelfClients, SelfJobsGiven
<1> HIDE DEF result
<1>3. /\ selfWeb \union block \in SUBSET SelfRequests
      /\ \A r \in selfWeb \union block : r.id < selfClient.sequence \/ (r.kind = "submit" /\ r.id = selfClient.sequence)
  BY <1>2 DEF SelfInv, SelfTypeOK, RequestsAreItsOwn
<1>4. /\ selfClient' \in SelfClients /\ selfWeb' \in SUBSET SelfRequests /\ selfHistory' \in SelfHistories
      /\ RequestsAreItsOwn(selfClient, selfWeb)'
      /\ selfClient'.job = selfClient.job /\ selfClient'.made = selfClient.made
      /\ selfHistory'.overtaken = selfHistory.overtaken
  BY <1>1, <1>3, GetBlockTemplateKeeps DEF SelfInv, SelfTypeOK
<1>5. UNCHANGED <<selfPool, selfGiven>>
  BY DEF SelfSubmit
<1> QED BY <1>4, <1>5 DEF SelfInv, SelfTypeOK, TemplateFits

\* Only the last request is heard, and so the template is made for the job there is
LEMMA SelfTemplateInv == \A r \in selfWeb : SelfInv /\ SelfTemplate(r) => SelfInv'
<1> SUFFICES ASSUME NEW r \in selfWeb, SelfInv, SelfTemplate(r) PROVE SelfInv'
  OBVIOUS
<1>1. r \in SelfRequests /\ selfClient \in SelfClients
  BY DEF SelfInv, SelfTypeOK
<1>2. r.id = selfClient.sequence - 1 /\ r.kind = "template"
  BY <1>1 DEF SelfTemplate, Late, SelfRequests, SelfClients
<1>3. r.job = selfClient.job
  BY <1>2 DEF SelfInv, RequestsAreItsOwn
<1>4. /\ selfClient' \in SelfClients /\ selfClient'.sequence = selfClient.sequence
      /\ selfClient'.job = selfClient.job /\ selfClient'.made = selfClient.job
  BY <1>1, <1>3 DEF SelfTemplate, SelfClients
<1>5. selfWeb' \subseteq selfWeb /\ UNCHANGED <<selfGiven, selfHistory>>
  BY DEF SelfTemplate
<1> QED BY <1>4, <1>5 DEF SelfInv, SelfTypeOK, RequestsAreItsOwn, TemplateFits

LEMMA SelfFailsInv == \A r \in selfWeb : SelfInv /\ (SelfFails(r) \/ SelfSubmitted(r)) => SelfInv'
<1> SUFFICES ASSUME NEW r \in selfWeb, SelfInv, SelfFails(r) \/ SelfSubmitted(r) PROVE SelfInv'
  OBVIOUS
<1>1. SelfRetry /\ UNCHANGED <<selfPool, selfHistory>> /\ selfWeb' \subseteq selfWeb
  BY DEF SelfFails, SelfSubmitted
<1> QED BY <1>1, SelfRetryType, SelfFewerRequests DEF SelfInv, SelfTypeOK

LEMMA SelfLostInv == \A r \in selfWeb : SelfInv /\ (SelfLost(r) \/ SelfIgnore(r)) => SelfInv'
<1> SUFFICES ASSUME NEW r \in selfWeb, SelfInv, SelfLost(r) \/ SelfIgnore(r) PROVE SelfInv'
  OBVIOUS
<1>1. UNCHANGED <<selfPool, selfClient, selfGiven>> /\ selfWeb' \subseteq selfWeb
  BY DEF SelfLost, SelfIgnore
<1>2. selfHistory' \in SelfHistories /\ selfHistory'.overtaken = selfHistory.overtaken
  BY DEF SelfInv, SelfTypeOK, SelfHistories, SelfLost, SelfIgnore
<1> QED BY <1>1, <1>2, SelfFewerRequests DEF SelfInv, SelfTypeOK

LEMMA SelfStep == SelfInv /\ [SelfNext]_selfVars => SelfInv'
<1>1. SelfInv /\ UNCHANGED selfVars => SelfInv'
  BY DEF SelfInv, SelfTypeOK, RequestsAreItsOwn, TemplateFits, selfVars
<1> QED
  BY <1>1, SelfLoginInv, SelfJobInv, SelfCloseInv, SelfTickInv, SelfSubmitInv, SelfAcceptedInv, SelfRefusedInv,
     SelfTemplateInv, SelfFailsInv, SelfLostInv DEF SelfNext, SelfAnswer, SelfAgree

\* The listener never has a job with the template of another: a late answer of the daemon is not
\* taken for that to the last request, whatever jobs and results came between.
THEOREM TemplatesFit == SelfSpec => []TemplateIsTheJobs
<1>1. SelfInv => TemplateIsTheJobs
  BY DEF SelfInv, TemplateFits, TemplateIsTheJobs
<1> QED BY <1>1, SelfInitInv, SelfStep, PTL DEF SelfSpec

\* The last request for a template is under way, or its template before the pool
LastAsked == \E r \in selfWeb : r.kind = "template" /\ r.id = selfClient.sequence - 1
LastSent  == \E p \in selfPool : p.id = selfClient.sequence - 1

\* Something is to come for the pool's newest job, or it was given, but for the cases that
\* JobsAreServed names
SelfGoesOn ==
  selfUp =>
    \/ selfClient.state = "Retry" \/ LastAsked \/ LastSent \/ selfHistory.unheard
    \/ selfClient.state = "Idle" /\ (Served \/ selfHistory.forgot)

\* What was given is the job there is or an earlier one, and its template the one there is
GivenFits(c) ==
  /\ selfGiven.job <= c.job
  /\ selfGiven.job = c.job /\ selfGiven.made = c.job => c.made = c.job

\* A listener that does not take the client for logged in was told of too many failures, and they
\* are still counted; what the pool is asked about last is the template of the job there is
SelfSound ==
  /\ \A p \in selfPool : p.id \in Nat /\ p.id < selfClient.sequence
  /\ LastSent => selfClient.made = selfClient.job
  /\ GivenFits(selfClient)
  /\ selfUp /\ ~selfGiven.login => GivenUp(selfClient)
  /\ SelfGoesOn

LEMMA SelfInitSound == SelfInit => SelfSound
  BY DEF SelfInit, SelfSound, GivenFits, LastSent, SelfGoesOn

LEMMA SelfAsksSound ==
  ASSUME SelfInv, SelfSound, NEW c \in SelfClients, NEW web, NEW history,
         c.sequence = selfClient.sequence, GetBlockTemplate(c, web, history), UNCHANGED selfPool,
         GivenFits(c), UNCHANGED <<selfGiven.job, selfGiven.made>>,
         selfGiven'.login \/ (c.failures = selfClient.failures /\ UNCHANGED <<selfUp, selfGiven.login>>)
  PROVE  SelfSound'
<1> DEFINE last == [kind |-> "template", id |-> c.sequence, job |-> c.job]
<1>1. /\ c.sequence \in Nat /\ selfClient'.sequence = c.sequence + 1 /\ selfClient'.failures = c.failures
  BY DEF GetBlockTemplate, SelfClients
<1>2. last.kind = "template" /\ last.id = c.sequence
  OBVIOUS
<1>3. last \in selfWeb'
  BY DEF GetBlockTemplate
<1> HIDE DEF last
<1>4. LastAsked'
  BY <1>1, <1>2, <1>3 DEF LastAsked
<1>5. \A p \in selfPool' : p.id \in Nat /\ p.id < c.sequence
  BY DEF SelfSound
<1>6. ~LastSent' /\ \A p \in selfPool' : p.id < selfClient'.sequence
  BY <1>1, <1>5 DEF LastSent
<1>7. ASSUME selfUp', ~selfGiven'.login PROVE GivenUp(selfClient)'
  BY <1>1, <1>7 DEF SelfSound, GivenUp
<1>8. GivenFits(selfClient)'
  BY DEF GivenFits, GetBlockTemplate, SelfClients
<1> QED BY <1>1, <1>4, <1>5, <1>6, <1>7, <1>8 DEF SelfSound, SelfGoesOn

\* A new job was not given yet
LEMMA NewJobFits ==
  ASSUME SelfInv, SelfSound, NEW c, c.job = selfClient.job + 1
  PROVE  GivenFits(c)
  BY DEF SelfSound, GivenFits, SelfInv, SelfTypeOK, SelfJobsGiven, SelfClients

LEMMA SelfLoginSound == SelfInv /\ SelfSound /\ SelfLogin => SelfSound'
<1> SUFFICES ASSUME SelfInv, SelfSound, SelfLogin PROVE SelfSound'
  OBVIOUS
<1> DEFINE c == [Idle(selfClient) EXCEPT !.job = @ + 1, !.made = 0]
<1>1. /\ Idle(selfClient) \in SelfClients /\ Idle(selfClient).sequence = selfClient.sequence
      /\ Idle(selfClient).job = selfClient.job
  BY IdleType DEF SelfInv, SelfTypeOK
<1>2. Idle(selfClient).job + 1 \in Nat
  BY <1>1 DEF SelfClients
<1>3. c \in SelfClients /\ c.sequence = selfClient.sequence /\ c.job = selfClient.job + 1
  BY <1>1, <1>2 DEF SelfClients
<1>4. selfGiven'.login /\ UNCHANGED <<selfPool, selfGiven.job, selfGiven.made>>
  BY DEF SelfLogin, SelfInv, SelfTypeOK, SelfJobsGiven
<1>5. PICK history : GetBlockTemplate(c, selfWeb, history)
  BY DEF SelfLogin, TakesJob
<1> HIDE DEF c
<1> QED BY <1>3, <1>4, <1>5, NewJobFits, SelfAsksSound

LEMMA SelfJobSound == SelfInv /\ SelfSound /\ SelfJob => SelfSound'
<1> SUFFICES ASSUME SelfInv, SelfSound, SelfJob PROVE SelfSound'
  OBVIOUS
<1> DEFINE c == [selfClient EXCEPT !.job = @ + 1, !.made = 0]
<1>1. selfClient \in SelfClients /\ selfClient.job + 1 \in Nat
  BY DEF SelfInv, SelfTypeOK, SelfClients
<1>2. /\ c \in SelfClients /\ c.sequence = selfClient.sequence /\ c.failures = selfClient.failures
      /\ c.job = selfClient.job + 1
  BY <1>1 DEF SelfClients
<1>3. UNCHANGED <<selfPool, selfUp, selfGiven.job, selfGiven.made, selfGiven.login>>
  BY DEF SelfJob
<1>4. PICK history : GetBlockTemplate(c, selfWeb, history)
  BY DEF SelfJob, TakesJob
<1> HIDE DEF c
<1> QED BY <1>2, <1>3, <1>4, NewJobFits, SelfAsksSound

LEMMA SelfTickSound == SelfInv /\ SelfSound /\ (SelfTick \/ SelfSubmit) => SelfSound'
<1> SUFFICES ASSUME SelfInv, SelfSound, SelfTick \/ SelfSubmit PROVE SelfSound'
  OBVIOUS
<1>1. PICK web : GetBlockTemplate(selfClient, web, selfHistory)
  BY DEF SelfTick, SelfSubmit
<1>2. /\ UNCHANGED <<selfPool, selfUp, selfGiven.job, selfGiven.made, selfGiven.login>>
      /\ selfClient \in SelfClients /\ GivenFits(selfClient)
  BY DEF SelfTick, SelfSubmit, SelfInv, SelfTypeOK, SelfSound
<1> QED BY <1>1, <1>2, SelfAsksSound

LEMMA SelfCloseSound == SelfInv /\ SelfSound /\ SelfClose => SelfSound'
<1> SUFFICES ASSUME SelfInv, SelfSound, SelfClose PROVE SelfSound'
  OBVIOUS
<1>1. /\ selfPool' = {} /\ selfUp' = FALSE
      /\ selfClient'.job = selfClient.job /\ selfClient'.made = selfClient.made
  BY IdleType DEF SelfClose, SelfInv, SelfTypeOK
<1>2. UNCHANGED <<selfGiven.job, selfGiven.made>>
  BY DEF SelfClose, SelfInv, SelfTypeOK, SelfJobsGiven
<1> QED BY <1>1, <1>2 DEF SelfSound, GivenFits, LastSent, SelfGoesOn

\* The pool's answer is that to the last request, or there is another to come; or the wait for a
\* retry is forgotten
LEMMA SelfAcceptedSound == \A p \in selfPool : SelfInv /\ SelfSound /\ SelfAccepted(p) => SelfSound'
<1> SUFFICES ASSUME NEW p \in selfPool, SelfInv, SelfSound, SelfAccepted(p) PROVE SelfSound'
  OBVIOUS
<1>1. /\ selfClient' = Idle(selfClient) /\ selfClient'.state = "Idle" /\ selfClient'.sequence = selfClient.sequence
      /\ selfClient'.job = selfClient.job /\ selfClient'.made = selfClient.made
  BY IdleType DEF SelfInv, SelfTypeOK, SelfAccepted, Idle, SelfClients
<1>2. /\ selfPool' = selfPool \ {p} /\ UNCHANGED <<selfUp, selfWeb>>
      /\ selfGiven' = [job |-> selfClient.job, made |-> selfClient.made, login |-> LoginTold(selfGiven)]
  BY DEF SelfAccepted
<1>3. /\ selfHistory'.unheard = selfHistory.unheard
      /\ selfHistory'.forgot <=> selfHistory.forgot \/ (selfClient.state = "Retry" /\ selfClient.made = 0)
  BY DEF SelfInv, SelfTypeOK, SelfHistories, SelfAccepted
<1>4. LastAsked' = LastAsked
  BY <1>1, <1>2 DEF LastAsked
<1>5. LastSent' => selfClient'.made = selfClient'.job
  BY <1>1, <1>2 DEF LastSent, SelfSound
<1>6. ASSUME selfUp PROVE selfGiven'.login = TRUE
  <2>1. selfGiven.login \in BOOLEAN
    BY DEF SelfInv, SelfTypeOK, SelfJobsGiven
  <2>2. LoginTold(selfGiven) = TRUE
    BY <1>6, <2>1 DEF SelfSound, LoginTold, GivenUp
  <2> QED BY <1>2, <2>2
<1>7. ASSUME selfUp, selfClient.made = selfClient.job PROVE Served'
  BY <1>1, <1>2, <1>6, <1>7 DEF Served
<1>8. SelfGoesOn'
  <2> SUFFICES ASSUME selfUp PROVE SelfGoesOn'
    BY <1>2 DEF SelfGoesOn
  <2>1. CASE LastAsked \/ selfHistory.unheard
    BY <1>3, <1>4, <2>1 DEF SelfGoesOn
  <2>2. CASE LastSent
    BY <1>1, <1>7, <2>2 DEF SelfSound, SelfGoesOn
  <2>3. CASE selfClient.state = "Retry"
    <3>1. selfClient.made = selfClient.job \/ selfClient.made = 0
      BY DEF SelfInv, TemplateFits
    <3> QED BY <1>1, <1>3, <1>7, <2>3, <3>1 DEF SelfGoesOn
  <2>4. CASE selfClient.state = "Idle" /\ Served
    <3>1. selfClient.made = selfClient.job
      BY <2>4 DEF Served, SelfSound, GivenFits
    <3> QED BY <1>1, <1>7, <3>1 DEF SelfGoesOn
  <2>5. CASE selfHistory.forgot
    <3>1. selfHistory'.forgot
      BY <1>3, <2>5, Zenon
    <3> QED BY <1>1, <3>1 DEF SelfGoesOn
  <2> QED BY <2>1, <2>2, <2>3, <2>4, <2>5 DEF SelfSound, SelfGoesOn
<1>9. \A q \in selfPool' : q.id \in Nat /\ q.id < selfClient'.sequence
  BY <1>1, <1>2 DEF SelfSound
<1>10. GivenFits(selfClient)'
  BY <1>1, <1>2 DEF GivenFits, SelfInv, SelfTypeOK, SelfClients
<1> QED BY <1>2, <1>5, <1>6, <1>8, <1>9, <1>10 DEF SelfSound

\* The listener is told once, and the failures stay counted
LEMMA SelfRetrySound ==
  ASSUME SelfInv, SelfSound, SelfRetry, UNCHANGED selfUp, selfPool' \subseteq selfPool
  PROVE  SelfSound'
<1>1. /\ selfClient'.state = "Retry"
      /\ UNCHANGED <<selfClient.sequence, selfClient.job, selfClient.made>>
  BY DEF SelfRetry, SelfInv, SelfTypeOK, SelfClients
<1>2. ASSUME selfUp', ~selfGiven'.login PROVE GivenUp(selfClient)'
  <2>1. CASE selfClient.state = "Retry"
    BY <1>2, <2>1 DEF SelfRetry, SelfSound, GivenUp
  <2>2. CASE selfClient.state # "Retry"
    <3>1. selfGiven'.login = (selfGiven.login /\ ~GivenUp(selfClient))
      BY <2>2 DEF SelfRetry, SelfInv, SelfTypeOK, SelfJobsGiven
    <3>2. GivenUp(selfClient)
      BY <1>2, <3>1 DEF SelfSound
    <3>3. selfClient'.failures = selfClient.failures
      BY <2>2, <3>2 DEF SelfRetry, SelfInv, SelfTypeOK, SelfClients
    <3> QED BY <3>2, <3>3 DEF GivenUp
  <2> QED BY <2>1, <2>2
<1>3. LastSent' => selfClient'.made = selfClient'.job
  BY <1>1 DEF LastSent, SelfSound
<1>4. GivenFits(selfClient)'
  BY SelfRetryType DEF SelfInv, SelfSound, GivenFits
<1> QED BY <1>1, <1>2, <1>3, <1>4 DEF SelfSound, SelfGoesOn

LEMMA SelfTemplateSound == \A r \in selfWeb : SelfInv /\ SelfSound /\ SelfTemplate(r) => SelfSound'
<1> SUFFICES ASSUME NEW r \in selfWeb, SelfInv, SelfSound, SelfTemplate(r) PROVE SelfSound'
  OBVIOUS
<1>1. r \in SelfRequests /\ selfClient \in SelfClients
  BY DEF SelfInv, SelfTypeOK
<1>2. r.id \in Nat /\ r.id = selfClient.sequence - 1 /\ r.kind = "template"
  BY <1>1 DEF SelfTemplate, Late, SelfRequests, SelfClients
<1>3. r.job = selfClient.job
  BY <1>2 DEF SelfInv, RequestsAreItsOwn
<1>4. /\ selfClient'.sequence = selfClient.sequence /\ selfClient'.failures = selfClient.failures
      /\ selfClient'.job = selfClient.job /\ selfClient'.made = selfClient.job
  BY <1>1, <1>3 DEF SelfTemplate, SelfClients
<1> DEFINE sent == [id |-> r.id, job |-> selfClient.job]
<1>5. /\ selfPool' = IF selfUp THEN selfPool \union {sent} ELSE selfPool
      /\ UNCHANGED <<selfUp, selfGiven, selfHistory>>
  BY DEF SelfTemplate
<1>6. sent.id = r.id
  OBVIOUS
<1> HIDE DEF sent
<1>7. \A q \in selfPool' : q.id \in Nat /\ q.id < selfClient'.sequence
  BY <1>1, <1>2, <1>4, <1>5, <1>6 DEF SelfSound, SelfClients
<1>8. selfUp' => LastSent'
  BY <1>2, <1>4, <1>5, <1>6 DEF LastSent
<1> QED BY <1>4, <1>5, <1>7, <1>8 DEF SelfSound, GivenFits, SelfGoesOn, GivenUp

\* A request that is ignored is not the last; if the last one is lost nobody hears of it
LEMMA SelfLostSound == \A r \in selfWeb : SelfInv /\ SelfSound /\ (SelfLost(r) \/ SelfIgnore(r)) => SelfSound'
<1> SUFFICES ASSUME NEW r \in selfWeb, SelfInv, SelfSound, SelfLost(r) \/ SelfIgnore(r) PROVE SelfSound'
  OBVIOUS
<1>1. UNCHANGED <<selfUp, selfClient, selfPool, selfGiven>> /\ selfWeb' = selfWeb \ {r}
  BY DEF SelfLost, SelfIgnore
<1>2. /\ selfHistory'.forgot = selfHistory.forgot
      /\ selfHistory.unheard => selfHistory'.unheard
      /\ ~Late(r) => selfHistory'.unheard
  BY DEF SelfLost, SelfIgnore, SelfInv, SelfTypeOK, SelfHistories
<1>3. ASSUME Late(r), LastAsked PROVE LastAsked'
  <2>1. PICK q \in selfWeb : q.kind = "template" /\ q.id = selfClient.sequence - 1
    BY <1>3 DEF LastAsked
  <2>2. q # r
    BY <1>3, <2>1 DEF Late, SelfInv, SelfTypeOK, SelfClients
  <2> QED BY <1>1, <2>1, <2>2 DEF LastAsked
<1>4. SelfGoesOn'
  <2> SUFFICES ASSUME selfUp PROVE SelfGoesOn'
    BY <1>1 DEF SelfGoesOn
  <2>1. CASE LastAsked
    BY <1>2, <1>3, <2>1, Zenon DEF SelfGoesOn
  <2>2. CASE selfClient.state = "Retry" \/ LastSent
    BY <1>1, <2>2 DEF SelfGoesOn, LastSent
  <2>3. CASE selfHistory.unheard
    BY <1>2, <2>3, Zenon DEF SelfGoesOn
  <2>4. CASE selfClient.state = "Idle" /\ (Served \/ selfHistory.forgot)
    BY <1>1, <1>2, <2>4 DEF SelfGoesOn, Served
  <2> QED BY <2>1, <2>2, <2>3, <2>4 DEF SelfSound, SelfGoesOn
<1> QED BY <1>1, <1>4 DEF SelfSound, GivenFits, LastSent, GivenUp

LEMMA SelfStepSound == SelfInv /\ SelfSound /\ [SelfNext]_selfVars => SelfSound'
<1> SUFFICES ASSUME SelfInv, SelfSound, [SelfNext]_selfVars PROVE SelfSound'
  OBVIOUS
<1>1. CASE SelfLogin \/ SelfJob \/ SelfClose \/ SelfTick \/ SelfSubmit
  BY <1>1, SelfLoginSound, SelfJobSound, SelfCloseSound, SelfTickSound
<1>2. CASE \E r \in selfWeb : SelfSubmitted(r) \/ SelfFails(r)
  <2>1. SelfRetry /\ UNCHANGED <<selfUp, selfPool>>
    BY <1>2 DEF SelfSubmitted, SelfFails
  <2> QED BY <2>1, SelfRetrySound
<1>3. CASE \E p \in selfPool : SelfRefused(p)
  <2>1. SelfRetry /\ UNCHANGED selfUp /\ selfPool' \subseteq selfPool
    BY <1>3 DEF SelfRefused
  <2> QED BY <2>1, SelfRetrySound
<1>4. CASE \E r \in selfWeb : SelfTemplate(r) \/ SelfLost(r) \/ SelfIgnore(r)
  BY <1>4, SelfTemplateSound, SelfLostSound
<1>5. CASE \E p \in selfPool : SelfAccepted(p)
  BY <1>5, SelfAcceptedSound
<1>6. CASE UNCHANGED selfVars
  BY <1>6 DEF selfVars, SelfSound, GivenFits, SelfGoesOn, LastSent, LastAsked, Served, GivenUp
<1> QED BY <1>1, <1>2, <1>3, <1>4, <1>5, <1>6 DEF SelfNext, SelfAnswer, SelfAgree

\* A client that is connected to its pool does not come to a standstill between its two servers: the
\* newest job was given, or a request or a retry is to come, but for a request never answered and a
\* retry that is forgotten. This is the safety that JobsAreServed rests on.
THEOREM JobsAreAsked == SelfSpec => []SelfGoesOn
<1>1. SelfSound => SelfGoesOn
  BY DEF SelfSound
<1> QED BY <1>1, SelfInitInv, SelfStep, SelfInitSound, SelfStepSound, PTL DEF SelfSpec

-----------------------------------------------------------------------------
(* LineReader: sequences of places *)

LEMMA PlacesType ==
  ASSUME NEW a \in Nat \ {0}, NEW b \in Nat, a <= b + 1
  PROVE  /\ Places(a, b) \in Seq(Nat) /\ Len(Places(a, b)) = b - a + 1
         /\ \A i \in 1..(b - a + 1) : Places(a, b)[i] = a + i - 1
<1>1. b - a + 1 \in Nat /\ \A i \in 1..(b - a + 1) : a + i - 1 \in Nat
  OBVIOUS
<1>2. Places(a, b) \in [1..(b - a + 1) -> Nat]
  BY <1>1 DEF Places
<1>3. Places(a, b) \in Seq(Nat)
  BY <1>1, <1>2
<1> QED BY <1>1, <1>2, <1>3 DEF Places

LEMMA PlacesConcat ==
  ASSUME NEW a \in Nat \ {0}, NEW b \in Nat, NEW c \in Nat, a <= b + 1, b <= c
  PROVE  Places(a, b) \o Places(b + 1, c) = Places(a, c)
<1> DEFINE s == Places(a, b)
           t == Places(b + 1, c)
           u == Places(a, c)
<1>1. /\ s \in Seq(Nat) /\ Len(s) = b - a + 1 /\ \A i \in 1..(b - a + 1) : s[i] = a + i - 1
  BY PlacesType
<1>2. /\ t \in Seq(Nat) /\ Len(t) = c - b /\ \A i \in 1..(c - b) : t[i] = b + i
  <2>1. b + 1 \in Nat \ {0} /\ b + 1 <= c + 1 /\ c - (b + 1) + 1 = c - b
    OBVIOUS
  <2>2. t \in Seq(Nat) /\ Len(t) = c - (b + 1) + 1 /\ \A i \in 1..(c - (b + 1) + 1) : t[i] = (b + 1) + i - 1
    BY <2>1, PlacesType
  <2> QED BY <2>1, <2>2
<1>3. /\ u \in Seq(Nat) /\ Len(u) = c - a + 1 /\ \A i \in 1..(c - a + 1) : u[i] = a + i - 1
  <2>1. a <= c + 1
    OBVIOUS
  <2> QED BY <2>1, PlacesType
<1> HIDE DEF s, t, u
<1>4. /\ s \o t \in Seq(Nat) /\ Len(s \o t) = Len(s) + Len(t)
      /\ \A i \in 1..(Len(s) + Len(t)) : (s \o t)[i] = IF i <= Len(s) THEN s[i] ELSE t[i - Len(s)]
  BY <1>1, <1>2, ConcatProperties
<1>5. Len(s \o t) = Len(u) /\ Len(u) = Len(s) + Len(t)
  BY <1>1, <1>2, <1>3, <1>4
<1>6. ASSUME NEW i \in 1..Len(u)
      PROVE  (s \o t)[i] = u[i]
  <2>1. CASE i <= Len(s)
    BY <1>1, <1>3, <1>4, <1>5, <2>1
  <2>2. CASE i > Len(s)
    <3>1. i - Len(s) \in 1..(c - b) /\ (s \o t)[i] = t[i - Len(s)]
      <4>1. Len(s) = b - a + 1 /\ Len(u) = c - a + 1 /\ Len(u) = Len(s) + Len(t)
        BY <1>1, <1>3, <1>5
      <4>2. i \in 1..(c - a + 1)
        BY <4>1
      <4>3. i - Len(s) \in 1..(c - b)
        BY <2>2, <4>1, <4>2
      <4>4. (s \o t)[i] = IF i <= Len(s) THEN s[i] ELSE t[i - Len(s)]
        BY <1>4, <4>1
      <4>5. ~(i <= Len(s))
        BY <2>2, <4>1, <4>2
      <4> QED BY <4>3, <4>4, <4>5
    <3>2. t[i - Len(s)] = b + (i - Len(s))
      BY <1>2, <3>1
    <3>3. u[i] = a + i - 1
      BY <1>3
    <3>4. b + (i - Len(s)) = a + i - 1
      BY <1>1, <1>3
    <3> QED BY <3>1, <3>2, <3>3, <3>4
  <2>3. i <= Len(s) \/ i > Len(s)
    BY <1>1, <1>3
  <2> QED BY <2>1, <2>2, <2>3
<1>7. s \o t = u
  BY <1>3, <1>4, <1>5, <1>6, SeqEqual
<1> QED BY <1>7 DEF s, t, u

LEMMA PlacesFront ==
  ASSUME NEW a \in Nat \ {0}, NEW b \in Nat, a <= b
  PROVE  Front(Places(a, b)) = Places(a, b - 1)
<1> DEFINE s == Places(a, b)
           u == Places(a, b - 1)
<1>1. /\ s \in Seq(Nat) /\ Len(s) = b - a + 1 /\ \A i \in 1..(b - a + 1) : s[i] = a + i - 1
  BY PlacesType
<1>2. /\ u \in Seq(Nat) /\ Len(u) = b - a /\ \A i \in 1..(b - a) : u[i] = a + i - 1
  <2>1. b - 1 \in Nat /\ a <= (b - 1) + 1 /\ (b - 1) - a + 1 = b - a
    OBVIOUS
  <2>2. /\ u \in Seq(Nat) /\ Len(u) = (b - 1) - a + 1 /\ \A i \in 1..((b - 1) - a + 1) : u[i] = a + i - 1
    BY <2>1, PlacesType
  <2> QED BY <2>1, <2>2
<1> HIDE DEF s, u
<1>3. Front(s) = SubSeq(s, 1, b - a)
  BY <1>1 DEF Front
<1>4. /\ SubSeq(s, 1, b - a) \in Seq(Nat) /\ Len(SubSeq(s, 1, b - a)) = b - a
      /\ \A i \in 1..(b - a) : SubSeq(s, 1, b - a)[i] = s[i]
  BY <1>1
<1>5. Front(s) = u
  BY <1>1, <1>2, <1>3, <1>4, SeqEqual
<1> QED BY <1>5 DEF s, u

LEMMA FrontIs ==
  ASSUME NEW s \in Seq(Nat)
  PROVE  /\ Front(s) \in Seq(Nat)
         /\ \A i \in 1..Len(Front(s)) : i \in 1..Len(s) /\ Front(s)[i] = s[i]
<1> DEFINE n == Len(s) - 1
<1>0. n \in Int
  OBVIOUS
<1>1. \A i \in 1..n : i \in 1..Len(s)
  OBVIOUS
<1>2. /\ SubSeq(s, 1, n) \in Seq(Nat)
      /\ Len(SubSeq(s, 1, n)) = IF 1 <= n THEN n - 1 + 1 ELSE 0
      /\ \A i \in 1..(n - 1 + 1) : SubSeq(s, 1, n)[i] = s[1 + i - 1]
  <2>1. \A i \in 1..n : s[i] \in Nat
    BY <1>1
  <2> QED BY <1>0, <2>1, SubSeqProperties
<1> HIDE DEF n
<1>3. ASSUME NEW i \in 1..Len(SubSeq(s, 1, n))
      PROVE  i \in 1..n /\ SubSeq(s, 1, n)[i] = s[i]
  <2>1. i \in 1..n
    BY <1>0, <1>2
  <2>2. i \in 1..(n - 1 + 1) /\ 1 + i - 1 = i
    BY <1>0, <2>1
  <2> QED BY <1>2, <2>1, <2>2
<1> QED BY <1>1, <1>2, <1>3 DEF Front, n

-----------------------------------------------------------------------------
(* LineReader: what is read, what is kept and what is reported *)

IsLine(l) ==
  /\ l[1] <= l[2] /\ lineStream[l[2]] = "n"
  /\ \A i \in l[1]..(l[2] - 1) : lineStream[i] # "n"
  /\ l[1] = 1 \/ lineStream[l[1] - 1] = "n"

\* The line that getline is in begins at b
Unfinished(b) ==
  /\ b \in 1..(lineTaken + 1)
  /\ b = 1 \/ lineStream[b - 1] = "n"
  /\ \A i \in b..lineTaken : lineStream[i] # "n"

\* The buffer has what was read of it, as long as that fits, and never of another line
Keeps(b, buffer) ==
  /\ \A i \in DOMAIN buffer : buffer[i] \in b..lineTaken
  /\ lineTaken - b + 1 <= LineChunk => buffer = Places(b, lineTaken)

\* A report is of a line, and those before it are of earlier lines
Reported(i, l) ==
  /\ ToSet(lineReports[i]) \subseteq l[1]..l[2]
  /\ \A j \in 1..(i - 1) : \A b \in ToSet(lineReports[j]) : b < l[1]

LineTypeOK ==
  /\ lineStream \in Seq({"c", "n"})
  /\ lineTaken \in 0..Len(lineStream) /\ Len(lineStream) - lineTaken <= LineChunk
  /\ lineBuffer \in Seq(Nat) /\ Len(lineBuffer) <= LineChunk
  /\ lineReports \in Seq(Seq(Nat))

LineInv ==
  /\ LineTypeOK
  /\ \E b \in Nat : Unfinished(b) /\ Keeps(b, lineBuffer)
  /\ \A l \in Lines : Fits(l) => Contains(lineReports, Places(l[1], l[2] - 1))
  /\ \A i \in DOMAIN lineReports : \E l \in Lines : Reported(i, l)

LEMMA LineImplied == LineInv => LinesAreWhole
  BY DEF LineInv, LineTypeOK, LinesAreWhole, Reported

LEMMA NothingRead ==
  ASSUME lineStream = <<>>, lineTaken = 0, lineBuffer = <<>>, lineReports = <<>>
  PROVE  LineInv
<1>1. LineTypeOK
  BY LineAssumption DEF LineTypeOK
<1>2. Places(1, 0) = <<>>
  BY DEF Places
<1>3. Unfinished(1) /\ Keeps(1, <<>>)
  BY <1>2 DEF Unfinished, Keeps
<1>4. Lines = {} /\ DOMAIN lineReports = {}
  BY DEF Lines
<1> QED BY <1>1, <1>3, <1>4 DEF LineInv

\* Lines and the one that getline is in lie in what was taken; more to read changes neither
LEMMA LineReadInv == LineInv /\ LineRead => LineInv'
<1> SUFFICES ASSUME LineInv, LineRead PROVE LineInv'
  OBVIOUS
<1>1. PICK n \in 1..LineChunk : \E data \in [1..n -> {"c", "n"}] : lineStream' = lineStream \o data
  BY DEF LineRead
<1>2. PICK data \in [1..n -> {"c", "n"}] : lineStream' = lineStream \o data
  BY <1>1
<1>3. lineTaken = Len(lineStream) /\ UNCHANGED <<lineTaken, lineBuffer, lineReports>>
  BY DEF LineRead
<1>4. data \in Seq({"c", "n"}) /\ Len(data) = n /\ n \in Nat /\ n <= LineChunk
  BY LineAssumption
<1>5. /\ lineStream' \in Seq({"c", "n"}) /\ Len(lineStream') = Len(lineStream) + n
      /\ \A i \in 1..Len(lineStream) : lineStream'[i] = lineStream[i]
  BY <1>2, <1>4 DEF LineInv, LineTypeOK
<1>6. LineTypeOK'
  BY <1>3, <1>4, <1>5 DEF LineInv, LineTypeOK
<1>7. \A i \in 1..lineTaken : lineStream'[i] = lineStream[i]
  BY <1>3, <1>5
<1>8. \A b \in Nat : Unfinished(b) /\ Keeps(b, lineBuffer) => (Unfinished(b) /\ Keeps(b, lineBuffer))'
  BY <1>3, <1>7 DEF Unfinished, Keeps, LineInv, LineTypeOK
<1>9. Lines' = Lines
  <2>1. lineTaken \in Nat
    BY DEF LineInv, LineTypeOK
  <2>2. ASSUME NEW l \in (1..lineTaken) \X (1..lineTaken)
        PROVE  IsLine(l)' <=> IsLine(l)
    <3>1. /\ l[1] \in 1..lineTaken /\ l[2] \in 1..lineTaken
          /\ \A i \in l[1]..(l[2] - 1) : i \in 1..lineTaken
          /\ l[1] # 1 => l[1] - 1 \in 1..lineTaken
      BY <2>1
    <3> QED BY <1>7, <3>1 DEF IsLine
  <2>3. Lines' = {l \in (1..lineTaken) \X (1..lineTaken) : IsLine(l)'}
    BY <1>3 DEF Lines, IsLine
  <2> QED BY <2>2, <2>3 DEF Lines, IsLine
<1>10. \A i, l : Reported(i, l)' <=> Reported(i, l)
  BY <1>3 DEF Reported
<1> QED BY <1>3, <1>6, <1>8, <1>9, <1>10 DEF LineInv

\* What getline has of the line that begins at b when it is at e: all of it, if it fits
LEMMA AddedIs ==
  ASSUME LineTypeOK, NEW b \in Nat, Unfinished(b), Keeps(b, lineBuffer), NEW e \in (lineTaken + 1)..Len(lineStream),
         NEW part, part = Places(lineTaken + 1, e), NEW all, all = Added(lineBuffer, part)
  PROVE  /\ part \in Seq(Nat) /\ Len(part) = e - lineTaken
         /\ all \in Seq(Nat) /\ Len(all) <= LineChunk
         /\ \A i \in 1..Len(all) : all[i] \in b..e
         /\ e - b + 1 <= LineChunk => all = Places(b, e)
<1>1. /\ lineTaken \in Nat /\ e \in Nat /\ lineTaken < e /\ b \in Nat \ {0} /\ b <= lineTaken + 1
      /\ e - lineTaken <= LineChunk /\ LineChunk \in Nat
      /\ lineBuffer \in Seq(Nat) /\ Len(lineBuffer) \in Nat /\ Len(lineBuffer) <= LineChunk
      /\ \A i \in 1..Len(lineBuffer) : lineBuffer[i] \in b..lineTaken
  BY LineAssumption DEF LineTypeOK, Unfinished, Keeps
<1>2. /\ part \in Seq(Nat) /\ Len(part) = e - lineTaken
      /\ \A i \in 1..(e - lineTaken) : part[i] = lineTaken + i
  <2>1. lineTaken + 1 \in Nat \ {0} /\ lineTaken + 1 <= e + 1 /\ e - (lineTaken + 1) + 1 = e - lineTaken
    BY <1>1
  <2>2. /\ part \in Seq(Nat) /\ Len(part) = e - (lineTaken + 1) + 1
        /\ \A i \in 1..(e - (lineTaken + 1) + 1) : part[i] = (lineTaken + 1) + i - 1
    BY <1>1, <2>1, PlacesType
  <2> QED BY <1>1, <2>1, <2>2
<1>3. CASE Len(part) + Len(lineBuffer) > LineChunk
  <2>1. all = lineBuffer
    BY <1>3 DEF Added
  <2>2. ~(e - b + 1 <= LineChunk)
    <3>1. SUFFICES ASSUME e - b + 1 <= LineChunk PROVE FALSE
      OBVIOUS
    <3>2. lineBuffer = Places(b, lineTaken)
      BY <1>1, <3>1 DEF Keeps
    <3>3. Len(lineBuffer) = lineTaken - b + 1
      BY <1>1, <3>2, PlacesType
    <3> QED BY <1>1, <1>2, <1>3, <3>1, <3>3
  <2>3. \A i \in 1..Len(lineBuffer) : lineBuffer[i] \in b..e
    BY <1>1
  <2> QED BY <1>1, <1>2, <2>1, <2>2, <2>3
<1>4. CASE ~(Len(part) + Len(lineBuffer) > LineChunk)
  <2>1. all = lineBuffer \o part
    BY <1>4 DEF Added
  <2>2. /\ all \in Seq(Nat) /\ Len(all) = Len(lineBuffer) + Len(part)
        /\ \A i \in 1..Len(all) : all[i] = IF i <= Len(lineBuffer) THEN lineBuffer[i] ELSE part[i - Len(lineBuffer)]
    <3>1. Len(part) \in Nat
      BY <1>2
    <3>2. /\ lineBuffer \o part \in Seq(Nat)
          /\ Len(lineBuffer \o part) = Len(lineBuffer) + Len(part)
          /\ \A i \in 1..(Len(lineBuffer) + Len(part)) :
               (lineBuffer \o part)[i] = IF i <= Len(lineBuffer) THEN lineBuffer[i] ELSE part[i - Len(lineBuffer)]
      BY <1>1, <1>2, ConcatProperties
    <3> QED BY <2>1, <3>2
  <2>3. Len(all) <= LineChunk
    BY <1>1, <1>2, <1>4, <2>2
  <2>4. ASSUME NEW i \in 1..Len(all)
        PROVE  all[i] \in b..e
    <3>1. CASE i <= Len(lineBuffer)
      <4>1. i \in 1..Len(lineBuffer)
        BY <1>1, <3>1
      <4>2. all[i] = lineBuffer[i]
        BY <2>2, <3>1
      <4> QED BY <1>1, <4>1, <4>2
    <3>2. CASE ~(i <= Len(lineBuffer))
      <4>1. i - Len(lineBuffer) \in 1..(e - lineTaken)
        <5>1. i \in Int /\ i > Len(lineBuffer) /\ i <= Len(lineBuffer) + (e - lineTaken)
          <6>1. Len(all) = Len(lineBuffer) + (e - lineTaken) /\ Len(all) \in Int
            <7>1. Len(all) = Len(lineBuffer) + Len(part)
              BY <2>2
            <7>2. Len(part) = e - lineTaken
              BY <1>2
            <7>3. Len(lineBuffer) \in Nat /\ e \in Nat /\ lineTaken \in Nat
              BY <1>1
            <7> QED BY <7>1, <7>2, <7>3
          <6>2. i \in Int /\ i <= Len(all)
            BY <6>1
          <6> QED BY <1>1, <3>2, <6>1, <6>2
        <5> QED BY <1>1, <5>1
      <4>2. all[i] = lineTaken + (i - Len(lineBuffer))
        BY <1>2, <2>2, <3>2, <4>1
      <4> QED BY <1>1, <4>1, <4>2
    <3> QED BY <3>1, <3>2
  <2>5. ASSUME e - b + 1 <= LineChunk
        PROVE  all = Places(b, e)
    <3>1. lineTaken - b + 1 <= LineChunk /\ lineTaken <= e
      BY <1>1, <2>5
    <3>2. lineBuffer = Places(b, lineTaken)
      BY <3>1 DEF Keeps
    <3>3. Places(b, lineTaken) \o Places(lineTaken + 1, e) = Places(b, e)
      BY <1>1, <3>1, PlacesConcat
    <3> QED BY <2>1, <3>2, <3>3
  <2> QED BY <1>2, <2>2, <2>3, <2>4, <2>5
<1> QED BY <1>3, <1>4

\* What is new of the lines, when getline goes on to e, ends after what it had taken
LEMMA NewLines ==
  ASSUME LineTypeOK, NEW e \in (lineTaken + 1)..Len(lineStream), lineTaken' = e, UNCHANGED lineStream
  PROVE  /\ \A l \in Lines' : l \notin Lines => /\ l \in (1..e) \X (1..e) /\ l[2] > lineTaken
                                                /\ IsLine(l)
         /\ Lines \subseteq Lines'
         /\ \A l \in Lines : l \in (1..lineTaken) \X (1..lineTaken) /\ IsLine(l)
<1>1. lineTaken \in Nat /\ e \in Nat /\ lineTaken < e
  BY DEF LineTypeOK
<1>2. Lines = {l \in (1..lineTaken) \X (1..lineTaken) : IsLine(l)}
  BY DEF Lines, IsLine
<1>3. Lines' = {l \in (1..e) \X (1..e) : IsLine(l)}
  BY DEF Lines, IsLine
<1>4. (1..lineTaken) \X (1..lineTaken) \subseteq (1..e) \X (1..e)
  BY <1>1
<1>5. ASSUME NEW l \in (1..e) \X (1..e), IsLine(l), l \notin (1..lineTaken) \X (1..lineTaken)
      PROVE  l[2] > lineTaken
  <2>1. l[1] \in Nat /\ l[2] \in Nat /\ l[1] >= 1 /\ l[1] <= l[2] /\ l = <<l[1], l[2]>>
    BY <1>1, <1>5 DEF IsLine
  <2>2. ~(l[1] \in 1..lineTaken /\ l[2] \in 1..lineTaken)
    BY <1>5, <2>1
  <2> QED BY <1>1, <2>1, <2>2
<1> QED BY <1>2, <1>3, <1>4, <1>5

\* The line that begins at b, when its end is found
LEMMA FoundLine ==
  ASSUME LineTypeOK, NEW b \in Nat, Unfinished(b), NEW e \in Ends, \A f \in Ends : e <= f,
         lineTaken' = e, UNCHANGED lineStream
  PROVE  /\ <<b, e>> \in Lines'
         /\ \A l \in Lines' : l # <<b, e>> => l \in Lines /\ l[2] < b
         /\ Lines \subseteq Lines'
<1>1. /\ lineTaken \in Nat /\ e \in Nat /\ lineTaken < e /\ e \in (lineTaken + 1)..Len(lineStream)
      /\ b \in Nat \ {0} /\ b <= e /\ lineStream[e] = "n" /\ e <= Len(lineStream)
      /\ b = 1 \/ lineStream[b - 1] = "n"
  BY DEF LineTypeOK, Ends, Unfinished
<1>2. \A i \in b..(e - 1) : lineStream[i] # "n"
  <2> SUFFICES ASSUME NEW i \in b..(e - 1) PROVE lineStream[i] # "n"
    OBVIOUS
  <2>1. CASE i <= lineTaken
    BY <1>1, <2>1 DEF Unfinished
  <2>2. CASE i > lineTaken
    <3>1. i \in (lineTaken + 1)..Len(lineStream) /\ ~(e <= i)
      BY <1>1, <2>2 DEF LineTypeOK
    <3> QED BY <3>1 DEF Ends
  <2> QED BY <1>1, <2>1, <2>2
<1>3. <<b, e>> \in Lines'
  <2>1. Lines' = {l \in (1..e) \X (1..e) : IsLine(l)}
    BY DEF Lines, IsLine
  <2>2. <<b, e>> \in (1..e) \X (1..e)
    BY <1>1
  <2> QED BY <1>1, <1>2, <2>1, <2>2 DEF IsLine
<1>4. ASSUME NEW l \in Lines', l \notin Lines
      PROVE  l = <<b, e>>
  <2>1. /\ l \in (1..e) \X (1..e) /\ l[2] > lineTaken /\ IsLine(l)
    BY <1>1, <1>4, NewLines
  <2>2. l = <<l[1], l[2]>> /\ l[1] \in 1..e /\ l[2] \in 1..e /\ l[1] <= l[2]
    BY <2>1 DEF IsLine
  <2>3. l[2] = e
    <3>1. l[2] \in (lineTaken + 1)..Len(lineStream) /\ lineStream[l[2]] = "n"
      BY <1>1, <2>1, <2>2 DEF IsLine, LineTypeOK
    <3>2. e <= l[2]
      BY <3>1 DEF Ends
    <3> QED BY <1>1, <2>2, <3>2
  <2>4. ~(l[1] < b)
    <3> SUFFICES ASSUME l[1] < b PROVE FALSE
      OBVIOUS
    <3>1. b - 1 \in l[1]..(e - 1) /\ b # 1
      BY <1>1, <2>2
    <3>2. lineStream[b - 1] # "n"
      BY <2>1, <2>3, <3>1 DEF IsLine
    <3> QED BY <1>1, <3>1, <3>2
  <2>5. ~(l[1] > b)
    <3> SUFFICES ASSUME l[1] > b PROVE FALSE
      OBVIOUS
    <3>1. l[1] - 1 \in b..(e - 1) /\ l[1] # 1
      BY <1>1, <2>2
    <3> QED BY <1>2, <2>1, <3>1 DEF IsLine
  <2> QED BY <1>1, <2>2, <2>3, <2>4, <2>5
<1>5. ASSUME NEW l \in Lines
      PROVE  l[2] < b
  <2>1. l \in (1..lineTaken) \X (1..lineTaken) /\ IsLine(l)
    BY <1>1, NewLines
  <2>2. l[2] \in 1..lineTaken /\ lineStream[l[2]] = "n"
    BY <2>1 DEF IsLine
  <2>3. l[2] \notin b..lineTaken
    BY <2>2 DEF Unfinished
  <2> QED BY <1>1, <2>2, <2>3
<1>6. Lines \subseteq Lines'
  BY <1>1, NewLines
<1> QED BY <1>3, <1>4, <1>5, <1>6

ReportsRight ==
  /\ lineReports \in Seq(Seq(Nat))
  /\ \A l \in Lines : Fits(l) => Contains(lineReports, Places(l[1], l[2] - 1))
  /\ \A i \in DOMAIN lineReports : \E l \in Lines : Reported(i, l)

\* No report: of a line of which nothing is left to report
LEMMA NotReported ==
  ASSUME ReportsRight, UNCHANGED lineReports, Lines \subseteq Lines',
         \A l \in Lines' : l \in Lines \/ ~Fits(l)
  PROVE  ReportsRight'
  BY DEF ReportsRight, Reported

\* A report of what is left of a line, which all lines of before are before
LEMMA ReportedLast ==
  ASSUME ReportsRight, NEW b \in Nat, NEW e \in Nat, NEW r \in Seq(Nat), lineReports' = Append(lineReports, r),
         <<b, e>> \in Lines', Lines \subseteq Lines', \A l \in Lines' : l # <<b, e>> => l \in Lines,
         \A l \in Lines : l[2] \in Nat /\ l[2] < b,
         \A i \in 1..Len(r) : r[i] \in b..e, Fits(<<b, e>>) => r = Places(b, e - 1)
  PROVE  ReportsRight'
<1> PICK n \in Nat : n = Len(lineReports)
  BY DEF ReportsRight
<1>1. /\ lineReports' \in Seq(Seq(Nat)) /\ Len(lineReports') = n + 1 /\ n \in Nat
      /\ \A i \in 1..n : lineReports'[i] = lineReports[i]
      /\ lineReports'[n + 1] = r
      /\ DOMAIN lineReports = 1..n /\ DOMAIN lineReports' = 1..(n + 1)
  BY DEF ReportsRight
<1>2. ASSUME NEW l \in Lines', Fits(l)
      PROVE  Contains(lineReports, Places(l[1], l[2] - 1))'
  <2>1. CASE l = <<b, e>>
    <3>1. r = Places(l[1], l[2] - 1)
      BY <1>2, <2>1
    <3>2. n + 1 \in 1..Len(lineReports')
      BY <1>1
    <3> QED BY <1>1, <3>1, <3>2 DEF Contains, Places
  <2>2. CASE l # <<b, e>>
    <3>1. PICK i \in 1..n : lineReports[i] = Places(l[1], l[2] - 1)
      BY <1>2, <2>2 DEF ReportsRight, Contains
    <3>2. i \in 1..Len(lineReports') /\ lineReports'[i] = lineReports[i]
      BY <1>1
    <3> QED BY <3>1, <3>2 DEF Contains, Places
  <2> QED BY <2>1, <2>2
<1>3. ASSUME NEW i \in 1..n
      PROVE  \E l \in Lines' : Reported(i, l)'
  <2>1. PICK l \in Lines : Reported(i, l)
    BY <1>1 DEF ReportsRight
  <2>2. i \in 1..n /\ \A j \in 1..(i - 1) : j \in 1..n
    BY <1>1
  <2>3. Reported(i, l)'
    BY <1>1, <2>1, <2>2 DEF Reported
  <2> QED BY <2>1, <2>3
<1>4. Reported(n + 1, <<b, e>>)'
  <2>1. ToSet(lineReports'[n + 1]) \subseteq b..e
    BY <1>1 DEF ToSet
  <2>2. ASSUME NEW j \in 1..n, NEW p \in ToSet(lineReports[j])
        PROVE  p < b
    <3>1. PICK l \in Lines : ToSet(lineReports[j]) \subseteq l[1]..l[2]
      BY <1>1 DEF ReportsRight, Reported
    <3>2. p \in l[1]..l[2] /\ l[2] \in Nat /\ l[2] < b
      BY <2>2, <3>1
    <3>3. p \in Nat
      BY <1>1, <2>2 DEF ReportsRight, ToSet
    <3> QED BY <3>2, <3>3
  <2>3. (n + 1) - 1 = n
    BY <1>1
  <2> QED BY <1>1, <2>1, <2>2, <2>3 DEF Reported
<1>5. \A i \in DOMAIN lineReports' : \E l \in Lines' : Reported(i, l)'
  <2>1. \A i \in 1..(n + 1) : i \in 1..n \/ i = n + 1
    BY <1>1
  <2> QED BY <1>1, <1>3, <1>4, <2>1
<1> QED BY <1>1, <1>2, <1>5 DEF ReportsRight

LEMMA LineFoundInv == LineInv /\ LineFound => LineInv'
<1> SUFFICES ASSUME LineInv, LineFound PROVE LineInv'
  OBVIOUS
<1>1. PICK b \in Nat : Unfinished(b) /\ Keeps(b, lineBuffer)
  BY DEF LineInv
<1> DEFINE LongPart(e) == Places(lineTaken + 1, e)
<1>2. PICK e \in Ends :
        /\ \A f \in Ends : e <= f
        /\ lineTaken' = e /\ lineBuffer' = <<>> /\ UNCHANGED lineStream
        /\ lineReports' = IF lineBuffer # <<>> THEN Append(lineReports, Front(Added(lineBuffer, LongPart(e))))
                          ELSE IF Len(LongPart(e)) > 1 THEN Append(lineReports, Front(LongPart(e)))
                          ELSE lineReports
  BY DEF LineFound, Emptied
<1> DEFINE part == LongPart(e)
           all  == Added(lineBuffer, part)
<1>3. /\ lineTaken \in Nat /\ e \in Nat /\ lineTaken < e /\ e \in (lineTaken + 1)..Len(lineStream)
      /\ b \in Nat \ {0} /\ b <= lineTaken + 1 /\ b <= e /\ e <= Len(lineStream) /\ lineStream[e] = "n"
      /\ Len(lineStream) \in Nat /\ Len(lineStream) - e <= LineChunk /\ LineChunk \in Nat
      /\ lineBuffer \in Seq(Nat)
  BY <1>1, LineAssumption DEF LineInv, LineTypeOK, Ends, Unfinished
<1>4. /\ <<b, e>> \in Lines'
      /\ \A l \in Lines' : l # <<b, e>> => l \in Lines /\ l[2] < b
      /\ Lines \subseteq Lines'
  BY <1>1, <1>2, FoundLine DEF LineInv
<1>5. /\ part \in Seq(Nat) /\ Len(part) = e - lineTaken
      /\ all \in Seq(Nat) /\ Len(all) <= LineChunk
      /\ \A i \in 1..Len(all) : all[i] \in b..e
      /\ e - b + 1 <= LineChunk => all = Places(b, e)
  BY <1>1, <1>3, AddedIs DEF LineInv
<1>6. ReportsRight
  BY DEF LineInv, LineTypeOK, ReportsRight
<1>7. lineBuffer = <<>> => all = part
  <2> SUFFICES ASSUME lineBuffer = <<>> PROVE all = part
    OBVIOUS
  <2>1. Len(part) + Len(lineBuffer) <= LineChunk
    BY <1>3, <1>5 DEF LineInv, LineTypeOK
  <2>2. all = lineBuffer \o part
    BY <1>3, <1>5, <2>1 DEF Added
  <2> QED BY <1>5, <2>2
<1> HIDE DEF part, all
<1>8. /\ Front(all) \in Seq(Nat) /\ \A i \in 1..Len(Front(all)) : Front(all)[i] \in b..e
      /\ Fits(<<b, e>>) => Front(all) = Places(b, e - 1)
  <2>1. /\ Front(all) \in Seq(Nat)
        /\ \A i \in 1..Len(Front(all)) : i \in 1..Len(all) /\ Front(all)[i] = all[i]
    BY <1>5, FrontIs
  <2>2. ASSUME Fits(<<b, e>>)
        PROVE  Front(all) = Places(b, e - 1)
    <3>1. e - b + 1 <= LineChunk
      BY <1>3, <2>2 DEF Fits
    <3> QED BY <1>3, <1>5, <3>1, PlacesFront
  <2> QED BY <1>5, <2>1, <2>2
<1>9. ReportsRight'
  <2>1. CASE lineReports' = Append(lineReports, Front(all))
    <3>1. \A l \in Lines : l[2] \in Nat /\ l[2] < b
      <4>1. \A l \in Lines : l[2] \in Nat
        BY <1>3 DEF Lines
      <4>2. \A l \in Lines : l # <<b, e>>
        BY <1>3 DEF Lines
      <4> QED BY <1>4, <4>1, <4>2
    <3> QED BY <1>3, <1>4, <1>6, <1>8, <2>1, <3>1, ReportedLast
  <2>2. CASE lineBuffer = <<>> /\ ~(Len(part) > 1) /\ UNCHANGED lineReports
    <3>1. ~Fits(<<b, e>>)
      <4> SUFFICES ASSUME Fits(<<b, e>>) PROVE FALSE
        OBVIOUS
      <4>1. e - b + 1 <= LineChunk /\ b < e
        BY <1>3 DEF Fits
      <4>2. part = Places(b, e)
        BY <1>5, <1>7, <2>2, <4>1
      <4>3. Len(part) = e - b + 1
        <5>1. b <= e + 1
          BY <1>3
        <5> QED BY <1>3, <4>2, <5>1, PlacesType
      <4> QED BY <1>3, <2>2, <4>1, <4>3
    <3> QED BY <1>4, <1>6, <2>2, <3>1, NotReported
  <2>3. \/ lineReports' = Append(lineReports, Front(all))
        \/ lineBuffer = <<>> /\ ~(Len(part) > 1) /\ lineReports' = lineReports
    BY <1>2, <1>7 DEF part, all
  <2> QED BY <2>1, <2>2, <2>3
<1>10. Unfinished(e + 1)' /\ Keeps(e + 1, lineBuffer)'
  <2>1. Places(e + 1, e) = <<>>
    <3>1. e - (e + 1) + 1 = 0
      BY <1>3
    <3> QED BY <3>1 DEF Places
  <2>2. e + 1 \in 1..(e + 1) /\ (e + 1) - 1 = e /\ (e + 1)..e = {}
    BY <1>3
  <2>3. lineTaken' = e /\ lineBuffer' = <<>> /\ lineStream' = lineStream
    BY <1>2
  <2>4. Unfinished(e + 1)'
    BY <1>3, <2>2, <2>3 DEF Unfinished
  <2>5. DOMAIN lineBuffer' = {}
    BY <2>3
  <2> QED BY <2>1, <2>3, <2>4, <2>5 DEF Keeps, Places
<1>11. LineTypeOK'
  <2>1. lineReports' \in Seq(Seq(Nat))
    BY <1>9 DEF ReportsRight
  <2> QED BY <1>2, <1>3, <2>1 DEF LineInv, LineTypeOK
<1> QED BY <1>3, <1>9, <1>10, <1>11 DEF LineInv, ReportsRight

LEMMA LineKeptInv == LineInv /\ LineKept => LineInv'
<1> SUFFICES ASSUME LineInv, LineKept PROVE LineInv'
  OBVIOUS
<1> DEFINE e == Len(lineStream)
           part == Places(lineTaken + 1, e)
<1>1. PICK b \in Nat : Unfinished(b) /\ Keeps(b, lineBuffer)
  BY DEF LineInv
<1>2. /\ lineTaken' = e /\ lineBuffer' = Added(lineBuffer, part)
      /\ UNCHANGED <<lineStream, lineReports>> /\ Ends = {}
  BY DEF LineKept
<1>3. lineTaken \in Nat /\ e \in Nat /\ lineTaken < e /\ LineChunk \in Nat /\ b <= lineTaken + 1 /\ b \in Nat \ {0}
  BY <1>1, LineAssumption DEF LineInv, LineTypeOK, LineKept, Unfinished
<1>4. /\ lineBuffer' \in Seq(Nat) /\ Len(lineBuffer') <= LineChunk
      /\ \A i \in 1..Len(lineBuffer') : lineBuffer'[i] \in b..e
      /\ e - b + 1 <= LineChunk => lineBuffer' = Places(b, e)
  <2>1. e \in (lineTaken + 1)..Len(lineStream)
    BY <1>3
  <2> QED BY <1>1, <1>2, <2>1, AddedIs DEF LineInv
<1>5. \A i \in (lineTaken + 1)..e : lineStream[i] # "n"
  BY <1>2 DEF Ends
<1>6. Lines' = Lines
  <2>1. \A l \in Lines' : l \in Lines
    <3> SUFFICES ASSUME NEW l \in Lines', l \notin Lines PROVE FALSE
      OBVIOUS
    <3>1. e \in (lineTaken + 1)..Len(lineStream)
      BY <1>3
    <3>2. l \in (1..e) \X (1..e) /\ l[2] > lineTaken /\ IsLine(l)
      BY <1>2, <3>1, NewLines DEF LineInv
    <3>3. l[2] \in (lineTaken + 1)..e /\ lineStream[l[2]] = "n"
      BY <1>3, <3>2 DEF IsLine
    <3> QED BY <1>5, <3>3
  <2>2. Lines \subseteq Lines'
    <3>1. e \in (lineTaken + 1)..Len(lineStream)
      BY <1>3
    <3> QED BY <1>2, <3>1, NewLines DEF LineInv
  <2> QED BY <2>1, <2>2
<1>7. Unfinished(b)'
  <2>1. \A i \in b..e : i \in b..lineTaken \/ i \in (lineTaken + 1)..e
    BY <1>3
  <2>2. b \in 1..(e + 1)
    BY <1>3
  <2>3. lineTaken' = e /\ lineStream' = lineStream
    BY <1>2
  <2> HIDE DEF e
  <2> QED BY <1>1, <1>5, <2>1, <2>2, <2>3 DEF Unfinished
<1>8. Keeps(b, lineBuffer)'
  <2>1. DOMAIN lineBuffer' = 1..Len(lineBuffer')
    BY <1>4
  <2>2. e - b + 1 <= LineChunk => lineBuffer' = Places(b, e)
    BY <1>4
  <2> QED BY <1>2, <1>4, <2>1, <2>2 DEF Keeps, Places
<1>9. LineTypeOK'
  BY <1>2, <1>3, <1>4 DEF LineInv, LineTypeOK
<1>10. \A i, l : Reported(i, l)' <=> Reported(i, l)
  BY <1>2 DEF Reported
<1> QED BY <1>2, <1>6, <1>7, <1>8, <1>9, <1>10 DEF LineInv, Contains, Places

LEMMA LineInitInv == LineInit => LineInv
  BY NothingRead DEF LineInit

\* The client connects again: nothing is left of the connection before
LEMMA LineResetInv == LineReset => LineInv'
<1> SUFFICES ASSUME LineReset PROVE LineInv'
  OBVIOUS
<1>1. (lineStream = <<>> /\ lineTaken = 0 /\ lineBuffer = <<>> /\ lineReports = <<>>)'
  BY DEF LineReset
<1>2. (lineStream = <<>> /\ lineTaken = 0 /\ lineBuffer = <<>> /\ lineReports = <<>> => LineInv)'
  BY NothingRead, PTL
<1> QED BY <1>1, <1>2

LEMMA LineStep == LineInv /\ [LineNext]_lineVars => LineInv'
<1>1. LineInv /\ UNCHANGED lineVars => LineInv'
  <2> SUFFICES ASSUME LineInv, UNCHANGED lineVars PROVE LineInv'
    OBVIOUS
  <2>1. LineTypeOK' /\ Lines' = Lines
    BY DEF LineInv, LineTypeOK, Lines, lineVars
  <2>2. \A b \in Nat : Unfinished(b) /\ Keeps(b, lineBuffer) => Unfinished(b)' /\ Keeps(b, lineBuffer)'
    BY DEF Unfinished, Keeps, lineVars
  <2>3. \A l \in Lines : Fits(l) => Contains(lineReports, Places(l[1], l[2] - 1))'
    BY DEF LineInv, Contains, lineVars
  <2>4. \A i \in DOMAIN lineReports : \E l \in Lines : Reported(i, l)'
    BY DEF LineInv, Reported, lineVars
  <2>5. UNCHANGED <<lineBuffer, lineReports>>
    BY DEF lineVars
  <2> QED BY <2>1, <2>2, <2>3, <2>4, <2>5 DEF LineInv, Fits
<1> QED BY <1>1, LineReadInv, LineFoundInv, LineKeptInv, LineResetInv DEF LineNext

\* However a connection is cut into reads, its lines that fit are reported whole, once and in their
\* order, with nothing of another line, and the buffer never overflows.
THEOREM EveryLineIsWhole == LineSpec => []LinesAreWhole
  BY LineInitInv, LineStep, LineImplied, PTL DEF LineSpec

-----------------------------------------------------------------------------
(* Results *)

\* The batch is empty whenever the loop swaps, and a thread with a result in hand has found one
ResultsInv ==
  /\ ResultsTypeOK
  /\ OnceAndInOrder
  /\ loop # "deliver" => batch = <<>>
  /\ \A w \in Workers : InHand(w) <= found[w]

LEMMA SubmittedType ==
  ASSUME ResultsTypeOK
  PROVE  Submitted \in Seq(Result) /\ DOMAIN Submitted = 1..Len(Submitted) /\ Len(Submitted) \in Nat
<1>1. delivered \o batch \in Seq(Result)
  BY ConcatProperties DEF ResultsTypeOK
<1>2. Submitted \in Seq(Result)
  BY <1>1, ConcatProperties DEF ResultsTypeOK, Submitted
<1> QED BY <1>2

LEMMA ResultsInitInv == ResultsInit => ResultsInv
<1> SUFFICES ASSUME ResultsInit PROVE ResultsInv
  OBVIOUS
<1>1. ResultsTypeOK
  <2>1. /\ results = <<>> /\ batch = <<>> /\ delivered = <<>> /\ <<>> \in Seq(Result)
        /\ event = FALSE /\ handler = "set" /\ loop = "run" /\ wrong = "no" /\ mutex = NoWorker
    BY DEF ResultsInit
  <2>2. \A w \in Workers : workers[w] \in {"push", "send"} <=> mutex = w
    BY ResultsAssumption DEF ResultsInit
  <2>3. workers \in [Workers -> {"hash", "submit", "lock", "push", "send", "end"}] /\ found \in [Workers -> 0..MaxResults]
    BY ResultsAssumption DEF ResultsInit
  <2>4. event \in BOOLEAN
    BY <2>1
  <2> QED BY <2>1, <2>2, <2>3, <2>4 DEF ResultsTypeOK
<1>2. DOMAIN Submitted = {}
  BY DEF ResultsInit, Submitted
<1>3. \A w \in Workers : found[w] - InHand(w) = 0
  BY DEF ResultsInit, InHand
<1> QED BY <1>1, <1>2, <1>3 DEF ResultsInv, ResultsInit, OnceAndInOrder, IndexesOf, InHand

\* A step that submits nothing and leaves every thread with what it had in hand
LEMMA NothingSubmitted ==
  ASSUME OnceAndInOrder, UNCHANGED Submitted, handler' = "set" => handler = "set",
         \A w \in Workers : (found[w] - InHand(w))' = found[w] - InHand(w)
  PROVE  OnceAndInOrder'
  BY DEF OnceAndInOrder, IndexesOf

\* A step of one thread that does
LEMMA ResultSubmitted ==
  ASSUME ResultsInv, NEW w \in Workers, Push(w)
  PROVE  OnceAndInOrder'
<1> SUFFICES ASSUME handler = "set"
             PROVE  OnceAndInOrder'
  BY DEF OnceAndInOrder, Push
<1> DEFINE last == <<w, found[w]>>
<1>1. /\ found[w] \in Nat /\ found[w] >= 1 /\ found[w] <= MaxResults /\ found[w] - InHand(w) = found[w] - 1
      /\ last \in Result
  <2>1. InHand(w) = 1 /\ found[w] \in 0..MaxResults
    BY DEF Push, Moves, InHand, ResultsInv, ResultsTypeOK
  <2>2. found[w] >= 1
    BY <2>1 DEF ResultsInv
  <2> QED BY <2>1, <2>2, ResultsAssumption DEF Result
<1>2. PICK s \in Seq(Result) : s = Submitted /\ DOMAIN s = 1..Len(s) /\ Len(s) \in Nat
  BY SubmittedType DEF ResultsInv
<1>3. Submitted' = Append(s, last)
  <2>1. delivered \o batch \in Seq(Result) /\ results \in Seq(Result)
    BY ConcatProperties DEF ResultsInv, ResultsTypeOK
  <2>2. results' = results \o <<last>>
    BY <1>1, <2>1, AppendIsConcat DEF Push
  <2>3. <<last>> \in Seq(Result)
    BY <1>1
  <2>4. (delivered \o batch) \o (results \o <<last>>) = ((delivered \o batch) \o results) \o <<last>>
    BY <2>1, <2>3, ConcatAssociative
  <2>5. Submitted' = Submitted \o <<last>>
    BY <2>2, <2>4 DEF Submitted, Push
  <2> QED BY <1>1, <1>2, <2>5, AppendIsConcat
<1>4. PICK n \in Nat : n = Len(s)
  BY <1>2
<1>5. /\ DOMAIN Submitted' = 1..(n + 1)
      /\ \A i \in 1..n : Submitted'[i] = Submitted[i]
      /\ Submitted'[n + 1] = last /\ DOMAIN Submitted = 1..n
  BY <1>1, <1>2, <1>3, <1>4, AppendProperties
<1>6. UNCHANGED found /\ \A v \in Workers \ {w} : InHand(v)' = InHand(v)
  BY DEF Push, Moves, InHand, ResultsInv, ResultsTypeOK
<1>7. InHand(w)' = 0
  BY DEF Push, Moves, InHand, ResultsInv, ResultsTypeOK
<1>8. \A v \in Workers \ {w} : IndexesOf(v)' = IndexesOf(v)
  BY <1>1, <1>5 DEF IndexesOf
<1>9. IndexesOf(w)' = IndexesOf(w) \union {n + 1} /\ IndexesOf(w) \subseteq 1..n
  BY <1>1, <1>5 DEF IndexesOf
<1>10. ASSUME NEW v \in Workers
       PROVE  /\ {Submitted[i][2] : i \in IndexesOf(v)}' = 1..(found[v] - InHand(v))'
              /\ \A i, j \in IndexesOf(v)' : i < j => Submitted'[i][2] < Submitted'[j][2]
  <2>1. CASE v # w
    BY <1>5, <1>6, <1>8, <2>1 DEF ResultsInv, OnceAndInOrder, IndexesOf
  <2>2. CASE v = w
    <3>1. /\ {Submitted[i][2] : i \in IndexesOf(w)} = 1..(found[w] - 1)
          /\ \A i, j \in IndexesOf(w) : i < j => Submitted[i][2] < Submitted[j][2]
      BY <1>1 DEF ResultsInv, OnceAndInOrder
    <3>2. \A i \in IndexesOf(w) : Submitted[i][2] \in 1..(found[w] - 1) /\ Submitted'[i] = Submitted[i] /\ i < n + 1 /\ i \in Nat
      BY <1>5, <1>9, <3>1
    <3>3. Submitted'[n + 1][2] = found[w]
      BY <1>5
    <3>4. {Submitted[i][2] : i \in IndexesOf(w)}' = (1..(found[w] - 1)) \union {found[w]}
      BY <1>9, <3>1, <3>2, <3>3
    <3>5. (found[w] - InHand(w))' = found[w]
      BY <1>1, <1>6, <1>7
    <3>6. (1..(found[w] - 1)) \union {found[w]} = 1..found[w]
      BY <1>1
    <3>7. ASSUME NEW i \in IndexesOf(w)', NEW j \in IndexesOf(w)', i < j
          PROVE  Submitted'[i][2] < Submitted'[j][2]
      <4>1. CASE i = n + 1
        BY <1>9, <3>2, <3>7, <4>1
      <4>2. CASE i # n + 1 /\ j = n + 1
        <5>1. i \in IndexesOf(w)
          BY <1>9, <4>2
        <5> QED BY <1>1, <3>2, <3>3, <4>2, <5>1
      <4>3. CASE i # n + 1 /\ j # n + 1
        BY <1>9, <3>1, <3>2, <3>7, <4>3
      <4> QED BY <4>1, <4>2, <4>3
    <3> QED BY <2>2, <3>4, <3>5, <3>6, <3>7
  <2> QED BY <2>1, <2>2
<1> QED BY <1>10 DEF OnceAndInOrder

\* What is left to show of a step that submits nothing
LEMMA ResultsQuiet ==
  ASSUME ResultsInv, ResultsTypeOK', UNCHANGED Submitted, handler' = "set" => handler = "set",
         loop' # "deliver" => batch' = <<>>,
         \A w \in Workers : /\ (found[w] - InHand(w))' = found[w] - InHand(w)
                            /\ InHand(w)' <= found'[w]
  PROVE  ResultsInv'
  BY NothingSubmitted DEF ResultsInv

LEMMA FindInv == \A w \in Workers : ResultsInv /\ Find(w) => ResultsInv'
<1> SUFFICES ASSUME NEW w \in Workers, ResultsInv, Find(w) PROVE ResultsInv'
  OBVIOUS
<1>1. found[w] + 1 \in 0..MaxResults /\ found[w] \in Nat
  BY ResultsAssumption DEF ResultsInv, ResultsTypeOK, Find
<1>2. found' = [found EXCEPT ![w] = found[w] + 1] /\ workers' = [workers EXCEPT ![w] = "submit"] /\ workers[w] = "hash"
  BY DEF Find, Moves
<1>3. ResultsTypeOK'
  <2>1. found' \in [Workers -> 0..MaxResults] /\ workers' \in [Workers -> {"hash", "submit", "lock", "push", "send", "end"}]
    BY <1>1, <1>2 DEF ResultsInv, ResultsTypeOK
  <2>2. \A v \in Workers : workers'[v] \in {"push", "send"} <=> mutex = v
    BY <1>2 DEF ResultsInv, ResultsTypeOK
  <2>3. UNCHANGED <<handler, results, mutex, event, batch, delivered, loop, wrong>>
    BY DEF Find
  <2> QED BY <2>1, <2>2, <2>3 DEF ResultsInv, ResultsTypeOK
<1>4. \A v \in Workers : /\ (found[v] - InHand(v))' = found[v] - InHand(v)
                         /\ InHand(v)' <= found'[v]
  <2> SUFFICES ASSUME NEW v \in Workers
               PROVE  (found[v] - InHand(v))' = found[v] - InHand(v) /\ InHand(v)' <= found'[v]
    OBVIOUS
  <2>1. CASE v = w
    <3>1. InHand(v)' = 1 /\ InHand(v) = 0 /\ found'[v] = found[v] + 1
      BY <1>2, <2>1 DEF InHand, ResultsInv, ResultsTypeOK
    <3> QED BY <1>1, <2>1, <3>1
  <2>2. CASE v # w
    <3>1. InHand(v)' = InHand(v) /\ found'[v] = found[v]
      BY <1>2, <2>2 DEF InHand, ResultsInv, ResultsTypeOK
    <3> QED BY <3>1 DEF ResultsInv
  <2> QED BY <2>1, <2>2
<1>5. UNCHANGED <<Submitted, handler, loop, batch>>
  BY DEF Find, Submitted
<1> QED BY <1>3, <1>4, <1>5, ResultsQuiet DEF ResultsInv

\* A thread goes on with what it has in hand, or goes to its end without
ResultsPlaces == {"hash", "submit", "lock", "push", "send", "end"}

LEMMA MovesInv ==
  ASSUME ResultsInv, NEW w \in Workers, NEW from \in ResultsPlaces, NEW to \in ResultsPlaces, Moves(w, from, to),
         from \in {"submit", "lock", "push"} <=> to \in {"submit", "lock", "push"},
         UNCHANGED <<handler, results, batch, delivered, loop, found>>,
         event' \in BOOLEAN, wrong' \in {"no", "assert", "freed"}, mutex' \in Workers \union {NoWorker},
         \A v \in Workers : workers'[v] \in {"push", "send"} <=> mutex' = v
  PROVE  ResultsInv'
<1>1. ResultsTypeOK'
  <2>1. workers' \in [Workers -> ResultsPlaces]
    BY DEF Moves, ResultsInv, ResultsTypeOK, ResultsPlaces
  <2> QED BY <2>1 DEF ResultsInv, ResultsTypeOK, ResultsPlaces
<1>2. \A v \in Workers : InHand(v)' = InHand(v)
  BY DEF Moves, InHand, ResultsInv, ResultsTypeOK
<1>3. UNCHANGED Submitted
  BY DEF Submitted
<1> QED BY <1>1, <1>2, <1>3, ResultsQuiet DEF ResultsInv

LEMMA UsesType ==
  ASSUME ResultsInv, Uses
  PROVE  wrong' \in {"no", "assert", "freed"}
  BY DEF Uses, ResultsInv, ResultsTypeOK

LEMMA TestInv == \A w \in Workers : ResultsInv /\ Test(w) => ResultsInv'
<1> SUFFICES ASSUME NEW w \in Workers, ResultsInv, Test(w) PROVE ResultsInv'
  OBVIOUS
<1>1. UNCHANGED <<handler, results, mutex, event, batch, delivered, loop, found>>
  BY DEF Test
<1>2. CASE handler = "null"
  <2>1. Moves(w, "submit", "hash") /\ wrong' = "assert"
    BY <1>2 DEF Test
  <2>2. workers' = [workers EXCEPT ![w] = "hash"] /\ workers[w] = "submit"
    BY <2>1 DEF Moves
  <2>3. ResultsTypeOK'
    <3>1. workers' \in [Workers -> {"hash", "submit", "lock", "push", "send", "end"}]
      BY <2>2 DEF ResultsInv, ResultsTypeOK
    <3>2. \A v \in Workers : workers'[v] \in {"push", "send"} <=> mutex = v
      BY <2>2 DEF ResultsInv, ResultsTypeOK
    <3> QED BY <1>1, <2>1, <3>1, <3>2 DEF ResultsInv, ResultsTypeOK
  <2>4. OnceAndInOrder'
    BY <1>1, <1>2 DEF OnceAndInOrder
  <2>5. \A v \in Workers : InHand(v)' <= found'[v]
    <3> SUFFICES ASSUME NEW v \in Workers PROVE InHand(v)' <= found'[v]
      OBVIOUS
    <3>1. InHand(v)' = 0 \/ InHand(v)' = InHand(v)
      BY <2>2 DEF InHand, ResultsInv, ResultsTypeOK
    <3>2. found[v] \in Nat /\ found'[v] = found[v] /\ InHand(v) <= found[v]
      BY <1>1 DEF ResultsInv, ResultsTypeOK
    <3> QED BY <3>1, <3>2
  <2> QED BY <1>1, <2>3, <2>4, <2>5 DEF ResultsInv
<1>3. CASE handler # "null"
  <2>1. Moves(w, "submit", "lock") /\ UNCHANGED wrong
    BY <1>3 DEF Test
  <2>2. \A v \in Workers : workers'[v] \in {"push", "send"} <=> mutex' = v
    BY <1>1, <2>1 DEF Moves, ResultsInv, ResultsTypeOK
  <2>3. event' \in BOOLEAN /\ wrong' \in {"no", "assert", "freed"} /\ mutex' \in Workers \union {NoWorker}
    BY <1>1, <2>1 DEF ResultsInv, ResultsTypeOK
  <2> QED BY <1>1, <2>1, <2>2, <2>3, MovesInv DEF ResultsPlaces
<1> QED BY <1>2, <1>3

LEMMA LockInv == \A w \in Workers : ResultsInv /\ Lock(w) => ResultsInv'
<1> SUFFICES ASSUME NEW w \in Workers, ResultsInv, Lock(w) PROVE ResultsInv'
  OBVIOUS
<1>1. /\ Moves(w, "lock", "push") /\ mutex = NoWorker /\ mutex' = w
      /\ UNCHANGED <<handler, results, event, batch, delivered, loop, found>>
  BY DEF Lock
<1>2. \A v \in Workers : workers'[v] \in {"push", "send"} <=> mutex' = v
  BY <1>1, ResultsAssumption DEF Moves, ResultsInv, ResultsTypeOK
<1>3. event' \in BOOLEAN /\ wrong' \in {"no", "assert", "freed"} /\ mutex' \in Workers \union {NoWorker}
  BY <1>1, UsesType DEF Lock, ResultsInv, ResultsTypeOK
<1> QED BY <1>1, <1>2, <1>3, MovesInv DEF ResultsPlaces

LEMMA SendInv == \A w \in Workers : ResultsInv /\ Send(w) => ResultsInv'
<1> SUFFICES ASSUME NEW w \in Workers, ResultsInv, Send(w) PROVE ResultsInv'
  OBVIOUS
<1>1. /\ Moves(w, "send", "hash") /\ mutex' = NoWorker /\ event' = TRUE
      /\ UNCHANGED <<handler, results, batch, delivered, loop, found>>
  BY DEF Send
<1>2. \A v \in Workers : workers'[v] \in {"push", "send"} <=> mutex' = v
  BY <1>1, ResultsAssumption DEF Moves, ResultsInv, ResultsTypeOK
<1>3. event' \in BOOLEAN /\ wrong' \in {"no", "assert", "freed"} /\ mutex' \in Workers \union {NoWorker}
  BY <1>1, UsesType DEF Send
<1> QED BY <1>1, <1>2, <1>3, MovesInv DEF ResultsPlaces

LEMMA LeaveInv == \A w \in Workers : ResultsInv /\ Leave(w) => ResultsInv'
<1> SUFFICES ASSUME NEW w \in Workers, ResultsInv, Leave(w) PROVE ResultsInv'
  OBVIOUS
<1>1. /\ Moves(w, "hash", "end")
      /\ UNCHANGED <<handler, results, mutex, event, batch, delivered, loop, found, wrong>>
  BY DEF Leave
<1>2. \A v \in Workers : workers'[v] \in {"push", "send"} <=> mutex' = v
  BY <1>1 DEF Moves, ResultsInv, ResultsTypeOK
<1>3. event' \in BOOLEAN /\ wrong' \in {"no", "assert", "freed"} /\ mutex' \in Workers \union {NoWorker}
  BY <1>1 DEF ResultsInv, ResultsTypeOK
<1> QED BY <1>1, <1>2, <1>3, MovesInv DEF ResultsPlaces

LEMMA PushInv == \A w \in Workers : ResultsInv /\ Push(w) => ResultsInv'
<1> SUFFICES ASSUME NEW w \in Workers, ResultsInv, Push(w) PROVE ResultsInv'
  OBVIOUS
<1>1. OnceAndInOrder'
  BY ResultSubmitted
<1>2. workers' = [workers EXCEPT ![w] = "send"] /\ workers[w] = "push"
  BY DEF Push, Moves
<1>3. found[w] \in 1..MaxResults
  <2>1. InHand(w) = 1 /\ found[w] \in 0..MaxResults
    BY <1>2 DEF InHand, ResultsInv, ResultsTypeOK
  <2> QED BY <2>1, ResultsAssumption DEF ResultsInv
<1>4. results' \in Seq(Result)
  <2>1. <<w, found[w]>> \in Result
    BY <1>3 DEF Result
  <2> QED BY <2>1 DEF Push, ResultsInv, ResultsTypeOK
<1>5. ResultsTypeOK'
  <2>1. workers' \in [Workers -> {"hash", "submit", "lock", "push", "send", "end"}]
    BY <1>2 DEF ResultsInv, ResultsTypeOK
  <2>2. \A v \in Workers : workers'[v] \in {"push", "send"} <=> mutex = v
    BY <1>2 DEF ResultsInv, ResultsTypeOK
  <2>3. wrong' \in {"no", "assert", "freed"} /\ UNCHANGED <<handler, mutex, event, batch, delivered, loop, found>>
    BY UsesType DEF Push
  <2> QED BY <1>4, <2>1, <2>2, <2>3 DEF ResultsInv, ResultsTypeOK
<1>6. \A v \in Workers : InHand(v)' <= found'[v]
  <2> SUFFICES ASSUME NEW v \in Workers PROVE InHand(v)' <= found'[v]
    OBVIOUS
  <2>1. InHand(v)' = 0 \/ InHand(v)' = InHand(v)
    BY <1>2 DEF InHand, ResultsInv, ResultsTypeOK
  <2>2. found[v] \in Nat /\ found'[v] = found[v] /\ InHand(v) <= found[v]
    BY DEF Push, ResultsInv, ResultsTypeOK
  <2> QED BY <2>1, <2>2
<1> QED BY <1>1, <1>5, <1>6 DEF ResultsInv, Push

\* The loop: what it takes and delivers stays what was submitted
LEMMA LoopInv ==
  ASSUME ResultsInv, Loop
  PROVE  ResultsInv'
<1>1. \A w \in Workers : InHand(w)' = InHand(w) /\ found'[w] = found[w]
  BY DEF Loop, OnSchedule, Swap, Deliver, Stop, DeleteHandler, NullHandler, MinerStop, Join, InHand
<1>2. UNCHANGED <<mutex, workers, found, wrong>>
  BY DEF Loop, OnSchedule, Swap, Deliver, Stop, DeleteHandler, NullHandler, MinerStop, Join
<1>3. loop' \in {"run", "swap", "deliver", "stop", "null", "miner", "join", "end"} /\ event' \in BOOLEAN
      /\ handler' \in {"set", "freed", "null"} /\ (handler' = "set" => handler = "set")
  BY DEF Loop, OnSchedule, Swap, Deliver, Stop, DeleteHandler, NullHandler, MinerStop, Join, Turns, ResultsInv, ResultsTypeOK
<1>4. /\ UNCHANGED Submitted /\ (loop' # "deliver" => batch' = <<>>)
      /\ results' \in Seq(Result) /\ batch' \in Seq(Result) /\ delivered' \in Seq(Result)
  <2>1. results \in Seq(Result) /\ batch \in Seq(Result) /\ delivered \in Seq(Result) /\ <<>> \in Seq(Result)
    BY DEF ResultsInv, ResultsTypeOK
  <2>2. CASE Swap
    <3>1. batch = <<>> /\ batch' = results /\ results' = <<>> /\ delivered' = delivered /\ loop' = "deliver"
      BY <2>2 DEF Swap, Turns, ResultsInv
    <3>2. delivered \o <<>> = delivered /\ (delivered \o results) \o <<>> = delivered \o results
      BY <2>1, ConcatProperties, ConcatEmptySeq
    <3> QED BY <2>1, <3>1, <3>2 DEF Submitted
  <2>3. CASE Deliver
    <3>1. delivered' = delivered \o batch /\ batch' = <<>> /\ results' = results
      BY <2>3 DEF Deliver
    <3>2. delivered \o batch \in Seq(Result) /\ (delivered \o batch) \o <<>> = delivered \o batch
      BY <2>1, ConcatProperties, ConcatEmptySeq
    <3> QED BY <2>1, <3>1, <3>2 DEF Submitted
  <2>4. CASE OnSchedule \/ Stop \/ DeleteHandler \/ NullHandler \/ MinerStop \/ Join
    <3>1. UNCHANGED <<results, batch, delivered>> /\ loop # "deliver"
      BY <2>4 DEF OnSchedule, Stop, DeleteHandler, NullHandler, MinerStop, Join, Turns
    <3> QED BY <2>1, <3>1 DEF Submitted, ResultsInv
  <2> QED BY <2>2, <2>3, <2>4 DEF Loop
<1>5. ResultsTypeOK'
  BY <1>2, <1>3, <1>4 DEF ResultsInv, ResultsTypeOK
<1> QED BY <1>1, <1>3, <1>4, <1>5, ResultsQuiet DEF ResultsInv

LEMMA ResultsStep == ResultsInv /\ [ResultsNext]_resultsVars => ResultsInv'
<1>1. ASSUME ResultsInv, UNCHANGED resultsVars
      PROVE  ResultsInv'
  <2>1. ResultsTypeOK' /\ UNCHANGED <<Submitted, handler, loop, batch, found>>
    BY <1>1 DEF ResultsInv, ResultsTypeOK, Submitted, resultsVars
  <2>2. \A w \in Workers : InHand(w)' = InHand(w)
    BY <1>1 DEF InHand, resultsVars
  <2> QED BY <1>1, <2>1, <2>2, ResultsQuiet DEF ResultsInv
<1> QED
  BY <1>1, FindInv, TestInv, LockInv, PushInv, SendInv, LeaveInv, LoopInv DEF ResultsNext, Over, Thread

\* Until the end of the program begins no result is lost, comes twice or before an earlier one of its
\* thread, however the threads, the eventfd and the loop interleave.
THEOREM ResultsOnceAndInOrder == ResultsSpec => []OnceAndInOrder
<1>1. ResultsInv => OnceAndInOrder
  BY DEF ResultsInv
<1> QED BY <1>1, ResultsInitInv, ResultsStep, PTL DEF ResultsSpec

\* What is in the list was announced to the loop, or the thread that put it there is about to
ResultsAnnounced ==
  loop \in {"run", "swap", "deliver"} /\ results # <<>> =>
    event \/ loop = "swap" \/ \E w \in Workers : workers[w] = "send"

LEMMA AnnouncedStep == ResultsTypeOK /\ ResultsAnnounced /\ [ResultsNext]_resultsVars => ResultsAnnounced'
<1> SUFFICES ASSUME ResultsTypeOK, ResultsAnnounced, [ResultsNext]_resultsVars,
                    loop' \in {"run", "swap", "deliver"}, results' # <<>>
             PROVE  event' \/ loop' = "swap" \/ \E w \in Workers : workers'[w] = "send"
  BY DEF ResultsAnnounced
<1>1. ASSUME NEW w \in Workers, Push(w)
      PROVE  workers'[w] = "send"
  BY <1>1 DEF Push, Moves, ResultsTypeOK
<1>2. ASSUME NEW w \in Workers, Send(w)
      PROVE  event'
  BY <1>2 DEF Send
<1>3. ASSUME NEW w \in Workers, Find(w) \/ Test(w) \/ Lock(w) \/ Leave(w)
      PROVE  event' \/ loop' = "swap" \/ \E v \in Workers : workers'[v] = "send"
  <2>1. UNCHANGED <<loop, results, event>>
    BY <1>3 DEF Find, Test, Lock, Leave
  <2>2. PICK to : workers' = [workers EXCEPT ![w] = to] /\ workers[w] # "send"
    BY <1>3 DEF Find, Test, Lock, Leave, Moves
  <2>3. \A v \in Workers : workers[v] = "send" => workers'[v] = "send"
    BY <2>2 DEF ResultsTypeOK
  <2> QED BY <2>1, <2>3 DEF ResultsAnnounced
<1>4. CASE OnSchedule
  BY <1>4 DEF OnSchedule, Turns
<1>5. CASE Swap
  BY <1>5 DEF Swap
<1>6. CASE Deliver
  <2>1. UNCHANGED <<results, event, workers>> /\ loop = "deliver"
    BY <1>6 DEF Deliver, Turns
  <2> QED BY <2>1 DEF ResultsAnnounced
<1>7. CASE Stop \/ DeleteHandler \/ NullHandler \/ MinerStop \/ Join
  BY <1>7 DEF Stop, DeleteHandler, NullHandler, MinerStop, Join, Turns
<1>8. CASE UNCHANGED resultsVars
  BY <1>8 DEF resultsVars, ResultsAnnounced
<1> QED BY <1>1, <1>2, <1>3, <1>4, <1>5, <1>6, <1>7, <1>8 DEF ResultsNext, Over, Thread, Loop

\* A result in the list is not left there, however the write and the read of the eventfd and the
\* swap of the list interleave: the safety that ResultsArrive rests on.
THEOREM NoResultLeftBehind == ResultsSpec => []ResultsAnnounced
<1>1. ResultsInit => ResultsAnnounced
  BY DEF ResultsInit, ResultsAnnounced
<1>2. ResultsInv => ResultsTypeOK
  BY DEF ResultsInv
<1> QED BY <1>1, <1>2, AnnouncedStep, ResultsInitInv, ResultsStep, PTL DEF ResultsSpec

-----------------------------------------------------------------------------
(* Daemon *)

DaemonClients ==
  [state : {"Unconnected", "Connecting", "Connected"}, timer : {"off", "once", "poll"},
   job : Tips \union {None}, prev : Tips \union {None}, asked : Tips \union {None}, old : BOOLEAN]

DaemonRequests == [kind : {"free", "template", "height", "submit"}, since : Tips]

DaemonTypeOK ==
  /\ daemonTip \in Tips
  /\ daemonClient \in DaemonClients
  /\ daemonWeb \in [1..DaemonSlots -> DaemonRequests]
  /\ daemonFaults \in 0..DaemonFaults
  /\ daemonUnheard \in BOOLEAN

\* A connected client has a job and asks for the height again and again; one that connects will
\* ask for a template again, or has asked for one, unless an answer will never come
DaemonGoesOn ==
  /\ daemonClient.state = "Connected" => daemonClient.timer = "poll" /\ daemonClient.job # None
  /\ daemonClient.state = "Connecting" /\ daemonClient.timer = "off" =>
       daemonUnheard \/ \E s \in 1..DaemonSlots : daemonWeb[s].kind = "template"

\* The hash the client compares with the daemon's is that of the job it mines, unless that was
\* forgotten as too old; it is of a tip there was
DaemonKnowsItsJob ==
  /\ daemonClient.prev \in {None, daemonClient.job}
  /\ ~daemonClient.old => daemonClient.prev = daemonClient.job /\ daemonClient.job # None
  /\ daemonClient.job <= daemonTip /\ daemonClient.asked <= daemonTip

DaemonInv ==
  /\ DaemonTypeOK
  /\ DaemonGoesOn
  /\ DaemonKnowsItsJob
  /\ daemonClient.timer = "poll" => daemonClient.state = "Connected"
  /\ \A s \in 1..DaemonSlots : daemonWeb[s].since <= daemonTip

LEMMA TipsAre == 0 \in Tips /\ None \notin Tips /\ \A t \in Tips : t \in Nat
  BY DaemonAssumption DEF Tips, None

LEMMA DaemonInitInv == DaemonInit => DaemonInv
<1> SUFFICES ASSUME DaemonInit PROVE DaemonInv
  OBVIOUS
<1>1. Free \in DaemonRequests /\ Free.since = 0
  BY TipsAre DEF Free, DaemonRequests
<1>2. daemonTip = 0 /\ daemonFaults \in 0..DaemonFaults
  BY DaemonAssumption DEF DaemonInit
<1>6. daemonUnheard \in BOOLEAN
  BY DEF DaemonInit
<1>3. /\ daemonClient \in DaemonClients /\ daemonClient.state = "Unconnected" /\ daemonClient.timer = "off"
      /\ daemonClient.job = None /\ daemonClient.prev = None /\ daemonClient.asked = None /\ daemonClient.old
  BY DEF DaemonInit, DaemonClients
<1>4. daemonWeb \in [1..DaemonSlots -> DaemonRequests] /\ \A s \in 1..DaemonSlots : daemonWeb[s].since = 0
  BY <1>1 DEF DaemonInit
<1>5. None <= daemonTip
  BY <1>2 DEF None
<1> QED BY <1>2, <1>3, <1>4, <1>5, <1>6, TipsAre DEF DaemonInv, DaemonTypeOK, DaemonGoesOn, DaemonKnowsItsJob

\* A request is added to those of web; those there were stay
LEMMA SendsIs ==
  ASSUME DaemonTypeOK, NEW kind \in {"template", "height", "submit"},
         NEW web \in [1..DaemonSlots -> DaemonRequests], \A s \in 1..DaemonSlots : web[s].since <= daemonTip,
         \A s \in 1..DaemonSlots : web[s] = Free => web[s].kind = "free",
         Sends(kind, web)
  PROVE  /\ daemonWeb' \in [1..DaemonSlots -> DaemonRequests]
         /\ \A s \in 1..DaemonSlots : daemonWeb'[s].since <= daemonTip
         /\ \A s \in 1..DaemonSlots : web[s].kind # "free" => daemonWeb'[s] = web[s]
         /\ kind = "template" => \E s \in 1..DaemonSlots : daemonWeb'[s].kind = "template"
<1>1. PICK s \in 1..DaemonSlots : web[s] = Free /\ daemonWeb' = [web EXCEPT ![s] = [kind |-> kind, since |-> daemonTip]]
  BY DEF Sends
<1> DEFINE r == [kind |-> kind, since |-> daemonTip]
<1>2. r \in DaemonRequests /\ r.kind = kind /\ r.since = daemonTip
  BY DEF DaemonTypeOK, DaemonRequests
<1>3. daemonTip <= daemonTip
  BY TipsAre DEF DaemonTypeOK
<1>4. daemonWeb' = [web EXCEPT ![s] = r]
  BY <1>1
<1> HIDE DEF r
<1> QED BY <1>1, <1>2, <1>3, <1>4

LEMMA FreeIs == Free.kind = "free" /\ Free \in DaemonRequests /\ Free.since = 0
  BY TipsAre DEF Free, DaemonRequests

\* Request s is gone
LEMMA WithoutIs ==
  ASSUME DaemonInv, NEW s \in 1..DaemonSlots
  PROVE  /\ Without(s) \in [1..DaemonSlots -> DaemonRequests]
         /\ \A r \in 1..DaemonSlots : Without(s)[r].since <= daemonTip
         /\ \A r \in 1..DaemonSlots : Without(s)[r] = IF r = s THEN Free ELSE daemonWeb[r]
<1>1. 0 <= daemonTip
  BY TipsAre DEF DaemonInv, DaemonTypeOK
<1>2. \A r \in 1..DaemonSlots : Without(s)[r] = IF r = s THEN Free ELSE daemonWeb[r]
  BY DEF Without, DaemonInv, DaemonTypeOK
<1>3. \A r \in 1..DaemonSlots : Without(s)[r].since <= daemonTip
  BY <1>1, <1>2, FreeIs DEF DaemonInv
<1> QED BY <1>2, <1>3, FreeIs DEF Without, DaemonInv, DaemonTypeOK

LEMMA DaemonConnectInv == DaemonInv /\ DaemonConnect => DaemonInv'
<1> SUFFICES ASSUME DaemonInv, DaemonConnect PROVE DaemonInv'
  OBVIOUS
<1>1. /\ daemonClient' \in DaemonClients /\ daemonClient'.state = "Connecting" /\ daemonClient'.timer = daemonClient.timer
      /\ daemonClient'.job = daemonClient.job /\ daemonClient'.prev = daemonClient.prev
      /\ daemonClient'.asked = daemonClient.asked /\ daemonClient'.old = daemonClient.old
  BY DEF DaemonConnect, Connecting, DaemonInv, DaemonTypeOK, DaemonClients
<1>2. /\ daemonWeb' \in [1..DaemonSlots -> DaemonRequests]
      /\ \A s \in 1..DaemonSlots : daemonWeb'[s].since <= daemonTip
      /\ \E s \in 1..DaemonSlots : daemonWeb'[s].kind = "template"
  BY SendsIs, FreeIs DEF DaemonConnect, DaemonInv, DaemonTypeOK
<1>3. UNCHANGED <<daemonTip, daemonFaults, daemonUnheard>> /\ daemonClient.state = "Unconnected"
  BY DEF DaemonConnect
<1> QED BY <1>1, <1>2, <1>3 DEF DaemonInv, DaemonTypeOK, DaemonGoesOn, DaemonKnowsItsJob

LEMMA DaemonDisconnectInv == DaemonInv /\ DaemonDisconnect => DaemonInv'
<1> SUFFICES ASSUME DaemonInv, DaemonDisconnect PROVE DaemonInv'
  OBVIOUS
<1>1. /\ daemonClient' \in DaemonClients /\ daemonClient'.state = "Unconnected" /\ daemonClient'.timer = "off"
      /\ daemonClient'.job = daemonClient.job /\ daemonClient'.prev = daemonClient.prev
      /\ daemonClient'.asked = daemonClient.asked /\ daemonClient'.old = daemonClient.old
  BY DEF DaemonDisconnect, DaemonInv, DaemonTypeOK, DaemonClients
<1>2. UNCHANGED <<daemonTip, daemonWeb, daemonFaults, daemonUnheard>>
  BY DEF DaemonDisconnect
<1> QED BY <1>1, <1>2 DEF DaemonInv, DaemonTypeOK, DaemonGoesOn, DaemonKnowsItsJob

LEMMA DaemonSubmitInv == DaemonInv /\ DaemonSubmit => DaemonInv'
<1> SUFFICES ASSUME DaemonInv, DaemonSubmit PROVE DaemonInv'
  OBVIOUS
<1>1. /\ daemonWeb' \in [1..DaemonSlots -> DaemonRequests]
      /\ \A s \in 1..DaemonSlots : daemonWeb'[s].since <= daemonTip
      /\ \A s \in 1..DaemonSlots : daemonWeb[s].kind # "free" => daemonWeb'[s] = daemonWeb[s]
  BY SendsIs, FreeIs DEF DaemonSubmit, DaemonInv, DaemonTypeOK
<1>2. UNCHANGED <<daemonTip, daemonClient, daemonFaults, daemonUnheard>>
  BY DEF DaemonSubmit
<1> QED BY <1>1, <1>2 DEF DaemonInv, DaemonTypeOK, DaemonGoesOn, DaemonKnowsItsJob

LEMMA DaemonTimerInv == DaemonInv /\ DaemonTimer => DaemonInv'
<1> SUFFICES ASSUME DaemonInv, DaemonTimer PROVE DaemonInv'
  OBVIOUS
<1> DEFINE b == [daemonClient EXCEPT !.timer = IF @ = "once" THEN "off" ELSE @]
           c == Outdated(b)
<1>1. /\ b \in DaemonClients /\ b.state = daemonClient.state
      /\ b.timer = IF daemonClient.timer = "once" THEN "off" ELSE daemonClient.timer
      /\ b.job = daemonClient.job /\ b.prev = daemonClient.prev /\ b.asked = daemonClient.asked /\ b.old = daemonClient.old
  BY DEF DaemonInv, DaemonTypeOK, DaemonClients
<1> HIDE DEF b
<1>2. /\ c \in DaemonClients /\ c.state = b.state /\ c.timer = b.timer /\ c.job = b.job /\ c.old = b.old
      /\ c.prev \in {b.prev, None} /\ (~b.old => c.prev = b.prev) /\ c.asked \in {b.asked, None}
  BY <1>1 DEF Outdated, DaemonClients
<1>3. /\ daemonClient' = c /\ UNCHANGED <<daemonTip, daemonFaults, daemonUnheard>>
      /\ \/ c.state = "Connecting" /\ Sends("template", daemonWeb)
         \/ c.state = "Connected" /\ Sends("height", daemonWeb)
         \/ c.state = "Unconnected" /\ UNCHANGED daemonWeb
  BY DEF DaemonTimer, b
<1> HIDE DEF c
<1>4. /\ daemonWeb' \in [1..DaemonSlots -> DaemonRequests]
      /\ \A s \in 1..DaemonSlots : daemonWeb'[s].since <= daemonTip
      /\ c.state = "Connecting" => \E s \in 1..DaemonSlots : daemonWeb'[s].kind = "template"
  BY <1>3, SendsIs, FreeIs DEF DaemonInv, DaemonTypeOK
<1>5. None <= daemonTip
  BY TipsAre DEF None, DaemonInv, DaemonTypeOK
<1>6. DaemonTypeOK'
  BY <1>2, <1>3, <1>4 DEF DaemonInv, DaemonTypeOK
<1>7. DaemonGoesOn' /\ (c.timer = "poll" => c.state = "Connected")
  BY <1>1, <1>2, <1>3, <1>4 DEF DaemonInv, DaemonGoesOn
<1>8. DaemonKnowsItsJob'
  BY <1>1, <1>2, <1>3, <1>5 DEF DaemonInv, DaemonKnowsItsJob
<1> QED BY <1>3, <1>4, <1>6, <1>7, <1>8 DEF DaemonInv

LEMMA DaemonAgeInv == DaemonInv /\ DaemonAge => DaemonInv'
<1> SUFFICES ASSUME DaemonInv, DaemonAge PROVE DaemonInv'
  OBVIOUS
<1>1. /\ daemonClient' \in DaemonClients /\ daemonClient'.state = daemonClient.state
      /\ daemonClient'.timer = daemonClient.timer /\ daemonClient'.job = daemonClient.job
      /\ daemonClient'.prev = daemonClient.prev /\ daemonClient'.asked = daemonClient.asked /\ daemonClient'.old
  BY DEF DaemonAge, DaemonInv, DaemonTypeOK, DaemonClients
<1>2. UNCHANGED <<daemonTip, daemonWeb, daemonFaults, daemonUnheard>>
  BY DEF DaemonAge
<1> QED BY <1>1, <1>2 DEF DaemonInv, DaemonTypeOK, DaemonGoesOn, DaemonKnowsItsJob

LEMMA DaemonTipInv == DaemonInv /\ DaemonTip => DaemonInv'
<1> SUFFICES ASSUME DaemonInv, DaemonTip PROVE DaemonInv'
  OBVIOUS
<1>1. /\ daemonTip' \in Tips /\ daemonTip' = daemonTip + 1 /\ daemonTip \in Nat
      /\ UNCHANGED <<daemonClient, daemonWeb, daemonFaults, daemonUnheard>>
  BY DaemonAssumption DEF DaemonTip, DaemonInv, DaemonTypeOK, Tips
<1>2. \A t \in Tips \union {None} : t <= daemonTip => t <= daemonTip'
  BY <1>1, TipsAre DEF None
<1>3. /\ daemonClient.job \in Tips \union {None} /\ daemonClient.asked \in Tips \union {None}
      /\ \A s \in 1..DaemonSlots : daemonWeb[s].since \in Tips
  BY DEF DaemonInv, DaemonTypeOK, DaemonClients, DaemonRequests
<1>4. DaemonKnowsItsJob' /\ \A s \in 1..DaemonSlots : daemonWeb'[s].since <= daemonTip'
  BY <1>1, <1>2, <1>3 DEF DaemonInv, DaemonKnowsItsJob
<1> QED BY <1>1, <1>4 DEF DaemonInv, DaemonTypeOK, DaemonGoesOn

LEMMA DaemonHeightInv == \A s \in 1..DaemonSlots : DaemonInv /\ DaemonHeight(s) => DaemonInv'
<1> SUFFICES ASSUME NEW s \in 1..DaemonSlots, DaemonInv, DaemonHeight(s) PROVE DaemonInv'
  OBVIOUS
<1>1. PICK tip \in TipFor(s) :
        IF IsOutdated(daemonClient, tip) /\ daemonClient.asked # tip
          THEN /\ daemonClient' = [daemonClient EXCEPT !.asked = tip]
               /\ Sends("template", Without(s))
          ELSE UNCHANGED daemonClient /\ daemonWeb' = Without(s)
  BY DEF DaemonHeight
<1>2. /\ UNCHANGED <<daemonTip, daemonFaults, daemonUnheard>>
      /\ daemonWeb[s].kind = "height"
  BY DEF DaemonHeight
<1>3. tip \in Tips /\ tip <= daemonTip
  BY DaemonAssumption DEF TipFor, Tips, DaemonInv, DaemonTypeOK, DaemonRequests
<1>4. /\ daemonClient' \in DaemonClients /\ daemonClient'.state = daemonClient.state
      /\ daemonClient'.timer = daemonClient.timer /\ daemonClient'.job = daemonClient.job
      /\ daemonClient'.prev = daemonClient.prev /\ daemonClient'.old = daemonClient.old
      /\ daemonClient'.asked \in {daemonClient.asked, tip}
  BY <1>1, <1>3 DEF DaemonInv, DaemonTypeOK, DaemonClients
<1>5. /\ Without(s) \in [1..DaemonSlots -> DaemonRequests]
      /\ \A r \in 1..DaemonSlots : Without(s)[r].since <= daemonTip
      /\ \A r \in 1..DaemonSlots : Without(s)[r] = IF r = s THEN Free ELSE daemonWeb[r]
  BY WithoutIs
<1>6. /\ daemonWeb' \in [1..DaemonSlots -> DaemonRequests]
      /\ \A r \in 1..DaemonSlots : daemonWeb'[r].since <= daemonTip
      /\ \A r \in 1..DaemonSlots : Without(s)[r].kind # "free" => daemonWeb'[r] = Without(s)[r]
  <2>1. DaemonTypeOK /\ \A r \in 1..DaemonSlots : Without(s)[r] = Free => Without(s)[r].kind = "free"
    BY FreeIs DEF DaemonInv
  <2>2. CASE Sends("template", Without(s))
    BY <1>5, <2>1, <2>2, SendsIs
  <2>3. CASE daemonWeb' = Without(s)
    BY <1>5, <2>3
  <2> QED BY <1>1, <2>2, <2>3
<1>7. \A r \in 1..DaemonSlots : daemonWeb[r].kind = "template" => daemonWeb'[r].kind = "template"
  BY <1>2, <1>5, <1>6
<1> QED BY <1>2, <1>3, <1>4, <1>6, <1>7 DEF DaemonInv, DaemonTypeOK, DaemonGoesOn, DaemonKnowsItsJob

LEMMA DaemonTemplateInv == \A s \in 1..DaemonSlots : DaemonInv /\ DaemonTemplate(s) => DaemonInv'
<1> SUFFICES ASSUME NEW s \in 1..DaemonSlots, DaemonInv, DaemonTemplate(s) PROVE DaemonInv'
  OBVIOUS
<1>1. PICK tip \in TipFor(s) : daemonClient' = JobOf(daemonClient, tip)
  BY DEF DaemonTemplate
<1>2. /\ UNCHANGED <<daemonTip, daemonFaults, daemonUnheard>>
      /\ daemonWeb' \in [1..DaemonSlots -> DaemonRequests]
      /\ \A r \in 1..DaemonSlots : daemonWeb'[r].since <= daemonTip
  BY WithoutIs DEF DaemonTemplate
<1>3. tip \in Tips /\ tip <= daemonTip
  BY DaemonAssumption DEF TipFor, Tips, DaemonInv, DaemonTypeOK, DaemonRequests
<1>4. /\ daemonClient' \in DaemonClients /\ daemonClient'.job = tip /\ daemonClient'.prev = tip
      /\ daemonClient'.asked = daemonClient.asked /\ ~daemonClient'.old
      /\ daemonClient'.state = IF daemonClient.state = "Connecting" THEN "Connected" ELSE daemonClient.state
      /\ daemonClient'.timer = IF daemonClient.state = "Connecting" THEN "poll" ELSE daemonClient.timer
  BY <1>1, <1>3 DEF JobOf, DaemonInv, DaemonTypeOK, DaemonClients
<1>5. tip # None
  BY <1>3, TipsAre
<1> QED BY <1>2, <1>3, <1>4, <1>5 DEF DaemonInv, DaemonTypeOK, DaemonGoesOn, DaemonKnowsItsJob

LEMMA DaemonAcceptedInv == \A s \in 1..DaemonSlots : DaemonInv /\ DaemonAccepted(s) => DaemonInv'
<1> SUFFICES ASSUME NEW s \in 1..DaemonSlots, DaemonInv, DaemonAccepted(s) PROVE DaemonInv'
  OBVIOUS
<1>1. /\ Without(s) \in [1..DaemonSlots -> DaemonRequests]
      /\ \A r \in 1..DaemonSlots : Without(s)[r].since <= daemonTip
      /\ \A r \in 1..DaemonSlots : Without(s)[r] = Free => Without(s)[r].kind = "free"
  BY WithoutIs, FreeIs
<1>2. /\ daemonWeb' \in [1..DaemonSlots -> DaemonRequests]
      /\ \A r \in 1..DaemonSlots : daemonWeb'[r].since <= daemonTip
      /\ \E r \in 1..DaemonSlots : daemonWeb'[r].kind = "template"
  BY <1>1, SendsIs DEF DaemonAccepted, DaemonInv
<1>3. UNCHANGED <<daemonTip, daemonClient, daemonFaults, daemonUnheard>>
  BY DEF DaemonAccepted
<1> QED BY <1>2, <1>3 DEF DaemonInv, DaemonTypeOK, DaemonGoesOn, DaemonKnowsItsJob

LEMMA DaemonFailsInv == \A s \in 1..DaemonSlots : DaemonInv /\ DaemonFails(s) => DaemonInv'
<1> SUFFICES ASSUME NEW s \in 1..DaemonSlots, DaemonInv, DaemonFails(s) PROVE DaemonInv'
  OBVIOUS
<1>1. /\ daemonClient' \in DaemonClients /\ daemonClient'.timer = "once" /\ daemonClient'.state # "Connected"
      /\ daemonClient'.job = daemonClient.job /\ daemonClient'.prev = daemonClient.prev
      /\ daemonClient'.asked = daemonClient.asked /\ daemonClient'.old = daemonClient.old
  BY DEF DaemonFails, Retried, DaemonInv, DaemonTypeOK, DaemonClients
<1>2. daemonFaults' \in 0..DaemonFaults
  BY DaemonAssumption DEF DaemonFails, DaemonFault, DaemonInv, DaemonTypeOK
<1>3. /\ UNCHANGED <<daemonTip, daemonUnheard>>
      /\ daemonWeb' \in [1..DaemonSlots -> DaemonRequests]
      /\ \A r \in 1..DaemonSlots : daemonWeb'[r].since <= daemonTip
  BY WithoutIs DEF DaemonFails
<1> QED BY <1>1, <1>2, <1>3 DEF DaemonInv, DaemonTypeOK, DaemonGoesOn, DaemonKnowsItsJob

LEMMA DaemonLostInv == \A s \in 1..DaemonSlots : DaemonInv /\ DaemonLost(s) => DaemonInv'
<1> SUFFICES ASSUME NEW s \in 1..DaemonSlots, DaemonInv, DaemonLost(s) PROVE DaemonInv'
  OBVIOUS
<1>1. daemonFaults' \in 0..DaemonFaults
  BY DaemonAssumption DEF DaemonLost, DaemonFault, DaemonInv, DaemonTypeOK
<1>2. /\ UNCHANGED <<daemonTip, daemonClient>>
      /\ daemonWeb' \in [1..DaemonSlots -> DaemonRequests]
      /\ \A r \in 1..DaemonSlots : daemonWeb'[r].since <= daemonTip
  BY WithoutIs DEF DaemonLost
<1>3. daemonUnheard' \in BOOLEAN
  BY DEF DaemonLost
<1>4. daemonClient.state = "Connecting" => daemonUnheard'
  BY DEF DaemonLost
<1> QED BY <1>1, <1>2, <1>3, <1>4 DEF DaemonInv, DaemonTypeOK, DaemonGoesOn, DaemonKnowsItsJob

LEMMA DaemonStep == DaemonInv /\ [DaemonNext]_daemonVars => DaemonInv'
<1> SUFFICES ASSUME DaemonInv, [DaemonNext]_daemonVars PROVE DaemonInv'
  OBVIOUS
<1>1. CASE UNCHANGED daemonVars
  BY <1>1 DEF daemonVars, DaemonInv, DaemonTypeOK, DaemonGoesOn, DaemonKnowsItsJob
<1>2. CASE DaemonNext
  BY <1>2, DaemonConnectInv, DaemonDisconnectInv, DaemonSubmitInv, DaemonTimerInv, DaemonAgeInv, DaemonTipInv,
     DaemonHeightInv, DaemonTemplateInv, DaemonAcceptedInv, DaemonFailsInv, DaemonLostInv
     DEF DaemonNext, DaemonAnswer
<1> QED BY <1>1, <1>2

\* A client of a daemon does not come to a standstill: connected, it has a job and its timer polls;
\* while it connects, a timer runs or a template was asked for, unless a request was never answered.
\* This is the safety that TipIsMined rests on, for any number of requests in any order.
THEOREM DaemonIsAsked == DaemonSpec => []DaemonGoesOn
  BY DaemonInitInv, DaemonStep, PTL DEF DaemonSpec, DaemonInv

\* The previous hash with which a client of a daemon tells whether there is something new is that
\* of the job it mines, however answers overtake each other: a new tip is never taken for its own.
THEOREM DaemonKnowsWhatItMines == DaemonSpec => []DaemonKnowsItsJob
  BY DaemonInitInv, DaemonStep, PTL DEF DaemonSpec, DaemonInv
=============================================================================
