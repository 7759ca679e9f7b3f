--------------------------- MODULE Failover_proofs ---------------------------
(***************************************************************************)
(* Proofs about Failover for any number of pools, handles and retries, and *)
(* whatever the servers, the network and the owner do.                     *)
(***************************************************************************)
EXTENDS Failover, TLAPS

-----------------------------------------------------------------------------
(* What the methods of a client keep: its type, and that nobody is logged in *)
(* who was not                                                               *)

LEMMA FailuresType == -1 \in -1..Retries /\ 0 \in -1..Retries
  BY ClientAssumption

LEMMA NewClientType == NewClient \in ClientType /\ ~HasLogin(NewClient)
  BY ClientAssumption DEF NewClient, ClientType, States, Status, HasLogin

LEMMA SetStateType ==
  ASSUME NEW c \in ClientType, NEW s \in States
  PROVE  /\ SetState(c, s) \in ClientType
         /\ SetState(c, s).state = s
         /\ SetState(c, s).sock = c.sock
         /\ SetState(c, s).conn = c.conn
  BY DEF SetState, ClientType, States

LEMMA ShutType == ASSUME NEW s \in Status PROVE Shut(s) \in Status
  BY DEF Shut, Status

LEMMA CloseType ==
  ASSUME NEW c \in ClientType
  PROVE  Close(c) \in ClientType /\ ~HasLogin(Close(c))
<1>1. CASE Closes(c)
  <2> DEFINE d == SetState(c, "Closing")
  <2>1. d \in ClientType /\ d.state = "Closing" /\ d.conn = c.conn
    BY SetStateType DEF States
  <2>2. c.sock \in Handles /\ Shut(d.conn[c.sock]) \in Status
    BY <1>1, <2>1, ShutType DEF Closes, ClientType
  <2>3. Close(c) = [d EXCEPT !.conn[c.sock] = Shut(@)]
    BY <1>1 DEF Close
  <2> HIDE DEF d
  <2> QED BY <2>1, <2>2, <2>3 DEF ClientType, HasLogin
<1>2. CASE ~Closes(c)
  BY <1>2 DEF Close, Closes, HasLogin
<1> QED BY <1>1, <1>2

LEMMA DisconnectType ==
  ASSUME NEW c \in ClientType
  PROVE  Disconnect(c) \in ClientType /\ ~HasLogin(Disconnect(c))
<1>1. [c EXCEPT !.expire = FALSE, !.failures = -1] \in ClientType
  BY FailuresType DEF ClientType
<1> QED BY <1>1, CloseType DEF Disconnect

LEMMA RemovedType ==
  ASSUME NEW c \in ClientType
  PROVE  Removed(c) \in ClientType /\ (HasLogin(Removed(c)) => HasLogin(c))
  BY DEF Removed, ClientType, HasLogin

LEMMA DeleteLaterType ==
  ASSUME NEW c \in ClientType
  PROVE  DeleteLater(c) \in ClientType
<1> DEFINE d == Disconnect([c EXCEPT !.listener = FALSE])
<1>1. [c EXCEPT !.listener = FALSE] \in ClientType
  BY DEF ClientType
<1>2. d \in ClientType
  BY <1>1, DisconnectType
<1>3. DeleteLater(c) \in {c, d, Removed(d)}
  BY DEF DeleteLater
<1> HIDE DEF d
<1> QED BY <1>2, <1>3, RemovedType

LEMMA ConnectToType ==
  ASSUME NEW c \in ClientType, NEW h \in Handles
  PROVE  ConnectTo(c, h) \in ClientType /\ ~HasLogin(ConnectTo(c, h))
<1> DEFINE d == SetState(c, "Connecting")
<1>1. d \in ClientType /\ d.state = "Connecting"
  BY SetStateType DEF States
<1>2. ConnectTo(c, h) = [d EXCEPT !.dns = FALSE, !.sock = h, !.conn[h] = "connecting"]
  BY DEF ConnectTo
<1> HIDE DEF d
<1>3. [d.conn EXCEPT ![h] = "connecting"] \in [Handles -> Status]
  BY <1>1 DEF ClientType, Status
<1>4. ConnectTo(c, h) = [[[d EXCEPT !.dns = FALSE] EXCEPT !.sock = h] EXCEPT !.conn = [d.conn EXCEPT ![h] = "connecting"]]
  BY <1>1, <1>2 DEF ClientType
<1>5. ConnectTo(c, h).state = "Connecting"
  BY <1>1, <1>4 DEF ClientType
<1> QED BY <1>1, <1>3, <1>4, <1>5 DEF ClientType, HasLogin

LEMMA ConnectsType ==
  ASSUME NEW c \in ClientType, NEW d \in Connects(c)
  PROVE  d \in ClientType /\ ~HasLogin(d)
<1> DEFINE r == SetState(c, "HostLookup")
<1>1. r \in ClientType /\ r.state = "HostLookup"
  BY SetStateType DEF States
<1>2. Resolve(c) = [r EXCEPT !.failures = IF @ = -1 THEN 0 ELSE @, !.dns = TRUE]
  BY DEF Resolve
<1> HIDE DEF r
<1>3. Resolve(c) \in ClientType /\ Resolve(c).state = "HostLookup"
  BY <1>1, <1>2, FailuresType DEF ClientType
<1>4. CASE d = Resolve(c)
  BY <1>3, <1>4 DEF HasLogin
<1>5. CASE \E h \in FreeHandles(c) : d = ConnectTo(Resolve(c), h)
  BY <1>3, <1>5, ConnectToType DEF FreeHandles
<1> QED BY <1>4, <1>5 DEF Connects

LEMMA ReconnectType ==
  ASSUME NEW c \in ClientType
  PROVE  Reconnect(c) \in ClientType /\ ~HasLogin(Reconnect(c))
<1> DEFINE d == SetState(c, "Reconnecting")
<1>1. d \in ClientType /\ d.state = "Reconnecting"
  BY SetStateType DEF States
<1>2. Reconnect(c) = [d EXCEPT !.failures = IF @ < Retries THEN @ + 1 ELSE @]
  BY DEF Reconnect
<1> HIDE DEF d
<1>3. d.failures \in -1..Retries
  BY <1>1 DEF ClientType
<1>4. (IF d.failures < Retries THEN d.failures + 1 ELSE d.failures) \in -1..Retries
  BY <1>3, ClientAssumption
<1> QED BY <1>1, <1>2, <1>4 DEF ClientType, HasLogin

LEMMA HandshakeType ==
  ASSUME NEW c \in ClientType
  PROVE  Handshake(c) \in ClientType /\ ~HasLogin(Handshake(c))
<1>1. CASE c.sock # NoHandle /\ c.conn[c.sock] \in {"idle"} \union Reading
  <2>1. c.sock \in Handles
    BY <1>1 DEF ClientType
  <2> QED BY <1>1, <2>1 DEF Handshake, ClientType, Status, HasLogin
<1>2. CASE ~(c.sock # NoHandle /\ c.conn[c.sock] \in {"idle"} \union Reading)
  BY <1>2 DEF Handshake, HasLogin, Reading
<1> QED BY <1>1, <1>2

LEMMA OnConnectedType ==
  ASSUME NEW c \in ClientType, NEW h \in Handles
  PROVE  OnConnected(c, h) \in ClientType /\ (HasLogin(OnConnected(c, h)) => HasLogin(c))
<1> DEFINE d == [c EXCEPT !.conn[h] = "idle"]
<1>1. d \in ClientType /\ (HasLogin(d) => HasLogin(c))
  BY DEF ClientType, Status, HasLogin
<1>2. SetState(d, "Connected") \in ClientType
  BY <1>1, SetStateType DEF States
<1>3. OnConnected(c, h) \in {d, Handshake(SetState(d, "Connected"))}
  BY DEF OnConnected
<1> HIDE DEF d
<1> QED BY <1>1, <1>2, <1>3, HandshakeType

LEMMA OnConnectFailedType ==
  ASSUME NEW c \in ClientType, NEW h \in Handles
  PROVE  OnConnectFailed(c, h) \in ClientType /\ (HasLogin(OnConnectFailed(c, h)) => HasLogin(c))
<1> DEFINE d == [c EXCEPT !.conn[h] = IF @ = "canceled" THEN "closing" ELSE "idle"]
<1>1. d \in ClientType /\ (HasLogin(d) => HasLogin(c))
  BY DEF ClientType, Status, HasLogin
<1>2. OnConnectFailed(c, h) \in {d, Close(d)}
  BY DEF OnConnectFailed
<1> HIDE DEF d
<1> QED BY <1>1, <1>2, CloseType

LEMMA OnClosedType ==
  ASSUME NEW c \in ClientType, NEW h \in Handles
  PROVE  OnClosed(c, h) \in ClientType /\ ~HasLogin(OnClosed(c, h))
<1> DEFINE d == [c EXCEPT !.conn[h] = "free", !.sock = NoHandle]
<1>1. d \in ClientType
  BY DEF ClientType, Status
<1> HIDE DEF d
<1>2. SetState(d, "Unconnected") \in ClientType /\ SetState(d, "Unconnected").state = "Unconnected"
  BY <1>1, SetStateType DEF States
<1> QED BY <1>2 DEF OnClosed, HasLogin, d

LEMMA LineType ==
  ASSUME NEW c \in ClientType
  PROVE  Line(c) \in ClientType /\ (HasLogin(Line(c)) => HasLogin(c))
  BY DEF Line, ClientType, HasLogin

LEMMA LoggedInType ==
  ASSUME NEW c \in ClientType, NEW h \in Handles
  PROVE  LoggedIn(c, h) \in ClientType
<1>1. Line(c) \in ClientType
  BY LineType
<1>2. [Line(c).conn EXCEPT ![h] = "in"] \in [Handles -> Status]
  BY <1>1 DEF ClientType, Status
<1>3. LoggedIn(c, h) = [[Line(c) EXCEPT !.conn = [Line(c).conn EXCEPT ![h] = "in"]] EXCEPT !.failures = 0]
  BY <1>1 DEF LoggedIn, ClientType
<1> QED BY <1>1, <1>2, <1>3, FailuresType DEF ClientType

-----------------------------------------------------------------------------
(* What the strategy does when a client calls it *)

StrategyType == index \in Pools /\ active \in Pools \union {-1} /\ mining \in Pools \union {-1} /\ overlapped \in BOOLEAN

\* Of the clients cs none but that of pool a is logged in
OnlyLogin(cs, a) == \A j \in Pools : HasLogin(cs[j]) => j = a

IInv == TypeOK /\ MinesForActive /\ LoggedInIsActive

LEMMA LoggedInMeans == LoggedInIsActive <=> (deleted \/ OnlyLogin(clients, active))
  BY DEF LoggedInIsActive, OnlyLogin

\* What every call of the strategy keeps, if it is called with the clients cs
Keeps(cs) ==
  /\ clients' \in [Pools -> ClientType] /\ StrategyType'
  /\ mining = active => mining' = active'
  /\ OnlyLogin(cs, active) => OnlyLogin(clients', active')

LEMMA OnCloseKeeps ==
  ASSUME StrategyType, NEW i \in Pools, NEW failures, NEW cs \in [Pools -> ClientType],
         ~HasLogin(cs[i]), OnClose(i, failures, cs)
  PROVE  Keeps(cs)
<1>1. /\ active' \in Pools \union {-1} /\ mining' \in Pools \union {-1}
      /\ mining = active => mining' = active'
      /\ OnlyLogin(cs, active) => OnlyLogin(cs, active')
  BY DEF OnClose, StrategyType, OnlyLogin
<1>2. CASE TriesNext(i, failures)
  <2>1. index + 1 \in Pools
    BY <1>2, FailoverAssumption DEF TriesNext, StrategyType, Pools
  <2>2. PICK c \in Connects(cs[index + 1]) : clients' = [cs EXCEPT ![index + 1] = c]
    BY <1>2 DEF OnClose
  <2>3. c \in ClientType /\ ~HasLogin(c)
    BY <2>1, <2>2, ConnectsType
  <2>4. index' \in Pools /\ overlapped' \in BOOLEAN
    BY <1>2, <2>1 DEF OnClose, StrategyType
  <2> QED BY <1>1, <2>1, <2>2, <2>3, <2>4 DEF Keeps, StrategyType, OnlyLogin
<1>3. CASE ~TriesNext(i, failures)
  BY <1>1, <1>3 DEF OnClose, Keeps, StrategyType
<1> QED BY <1>2, <1>3

LEMMA ReconnectsKeeps ==
  ASSUME StrategyType, NEW i \in Pools, NEW cs \in [Pools -> ClientType], Reconnects(i, cs)
  PROVE  Keeps(cs)
<1>1. CASE ~cs[i].listener
  <2>1. clients' = [cs EXCEPT ![i] = Removed(cs[i])] /\ UNCHANGED <<strategyVars, overlapped>>
    BY <1>1 DEF Reconnects
  <2>2. Removed(cs[i]) \in ClientType /\ (HasLogin(Removed(cs[i])) => HasLogin(cs[i]))
    BY RemovedType
  <2> QED BY <2>1, <2>2 DEF Keeps, StrategyType, strategyVars, OnlyLogin
<1>2. CASE cs[i].listener /\ cs[i].failures = -1
  BY <1>2 DEF Reconnects, Keeps, StrategyType, strategyVars
<1>3. CASE cs[i].listener /\ cs[i].failures # -1
  <2> DEFINE c == Reconnect(cs[i])
             ds == [cs EXCEPT ![i] = c]
  <2>1. c \in ClientType /\ ~HasLogin(c)
    BY ReconnectType
  <2>2. OnClose(i, c.failures, ds)
    BY <1>3 DEF Reconnects
  <2> HIDE DEF c
  <2>3. ds \in [Pools -> ClientType] /\ ~HasLogin(ds[i])
    BY <2>1
  <2>4. OnlyLogin(cs, active) => OnlyLogin(ds, active)
    BY <2>1 DEF OnlyLogin
  <2> HIDE DEF ds
  <2>5. Keeps(ds)
    BY <2>2, <2>3, OnCloseKeeps
  <2> QED BY <2>4, <2>5 DEF Keeps
<1> QED BY <1>1, <1>2, <1>3

\* Client i has just logged in: before the call OnlyLogin holds of the others
LEMMA OnLoginSuccessKeeps ==
  ASSUME StrategyType, NEW i \in Pools, NEW cs \in [Pools -> ClientType],
         OnLoginSuccess(i, cs), UNCHANGED overlapped
  PROVE  /\ clients' \in [Pools -> ClientType] /\ StrategyType'
         /\ mining = active => mining' = active'
         /\ (\A j \in Pools \ {i} : HasLogin(cs[j]) => j = active) => OnlyLogin(clients', active')
<1> DEFINE a == NewActive(i)
<1>1. a \in Pools /\ a \in {i, active} /\ (i = 0 => a = 0)
  BY DEF NewActive, StrategyType, Pools
<1>2. /\ clients' = [j \in Pools |-> IF j \in Losers(a) THEN Disconnect(cs[j]) ELSE cs[j]]
      /\ active' = a /\ index' = NewIndex(a)
      /\ mining' = IF a = i THEN i ELSE mining
  BY DEF OnLoginSuccess
<1>3. a = i \/ (a = active /\ i # 0)
  BY DEF NewActive
<1>4. a = IF i = 0 \/ active = -1 THEN i ELSE active
  BY DEF NewActive
<1> HIDE DEF a
<1>5. clients' \in [Pools -> ClientType]
  BY <1>2, DisconnectType
<1>6. StrategyType'
  BY <1>1, <1>2 DEF StrategyType, NewIndex
<1>7. mining = active => mining' = active'
  BY <1>2, <1>3
<1>8. ASSUME \A j \in Pools \ {i} : HasLogin(cs[j]) => j = active
      PROVE  OnlyLogin(clients', active')
  <2> SUFFICES ASSUME NEW j \in Pools, HasLogin(clients'[j]), j # a PROVE FALSE
    BY <1>2 DEF OnlyLogin
  <2>1. j \notin Losers(a)
    BY <1>2, DisconnectType
  <2>2. j = 0 /\ HasLogin(cs[0])
    BY <1>2, <2>1 DEF Losers, Pools
  <2>3. CASE i = 0
    BY <1>4, <2>2, <2>3
  <2>4. CASE i # 0
    BY <1>4, <1>8, <2>2, <2>4
  <2> QED BY <2>3, <2>4
<1> QED BY <1>5, <1>6, <1>7, <1>8

-----------------------------------------------------------------------------
(* The actions *)

LEMMA InitIInv == Init => IInv
<1> SUFFICES ASSUME Init PROVE IInv
  OBVIOUS
<1>1. 0 \in Pools
  BY FailoverAssumption DEF Pools
<1>2. clients \in [Pools -> ClientType] /\ \A i \in Pools : ~HasLogin(clients[i])
  BY NewClientType DEF Init
<1>3. faults \in 0..MaxFaults /\ user \in 0..MaxUser
  BY FailoverAssumption DEF Init
<1> QED BY <1>1, <1>2, <1>3 DEF Init, IInv, TypeOK, MinesForActive, LoggedInIsActive

LEMMA TypesOfParts == TypeOK => StrategyType /\ clients \in [Pools -> ClientType]
  BY DEF TypeOK, StrategyType

\* A step that keeps what the strategy's calls keep, from clients cs none of which has a
\* login that was not there
LEMMA KeepsIInv ==
  ASSUME IInv, NEW cs \in [Pools -> ClientType], Keeps(cs),
         \A j \in Pools : HasLogin(cs[j]) => HasLogin(clients[j]),
         started' \in BOOLEAN, UNCHANGED <<deleted, reliable>>,
         wrong' \in {"no", "listener", "storage", "socket"},
         faults' \in 0..MaxFaults, user' \in 0..MaxUser
  PROVE  IInv'
<1>1. TypeOK'
  BY DEF IInv, TypeOK, Keeps, StrategyType
<1>2. MinesForActive'
  BY DEF IInv, MinesForActive, Keeps
<1>3. LoggedInIsActive'
  BY DEF IInv, LoggedInIsActive, OnlyLogin, Keeps
<1> QED BY <1>1, <1>2, <1>3 DEF IInv

\* ... where only client i changes
LEMMA OneClientIInv ==
  ASSUME IInv, NEW i \in Pools, NEW c \in ClientType, HasLogin(c) => HasLogin(clients[i]),
         clients' = [clients EXCEPT ![i] = c], UNCHANGED strategyVars, overlapped' \in BOOLEAN,
         started' \in BOOLEAN, UNCHANGED <<deleted, reliable>>,
         wrong' \in {"no", "listener", "storage", "socket"},
         faults' \in 0..MaxFaults, user' \in 0..MaxUser
  PROVE  IInv'
<1> DEFINE cs == [clients EXCEPT ![i] = c]
<1>1. cs \in [Pools -> ClientType] /\ \A j \in Pools : HasLogin(cs[j]) => HasLogin(clients[j])
  BY TypesOfParts DEF IInv
<1>2. StrategyType'
  BY TypesOfParts DEF IInv, StrategyType, strategyVars
<1>3. Keeps(cs)
  BY <1>1, <1>2 DEF Keeps, strategyVars, OnlyLogin
<1> HIDE DEF cs
<1> QED BY <1>1, <1>3, KeepsIInv

LEMMA UserBound == ASSUME TypeOK, May PROVE user' \in 0..MaxUser
  BY FailoverAssumption DEF TypeOK, May

LEMMA FaultBound == ASSUME TypeOK, NEW i, Fault(i) PROVE faults' \in 0..MaxFaults
  BY FailoverAssumption DEF TypeOK, Fault

LEMMA ConnectIInv == IInv /\ Connect => IInv'
<1> SUFFICES ASSUME IInv, Connect PROVE IInv'
  OBVIOUS
<1>1. PICK c \in Connects(clients[index]) : clients' = [clients EXCEPT ![index] = c]
  BY DEF Connect
<1>2. index \in Pools /\ clients[index] \in ClientType
  BY DEF IInv, TypeOK
<1>3. c \in ClientType /\ ~HasLogin(c)
  BY <1>1, <1>2, ConnectsType
<1>4. user' \in 0..MaxUser
  BY UserBound DEF IInv, Connect
<1>5. overlapped' \in BOOLEAN /\ wrong' \in {"no", "listener", "storage", "socket"} /\ faults' \in 0..MaxFaults
  BY DEF Connect, IInv, TypeOK
<1> QED BY <1>1, <1>2, <1>3, <1>4, <1>5, OneClientIInv DEF Connect

LEMMA StopIInv == IInv /\ Stop => IInv'
<1> SUFFICES ASSUME IInv, Stop PROVE IInv'
  OBVIOUS
<1>1. clients' \in [Pools -> ClientType] /\ \A i \in Pools : ~HasLogin(clients'[i])
  BY DisconnectType DEF Stop, IInv, TypeOK
<1>2. user' \in 0..MaxUser /\ 0 \in Pools
  BY UserBound, FailoverAssumption DEF IInv, Stop, Pools
<1>3. TypeOK'
  BY <1>1, <1>2 DEF Stop, IInv, TypeOK
<1> QED BY <1>1, <1>3 DEF IInv, Stop, MinesForActive, LoggedInIsActive

LEMMA DeleteIInv == IInv /\ Delete => IInv'
<1> SUFFICES ASSUME IInv, Delete PROVE IInv'
  OBVIOUS
<1>1. clients' \in [Pools -> ClientType]
  BY DeleteLaterType DEF Delete, IInv, TypeOK
<1>2. user' \in 0..MaxUser
  BY UserBound DEF IInv, Delete
<1>3. TypeOK'
  BY <1>1, <1>2 DEF Delete, IInv, TypeOK, strategyVars
<1> QED BY <1>3 DEF IInv, Delete, MinesForActive, LoggedInIsActive, strategyVars

\* An assertion fails: nothing else changes
LEMMA FailsIInv ==
  ASSUME IInv, NEW a \in {"listener", "storage", "socket"}, Fails(a),
         UNCHANGED <<started, deleted, reliable, user, faults>>
  PROVE  IInv'
<1>1. TypeOK'
  BY DEF Fails, IInv, TypeOK, strategyVars
<1> QED BY <1>1 DEF Fails, IInv, MinesForActive, LoggedInIsActive, strategyVars

\* The strategy hears that client i closed, when the clients are cs
LEMMA ReconnectsIInv ==
  ASSUME IInv, NEW i \in Pools, NEW c \in ClientType, HasLogin(c) => HasLogin(clients[i]),
         Reconnects(i, [clients EXCEPT ![i] = c]),
         UNCHANGED <<started, deleted, reliable, user, wrong>>, faults' \in 0..MaxFaults
  PROVE  IInv'
<1> DEFINE cs == [clients EXCEPT ![i] = c]
<1>1. cs \in [Pools -> ClientType] /\ \A j \in Pools : HasLogin(cs[j]) => HasLogin(clients[j])
  BY TypesOfParts DEF IInv
<1>2. Reconnects(i, cs)
  OBVIOUS
<1> HIDE DEF cs
<1>3. Keeps(cs)
  BY <1>1, <1>2, ReconnectsKeeps, TypesOfParts DEF IInv
<1>4. /\ started' \in BOOLEAN /\ wrong' \in {"no", "listener", "storage", "socket"}
      /\ user' \in 0..MaxUser
  BY DEF IInv, TypeOK
<1> QED BY <1>1, <1>3, <1>4, KeepsIInv

LEMMA ExpireIInv == \A i \in Pools : IInv /\ Expire(i) => IInv'
<1> SUFFICES ASSUME NEW i \in Pools, IInv, Expire(i) PROVE IInv'
  OBVIOUS
<1> DEFINE c == clients[i]
<1>1. c \in ClientType
  BY DEF IInv, TypeOK
<1>2. /\ UNCHANGED <<strategyVars, started, deleted, wrong, reliable, user>>
      /\ started \in BOOLEAN /\ wrong \in {"no", "listener", "storage", "socket"}
      /\ user \in 0..MaxUser /\ faults \in 0..MaxFaults /\ overlapped \in BOOLEAN
  BY DEF IInv, TypeOK, Expire
<1>3. CASE Fault(i) /\ clients' = [clients EXCEPT ![i] = Close(c)] /\ UNCHANGED overlapped
  <2>1. Close(c) \in ClientType /\ ~HasLogin(Close(c))
    BY <1>1, CloseType
  <2>2. faults' \in 0..MaxFaults
    BY <1>3, FaultBound DEF IInv
  <2> QED BY <1>2, <1>3, <2>1, <2>2, OneClientIInv
<1>4. CASE /\ \E d \in Connects(c) : clients' = [clients EXCEPT ![i] = d]
           /\ overlapped' = (overlapped \/ c.sock # NoHandle) /\ UNCHANGED faults
  <2>1. PICK d \in Connects(c) : clients' = [clients EXCEPT ![i] = d]
    BY <1>4
  <2>2. d \in ClientType /\ ~HasLogin(d)
    BY <1>1, <2>1, ConnectsType
  <2>3. overlapped' \in BOOLEAN /\ faults' \in 0..MaxFaults
    BY <1>2, <1>4
  <2> QED BY <1>2, <2>1, <2>2, <2>3, OneClientIInv
<1> QED BY <1>3, <1>4 DEF Expire

LEMMA ResolvedIInv == \A i \in Pools : IInv /\ Resolved(i) => IInv'
<1> SUFFICES ASSUME NEW i \in Pools, IInv, Resolved(i) PROVE IInv'
  OBVIOUS
<1> DEFINE c == [clients[i] EXCEPT !.dns = FALSE]
<1>1. c \in ClientType /\ (HasLogin(c) => HasLogin(clients[i]))
  BY DEF IInv, TypeOK, ClientType, HasLogin
<1>2. /\ UNCHANGED <<started, deleted, reliable, user>>
      /\ started \in BOOLEAN /\ wrong \in {"no", "listener", "storage", "socket"}
      /\ user \in 0..MaxUser /\ faults \in 0..MaxFaults /\ overlapped \in BOOLEAN
  BY DEF IInv, TypeOK, Resolved
<1>3. \/ Fails("listener") /\ UNCHANGED faults
      \/ /\ \E h \in FreeHandles(c) : clients' = [clients EXCEPT ![i] = ConnectTo(c, h)]
         /\ UNCHANGED <<strategyVars, overlapped, faults, wrong>>
      \/ Fault(i) /\ Reconnects(i, [clients EXCEPT ![i] = c]) /\ UNCHANGED wrong
  BY DEF Resolved
<1> HIDE DEF c
<1>4. CASE Fails("listener") /\ UNCHANGED faults
  BY <1>2, <1>4, FailsIInv
<1>5. CASE /\ \E h \in FreeHandles(c) : clients' = [clients EXCEPT ![i] = ConnectTo(c, h)]
           /\ UNCHANGED <<strategyVars, overlapped, faults, wrong>>
  <2>1. PICK h \in Handles : clients' = [clients EXCEPT ![i] = ConnectTo(c, h)]
    BY <1>5 DEF FreeHandles
  <2>2. ConnectTo(c, h) \in ClientType /\ ~HasLogin(ConnectTo(c, h))
    BY <1>1, ConnectToType
  <2> QED BY <1>2, <1>5, <2>1, <2>2, OneClientIInv
<1>6. CASE Fault(i) /\ Reconnects(i, [clients EXCEPT ![i] = c]) /\ UNCHANGED wrong
  <2>1. faults' \in 0..MaxFaults
    BY <1>6, FaultBound DEF IInv
  <2> QED BY <1>1, <1>2, <1>6, <2>1, ReconnectsIInv
<1> QED BY <1>3, <1>4, <1>5, <1>6

LEMMA OnConnectIInv == \A i \in Pools, h \in Handles : IInv /\ OnConnect(i, h) => IInv'
<1> SUFFICES ASSUME NEW i \in Pools, NEW h \in Handles, IInv, OnConnect(i, h) PROVE IInv'
  OBVIOUS
<1> DEFINE c == clients[i]
<1>1. c \in ClientType
  BY DEF IInv, TypeOK
<1>2. /\ UNCHANGED <<started, deleted, reliable, user>>
      /\ started \in BOOLEAN /\ wrong \in {"no", "listener", "storage", "socket"}
      /\ user \in 0..MaxUser /\ faults \in 0..MaxFaults /\ overlapped \in BOOLEAN
  BY DEF IInv, TypeOK, OnConnect
<1>3. \/ Fails("storage") /\ UNCHANGED faults
      \/ Fails("socket") /\ UNCHANGED faults
      \/ /\ clients' = [clients EXCEPT ![i] = OnConnected(c, h)]
         /\ UNCHANGED <<strategyVars, wrong, overlapped, faults>>
      \/ /\ clients' = [clients EXCEPT ![i] = OnConnectFailed(c, h)]
         /\ Fault(i) \/ UNCHANGED faults
         /\ UNCHANGED <<strategyVars, wrong, overlapped>>
  BY DEF OnConnect
<1>4. CASE Fails("storage") /\ UNCHANGED faults
  BY <1>2, <1>4, FailsIInv
<1>5. CASE Fails("socket") /\ UNCHANGED faults
  BY <1>2, <1>5, FailsIInv
<1>6. CASE /\ clients' = [clients EXCEPT ![i] = OnConnected(c, h)]
           /\ UNCHANGED <<strategyVars, wrong, overlapped, faults>>
  BY <1>1, <1>2, <1>6, OnConnectedType, OneClientIInv
<1>7. CASE /\ clients' = [clients EXCEPT ![i] = OnConnectFailed(c, h)]
           /\ Fault(i) \/ UNCHANGED faults
           /\ UNCHANGED <<strategyVars, wrong, overlapped>>
  <2>1. faults' \in 0..MaxFaults
    BY <1>2, <1>7, FaultBound DEF IInv
  <2> QED BY <1>1, <1>2, <1>7, <2>1, OnConnectFailedType, OneClientIInv
<1> QED BY <1>3, <1>4, <1>5, <1>6, <1>7

LEMMA OnHandleClosedIInv == \A i \in Pools, h \in Handles : IInv /\ OnHandleClosed(i, h) => IInv'
<1> SUFFICES ASSUME NEW i \in Pools, NEW h \in Handles, IInv, OnHandleClosed(i, h) PROVE IInv'
  OBVIOUS
<1>1. OnClosed(clients[i], h) \in ClientType /\ ~HasLogin(OnClosed(clients[i], h))
  BY OnClosedType DEF IInv, TypeOK
<1>2. UNCHANGED <<started, deleted, reliable, user, faults>> /\ faults \in 0..MaxFaults
  BY DEF IInv, TypeOK, OnHandleClosed, bounds
<1>3. \/ Fails("storage")
      \/ Fails("socket")
      \/ Reconnects(i, [clients EXCEPT ![i] = OnClosed(clients[i], h)]) /\ UNCHANGED wrong
  BY DEF OnHandleClosed
<1> QED BY <1>1, <1>2, <1>3, FailsIInv, ReconnectsIInv

\* What a step that reads leaves alone, and what is the same for all of them
LEMMA SameForReads ==
  ASSUME IInv, UNCHANGED <<started, deleted, reliable, user>>
  PROVE  /\ started' \in BOOLEAN /\ wrong \in {"no", "listener", "storage", "socket"}
         /\ user' \in 0..MaxUser /\ faults \in 0..MaxFaults /\ overlapped \in BOOLEAN
  BY DEF IInv, TypeOK

LEMMA LoginOkIInv == \A i \in Pools, h \in Handles : IInv /\ LoginOk(i, h) => IInv'
<1> SUFFICES ASSUME NEW i \in Pools, NEW h \in Handles, IInv, LoginOk(i, h) PROVE IInv'
  OBVIOUS
<1> DEFINE cs == [clients EXCEPT ![i] = LoggedIn(@, h)]
<1>1. UNCHANGED <<started, deleted, reliable, user>>
  BY DEF LoginOk, Reads
<1>2. \/ (Fails("storage") \/ Fails("listener")) /\ UNCHANGED faults
      \/ OnLoginSuccess(i, cs) /\ UNCHANGED <<overlapped, faults, wrong>>
  BY DEF LoginOk, Reads
<1>3. CASE (Fails("storage") \/ Fails("listener")) /\ UNCHANGED faults
  BY <1>1, <1>3, FailsIInv
<1>4. CASE OnLoginSuccess(i, cs) /\ UNCHANGED <<overlapped, faults, wrong>>
  <2>1. clients[i] \in ClientType /\ clients \in [Pools -> ClientType] /\ StrategyType
    BY TypesOfParts DEF IInv
  <2>2. cs \in [Pools -> ClientType] /\ \A j \in Pools \ {i} : cs[j] = clients[j]
    BY <2>1, LoggedInType
  <2> HIDE DEF cs
  <2>3. /\ clients' \in [Pools -> ClientType] /\ StrategyType'
        /\ mining = active => mining' = active'
        /\ (\A j \in Pools \ {i} : HasLogin(cs[j]) => j = active) => OnlyLogin(clients', active')
    BY <1>4, <2>1, <2>2, OnLoginSuccessKeeps
  <2>4. TypeOK'
    BY <1>1, <1>4, <2>3, SameForReads DEF IInv, TypeOK, StrategyType
  <2>5. MinesForActive'
    BY <1>1, <2>3 DEF IInv, MinesForActive
  <2>6. LoggedInIsActive'
    BY <1>1, <2>2, <2>3 DEF IInv, LoggedInIsActive, OnlyLogin
  <2> QED BY <2>4, <2>5, <2>6 DEF IInv
<1> QED BY <1>2, <1>3, <1>4

LEMMA ReceiveIInv == \A i \in Pools, h \in Handles : IInv /\ Receive(i, h) => IInv'
<1> SUFFICES ASSUME NEW i \in Pools, NEW h \in Handles, IInv, Receive(i, h) PROVE IInv'
  OBVIOUS
<1>1. UNCHANGED <<started, deleted, reliable, user>>
  BY DEF Receive, Reads
<1>2. \/ (Fails("storage") \/ Fails("listener")) /\ UNCHANGED faults
      \/ /\ clients' = [clients EXCEPT ![i] = Line(clients[i])]
         /\ OnJobReceived(i)
         /\ UNCHANGED <<index, active, overlapped, faults, wrong>>
  BY DEF Receive, Reads
<1>3. CASE (Fails("storage") \/ Fails("listener")) /\ UNCHANGED faults
  BY <1>1, <1>3, FailsIInv
<1>4. CASE /\ clients' = [clients EXCEPT ![i] = Line(clients[i])]
           /\ OnJobReceived(i)
           /\ UNCHANGED <<index, active, overlapped, faults, wrong>>
  <2> DEFINE cs == [clients EXCEPT ![i] = Line(clients[i])]
  <2>1. clients[i] \in ClientType /\ clients \in [Pools -> ClientType] /\ StrategyType
    BY TypesOfParts DEF IInv
  <2>2. cs \in [Pools -> ClientType] /\ \A j \in Pools : HasLogin(cs[j]) => HasLogin(clients[j])
    BY <2>1, LineType
  <2>3. /\ mining' \in Pools \union {-1}
        /\ mining = active => mining' = active'
    BY <1>4, <2>1 DEF OnJobReceived, StrategyType
  <2>4. clients' = cs
    BY <1>4
  <2> HIDE DEF cs
  <2>5. Keeps(cs)
    BY <1>4, <2>1, <2>2, <2>3, <2>4 DEF Keeps, StrategyType, OnlyLogin
  <2>6. faults' \in 0..MaxFaults /\ wrong' \in {"no", "listener", "storage", "socket"}
    BY <1>1, <1>4, SameForReads
  <2> QED BY <1>1, <2>2, <2>5, <2>6, SameForReads, KeepsIInv
<1> QED BY <1>2, <1>3, <1>4

LEMMA RefusedIInv == \A i \in Pools, h \in Handles : IInv /\ Refused(i, h) => IInv'
<1> SUFFICES ASSUME NEW i \in Pools, NEW h \in Handles, IInv, Refused(i, h) PROVE IInv'
  OBVIOUS
<1>1. UNCHANGED <<started, deleted, reliable, user>>
  BY DEF Refused, Reads
<1>2. \/ (Fails("storage") \/ Fails("listener")) /\ UNCHANGED faults
      \/ /\ Fault(i)
         /\ clients' = [clients EXCEPT ![i] = Close(Line(clients[i]))]
         /\ UNCHANGED <<strategyVars, overlapped, wrong>>
  BY DEF Refused, Reads
<1>3. CASE (Fails("storage") \/ Fails("listener")) /\ UNCHANGED faults
  BY <1>1, <1>3, FailsIInv
<1>4. CASE /\ Fault(i)
           /\ clients' = [clients EXCEPT ![i] = Close(Line(clients[i]))]
           /\ UNCHANGED <<strategyVars, overlapped, wrong>>
  <2>1. Close(Line(clients[i])) \in ClientType /\ ~HasLogin(Close(Line(clients[i])))
    BY LineType, CloseType DEF IInv, TypeOK
  <2>2. faults' \in 0..MaxFaults
    BY <1>4, FaultBound DEF IInv
  <2> QED BY <1>1, <1>4, <2>1, <2>2, SameForReads, OneClientIInv
<1> QED BY <1>2, <1>3, <1>4

LEMMA EndOfFileIInv == \A i \in Pools, h \in Handles : IInv /\ EndOfFile(i, h) => IInv'
<1> SUFFICES ASSUME NEW i \in Pools, NEW h \in Handles, IInv, EndOfFile(i, h) PROVE IInv'
  OBVIOUS
<1>1. UNCHANGED <<started, deleted, reliable, user>>
  BY DEF EndOfFile, Reads
<1>2. \/ Fails("storage") /\ UNCHANGED faults
      \/ /\ Fault(i)
         /\ clients' = [clients EXCEPT ![i] = Close(clients[i])]
         /\ UNCHANGED <<strategyVars, overlapped, wrong>>
  BY DEF EndOfFile, Reads
<1>3. CASE Fails("storage") /\ UNCHANGED faults
  BY <1>1, <1>3, FailsIInv
<1>4. CASE /\ Fault(i)
           /\ clients' = [clients EXCEPT ![i] = Close(clients[i])]
           /\ UNCHANGED <<strategyVars, overlapped, wrong>>
  <2>1. Close(clients[i]) \in ClientType /\ ~HasLogin(Close(clients[i]))
    BY CloseType DEF IInv, TypeOK
  <2>2. faults' \in 0..MaxFaults
    BY <1>4, FaultBound DEF IInv
  <2> QED BY <1>1, <1>4, <2>1, <2>2, SameForReads, OneClientIInv
<1> QED BY <1>2, <1>3, <1>4

LEMMA RedirectIInv == \A i \in Pools, h \in Handles : IInv /\ Redirect(i, h) => IInv'
<1> SUFFICES ASSUME NEW i \in Pools, NEW h \in Handles, IInv, Redirect(i, h) PROVE IInv'
  OBVIOUS
<1>1. UNCHANGED <<started, deleted, reliable, user>>
  BY DEF Redirect, Reads
<1>2. \/ (Fails("storage") \/ Fails("listener")) /\ UNCHANGED faults
      \/ Fault(i) /\ Reconnects(i, [clients EXCEPT ![i] = Line(clients[i])]) /\ UNCHANGED wrong
  BY DEF Redirect, Reads
<1>3. CASE (Fails("storage") \/ Fails("listener")) /\ UNCHANGED faults
  BY <1>1, <1>3, FailsIInv
<1>4. CASE Fault(i) /\ Reconnects(i, [clients EXCEPT ![i] = Line(clients[i])]) /\ UNCHANGED wrong
  <2>1. Line(clients[i]) \in ClientType /\ (HasLogin(Line(clients[i])) => HasLogin(clients[i]))
    BY LineType DEF IInv, TypeOK
  <2>2. faults' \in 0..MaxFaults
    BY <1>4, FaultBound DEF IInv
  <2> QED BY <1>1, <1>4, <2>1, <2>2, ReconnectsIInv
<1> QED BY <1>2, <1>3, <1>4

LEMMA SendIInv == \A i \in Pools : IInv /\ Send(i) => IInv'
<1> SUFFICES ASSUME NEW i \in Pools, IInv, Send(i) PROVE IInv'
  OBVIOUS
<1> DEFINE c == [clients[i] EXCEPT !.expire = TRUE]
<1>1. c \in ClientType /\ (HasLogin(c) => HasLogin(clients[i]))
  BY DEF IInv, TypeOK, ClientType, HasLogin
<1>2. /\ clients' = [clients EXCEPT ![i] = c]
      /\ UNCHANGED <<strategyVars, started, deleted, wrong, overlapped, reliable, faults, user>>
  BY DEF Send, bounds
<1> HIDE DEF c
<1> QED BY <1>1, <1>2, SameForReads, OneClientIInv

LEMMA NextIInv == IInv /\ [NextRedirected]_vars => IInv'
<1> SUFFICES ASSUME IInv, [NextRedirected]_vars PROVE IInv'
  OBVIOUS
<1>1. CASE Connect \/ Stop \/ Delete
  BY <1>1, ConnectIInv, StopIInv, DeleteIInv
<1>2. CASE Network
  <2>1. PICK i \in Pools :
          \/ Expire(i) \/ Resolved(i) \/ Send(i)
          \/ \E h \in Handles :
               OnConnect(i, h) \/ OnHandleClosed(i, h) \/ LoginOk(i, h) \/ Receive(i, h) \/ Refused(i, h) \/ EndOfFile(i, h)
    BY <1>2 DEF Network
  <2> QED BY <2>1, ExpireIInv, ResolvedIInv, SendIInv, OnConnectIInv, OnHandleClosedIInv,
             LoginOkIInv, ReceiveIInv, RefusedIInv, EndOfFileIInv
<1>3. CASE \E i \in Pools, h \in Handles : Redirect(i, h)
  BY <1>3, RedirectIInv
<1>4. CASE UNCHANGED vars
  BY <1>4 DEF vars, strategyVars, bounds, IInv, TypeOK, MinesForActive, LoggedInIsActive
<1> QED BY <1>1, <1>2, <1>3, <1>4 DEF NextRedirected, Next, Over, Quiet

LEMMA Invariance == SpecRedirected => []IInv
BY InitIInv, NextIInv, PTL DEF SpecRedirected

-----------------------------------------------------------------------------
(* Theorems: of SpecRedirected, which has Spec's behaviours and those with a *)
(* server that sends client.reconnect                                        *)

\* What is proved of SpecRedirected holds of the specification that TLC checks
LEMMA Redirections == Spec => SpecRedirected
<1>1. [Next]_vars => [NextRedirected]_vars
  BY DEF NextRedirected
<1> QED BY <1>1, PTL DEF Spec, SpecRedirected

\* Every variable keeps its type: m_index is an index of m_pools, and m_active is -1 or one.
THEOREM TypeCorrect == SpecRedirected => []TypeOK
BY Invariance, PTL DEF IInv

\* The job that is mined is always of the pool that results are sent to.
THEOREM MinesForTheActive == SpecRedirected => []MinesForActive
BY Invariance, PTL DEF IInv

\* No pool but the active one is left logged in, even if several log in at about the
\* same time, come too late, or lost a socket.
THEOREM LoggedInAlone == SpecRedirected => []LoggedInIsActive
BY Invariance, PTL DEF IInv

-----------------------------------------------------------------------------
(* A pool that is active makes way for none but the first *)

NotDisplaced == active # -1 /\ active' # active => active' \in {-1, 0}

LEMMA ReconnectsNotDisplaced ==
  ASSUME NEW i, NEW cs, Reconnects(i, cs)
  PROVE  NotDisplaced
<1>1. active' \in {active, -1}
  BY DEF Reconnects, OnClose, strategyVars
<1> QED BY <1>1 DEF NotDisplaced

LEMMA StepNotDisplaced == [NextRedirected]_vars => NotDisplaced
<1> SUFFICES ASSUME [NextRedirected]_vars PROVE NotDisplaced
  OBVIOUS
<1>1. CASE Connect \/ Stop \/ Delete
  BY <1>1 DEF Connect, Stop, Delete, strategyVars, NotDisplaced
<1>2. ASSUME NEW i \in Pools, Expire(i) \/ Send(i)
      PROVE  NotDisplaced
  BY <1>2 DEF Expire, Send, strategyVars, NotDisplaced
<1>3. ASSUME NEW i \in Pools, Resolved(i)
      PROVE  NotDisplaced
  <2>1. \/ UNCHANGED active
        \/ Reconnects(i, [clients EXCEPT ![i] = [clients[i] EXCEPT !.dns = FALSE]])
    BY <1>3 DEF Resolved, Fails, strategyVars
  <2> QED BY <2>1, ReconnectsNotDisplaced DEF NotDisplaced
<1>4. ASSUME NEW i \in Pools, NEW h \in Handles, OnHandleClosed(i, h)
      PROVE  NotDisplaced
  <2>1. UNCHANGED active \/ Reconnects(i, [clients EXCEPT ![i] = OnClosed(clients[i], h)])
    BY <1>4 DEF OnHandleClosed, Fails, strategyVars
  <2> QED BY <2>1, ReconnectsNotDisplaced DEF NotDisplaced
<1>5. ASSUME NEW i \in Pools, NEW h \in Handles, Redirect(i, h)
      PROVE  NotDisplaced
  <2>1. UNCHANGED active \/ Reconnects(i, [clients EXCEPT ![i] = Line(clients[i])])
    BY <1>5 DEF Redirect, Reads, Fails, strategyVars
  <2> QED BY <2>1, ReconnectsNotDisplaced DEF NotDisplaced
<1>6. ASSUME NEW i \in Pools, NEW h \in Handles, LoginOk(i, h)
      PROVE  NotDisplaced
  <2>1. UNCHANGED active \/ active' = NewActive(i)
    BY <1>6 DEF LoginOk, Reads, Fails, OnLoginSuccess, strategyVars
  <2> QED BY <2>1 DEF NewActive, NotDisplaced
<1>7. ASSUME NEW i \in Pools, NEW h \in Handles,
             OnConnect(i, h) \/ Receive(i, h) \/ Refused(i, h) \/ EndOfFile(i, h)
      PROVE  NotDisplaced
  BY <1>7 DEF OnConnect, Receive, Refused, EndOfFile, Reads, Fails, strategyVars, NotDisplaced
<1>8. CASE UNCHANGED vars
  BY <1>8 DEF vars, strategyVars, NotDisplaced
<1> QED
  BY <1>1, <1>2, <1>3, <1>4, <1>5, <1>6, <1>7, <1>8
     DEF NextRedirected, Next, Network, Over, Quiet

\* While a pool is active only the first pool can take its place.
THEOREM OnlyTheFirstDisplaces == SpecRedirected => BackupsDoNotDisplace
<1>1. [NextRedirected]_vars => [active # -1 /\ active' # active => active' \in {-1, 0}]_vars
  BY StepNotDisplaced DEF NotDisplaced
<1> QED BY <1>1, PTL DEF SpecRedirected, BackupsDoNotDisplace

-----------------------------------------------------------------------------
(* The strategy implements PoolService *)

LEMMA ServiceStep == IInv /\ IInv' /\ NotDisplaced => [Service!PSNext]_<<active, mining>>
<1> SUFFICES ASSUME IInv, IInv', NotDisplaced PROVE [Service!PSNext]_<<active, mining>>
  OBVIOUS
<1>1. mining = active /\ mining' = active' /\ active' \in Pools \union {-1}
  BY DEF IInv, MinesForActive, TypeOK
<1>2. CASE active' = active
  BY <1>1, <1>2
<1>3. CASE active' = -1
  BY <1>1, <1>3 DEF Service!PSNext, Service!Loses
<1>4. CASE active' # active /\ active' # -1
  <2>1. active' \in Pools /\ (active' = 0 \/ active = -1)
    BY <1>1, <1>4 DEF NotDisplaced
  <2>2. Service!Takes(active')
    BY <1>1, <2>1 DEF Service!Takes
  <2> QED BY <2>1, <2>2 DEF Service!PSNext
<1> QED BY <1>2, <1>3, <1>4

\* Whatever libuv, the servers and the owner do, the listener sees one pool at a time, whose
\* jobs it mines, and a pool gives way to none but the first unless it is lost.
THEOREM ImplementsPoolService == SpecRedirected => Implements
<1>1. Init => Service!PSInit
  BY DEF Init, Service!PSInit
<1>2. IInv /\ IInv' /\ [NextRedirected]_vars => [Service!PSNext]_Service!psVars
  BY StepNotDisplaced, ServiceStep DEF Service!psVars
<1> QED BY <1>1, <1>2, Invariance, PTL DEF SpecRedirected, Implements, Service!PSSpec
=============================================================================
