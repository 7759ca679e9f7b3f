------------------------------ MODULE Failover ------------------------------
(***************************************************************************)
(* FailoverStrategy and its clients: the pools are tried in their order,   *)
(* the first has precedence. All of it runs in the event loop, so a        *)
(* callback with every call it makes is one step; libuv's callbacks come   *)
(* in any order, and that of uv_close in the same turn of the loop (Unix)  *)
(* or later (Windows).                                                     *)
(***************************************************************************)
EXTENDS Client, FiniteSets

CONSTANTS N,          \* m_pools.size()
          Reliable,   \* which pools may be the reliable ones, a set of sets
          MaxFaults,  \* bound of the model
          MaxUser     \* bound of the model: stops, connects and deletes

ASSUME FailoverAssumption ==
  N \in Nat \ {0, 1} /\ Reliable \subseteq SUBSET (0..(N - 1)) /\ MaxFaults \in Nat /\ MaxUser \in Nat

Pools == 0..(N - 1)

VARIABLES
  clients,    \* m_pools
  index,      \* m_index
  active,     \* m_active
  mining,     \* the pool of the job the listener has, -1 after onPause
  started,    \* the owner connected the strategy and did not stop it
  deleted,    \* the strategy was deleted
  wrong,      \* the assertion that failed: "no", "listener", "storage"; or a "socket"
              \* that libuv uses was deleted, or a null one used
  overlapped, \* history: a client that had a socket began to connect
  reliable,   \* the pools that answer in time, but for MaxFaults times
  faults,     \* by reliable pools, for the bound
  user        \* for the bound

strategyVars == <<index, active, mining>>
bounds       == <<faults, user>>
vars         == <<clients, strategyVars, started, deleted, wrong, overlapped, reliable, bounds>>

TypeOK ==
  /\ clients \in [Pools -> ClientType]
  /\ index \in Pools
  /\ active \in Pools \union {-1}
  /\ mining \in Pools \union {-1}
  /\ started \in BOOLEAN /\ deleted \in BOOLEAN
  /\ wrong \in {"no", "listener", "storage", "socket"}
  /\ overlapped \in BOOLEAN
  /\ reliable \in Reliable
  /\ faults \in 0..MaxFaults /\ user \in 0..MaxUser

Init ==
  /\ clients = [i \in Pools |-> NewClient]
  /\ index = 0 /\ active = -1 /\ mining = -1
  /\ started = FALSE /\ deleted = FALSE
  /\ wrong = "no" /\ overlapped = FALSE
  /\ reliable \in Reliable
  /\ faults = 0 /\ user = 0

-----------------------------------------------------------------------------
(* What the strategy does when a client calls it *)

\* The next pool is tried when this one failed, the first one only after m_retries times
TriesNext(i, failures) == index = i /\ ~(index = 0 /\ failures < Retries) /\ N - index > 1

\* onClose for client i, when the clients are cs
OnClose(i, failures, cs) ==
  /\ active' = IF active = i THEN -1 ELSE active
  /\ mining' = IF active = i THEN -1 ELSE mining
  /\ IF TriesNext(i, failures)
       THEN /\ index' = index + 1
            /\ overlapped' = (overlapped \/ cs[index + 1].sock # NoHandle)
            /\ \E c \in Connects(cs[index + 1]) : clients' = [cs EXCEPT ![index + 1] = c]
       ELSE clients' = cs /\ UNCHANGED <<index, overlapped>>

\* Client::reconnect and the onClose it calls
Reconnects(i, cs) ==
  IF ~cs[i].listener
    THEN clients' = [cs EXCEPT ![i] = Removed(@)] /\ UNCHANGED <<strategyVars, overlapped>>
  ELSE IF cs[i].failures = -1
    THEN clients' = cs /\ UNCHANGED <<strategyVars, overlapped>>
  ELSE LET c == Reconnect(cs[i]) IN OnClose(i, c.failures, [cs EXCEPT ![i] = c])

\* The first pool always becomes active, another only if none is
NewActiveLast(i) == i
NewActive(i)     == IF i = 0 \/ active = -1 THEN i ELSE active

LosersAfter(a) == {j \in Pools : j > a}
LosersOfAll(a) == Pools \ {a}
Losers(a)      == {j \in Pools : j > 0 /\ j # a}

NewIndex(a) == IF a # active THEN a ELSE index

\* onLoginSuccess, and onJobReceived with the job of the login
OnLoginSuccess(i, cs) ==
  LET a == NewActive(i)
  IN /\ clients' = [j \in Pools |-> IF j \in Losers(a) THEN Disconnect(cs[j]) ELSE cs[j]]
     /\ active' = a
     /\ index' = NewIndex(a)
     /\ mining' = IF a = i THEN i ELSE mining

OnJobReceived(i) == mining' = IF active = i THEN i ELSE mining

-----------------------------------------------------------------------------
(* The owner of the strategy *)

May == wrong = "no" /\ ~deleted /\ user < MaxUser /\ user' = user + 1

Connect ==
  /\ May /\ ~started
  /\ started' = TRUE
  /\ overlapped' = (overlapped \/ clients[index].sock # NoHandle)
  /\ \E c \in Connects(clients[index]) : clients' = [clients EXCEPT ![index] = c]
  /\ UNCHANGED <<strategyVars, deleted, wrong, reliable, faults>>

Stop ==
  /\ May /\ started
  /\ started' = FALSE
  /\ clients' = [i \in Pools |-> Disconnect(clients[i])]
  /\ index' = 0 /\ active' = -1 /\ mining' = -1
  /\ UNCHANGED <<deleted, wrong, overlapped, reliable, faults>>

Delete ==
  /\ May
  /\ deleted' = TRUE /\ started' = FALSE
  /\ clients' = [i \in Pools |-> DeleteLater(clients[i])]
  /\ UNCHANGED <<strategyVars, wrong, overlapped, reliable, faults>>

-----------------------------------------------------------------------------
(* Time, the network and the servers *)

\* What a reliable pool does no more than MaxFaults times
Fault(i) ==
  IF i \in reliable THEN faults < MaxFaults /\ faults' = faults + 1 ELSE faults' = faults

Fails(assertion) ==
  /\ wrong' = assertion
  /\ UNCHANGED <<clients, strategyVars, overlapped>>

\* tick, after the deadline of client i
Expire(i) ==
  LET c == clients[i]
  IN /\ wrong = "no" /\ ~deleted /\ c.expire
     /\ \/ /\ c.state \in {"Connected", "Connecting"}
           /\ Fault(i)
           /\ clients' = [clients EXCEPT ![i] = Close(c)]
           /\ UNCHANGED overlapped
        \/ /\ c.state = "Reconnecting"
           /\ \E d \in Connects(c) : clients' = [clients EXCEPT ![i] = d]
           /\ overlapped' = (overlapped \/ c.sock # NoHandle)
           /\ UNCHANGED faults
     /\ UNCHANGED <<strategyVars, started, deleted, wrong, reliable, user>>

\* onResolved
Resolved(i) ==
  LET c == [clients[i] EXCEPT !.dns = FALSE]
  IN /\ wrong = "no" /\ clients[i].dns
     /\ IF ~c.listener THEN Fails("listener") /\ UNCHANGED faults
        ELSE /\ \/ /\ \E h \in FreeHandles(c) : clients' = [clients EXCEPT ![i] = ConnectTo(c, h)]
                   /\ UNCHANGED <<strategyVars, overlapped, faults>>
                \/ Fault(i) /\ Reconnects(i, [clients EXCEPT ![i] = c])
             /\ UNCHANGED wrong
     /\ UNCHANGED <<started, deleted, reliable, user>>

\* The static onConnect; a callback first finds its client in the Storage
OnConnect(i, h) ==
  LET c == clients[i]
  IN /\ wrong = "no" /\ c.conn[h] \in {"connecting", "canceled"}
     /\ IF ~c.here THEN Fails("storage") /\ UNCHANGED faults
        ELSE \/ /\ c.conn[h] = "connecting"
                /\ IF c.state # "Connected" /\ c.sock = NoHandle THEN Fails("socket")
                   ELSE /\ clients' = [clients EXCEPT ![i] = OnConnected(c, h)]
                        /\ UNCHANGED <<strategyVars, wrong, overlapped>>
                /\ UNCHANGED faults
             \/ /\ c.conn[h] = "connecting" => Fault(i)
                /\ c.conn[h] = "canceled" => UNCHANGED faults
                /\ clients' = [clients EXCEPT ![i] = OnConnectFailed(c, h)]
                /\ UNCHANGED <<strategyVars, wrong, overlapped>>
     /\ UNCHANGED <<started, deleted, reliable, user>>

\* The static onClose; it deletes what m_socket points to
OnHandleClosed(i, h) ==
  LET c == clients[i]
  IN /\ wrong = "no" /\ c.conn[h] = "closing"
     /\ IF ~c.here THEN Fails("storage")
        ELSE IF c.sock \notin {h, NoHandle} THEN Fails("socket")
        ELSE Reconnects(i, [clients EXCEPT ![i] = OnClosed(c, h)]) /\ UNCHANGED wrong
     /\ UNCHANGED <<started, deleted, reliable, bounds>>

\* onRead, when something came that the handler on does; an end of file needs no listener
Reads(i, h, on, needsListener) ==
  LET c == clients[i]
  IN /\ wrong = "no" /\ c.conn[h] \in Reading
     /\ IF ~c.here THEN Fails("storage") /\ UNCHANGED faults
        ELSE IF ~c.listener /\ needsListener THEN Fails("listener") /\ UNCHANGED faults
        ELSE on /\ UNCHANGED wrong
     /\ UNCHANGED <<started, deleted, reliable, user>>

LoginOk(i, h) ==
  /\ clients[i].conn[h] = "asked"
  /\ Reads(i, h, /\ OnLoginSuccess(i, [clients EXCEPT ![i] = LoggedIn(@, h)])
                 /\ UNCHANGED <<overlapped, faults>>, TRUE)

\* A job, or any line that is no answer to the login
Receive(i, h) ==
  Reads(i, h, /\ clients' = [clients EXCEPT ![i] = Line(@)]
              /\ OnJobReceived(i)
              /\ UNCHANGED <<index, active, overlapped, faults>>, TRUE)

\* A line with which the client closes: the login refused, a job it cannot parse
Refused(i, h) ==
  Reads(i, h, /\ Fault(i)
              /\ clients' = [clients EXCEPT ![i] = Close(Line(@))]
              /\ UNCHANGED <<strategyVars, overlapped>>, TRUE)

EndOfFile(i, h) ==
  Reads(i, h, /\ Fault(i)
              /\ clients' = [clients EXCEPT ![i] = Close(@)]
              /\ UNCHANGED <<strategyVars, overlapped>>, FALSE)

\* client.reconnect, which leaves the socket open
Redirect(i, h) ==
  Reads(i, h, Fault(i) /\ Reconnects(i, [clients EXCEPT ![i] = Line(@)]), TRUE)

\* A result or a ping is sent: an answer is due
Send(i) ==
  LET c == clients[i]
  IN /\ wrong = "no" /\ ~deleted
     /\ c.state = "Connected" /\ c.sock # NoHandle /\ c.conn[c.sock] = "in"
     /\ clients' = [clients EXCEPT ![i].expire = TRUE]
     /\ UNCHANGED <<strategyVars, started, deleted, wrong, overlapped, reliable, bounds>>

\* The assertion failed, or memory is not what it was: the model ends
Over == wrong # "no" /\ UNCHANGED vars

\* All clients are gone, or no one waits for anything
Quiet ==
  /\ user = MaxUser \/ deleted
  /\ \A i \in Pools : LET c == clients[i] IN
       ~c.dns /\ \A h \in Handles : c.conn[h] \in {"free", "idle"}
  /\ UNCHANGED vars

Network ==
  \E i \in Pools :
    \/ Expire(i) \/ Resolved(i) \/ Send(i)
    \/ \E h \in Handles :
         OnConnect(i, h) \/ OnHandleClosed(i, h) \/ LoginOk(i, h) \/ Receive(i, h) \/ Refused(i, h) \/ EndOfFile(i, h)

Next == Connect \/ Stop \/ Delete \/ Network \/ Over \/ Quiet

\* With servers that send client.reconnect
NextRedirected == Next \/ \E i \in Pools, h \in Handles : Redirect(i, h)

Spec           == Init /\ [][Next]_vars
SpecRedirected == Init /\ [][NextRedirected]_vars

\* The loop runs its timers and callbacks; getaddrinfo returns, a connection attempt
\* ends, and a reliable pool answers the login
FairSpec ==
  /\ Spec
  /\ \A i \in Pools :
       /\ WF_vars(Expire(i)) /\ WF_vars(Resolved(i))
       /\ \A h \in Handles :
            /\ WF_vars(OnConnect(i, h)) /\ WF_vars(OnHandleClosed(i, h))
            /\ WF_vars(i \in reliable /\ LoginOk(i, h))

-----------------------------------------------------------------------------
(* Properties *)

\* A callback of libuv finds the client it was made for in the Storage, whose get
\* asserts it: a client is deleted only after the close callback of its socket.
ClientsAreFound == wrong # "storage"

\* No assertion fails, and no socket is deleted that libuv still uses, as long as no
\* client that has a socket is connected again. Where it is: the strategy goes on to a
\* client whose disconnect() did nothing, because it was looking up its address, or
\* whose socket is still closing; or a server sent client.reconnect.
CallbacksFindTheirClient == ~overlapped => wrong = "no"

\* Results are sent by the active client: it has logged in and its connection is
\* there, or the strategy is about to hear that it closed.
ActiveIsConnected ==
  active # -1 /\ ~deleted /\ ~overlapped =>
    LET c == clients[active]
    IN /\ c.sock # NoHandle
       /\ <<c.state, c.conn[c.sock]>> \in {<<"Connected", "in">>, <<"Closing", "closing">>}

\* A pool that is not the active one is not left logged in.
LoggedInIsActive == \A i \in Pools : HasLogin(clients[i]) /\ ~deleted => i = active

\* The job there is to mine is of the pool that results are sent to, and there is none
\* when no pool is active.
MinesForActive == mining = active

\* While started, the client the strategy is at is on its way to a connection or has
\* one, and is not one the strategy disconnected.
IndexIsSought ==
  started /\ ~overlapped => clients[index].failures # -1 /\ Trying(clients[index])

\* To its listener the strategy is one pool at a time, whichever clients look up, connect,
\* log in or fail in whatever order, and whenever the owner stops or deletes it.
Service == INSTANCE PoolService WITH PoolSet <- Pools, serves <- active, mines <- mining

Implements == Service!PSSpec

\* While a pool is active only the first can take its place.
BackupsDoNotDisplace == [][active # -1 /\ active' # active => active' \in {-1, 0}]_vars

\* A first pool that works again is mined for again: however often it failed and the
\* strategy went on to a backup, once it is reliable it comes back, takes the place of
\* the backup and keeps it, whatever the others do. (Unless memory is gone, and for an
\* owner that calls the strategy once: after a stop() in a lookup and a new connect
\* the first client may be one that was disconnected, which nobody connects again.)
PrimaryReturns ==
  0 \in reliable => <>(wrong # "no" \/ user > 1) \/ <>[](started => active = 0)

\* If it is the second of two, again and again a pool is active, or one hangs that sent
\* some line but no answer to the login.
BackupServes ==
  1 \in reliable => <>overlapped \/ []<>(started => active # -1 \/ \E i \in Pools : Hangs(clients[i]))
=============================================================================
