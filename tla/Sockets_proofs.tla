--------------------------- MODULE Sockets_proofs ---------------------------
(***************************************************************************)
(* Proofs about Failover, continued: what a client's state, its m_socket   *)
(* and libuv's handles say of each other until a client that has a socket  *)
(* begins to connect, for any number of pools, handles and retries.        *)
(*                                                                         *)
(* A server that sends client.reconnect leaves a client that waits to      *)
(* connect with a socket, and perhaps without a deadline. What is proved   *)
(* has a parameter R, whether servers may send it: that no assertion fails *)
(* is proved of SpecRedirected, the rest of Spec.                          *)
(***************************************************************************)
EXTENDS Failover_proofs

-----------------------------------------------------------------------------
(* One client *)

\* What libuv knows of the socket a client has
Conn(c) == c.conn[c.sock]

\* libuv has one handle at most, that which m_socket points to, and it is where the state says
SocketFits(c) ==
  /\ c.sock # NoHandle => Conn(c) # "free"
  /\ \A h \in Handles : c.conn[h] # "free" => c.sock = h
  /\ c.state \in {"Unconnected", "HostLookup"} => c.sock = NoHandle
  /\ c.state = "Reconnecting" /\ c.sock # NoHandle => Conn(c) \in Reading
  /\ c.state = "Connecting" => c.sock # NoHandle /\ Conn(c) = "connecting"
  /\ c.state = "Connected" => c.sock # NoHandle /\ Conn(c) \in Reading
  /\ c.state = "Closing" => c.sock # NoHandle /\ Conn(c) \in {"canceled", "closing"}

\* A client without listener only waits for its socket to close; one that is deleted for nothing
OwnerFits(c) ==
  /\ c.dns => c.state = "HostLookup" /\ c.listener
  /\ c.listener => c.here
  /\ ~c.listener /\ c.here => c.state = "Closing"
  /\ ~c.here => c.sock = NoHandle

\* A client that was not disconnected has a lookup or a deadline that takes it further, and
\* one that waits to connect has no socket
TimeFits(c) ==
  /\ c.state = "Reconnecting" => c.sock = NoHandle
  /\ c.failures # -1 =>
       /\ c.state \in {"Connecting", "Reconnecting"} => c.expire
       /\ c.state = "HostLookup" => c.dns

Sound(c, R) == c \in ClientType /\ SocketFits(c) /\ OwnerFits(c) /\ (R \/ TimeFits(c))

-----------------------------------------------------------------------------
(* The strategy *)

\* The active client is where results can be sent to
Served(c) ==
  c.failures # -1 /\ c.sock # NoHandle /\ <<c.state, Conn(c)>> \in {<<"Connected", "in">>, <<"Closing", "closing">>}

\* The client the strategy is at began to connect after it was disconnected, if it was
Sought(c) == c.failures # -1 /\ c.state # "Unconnected"

\* Whom the strategy is at, and serves
PlaceFits(cs) ==
  /\ active # -1 => index = active
  /\ active # -1 /\ ~deleted => Served(cs[active])
  /\ started => ~deleted /\ Sought(cs[index])

StrategyInv(cs, R) ==
  /\ \A i \in Pools : Sound(cs[i], R) /\ (cs[i].listener <=> ~deleted)
  /\ R \/ PlaceFits(cs)

SocketInv(R) == ~overlapped => wrong = "no" /\ StrategyInv(clients, R)

-----------------------------------------------------------------------------
(* What the methods of a client do to it *)

LEMMA SetStateIs ==
  ASSUME NEW c \in ClientType, NEW s \in States
  PROVE  /\ SetState(c, s) \in ClientType /\ SetState(c, s).state = s
         /\ SetState(c, s).failures = c.failures /\ SetState(c, s).dns = c.dns /\ SetState(c, s).sock = c.sock
         /\ SetState(c, s).listener = c.listener /\ SetState(c, s).here = c.here /\ SetState(c, s).conn = c.conn
         /\ c.state # s /\ s \in {"Connecting", "Reconnecting"} => SetState(c, s).expire
         /\ s \in {"Connected", "Closing", "Unconnected"} => SetState(c, s).expire = c.expire
  BY DEF SetState, ClientType, States

\* Of a client whose socket is where its state says, or has just failed to connect
LEMMA CloseIs ==
  ASSUME NEW c \in ClientType, Closes(c)
  PROVE  /\ c.sock \in Handles
         /\ Close(c) \in ClientType /\ Close(c).state = "Closing"
         /\ Close(c).failures = c.failures /\ Close(c).dns = c.dns /\ Close(c).sock = c.sock
         /\ Close(c).listener = c.listener /\ Close(c).here = c.here
         /\ Close(c).conn = [c.conn EXCEPT ![c.sock] = Shut(c.conn[c.sock])]
<1> DEFINE d == SetState(c, "Closing")
<1>1. /\ d \in ClientType /\ d.state = "Closing" /\ d.failures = c.failures /\ d.dns = c.dns /\ d.sock = c.sock
      /\ d.listener = c.listener /\ d.here = c.here /\ d.conn = c.conn
  BY SetStateIs DEF States
<1>2. c.sock \in Handles /\ Shut(d.conn[c.sock]) \in Status
  BY <1>1, ShutType DEF Closes, ClientType
<1>3. Close(c) = [d EXCEPT !.conn[c.sock] = Shut(d.conn[c.sock])]
  BY DEF Close
<1> HIDE DEF d
<1> QED BY <1>1, <1>2, <1>3 DEF ClientType

LEMMA CloseSound ==
  ASSUME NEW R \in BOOLEAN, NEW c, Sound(c, R)
  PROVE  /\ Sound(Close(c), R)
         /\ Close(c).failures = c.failures /\ Close(c).listener = c.listener
         /\ Served(c) => Served(Close(c))
         /\ Sought(c) => Sought(Close(c))
<1>1. CASE ~Closes(c)
  BY <1>1 DEF Close
<1>2. CASE Closes(c)
  <2> DEFINE d == Close(c)
  <2>1. /\ c.sock \in Handles /\ c \in ClientType
        /\ d \in ClientType /\ d.state = "Closing" /\ d.failures = c.failures /\ d.dns = c.dns /\ d.sock = c.sock
        /\ d.listener = c.listener /\ d.here = c.here
        /\ d.conn = [c.conn EXCEPT ![c.sock] = Shut(c.conn[c.sock])]
    BY <1>2, CloseIs DEF Sound
  <2> HIDE DEF d
  <2>2. c.state \in {"Connecting", "Connected", "Reconnecting"} /\ c.sock # NoHandle
    BY <1>2, <2>1 DEF Closes, Sound, SocketFits, ClientType, States
  <2>3. Conn(c) \in {"connecting"} \union Reading
    BY <2>2 DEF Sound, SocketFits
  <2>4. Conn(d) = Shut(Conn(c)) /\ \A h \in Handles : h # c.sock => d.conn[h] = c.conn[h]
    BY <2>1 DEF Conn, ClientType
  <2>5. Conn(d) \in {"canceled", "closing"} /\ (Conn(c) = "in" => Conn(d) = "closing")
    BY <2>3, <2>4 DEF Shut, Reading
  <2>6. SocketFits(d)
    BY <2>1, <2>2, <2>4, <2>5 DEF SocketFits, Sound
  <2>7. OwnerFits(d)
    BY <2>1, <2>2 DEF OwnerFits, Sound
  <2>8. TimeFits(d)
    BY <2>1 DEF TimeFits
  <2>9. Served(c) => Served(d)
    BY <2>1, <2>2, <2>5 DEF Served
  <2> QED BY <2>1, <2>6, <2>7, <2>8, <2>9 DEF Sound, Sought, d
<1> QED BY <1>1, <1>2

LEMMA DisconnectSound ==
  ASSUME NEW R \in BOOLEAN, NEW c, Sound(c, R)
  PROVE  Sound(Disconnect(c), R) /\ Disconnect(c).listener = c.listener
<1> DEFINE d == [c EXCEPT !.expire = FALSE, !.failures = -1]
<1>1. /\ d \in ClientType /\ d.state = c.state /\ d.failures = -1 /\ d.dns = c.dns /\ d.sock = c.sock
      /\ d.listener = c.listener /\ d.here = c.here /\ d.conn = c.conn
  BY FailuresType DEF ClientType, Sound
<1> HIDE DEF d
<1>2. Sound(d, R)
  BY <1>1 DEF Sound, SocketFits, OwnerFits, TimeFits, Conn
<1> QED BY <1>1, <1>2, CloseSound DEF Disconnect, d

LEMMA RemovedSound ==
  ASSUME NEW R \in BOOLEAN, NEW c \in ClientType, SocketFits(c), c.sock = NoHandle, ~c.listener, c.failures = -1 \/ c.state = "Unconnected"
  PROVE  Sound(Removed(c), R) /\ ~Removed(c).listener
<1> DEFINE d == Removed(c)
<1>1. /\ d \in ClientType /\ d.state = c.state /\ d.failures = c.failures /\ ~d.dns /\ d.sock = c.sock
      /\ d.listener = c.listener /\ ~d.here /\ d.conn = c.conn
  BY DEF ClientType, Removed
<1> HIDE DEF d
<1>2. Sound(d, R)
  BY <1>1 DEF Sound, SocketFits, OwnerFits, TimeFits, Conn
<1> QED BY <1>1, <1>2 DEF d

\* It is deleted at once, or has a socket that closes
LEMMA DeleteLaterSound ==
  ASSUME NEW R \in BOOLEAN, NEW c, Sound(c, R)
  PROVE  Sound(DeleteLater(c), R) /\ ~DeleteLater(c).listener
<1>1. CASE ~c.listener
  BY <1>1 DEF DeleteLater
<1>2. CASE c.listener
  <2> DEFINE e == [[c EXCEPT !.listener = FALSE] EXCEPT !.expire = FALSE, !.failures = -1]
             d == Close(e)
  <2>1. /\ e \in ClientType /\ e.state = c.state /\ e.failures = -1 /\ e.dns = c.dns /\ e.sock = c.sock
        /\ ~e.listener /\ e.here = c.here /\ e.conn = c.conn
    BY FailuresType DEF ClientType, Sound
  <2>2. DeleteLater(c) = IF d.state = "Closing" /\ d.sock # NoHandle THEN d ELSE Removed(d)
    BY <1>2 DEF DeleteLater, Disconnect
  <2> HIDE DEF e
  <2>3. SocketFits(e)
    BY <2>1 DEF SocketFits, Sound, Conn
  <2>4. CASE Closes(e)
    <3>1. /\ e.sock \in Handles
          /\ d \in ClientType /\ d.state = "Closing" /\ d.failures = -1 /\ d.dns = e.dns /\ d.sock = e.sock
          /\ ~d.listener /\ d.here = e.here
          /\ d.conn = [e.conn EXCEPT ![e.sock] = Shut(e.conn[e.sock])]
      BY <2>1, <2>4, CloseIs
    <3> HIDE DEF d
    <3>2. c.state \in {"Connecting", "Connected", "Reconnecting"} /\ c.sock # NoHandle
      BY <2>1, <2>4 DEF Closes, Sound, SocketFits, ClientType, States
    <3>3. Conn(d) = Shut(Conn(c)) /\ \A h \in Handles : h # c.sock => d.conn[h] = c.conn[h]
      BY <2>1, <3>1 DEF Conn, ClientType
    <3>4. Conn(d) \in {"canceled", "closing"}
      BY <3>2, <3>3 DEF Shut, Reading, Sound, SocketFits
    <3>5. SocketFits(d)
      BY <2>1, <3>1, <3>2, <3>3, <3>4 DEF SocketFits, Sound
    <3>6. OwnerFits(d) /\ TimeFits(d)
      BY <1>2, <2>1, <3>1, <3>2 DEF OwnerFits, TimeFits, Sound
    <3>7. DeleteLater(c) = d
      BY <2>1, <2>2, <3>1, <3>2
    <3> QED BY <3>1, <3>5, <3>6, <3>7 DEF Sound
  <2>5. CASE ~Closes(e)
    <3>1. d = e
      BY <2>5 DEF Close
    <3>2. CASE e.state = "Closing"
      <4>1. e.sock # NoHandle /\ ~e.dns
        BY <2>1, <3>2 DEF Sound, SocketFits, OwnerFits
      <4>2. OwnerFits(e) /\ TimeFits(e)
        BY <1>2, <2>1, <3>2, <4>1 DEF OwnerFits, TimeFits, Sound
      <4>3. DeleteLater(c) = e
        BY <2>2, <3>1, <3>2, <4>1
      <4> QED BY <2>1, <2>3, <4>2, <4>3 DEF Sound
    <3>3. CASE e.state # "Closing"
      <4>1. e.sock = NoHandle
        BY <2>3, <2>5, <3>3 DEF Closes, SocketFits
      <4>2. DeleteLater(c) = Removed(e)
        BY <2>2, <3>1, <3>3
      <4> QED BY <2>1, <2>3, <4>1, <4>2, RemovedSound
    <3> QED BY <3>2, <3>3
  <2> QED BY <2>4, <2>5
<1> QED BY <1>1, <1>2

\* A client that libuv knows nothing of
Free(c) == c \in ClientType /\ c.sock = NoHandle /\ (\A h \in Handles : c.conn[h] = "free") /\ c.listener /\ c.here

LEMMA ConnectToSound ==
  ASSUME NEW R \in BOOLEAN, NEW c, Free(c), c.state = "HostLookup", NEW h \in Handles
  PROVE  /\ Sound(ConnectTo(c, h), R) /\ ConnectTo(c, h).listener
         /\ ConnectTo(c, h).failures = c.failures /\ ConnectTo(c, h).state = "Connecting"
<1> DEFINE d == SetState(c, "Connecting")
           e == ConnectTo(c, h)
<1>1. /\ d \in ClientType /\ d.state = "Connecting" /\ d.failures = c.failures /\ d.listener = c.listener
      /\ d.here = c.here /\ d.conn = c.conn /\ d.expire
  BY SetStateIs DEF States, Free
<1>2. e = [d EXCEPT !.dns = FALSE, !.sock = h, !.conn[h] = "connecting"]
  BY DEF ConnectTo
<1>3. e \in ClientType
  BY ConnectToType DEF Free
<1> HIDE DEF d
<1>4. /\ e.state = "Connecting" /\ e.failures = c.failures /\ ~e.dns /\ e.sock = h /\ e.listener /\ e.here /\ e.expire
      /\ e.conn = [c.conn EXCEPT ![h] = "connecting"]
  <2>1. e.conn = [c.conn EXCEPT ![h] = "connecting"]
    BY <1>1, <1>2 DEF ClientType
  <2>2. e.state = d.state /\ e.failures = d.failures /\ ~e.dns /\ e.sock = h
    BY <1>1, <1>2 DEF ClientType
  <2>3. e.listener = d.listener /\ e.here = d.here /\ e.expire = d.expire
    BY <1>1, <1>2 DEF ClientType
  <2> QED BY <1>1, <2>1, <2>2, <2>3 DEF Free
<1> HIDE DEF e
<1>5. h # NoHandle
  BY ClientAssumption
<1>6. SocketFits(e)
  BY <1>4, <1>5 DEF SocketFits, Conn, Free, ClientType
<1>7. OwnerFits(e) /\ TimeFits(e)
  BY <1>4 DEF OwnerFits, TimeFits
<1> QED BY <1>3, <1>4, <1>6, <1>7 DEF Sound, e

LEMMA FreeIfNoSocket ==
  ASSUME NEW R \in BOOLEAN, NEW c, Sound(c, R), c.sock = NoHandle, c.listener
  PROVE  Free(c)
  BY ClientAssumption DEF Free, Sound, SocketFits, OwnerFits

LEMMA ConnectsSound ==
  ASSUME NEW R \in BOOLEAN, NEW c, Sound(c, R), c.sock = NoHandle, c.listener, NEW d \in Connects(c)
  PROVE  Sound(d, R) /\ d.listener /\ Sought(d)
<1> DEFINE s == SetState(c, "HostLookup")
           r == Resolve(c)
<1>1. Free(c)
  BY FreeIfNoSocket
<1>2. /\ s \in ClientType /\ s.state = "HostLookup" /\ s.sock = NoHandle /\ s.listener
      /\ s.here /\ s.conn = c.conn
  BY <1>1, SetStateIs DEF States, Free
<1>3. r = [s EXCEPT !.failures = IF s.failures = -1 THEN 0 ELSE s.failures, !.dns = TRUE]
  BY DEF Resolve
<1> HIDE DEF s
<1> DEFINE f == IF s.failures = -1 THEN 0 ELSE s.failures
<1>8. f \in -1..Retries /\ f # -1
  BY <1>2, FailuresType DEF ClientType
<1>9. r = [s EXCEPT !.failures = f, !.dns = TRUE]
  BY <1>3
<1> HIDE DEF f, r
<1>4. Free(r) /\ r.state = "HostLookup" /\ r.failures # -1 /\ r.dns
  BY <1>1, <1>2, <1>8, <1>9 DEF Free, ClientType
<1>5. Sound(r, R)
  BY <1>4 DEF Free, Sound, SocketFits, OwnerFits, TimeFits
<1>6. CASE d = r
  BY <1>4, <1>5, <1>6 DEF Sought, Free
<1>7. CASE \E h \in Handles : d = ConnectTo(r, h)
  BY <1>4, <1>7, ConnectToSound DEF Sought
<1> QED BY <1>6, <1>7 DEF Connects, FreeHandles, r

LEMMA ReconnectSound ==
  ASSUME NEW R \in BOOLEAN, NEW c, Free(c), ~c.dns, c.failures # -1, c.state # "Reconnecting"
  PROVE  Sound(Reconnect(c), R) /\ Reconnect(c).listener /\ Sought(Reconnect(c))
<1> DEFINE d == SetState(c, "Reconnecting")
           e == Reconnect(c)
<1>1. /\ d \in ClientType /\ d.state = "Reconnecting" /\ d.sock = NoHandle /\ d.listener /\ d.failures = c.failures
      /\ d.here /\ d.conn = c.conn /\ d.expire /\ ~d.dns
  BY SetStateIs DEF States, Free
<1>2. e = [d EXCEPT !.failures = IF d.failures < Retries THEN d.failures + 1 ELSE d.failures]
  BY DEF Reconnect
<1>3. e \in ClientType
  BY ReconnectType DEF Free
<1> HIDE DEF d
<1>4. d.failures \in 0..Retries
  BY <1>1 DEF ClientType
<1>5. /\ e.state = "Reconnecting" /\ e.sock = NoHandle /\ e.listener /\ e.here /\ e.conn = c.conn /\ e.expire /\ ~e.dns
      /\ e.failures = IF d.failures < Retries THEN d.failures + 1 ELSE d.failures
  BY <1>1, <1>2 DEF ClientType
<1>6. e.failures # -1
  BY <1>4, <1>5
<1> HIDE DEF e
<1>7. SocketFits(e) /\ OwnerFits(e) /\ TimeFits(e)
  BY <1>5 DEF SocketFits, OwnerFits, TimeFits, Free
<1> QED BY <1>3, <1>5, <1>6, <1>7 DEF Sound, Sought, e

\* What the state of a client with a handle is, from where the handle is
LEMMA HandleTells ==
  ASSUME NEW R \in BOOLEAN, NEW c, Sound(c, R), NEW h \in Handles, c.conn[h] # "free"
  PROVE  /\ c.sock = h /\ h # NoHandle /\ Conn(c) = c.conn[h] /\ c.here /\ ~c.dns
         /\ \A g \in Handles : g # h => c.conn[g] = "free"
         /\ c.conn[h] = "connecting" => c.state = "Connecting" /\ c.listener
         /\ c.conn[h] \in Reading => c.listener /\ (c.state = "Connected" \/ (R /\ c.state = "Reconnecting"))
         /\ c.conn[h] \in {"canceled", "closing"} => c.state = "Closing"
<1>1. c.sock = h /\ h # NoHandle /\ Conn(c) = c.conn[h] /\ \A g \in Handles : g # h => c.conn[g] = "free"
  BY ClientAssumption DEF Sound, SocketFits, Conn
<1>2. c.state \in {"Connecting", "Connected", "Closing", "Reconnecting"} /\ (c.state = "Reconnecting" => R)
  BY <1>1 DEF Sound, SocketFits, TimeFits, ClientType, States
<1>3. c.here /\ ~c.dns /\ (c.state # "Closing" => c.listener)
  BY <1>1, <1>2 DEF Sound, OwnerFits
<1>4. /\ c.state = "Connecting" => c.conn[h] = "connecting"
      /\ c.state \in {"Connected", "Reconnecting"} => c.conn[h] \in Reading
      /\ c.state = "Closing" => c.conn[h] \in {"canceled", "closing"}
  BY <1>1 DEF Sound, SocketFits
<1> QED BY <1>1, <1>2, <1>3, <1>4 DEF Reading

LEMMA OnConnectedSound ==
  ASSUME NEW R \in BOOLEAN, NEW c, Sound(c, R), NEW h \in Handles, c.conn[h] = "connecting"
  PROVE  LET d == OnConnected(c, h) IN
           /\ Sound(d, R) /\ d.failures = c.failures /\ d.listener = c.listener /\ d.state = "Connected"
           /\ ~Served(c)
<1> DEFINE b == [c EXCEPT !.conn[h] = "idle"]
           s == SetState(b, "Connected")
           d == OnConnected(c, h)
<1>1. /\ c \in ClientType /\ c.sock = h /\ h # NoHandle /\ Conn(c) = "connecting" /\ c.here /\ ~c.dns
      /\ \A g \in Handles : g # h => c.conn[g] = "free"
      /\ c.state = "Connecting" /\ c.listener
  BY HandleTells DEF Sound
<1>2. /\ b \in ClientType /\ b.state = "Connecting" /\ b.failures = c.failures /\ ~b.dns /\ b.sock = h
      /\ b.listener /\ b.here /\ b.conn = [c.conn EXCEPT ![h] = "idle"]
  BY <1>1 DEF ClientType, Status
<1> HIDE DEF b
<1>3. /\ s \in ClientType /\ s.state = "Connected" /\ s.failures = c.failures /\ ~s.dns /\ s.sock = h
      /\ s.listener /\ s.here /\ s.conn = [c.conn EXCEPT ![h] = "idle"]
  BY <1>2, SetStateIs DEF States
<1> HIDE DEF s
<1>4. d = Handshake(s)
  BY <1>1 DEF OnConnected, b, s
<1>5. s.conn[h] = "idle"
  BY <1>1, <1>3 DEF ClientType
<1>6. d = [s EXCEPT !.conn[h] = "asked", !.expire = TRUE]
  BY <1>1, <1>3, <1>4, <1>5 DEF Handshake
<1> HIDE DEF d
<1>7. /\ d \in ClientType /\ d.state = "Connected" /\ d.failures = c.failures /\ ~d.dns /\ d.sock = h
      /\ d.listener /\ d.here /\ d.conn = [c.conn EXCEPT ![h] = "asked"]
  BY <1>1, <1>3, <1>6 DEF ClientType, Status
<1>8. Conn(d) = "asked" /\ \A g \in Handles : d.conn[g] # "free" => g = h
  BY <1>1, <1>7 DEF Conn, ClientType
<1>9. SocketFits(d) /\ OwnerFits(d) /\ TimeFits(d)
  BY <1>1, <1>7, <1>8 DEF SocketFits, OwnerFits, TimeFits, Reading
<1> QED BY <1>1, <1>7, <1>9 DEF Sound, Served, d

LEMMA OnConnectFailedSound ==
  ASSUME NEW R \in BOOLEAN, NEW c, Sound(c, R), NEW h \in Handles, c.conn[h] \in {"connecting", "canceled"}
  PROVE  LET d == OnConnectFailed(c, h) IN
           /\ Sound(d, R) /\ d.failures = c.failures /\ d.listener = c.listener /\ d.state = "Closing"
           /\ ~Served(c)
<1> DEFINE b == [c EXCEPT !.conn[h] = IF @ = "canceled" THEN "closing" ELSE "idle"]
           d == OnConnectFailed(c, h)
<1>1. /\ c \in ClientType /\ c.sock = h /\ h # NoHandle /\ Conn(c) = c.conn[h] /\ c.here /\ ~c.dns
      /\ \A g \in Handles : g # h => c.conn[g] = "free"
      /\ c.conn[h] = "connecting" => c.state = "Connecting" /\ c.listener
      /\ c.conn[h] = "canceled" => c.state = "Closing"
  BY HandleTells DEF Sound
<1>2. /\ b \in ClientType /\ b.state = c.state /\ b.failures = c.failures /\ ~b.dns /\ b.sock = h
      /\ b.listener = c.listener /\ b.here
      /\ b.conn = [c.conn EXCEPT ![h] = IF c.conn[h] = "canceled" THEN "closing" ELSE "idle"]
  BY <1>1 DEF ClientType, Status
<1>3. d = IF c.state = "Connecting" THEN Close(b) ELSE b
  BY DEF OnConnectFailed
<1> HIDE DEF b, d
<1>4. /\ d \in ClientType /\ d.state = "Closing" /\ d.failures = c.failures /\ ~d.dns /\ d.sock = h
      /\ d.listener = c.listener /\ d.here
      /\ d.conn = [c.conn EXCEPT ![h] = "closing"]
  <2>1. CASE c.conn[h] = "canceled"
    BY <1>1, <1>2, <1>3, <2>1
  <2>2. CASE c.conn[h] = "connecting"
    <3>1. Closes(b) /\ b.conn[h] = "idle" /\ d = Close(b)
      BY <1>1, <1>2, <1>3, <2>2 DEF Closes, ClientType
    <3>2. d.conn = [b.conn EXCEPT ![h] = Shut(b.conn[h])]
      BY <1>2, <3>1, CloseIs
    <3>3. Shut("idle") = "closing"
      BY DEF Shut
    <3>4. d.conn = [c.conn EXCEPT ![h] = "closing"]
      BY <1>1, <1>2, <3>1, <3>2, <3>3 DEF ClientType
    <3>5. /\ d \in ClientType /\ d.state = "Closing" /\ d.failures = b.failures /\ d.dns = b.dns /\ d.sock = b.sock
          /\ d.listener = b.listener /\ d.here = b.here
      BY <1>2, <3>1, CloseIs
    <3> QED BY <1>2, <3>4, <3>5
  <2> QED BY <2>1, <2>2
<1>5. Conn(d) = "closing" /\ \A g \in Handles : d.conn[g] # "free" => g = h
  BY <1>1, <1>4 DEF Conn, ClientType
<1>6. SocketFits(d) /\ OwnerFits(d) /\ TimeFits(d)
  BY <1>1, <1>4, <1>5 DEF SocketFits, OwnerFits, TimeFits
<1> QED BY <1>1, <1>4, <1>6 DEF Sound, Served, d

\* A client without socket, after the close callback or a lookup that failed
Lost(c) ==
  /\ c \in ClientType /\ c.sock = NoHandle /\ (\A h \in Handles : c.conn[h] = "free") /\ c.here
  /\ ~c.dns /\ c.state \in {"Unconnected", "HostLookup"}

LEMMA OnClosedLost ==
  ASSUME NEW R \in BOOLEAN, NEW c, Sound(c, R), NEW h \in Handles, c.conn[h] = "closing"
  PROVE  LET d == OnClosed(c, h) IN
           Lost(d) /\ d.state = "Unconnected" /\ d.failures = c.failures /\ d.listener = c.listener
<1> DEFINE b == [c EXCEPT !.conn[h] = "free", !.sock = NoHandle]
<1>1. /\ c \in ClientType /\ c.sock = h /\ h # NoHandle /\ c.here /\ ~c.dns
      /\ \A g \in Handles : g # h => c.conn[g] = "free"
  BY HandleTells DEF Sound
<1>2. /\ b \in ClientType /\ b.failures = c.failures /\ ~b.dns /\ b.sock = NoHandle
      /\ b.listener = c.listener /\ b.here /\ \A g \in Handles : b.conn[g] = "free"
  BY <1>1 DEF ClientType, Status
<1> HIDE DEF b
<1>3. OnClosed(c, h) = SetState(b, "Unconnected")
  BY DEF OnClosed, b
<1> QED BY <1>2, <1>3, SetStateIs DEF Lost, States

LEMMA LineSound ==
  ASSUME NEW R \in BOOLEAN, NEW c, Sound(c, R), R \/ c.state = "Connected"
  PROVE  /\ Sound(Line(c), R) /\ Line(c).failures = c.failures /\ Line(c).listener = c.listener
         /\ Line(c).state = c.state /\ Line(c).sock = c.sock /\ Line(c).conn = c.conn
         /\ (Served(c) => Served(Line(c))) /\ (Sought(c) => Sought(Line(c)))
<1> DEFINE d == Line(c)
<1>1. /\ d \in ClientType /\ d.state = c.state /\ d.failures = c.failures /\ d.dns = c.dns /\ d.sock = c.sock
      /\ d.listener = c.listener /\ d.here = c.here /\ d.conn = c.conn
  BY DEF Line, ClientType, Sound
<1> HIDE DEF d
<1>2. SocketFits(d) /\ OwnerFits(d) /\ (R \/ TimeFits(d))
  BY <1>1 DEF Sound, SocketFits, OwnerFits, TimeFits, Conn
<1> QED BY <1>1, <1>2 DEF Sound, Served, Sought, Conn, d

LEMMA LoggedInSound ==
  ASSUME NEW R \in BOOLEAN, NEW c, Sound(c, R), NEW h \in Handles, c.conn[h] = "asked"
  PROVE  LET d == LoggedIn(c, h) IN Sound(d, R) /\ d.listener = c.listener /\ (R \/ (Served(d) /\ Sought(d)))
<1> DEFINE d == LoggedIn(c, h)
<1>1. /\ c \in ClientType /\ c.sock = h /\ h # NoHandle /\ c.here /\ ~c.dns
      /\ \A g \in Handles : g # h => c.conn[g] = "free"
      /\ c.listener /\ (c.state = "Connected" \/ (R /\ c.state = "Reconnecting"))
  BY HandleTells DEF Sound, Reading
<1>2. d \in ClientType
  BY <1>1, LoggedInType
<1>3. /\ d.state = c.state /\ d.failures = 0 /\ ~d.dns /\ d.sock = h
      /\ d.listener /\ d.here /\ d.conn = [c.conn EXCEPT ![h] = "in"]
  BY <1>1 DEF LoggedIn, Line, ClientType
<1> HIDE DEF d
<1>4. Conn(d) = "in" /\ \A g \in Handles : d.conn[g] # "free" => g = h
  BY <1>1, <1>3 DEF Conn, ClientType
<1>5. SocketFits(d) /\ OwnerFits(d) /\ (R \/ TimeFits(d))
  BY <1>1, <1>3, <1>4 DEF SocketFits, OwnerFits, TimeFits, Reading
<1> QED BY <1>1, <1>2, <1>3, <1>4, <1>5 DEF Sound, Served, Sought, d

\* reconnect() for client.reconnect, which leaves the socket as it is
LEMMA RedirectedSound ==
  ASSUME NEW c, Sound(c, TRUE), c.state \in {"Connected", "Reconnecting"}, c.listener
  PROVE  Sound(Reconnect(c), TRUE) /\ Reconnect(c).listener
<1> DEFINE d == SetState(c, "Reconnecting")
           e == Reconnect(c)
<1>1. /\ d \in ClientType /\ d.state = "Reconnecting" /\ d.sock = c.sock /\ d.listener
      /\ d.here = c.here /\ d.conn = c.conn /\ d.dns = c.dns
  BY SetStateIs DEF States, Sound
<1>2. e = [d EXCEPT !.failures = IF d.failures < Retries THEN d.failures + 1 ELSE d.failures]
  BY DEF Reconnect
<1>3. e \in ClientType
  BY ReconnectType DEF Sound
<1> HIDE DEF d
<1>4. /\ e.state = "Reconnecting" /\ e.sock = c.sock /\ e.listener /\ e.here = c.here /\ e.conn = c.conn
      /\ e.dns = c.dns
  BY <1>1, <1>2 DEF ClientType
<1> HIDE DEF e
<1>5. SocketFits(e) /\ OwnerFits(e)
  BY <1>4 DEF SocketFits, OwnerFits, Sound, Conn
<1> QED BY <1>3, <1>4, <1>5 DEF Sound, e


-----------------------------------------------------------------------------
(* What the strategy keeps *)

\* A step that changes one client, and nothing of the strategy
LEMMA OneClientKeeps ==
  ASSUME NEW R \in BOOLEAN, TypeOK, StrategyInv(clients, R), NEW i \in Pools, NEW c, Sound(c, R),
         c.listener = clients[i].listener,
         R \/ (Served(clients[i]) => Served(c)), R \/ (Sought(clients[i]) => Sought(c)),
         clients' = [clients EXCEPT ![i] = c], UNCHANGED <<index, active, started, deleted>>
  PROVE  StrategyInv(clients, R)'
<1>1. \A j \in Pools : clients'[j] = IF j = i THEN c ELSE clients[j]
  BY DEF TypeOK
<1>2. \A j \in Pools : Sound(clients'[j], R) /\ (clients'[j].listener <=> ~deleted)
  BY <1>1 DEF StrategyInv
<1>3. ASSUME ~R PROVE PlaceFits(clients)'
  BY <1>1, <1>3 DEF StrategyInv, PlaceFits, TypeOK
<1> QED BY <1>2, <1>3 DEF StrategyInv

\* The strategy hears that client i is closed, when the clients are cs
LEMMA OnCloseKeepsSound ==
  ASSUME NEW R \in BOOLEAN, TypeOK, ~deleted, NEW i \in Pools, NEW failures, NEW cs \in [Pools -> ClientType],
         \A j \in Pools : Sound(cs[j], R) /\ cs[j].listener,
         R \/ /\ active # -1 => index = active
              /\ active \notin {-1, i} => Served(cs[active])
              /\ started => Sought(cs[index]),
         OnClose(i, failures, cs), UNCHANGED <<started, deleted>>, ~overlapped'
  PROVE  StrategyInv(clients, R)'
<1>1. CASE ~TriesNext(i, failures)
  <2>1. clients' = cs /\ index' = index /\ active' = IF active = i THEN -1 ELSE active
    BY <1>1 DEF OnClose
  <2>2. ASSUME ~R PROVE PlaceFits(clients)'
    BY <2>1, <2>2 DEF PlaceFits
  <2> QED BY <2>1, <2>2 DEF StrategyInv
<1>2. CASE TriesNext(i, failures)
  <2> DEFINE n == index + 1
  <2>1. PICK c \in Connects(cs[n]) : clients' = [cs EXCEPT ![n] = c]
    BY <1>2 DEF OnClose
  <2>2. n \in Pools
    BY <1>2, FailoverAssumption DEF TriesNext, Pools, TypeOK
  <2>3. cs[n].sock = NoHandle /\ index' = n /\ index = i /\ active' = IF active = i THEN -1 ELSE active
    BY <1>2 DEF OnClose, TriesNext
  <2> HIDE DEF n
  <2>4. Sound(c, R) /\ c.listener /\ Sought(c)
    BY <2>2, <2>3, ConnectsSound
  <2>5. \A j \in Pools : clients'[j] = IF j = n THEN c ELSE cs[j]
    BY <2>1, <2>2
  <2>6. ASSUME ~R PROVE PlaceFits(clients)'
    BY <2>2, <2>3, <2>4, <2>5, <2>6 DEF PlaceFits
  <2> QED BY <2>2, <2>4, <2>5, <2>6 DEF StrategyInv
<1> QED BY <1>1, <1>2

\* Client i, which is now c, reconnects, as it is deleted, was disconnected, or is neither
LEMMA ReconnectsSound ==
  ASSUME NEW R \in BOOLEAN, TypeOK, StrategyInv(clients, R), NEW i \in Pools, NEW c \in ClientType,
         c.failures = clients[i].failures, c.listener = clients[i].listener,
         ~c.listener => Sound(Removed(c), R) /\ ~Removed(c).listener,
         c.listener /\ c.failures = -1 => Sound(c, R),
         c.listener /\ c.failures # -1 =>
           Sound(Reconnect(c), R) /\ Reconnect(c).listener /\ (R \/ Sought(Reconnect(c))),
         Reconnects(i, [clients EXCEPT ![i] = c]), UNCHANGED <<started, deleted>>, ~overlapped'
  PROVE  StrategyInv(clients, R)' /\ ~overlapped
<1> DEFINE cs == [clients EXCEPT ![i] = c]
<1>1. cs \in [Pools -> ClientType] /\ cs[i] = c /\ \A j \in Pools : j # i => cs[j] = clients[j]
  BY DEF TypeOK
<1>2. (c.listener <=> ~deleted) /\ Reconnects(i, cs)
  BY DEF StrategyInv
<1>3. CASE ~c.listener
  <2>1. clients' = [cs EXCEPT ![i] = Removed(c)] /\ UNCHANGED <<index, active, overlapped>>
    BY <1>1, <1>2, <1>3 DEF Reconnects, strategyVars
  <2>2. \A j \in Pools : clients'[j] = IF j = i THEN Removed(c) ELSE clients[j]
    BY <1>1, <2>1
  <2> HIDE DEF cs
  <2>3. \A j \in Pools : Sound(clients'[j], R) /\ ~clients'[j].listener
    BY <1>2, <1>3, <2>2 DEF StrategyInv
  <2>4. ASSUME ~R PROVE PlaceFits(clients)'
    BY <1>2, <1>3, <2>1, <2>4 DEF StrategyInv, PlaceFits
  <2> QED BY <1>2, <1>3, <2>1, <2>3, <2>4 DEF StrategyInv
<1>4. CASE c.listener /\ c.failures = -1
  <2>1. clients' = cs /\ UNCHANGED <<index, active, overlapped>>
    BY <1>1, <1>2, <1>4 DEF Reconnects, strategyVars
  <2>2. ~Served(clients[i]) /\ ~Sought(clients[i])
    BY <1>4 DEF Served, Sought
  <2> QED BY <1>4, <2>1, <2>2, OneClientKeeps
<1>5. CASE c.listener /\ c.failures # -1
  <2> DEFINE r == Reconnect(c)
             rs == [cs EXCEPT ![i] = r]
  <2>1. OnClose(i, r.failures, rs)
    BY <1>1, <1>2, <1>5 DEF Reconnects
  <2>2. Sound(r, R) /\ r.listener /\ (R \/ Sought(r))
    BY <1>5
  <2>3. ~overlapped
    BY <2>1 DEF OnClose
  <2> HIDE DEF r, cs
  <2>4. rs \in [Pools -> ClientType] /\ \A j \in Pools : rs[j] = IF j = i THEN r ELSE clients[j]
    BY <1>1, <2>2 DEF Sound
  <2> HIDE DEF rs
  <2>5. ~deleted /\ \A j \in Pools : Sound(rs[j], R) /\ rs[j].listener
    BY <1>2, <1>5, <2>2, <2>4 DEF StrategyInv
  <2>6. R \/ /\ active # -1 => index = active
             /\ active \notin {-1, i} => Served(rs[active])
             /\ started => Sought(rs[index])
    BY <2>2, <2>4, <2>5 DEF StrategyInv, PlaceFits, TypeOK
  <2> QED BY <2>1, <2>3, <2>4, <2>5, <2>6, OnCloseKeepsSound
<1> QED BY <1>3, <1>4, <1>5

\* The same of a client that lost its socket
LEMMA LostReconnects ==
  ASSUME NEW R \in BOOLEAN, TypeOK, StrategyInv(clients, R), NEW i \in Pools, NEW c, Lost(c),
         c.failures = clients[i].failures, c.listener = clients[i].listener,
         c.listener \/ c.state = "Unconnected",
         Reconnects(i, [clients EXCEPT ![i] = c]), UNCHANGED <<started, deleted>>, ~overlapped'
  PROVE  StrategyInv(clients, R)' /\ ~overlapped
<1>1. SocketFits(c) /\ c \in ClientType
  BY DEF SocketFits, Lost
<1>2. ASSUME ~c.listener PROVE Sound(Removed(c), R) /\ ~Removed(c).listener
  BY <1>1, <1>2, RemovedSound DEF Lost
<1>3. ASSUME c.listener, c.failures = -1 PROVE Sound(c, R)
  BY <1>1, <1>3 DEF Sound, Lost, OwnerFits, TimeFits
<1>4. ASSUME c.listener, c.failures # -1
      PROVE  Sound(Reconnect(c), R) /\ Reconnect(c).listener /\ Sought(Reconnect(c))
  BY <1>4, ReconnectSound DEF Free, Lost
<1> QED BY <1>1, <1>2, <1>3, <1>4, ReconnectsSound

\* A client logged in; the strategy takes it or another one, and disconnects those after it
LEMMA OnLoginSuccessSound ==
  ASSUME NEW R \in BOOLEAN, TypeOK, StrategyInv(clients, R), NEW i \in Pools, NEW c, Sound(c, R),
         c.listener, clients[i].listener, R \/ (Served(c) /\ Sought(c)),
         OnLoginSuccess(i, [clients EXCEPT ![i] = c]), UNCHANGED <<started, deleted>>
  PROVE  StrategyInv(clients, R)'
<1> DEFINE cs == [clients EXCEPT ![i] = c]
           a == NewActive(i)
<1>1. cs[i] = c /\ \A j \in Pools : j # i => cs[j] = clients[j]
  BY DEF TypeOK
<1>2. ~deleted /\ \A j \in Pools : Sound(cs[j], R) /\ cs[j].listener
  BY <1>1 DEF StrategyInv
<1>3. /\ \A j \in Pools : clients'[j] = IF j \in Losers(a) THEN Disconnect(cs[j]) ELSE cs[j]
      /\ active' = a /\ index' = IF a # active THEN a ELSE index
  BY DEF OnLoginSuccess, NewIndex
<1>4. a \in Pools /\ a \notin Losers(a) /\ (a = i \/ (a = active /\ active # -1)) /\ a # -1
  BY FailoverAssumption DEF NewActive, Losers, TypeOK, Pools
<1>5. R \/ (Served(cs[a]) /\ (active # -1 => index = active))
  BY <1>1, <1>2, <1>4 DEF StrategyInv, PlaceFits
<1>6. Served(cs[a]) => Sought(cs[a])
  BY DEF Served, Sought
<1> HIDE DEF cs, a
<1>7. \A j \in Pools : Sound(clients'[j], R) /\ clients'[j].listener
  BY <1>2, <1>3, DisconnectSound
<1>8. ASSUME ~R PROVE PlaceFits(clients)'
  BY <1>2, <1>3, <1>4, <1>5, <1>6, <1>8 DEF PlaceFits
<1> QED BY <1>2, <1>7, <1>8 DEF StrategyInv

-----------------------------------------------------------------------------
(* The actions, in a state without overlap that leads to one *)

SoundState(R) == TypeOK /\ ~overlapped /\ wrong = "no" /\ StrategyInv(clients, R)

SoundAfter(R) == wrong' = "no" /\ ~overlapped /\ StrategyInv(clients, R)'

LEMMA ClientOfPool ==
  ASSUME NEW R \in BOOLEAN, SoundState(R), NEW i \in Pools
  PROVE  Sound(clients[i], R) /\ clients[i] \in ClientType /\ (clients[i].listener <=> ~deleted)
  BY DEF SoundState, StrategyInv, Sound

LEMMA ConnectSound ==
  ASSUME NEW R \in BOOLEAN, SoundState(R), Connect, ~overlapped'
  PROVE  SoundAfter(R)
<1>1. PICK c \in Connects(clients[index]) : clients' = [clients EXCEPT ![index] = c]
  BY DEF Connect
<1>2. /\ clients[index].sock = NoHandle /\ ~deleted /\ index \in Pools
      /\ UNCHANGED <<index, active, deleted, wrong>>
  BY DEF Connect, May, strategyVars, SoundState, TypeOK
<1>3. Sound(c, R) /\ c.listener /\ Sought(c)
  BY <1>2, ClientOfPool, ConnectsSound
<1>4. \A j \in Pools : clients'[j] = IF j = index THEN c ELSE clients[j]
  BY <1>1 DEF SoundState, TypeOK
<1>5. R \/ active = -1
  BY <1>2 DEF SoundState, StrategyInv, PlaceFits, Served
<1>6. R \/ PlaceFits(clients)'
  BY <1>2, <1>3, <1>4, <1>5 DEF PlaceFits
<1>7. StrategyInv(clients, R)'
  BY <1>2, <1>3, <1>4, <1>6 DEF SoundState, StrategyInv
<1> QED BY <1>2, <1>7 DEF SoundAfter, SoundState

LEMMA StopSound ==
  ASSUME NEW R \in BOOLEAN, SoundState(R), Stop
  PROVE  SoundAfter(R)
<1>1. \A j \in Pools : Sound(Disconnect(clients[j]), R) /\ Disconnect(clients[j]).listener = clients[j].listener
  BY ClientOfPool, DisconnectSound
<1>2. \A j \in Pools : clients'[j] = Disconnect(clients[j])
  BY DEF Stop
<1>3. \A j \in Pools : Sound(clients'[j], R) /\ (clients'[j].listener <=> ~deleted)
  BY <1>1, <1>2, ClientOfPool
<1> QED BY <1>3 DEF Stop, SoundAfter, SoundState, StrategyInv, PlaceFits

LEMMA DeleteSound ==
  ASSUME NEW R \in BOOLEAN, SoundState(R), Delete
  PROVE  SoundAfter(R)
<1>1. \A j \in Pools : Sound(DeleteLater(clients[j]), R) /\ ~DeleteLater(clients[j]).listener
  BY ClientOfPool, DeleteLaterSound
<1>2. \A j \in Pools : Sound(clients'[j], R) /\ ~clients'[j].listener
  BY <1>1 DEF Delete
<1> QED BY <1>2 DEF Delete, SoundAfter, SoundState, StrategyInv, PlaceFits, strategyVars

LEMMA ExpireSound ==
  ASSUME NEW R \in BOOLEAN, NEW i \in Pools, SoundState(R), Expire(i), ~overlapped'
  PROVE  SoundAfter(R)
<1>1. UNCHANGED <<index, active, started, deleted, wrong>> /\ ~deleted
  BY DEF Expire, strategyVars
<1>2. Sound(clients[i], R) /\ clients[i].listener
  BY <1>1, ClientOfPool
<1>3. CASE clients' = [clients EXCEPT ![i] = Close(clients[i])]
  BY <1>1, <1>2, <1>3, CloseSound, OneClientKeeps DEF SoundState, SoundAfter
<1>4. CASE clients[i].state = "Reconnecting" /\ \E d \in Connects(clients[i]) : clients' = [clients EXCEPT ![i] = d]
  <2>1. PICK d \in Connects(clients[i]) : clients' = [clients EXCEPT ![i] = d]
    BY <1>4
  <2>2. clients[i].sock = NoHandle
    BY <1>4 DEF Expire
  <2>3. Sound(d, R) /\ d.listener /\ Sought(d) /\ ~Served(clients[i])
    BY <1>2, <2>2, ConnectsSound DEF Served
  <2> QED BY <1>1, <1>2, <2>1, <2>3, OneClientKeeps DEF SoundState, SoundAfter
<1> QED BY <1>3, <1>4 DEF Expire

LEMMA ResolvedSound ==
  ASSUME NEW R \in BOOLEAN, NEW i \in Pools, SoundState(R), Resolved(i), ~overlapped'
  PROVE  SoundAfter(R)
<1> DEFINE c == [clients[i] EXCEPT !.dns = FALSE]
<1>1. /\ UNCHANGED <<started, deleted>> /\ clients[i].dns
      /\ IF ~c.listener THEN Fails("listener")
         ELSE /\ \/ /\ \E h \in FreeHandles(c) : clients' = [clients EXCEPT ![i] = ConnectTo(c, h)]
                    /\ UNCHANGED <<strategyVars, overlapped>>
                 \/ Reconnects(i, [clients EXCEPT ![i] = c])
              /\ UNCHANGED wrong
  BY DEF Resolved
<1>2. Sound(clients[i], R) /\ clients[i] \in ClientType
  BY ClientOfPool
<1>3. clients[i].state = "HostLookup" /\ clients[i].listener /\ clients[i].here /\ clients[i].sock = NoHandle
  BY <1>1, <1>2 DEF Sound, OwnerFits, SocketFits
<1>4. \A h \in Handles : clients[i].conn[h] = "free"
  BY <1>2, <1>3, ClientAssumption DEF Sound, SocketFits
<1>5. /\ c \in ClientType /\ c.state = "HostLookup" /\ c.sock = NoHandle /\ c.listener /\ c.here /\ ~c.dns
      /\ c.failures = clients[i].failures /\ c.listener = clients[i].listener
      /\ \A h \in Handles : c.conn[h] = "free"
  BY <1>2, <1>3, <1>4 DEF ClientType
<1> HIDE DEF c
<1>6. UNCHANGED wrong
  BY <1>1, <1>5
<1>7. CASE /\ \E h \in FreeHandles(c) : clients' = [clients EXCEPT ![i] = ConnectTo(c, h)]
           /\ UNCHANGED <<strategyVars, overlapped>>
  <2>1. PICK h \in FreeHandles(c) : clients' = [clients EXCEPT ![i] = ConnectTo(c, h)]
    BY <1>7
  <2>2. h \in Handles /\ Free(c)
    BY <1>5 DEF FreeHandles, Free
  <2> DEFINE d == ConnectTo(c, h)
  <2>3. Sound(d, R) /\ d.listener /\ d.failures = clients[i].failures /\ d.state = "Connecting"
    BY <1>5, <2>2, ConnectToSound
  <2>4. ~Served(clients[i]) /\ (Sought(clients[i]) => Sought(d))
    BY <1>3, <2>3 DEF Served, Sought
  <2>5. UNCHANGED <<index, active, started, deleted>> /\ d.listener = clients[i].listener
    BY <1>1, <1>5, <1>7, <2>3, ClientOfPool DEF strategyVars, ClientType
  <2> HIDE DEF d
  <2>6. clients' = [clients EXCEPT ![i] = d]
    BY <2>1 DEF d
  <2> QED BY <1>6, <2>3, <2>4, <2>5, <2>6, OneClientKeeps DEF SoundState, SoundAfter
<1>8. CASE Reconnects(i, [clients EXCEPT ![i] = c])
  <2>1. Lost(c)
    BY <1>5 DEF Lost
  <2> QED BY <1>1, <1>5, <1>6, <1>8, <2>1, LostReconnects DEF SoundState, SoundAfter
<1> QED BY <1>1, <1>5, <1>7, <1>8

\* The callback of a connection attempt finds its client, which has a socket
LEMMA OnConnectFinds ==
  ASSUME NEW R \in BOOLEAN, NEW i \in Pools, NEW h \in Handles, SoundState(R), OnConnect(i, h)
  PROVE  clients[i].here /\ clients[i].sock # NoHandle
<1>1. Sound(clients[i], R) /\ clients[i].conn[h] \in {"connecting", "canceled"}
  BY ClientOfPool DEF OnConnect
<1> QED BY <1>1, HandleTells

LEMMA OnConnectSound ==
  ASSUME NEW R \in BOOLEAN, NEW i \in Pools, NEW h \in Handles, SoundState(R), OnConnect(i, h)
  PROVE  SoundAfter(R)
<1>1. Sound(clients[i], R) /\ clients[i].conn[h] \in {"connecting", "canceled"}
  BY ClientOfPool DEF OnConnect
<1>2. /\ clients[i].here /\ clients[i].sock # NoHandle
      /\ clients[i].conn[h] = "connecting" => clients[i].state = "Connecting"
  BY <1>1, HandleTells
<1>3. /\ UNCHANGED <<index, active, started, deleted, wrong, overlapped>>
      /\ \/ clients[i].conn[h] = "connecting" /\ clients' = [clients EXCEPT ![i] = OnConnected(clients[i], h)]
         \/ clients' = [clients EXCEPT ![i] = OnConnectFailed(clients[i], h)]
  BY <1>2 DEF OnConnect, strategyVars
<1>4. CASE clients[i].conn[h] = "connecting" /\ clients' = [clients EXCEPT ![i] = OnConnected(clients[i], h)]
  <2> DEFINE d == OnConnected(clients[i], h)
  <2>1. Sound(d, R) /\ d.failures = clients[i].failures /\ d.listener = clients[i].listener /\ d.state = "Connected"
        /\ ~Served(clients[i])
    BY <1>1, <1>4, OnConnectedSound
  <2>2. clients' = [clients EXCEPT ![i] = d]
    BY <1>4
  <2> HIDE DEF d
  <2>3. Sought(clients[i]) => Sought(d)
    BY <2>1 DEF Sought
  <2> QED BY <1>3, <2>1, <2>2, <2>3, OneClientKeeps DEF SoundState, SoundAfter
<1>5. CASE clients' = [clients EXCEPT ![i] = OnConnectFailed(clients[i], h)]
  <2> DEFINE d == OnConnectFailed(clients[i], h)
  <2>1. Sound(d, R) /\ d.failures = clients[i].failures /\ d.listener = clients[i].listener /\ d.state = "Closing"
        /\ ~Served(clients[i])
    BY <1>1, OnConnectFailedSound
  <2>2. clients' = [clients EXCEPT ![i] = d]
    BY <1>5
  <2> HIDE DEF d
  <2>3. Sought(clients[i]) => Sought(d)
    BY <2>1 DEF Sought
  <2> QED BY <1>3, <2>1, <2>2, <2>3, OneClientKeeps DEF SoundState, SoundAfter
<1> QED BY <1>3, <1>4, <1>5

LEMMA OnHandleClosedSound ==
  ASSUME NEW R \in BOOLEAN, NEW i \in Pools, NEW h \in Handles, SoundState(R), OnHandleClosed(i, h), ~overlapped'
  PROVE  SoundAfter(R)
<1>1. Sound(clients[i], R) /\ clients[i].conn[h] = "closing"
  BY ClientOfPool DEF OnHandleClosed
<1>2. clients[i].here /\ clients[i].sock = h
  BY <1>1, HandleTells
<1>3. /\ UNCHANGED <<started, deleted, wrong>>
      /\ Reconnects(i, [clients EXCEPT ![i] = OnClosed(clients[i], h)])
  BY <1>2 DEF OnHandleClosed
<1> DEFINE d == OnClosed(clients[i], h)
<1>4. Lost(d) /\ d.state = "Unconnected" /\ d.failures = clients[i].failures /\ d.listener = clients[i].listener
  BY <1>1, OnClosedLost
<1> HIDE DEF d
<1>5. Reconnects(i, [clients EXCEPT ![i] = d])
  BY <1>3 DEF d
<1> QED BY <1>3, <1>4, <1>5, LostReconnects DEF SoundState, SoundAfter

\* A callback of a read finds the client and its listener
LEMMA ReadSound ==
  ASSUME NEW R \in BOOLEAN, SoundState(R), NEW i \in Pools, NEW h \in Handles, NEW on, NEW needs,
         Reads(i, h, on, needs)
  PROVE  /\ Sound(clients[i], R) /\ clients[i].listener
         /\ clients[i].state = "Connected" \/ (R /\ clients[i].state = "Reconnecting")
         /\ on /\ UNCHANGED <<started, deleted, wrong>>
<1>1. Sound(clients[i], R) /\ clients[i].conn[h] \in Reading /\ clients[i].conn[h] # "free"
  BY ClientOfPool DEF Reads, Reading
<1>2. /\ clients[i].here /\ clients[i].listener
      /\ clients[i].state = "Connected" \/ (R /\ clients[i].state = "Reconnecting")
  BY <1>1, HandleTells
<1> QED BY <1>1, <1>2 DEF Reads

LEMMA LoginOkSound ==
  ASSUME NEW R \in BOOLEAN, NEW i \in Pools, NEW h \in Handles, SoundState(R), LoginOk(i, h)
  PROVE  SoundAfter(R)
<1> DEFINE c == LoggedIn(clients[i], h)
           cs == [clients EXCEPT ![i] = c]
<1>1. Reads(i, h, OnLoginSuccess(i, cs) /\ UNCHANGED <<overlapped, faults>>, TRUE) /\ clients[i].conn[h] = "asked"
  BY DEF LoginOk
<1>2. /\ Sound(clients[i], R) /\ clients[i].listener
      /\ OnLoginSuccess(i, cs) /\ UNCHANGED <<started, deleted, wrong>>
  <2> HIDE DEF cs
  <2> QED BY <1>1, ReadSound
<1>3. Sound(c, R) /\ c.listener = clients[i].listener /\ (R \/ (Served(c) /\ Sought(c)))
  BY <1>1, <1>2, LoggedInSound
<1> HIDE DEF c
<1> QED BY <1>2, <1>3, OnLoginSuccessSound DEF SoundState, SoundAfter

LEMMA ReceiveSound ==
  ASSUME NEW R \in BOOLEAN, NEW i \in Pools, NEW h \in Handles, SoundState(R), Receive(i, h)
  PROVE  SoundAfter(R)
<1> DEFINE c == Line(clients[i])
<1>1. /\ Sound(clients[i], R) /\ (R \/ clients[i].state = "Connected")
      /\ clients' = [clients EXCEPT ![i] = c]
      /\ UNCHANGED <<index, active, started, deleted, wrong>>
  BY ReadSound DEF Receive
<1>2. /\ Sound(c, R) /\ c.listener = clients[i].listener
      /\ (Served(clients[i]) => Served(c)) /\ (Sought(clients[i]) => Sought(c))
  BY <1>1, LineSound
<1> HIDE DEF c
<1> QED BY <1>1, <1>2, OneClientKeeps DEF SoundState, SoundAfter

LEMMA RefusedSound ==
  ASSUME NEW R \in BOOLEAN, NEW i \in Pools, NEW h \in Handles, SoundState(R), Refused(i, h)
  PROVE  SoundAfter(R)
<1> DEFINE c == Line(clients[i])
           d == Close(c)
<1>1. /\ Sound(clients[i], R) /\ (R \/ clients[i].state = "Connected")
      /\ clients' = [clients EXCEPT ![i] = d]
      /\ UNCHANGED <<index, active, started, deleted, wrong>>
  BY ReadSound DEF Refused, strategyVars
<1>2. /\ Sound(c, R) /\ c.listener = clients[i].listener
      /\ (Served(clients[i]) => Served(c)) /\ (Sought(clients[i]) => Sought(c))
  BY <1>1, LineSound
<1> HIDE DEF c
<1>3. /\ Sound(d, R) /\ d.listener = c.listener
      /\ (Served(c) => Served(d)) /\ (Sought(c) => Sought(d))
  BY <1>2, CloseSound
<1> HIDE DEF d
<1> QED BY <1>1, <1>2, <1>3, OneClientKeeps DEF SoundState, SoundAfter

LEMMA EndOfFileSound ==
  ASSUME NEW R \in BOOLEAN, NEW i \in Pools, NEW h \in Handles, SoundState(R), EndOfFile(i, h)
  PROVE  SoundAfter(R)
<1>1. /\ Sound(clients[i], R)
      /\ clients' = [clients EXCEPT ![i] = Close(clients[i])]
      /\ UNCHANGED <<index, active, started, deleted, wrong>>
  BY ReadSound DEF EndOfFile, strategyVars
<1> QED BY <1>1, CloseSound, OneClientKeeps DEF SoundState, SoundAfter

LEMMA SendSound ==
  ASSUME NEW R \in BOOLEAN, NEW i \in Pools, SoundState(R), Send(i)
  PROVE  SoundAfter(R)
<1> DEFINE c == clients[i]
           d == [c EXCEPT !.expire = TRUE]
<1>1. clients' = [clients EXCEPT ![i] = d] /\ UNCHANGED <<index, active, started, deleted, wrong>>
  BY DEF Send, strategyVars
<1>2. Sound(c, R)
  BY ClientOfPool
<1> HIDE DEF c
<1>3. /\ d \in ClientType /\ d.state = c.state /\ d.failures = c.failures /\ d.dns = c.dns /\ d.sock = c.sock
      /\ d.listener = c.listener /\ d.here = c.here /\ d.conn = c.conn /\ d.expire
  BY <1>2 DEF Sound, ClientType
<1> HIDE DEF d
<1>4. SocketFits(d) /\ OwnerFits(d) /\ (R \/ TimeFits(d))
  BY <1>2, <1>3 DEF Sound, SocketFits, OwnerFits, TimeFits, Conn
<1>5. /\ Sound(d, R) /\ d.listener = c.listener
      /\ (Served(c) => Served(d)) /\ (Sought(c) => Sought(d))
  BY <1>3, <1>4 DEF Sound, Served, Sought, Conn
<1>6. c = clients[i]
  BY DEF c
<1> QED BY <1>1, <1>5, <1>6, OneClientKeeps DEF SoundState, SoundAfter

LEMMA RedirectSound ==
  ASSUME NEW i \in Pools, NEW h \in Handles, SoundState(TRUE), Redirect(i, h), ~overlapped'
  PROVE  SoundAfter(TRUE)
<1> DEFINE c == Line(clients[i])
<1>1. /\ Sound(clients[i], TRUE) /\ clients[i].listener /\ clients[i].state \in {"Connected", "Reconnecting"}
      /\ Reconnects(i, [clients EXCEPT ![i] = c])
      /\ UNCHANGED <<started, deleted, wrong>>
  BY ReadSound DEF Redirect
<1>2. /\ Sound(c, TRUE) /\ c.failures = clients[i].failures /\ c.listener = clients[i].listener
      /\ c.state = clients[i].state
  BY <1>1, LineSound
<1> HIDE DEF c
<1>3. Sound(Reconnect(c), TRUE) /\ Reconnect(c).listener
  BY <1>1, <1>2, RedirectedSound
<1>4. c \in ClientType /\ c.listener
  BY <1>1, <1>2 DEF Sound
<1> QED BY <1>1, <1>2, <1>3, <1>4, ReconnectsSound DEF SoundState, SoundAfter

-----------------------------------------------------------------------------
(* The invariant and what follows from it *)

LEMMA InitSocketInv == \A R \in BOOLEAN : Init => SocketInv(R)
<1> SUFFICES ASSUME NEW R \in BOOLEAN, Init PROVE wrong = "no" /\ StrategyInv(clients, R)
  BY DEF SocketInv
<1>1. Sound(NewClient, R) /\ NewClient.listener
  <2>1. NewClient \in ClientType
    BY NewClientType
  <2> QED BY <2>1 DEF NewClient, Sound, SocketFits, OwnerFits, TimeFits
<1> QED BY <1>1 DEF Init, StrategyInv, PlaceFits

\* What has overlapped stays so
LEMMA OverlapStays == [NextRedirected]_vars /\ overlapped => overlapped'
<1> SUFFICES ASSUME [NextRedirected]_vars, overlapped PROVE overlapped'
  OBVIOUS
<1>1. ASSUME NEW i, NEW cs, Reconnects(i, cs) PROVE overlapped'
  BY <1>1 DEF Reconnects, OnClose
<1>2. CASE Connect \/ Stop \/ Delete \/ UNCHANGED vars
  BY <1>2 DEF Connect, Stop, Delete, vars
<1>3. ASSUME NEW i \in Pools, Expire(i) \/ Send(i) PROVE overlapped'
  BY <1>3 DEF Expire, Send
<1>4. ASSUME NEW i \in Pools, Resolved(i) PROVE overlapped'
  <2>1. UNCHANGED overlapped \/ Reconnects(i, [clients EXCEPT ![i] = [clients[i] EXCEPT !.dns = FALSE]])
    BY <1>4 DEF Resolved, Fails
  <2> QED BY <2>1, <1>1
<1>5. ASSUME NEW i \in Pools, NEW h \in Handles, OnHandleClosed(i, h) \/ Redirect(i, h) PROVE overlapped'
  <2>1. \/ UNCHANGED overlapped
        \/ Reconnects(i, [clients EXCEPT ![i] = OnClosed(clients[i], h)])
        \/ Reconnects(i, [clients EXCEPT ![i] = Line(clients[i])])
    BY <1>5 DEF OnHandleClosed, Redirect, Reads, Fails
  <2> QED BY <2>1, <1>1
<1>6. ASSUME NEW i \in Pools, NEW h \in Handles,
             OnConnect(i, h) \/ LoginOk(i, h) \/ Receive(i, h) \/ Refused(i, h) \/ EndOfFile(i, h)
      PROVE  overlapped'
  BY <1>6 DEF OnConnect, LoginOk, Receive, Refused, EndOfFile, Reads, Fails
<1> QED BY <1>2, <1>3, <1>4, <1>5, <1>6 DEF NextRedirected, Next, Network, Over, Quiet

LEMMA NextSocketInv ==
  ASSUME NEW R \in BOOLEAN, TypeOK, SocketInv(R),
         [Next]_vars \/ (R /\ \E i \in Pools, h \in Handles : Redirect(i, h))
  PROVE  SocketInv(R)'
<1> SUFFICES ASSUME ~overlapped' PROVE wrong' = "no" /\ StrategyInv(clients, R)'
  BY DEF SocketInv
<1>1. ~overlapped
  BY OverlapStays DEF NextRedirected
<1>2. SoundState(R)
  BY <1>1 DEF SoundState, SocketInv
<1>3. CASE Connect \/ Stop \/ Delete
  BY <1>2, <1>3, ConnectSound, StopSound, DeleteSound DEF SoundAfter
<1>4. CASE Network
  <2>1. PICK i \in Pools :
          \/ Expire(i) \/ Resolved(i) \/ Send(i)
          \/ \E h \in Handles :
               OnConnect(i, h) \/ OnHandleClosed(i, h) \/ LoginOk(i, h) \/ Receive(i, h) \/ Refused(i, h) \/ EndOfFile(i, h)
    BY <1>4 DEF Network
  <2> QED BY <1>2, <2>1, ExpireSound, ResolvedSound, SendSound, OnConnectSound, OnHandleClosedSound,
             LoginOkSound, ReceiveSound, RefusedSound, EndOfFileSound DEF SoundAfter
<1>5. CASE R /\ \E i \in Pools, h \in Handles : Redirect(i, h)
  <2>1. R = TRUE
    BY <1>5
  <2> QED BY <1>2, <1>5, <2>1, RedirectSound DEF SoundAfter
<1>6. CASE UNCHANGED vars
  BY <1>2, <1>6 DEF vars, strategyVars, SoundState, StrategyInv, PlaceFits
<1> QED BY <1>3, <1>4, <1>5, <1>6 DEF Next, Over, Quiet

\* While no server sends client.reconnect
LEMMA SocketsFit == Spec => []SocketInv(FALSE)
<1>1. TypeOK /\ SocketInv(FALSE) /\ [Next]_vars => SocketInv(FALSE)'
  BY NextSocketInv
<1>2. Init => SocketInv(FALSE)
  BY InitSocketInv
<1> QED BY <1>1, <1>2, Redirections, TypeCorrect, PTL DEF Spec

\* Whatever servers send
LEMMA SocketsFitRedirected == SpecRedirected => []SocketInv(TRUE)
<1>1. TypeOK /\ SocketInv(TRUE) /\ [NextRedirected]_vars => SocketInv(TRUE)'
  BY NextSocketInv DEF NextRedirected
<1>2. Init => SocketInv(TRUE)
  BY InitSocketInv
<1> QED BY <1>1, <1>2, TypeCorrect, PTL DEF SpecRedirected

\* No assertion fails and no socket is deleted that libuv uses, until a client that has a
\* socket begins to connect: whatever order the callbacks of any number of pools come in,
\* whatever servers send, client.reconnect included, and wherever the owner stops, connects
\* or deletes the strategy between them.
THEOREM CallbacksFindClients == SpecRedirected => []CallbacksFindTheirClient
<1>1. SocketInv(TRUE) => CallbacksFindTheirClient
  BY DEF SocketInv, CallbacksFindTheirClient
<1> QED BY <1>1, SocketsFitRedirected, PTL

\* Until then, and while no server sends client.reconnect, results go to a client that has
\* logged in and is connected, or of which the strategy is about to hear that it closed.
THEOREM ResultsGoToAConnection == Spec => []ActiveIsConnected
<1>1. SocketInv(FALSE) => ActiveIsConnected
  BY DEF SocketInv, ActiveIsConnected, StrategyInv, PlaceFits, Served, Conn
<1> QED BY <1>1, SocketsFit, PTL

\* Until then a started strategy is at a client that has a lookup, a deadline or a callback
\* to come, or is connected: it is never at one it has disconnected.
THEOREM StartedIsTrying == Spec => []IndexIsSought
<1>1. TypeOK /\ SocketInv(FALSE) => IndexIsSought
  <2> SUFFICES ASSUME TypeOK, SocketInv(FALSE), started, ~overlapped
               PROVE  clients[index].failures # -1 /\ Trying(clients[index])
    BY DEF IndexIsSought
  <2> DEFINE c == clients[index]
  <2>1. Sound(c, FALSE) /\ Sought(c)
    BY DEF SocketInv, StrategyInv, PlaceFits, TypeOK
  <2> HIDE DEF c
  <2>2. c.state \in {"HostLookup", "Connecting", "Reconnecting", "Connected", "Closing"}
    BY <2>1 DEF Sound, Sought, ClientType, States
  <2>3. Trying(c)
    BY <2>1, <2>2 DEF Sound, Sought, SocketFits, TimeFits, Conn, Trying
  <2> QED BY <2>1, <2>3 DEF Sought, c
<1> QED BY <1>1, SocketsFit, Redirections, TypeCorrect, PTL

-----------------------------------------------------------------------------
(* The first pool *)

\* A client that was not disconnected since it was connected is on its way
Kept(c) == c.failures # -1 => c.state # "Unconnected"

\* What becomes of a client that nobody disconnects
KeepsOn(c, d) == (c.failures # -1 => d.failures # -1) /\ (Kept(c) => Kept(d))

\* Nobody has been connected yet
Untouched == index = 0 /\ \A i \in Pools : clients[i].state = "Unconnected"

FirstInv == ~overlapped /\ ~deleted => Untouched \/ Kept(clients[0])

LEMMA FirstIsPool == 0 \in Pools
  BY FailoverAssumption DEF Pools

LEMMA OneClientKeepsOn ==
  ASSUME TypeOK, NEW i \in Pools, NEW d, clients' = [clients EXCEPT ![i] = d], KeepsOn(clients[i], d)
  PROVE  KeepsOn(clients[0], clients'[0])
<1>1. clients'[0] = IF i = 0 THEN d ELSE clients[0]
  BY FirstIsPool DEF TypeOK
<1> QED BY <1>1 DEF KeepsOn

\* The strategy goes on to a client after the first, if to any
LEMMA ReconnectsKeepsOn ==
  ASSUME TypeOK, NEW i \in Pools, NEW c \in ClientType, c.listener, c.failures = clients[i].failures,
         c.failures # -1 => Sought(Reconnect(c)),
         Reconnects(i, [clients EXCEPT ![i] = c])
  PROVE  KeepsOn(clients[0], clients'[0])
<1> DEFINE cs == [clients EXCEPT ![i] = c]
<1>1. cs[i] = c /\ cs \in [Pools -> ClientType] /\ \A j \in Pools : j # i => cs[j] = clients[j]
  BY DEF TypeOK
<1>2. Reconnects(i, cs)
  OBVIOUS
<1>3. CASE c.failures = -1
  <2>1. clients' = cs
    BY <1>1, <1>2, <1>3 DEF Reconnects
  <2>2. KeepsOn(clients[i], c)
    BY <1>3 DEF KeepsOn, Kept
  <2> QED BY <2>1, <2>2, OneClientKeepsOn
<1>4. CASE c.failures # -1
  <2> DEFINE r  == Reconnect(c)
             rs == [cs EXCEPT ![i] = r]
  <2>1. OnClose(i, r.failures, rs)
    BY <1>1, <1>2, <1>4 DEF Reconnects
  <2>2. KeepsOn(clients[i], r)
    BY <1>4 DEF KeepsOn, Kept, Sought
  <2> HIDE DEF r
  <2>3. DOMAIN rs = Pools /\ rs[0] = IF i = 0 THEN r ELSE clients[0]
    BY <1>1, FirstIsPool
  <2> HIDE DEF rs
  <2>4. clients'[0] = rs[0]
    <3>1. index \in Nat
      BY FailoverAssumption DEF TypeOK, Pools
    <3>2. index + 1 # 0
      BY <3>1
    <3>3. \/ clients' = rs
          \/ \E d : clients' = [rs EXCEPT ![index + 1] = d]
      BY <2>1 DEF OnClose
    <3>4. ASSUME NEW d, clients' = [rs EXCEPT ![index + 1] = d] PROVE clients'[0] = rs[0]
      BY <2>3, <3>2, <3>4, FirstIsPool
    <3> QED BY <3>3, <3>4
  <2> QED BY <2>2, <2>3, <2>4 DEF KeepsOn
<1> QED BY <1>3, <1>4

\* What time and the network do to the first client: a close, a failed attempt, a login of
\* another pool, a refusal
LEMMA NetworkKeepsOn ==
  ASSUME SoundState(FALSE), ~deleted, Network, ~overlapped'
  PROVE  KeepsOn(clients[0], clients'[0])
<1>1. TypeOK /\ \A i \in Pools : Sound(clients[i], FALSE) /\ clients[i].listener
  BY DEF SoundState, StrategyInv
<1>2. ASSUME NEW i \in Pools, Expire(i) PROVE KeepsOn(clients[0], clients'[0])
  <2>1. CASE clients' = [clients EXCEPT ![i] = Close(clients[i])]
    <3>1. Close(clients[i]).failures = clients[i].failures
      BY <1>1, CloseSound
    <3>2. Sought(clients[i]) => Sought(Close(clients[i]))
      BY <1>1, CloseSound
    <3>3. KeepsOn(clients[i], Close(clients[i]))
      BY <3>1, <3>2 DEF KeepsOn, Kept, Sought
    <3> QED BY <1>1, <2>1, <3>3, OneClientKeepsOn
  <2>2. CASE \E d \in Connects(clients[i]) : clients[i].sock = NoHandle /\ clients' = [clients EXCEPT ![i] = d]
    <3>1. PICK d \in Connects(clients[i]) : clients[i].sock = NoHandle /\ clients' = [clients EXCEPT ![i] = d]
      BY <2>2
    <3>2. Sought(d)
      BY <1>1, <3>1, ConnectsSound
    <3> QED BY <1>1, <3>1, <3>2, OneClientKeepsOn DEF KeepsOn, Kept, Sought
  <2>3. clients[i].state = "Reconnecting" => clients[i].sock = NoHandle \/ overlapped' \/ clients' = [clients EXCEPT ![i] = Close(clients[i])]
    BY <1>2 DEF Expire
  <2> QED BY <1>2, <2>1, <2>2, <2>3 DEF Expire
<1>3. ASSUME NEW i \in Pools, Resolved(i) PROVE KeepsOn(clients[0], clients'[0])
  <2> DEFINE c == [clients[i] EXCEPT !.dns = FALSE]
  <2>1. clients[i].state = "HostLookup" /\ clients[i].sock = NoHandle /\ clients[i].here /\ clients[i] \in ClientType
    BY <1>1, <1>3 DEF Resolved, Sound, OwnerFits, SocketFits
  <2>2. /\ c \in ClientType /\ c.state = "HostLookup" /\ c.sock = NoHandle /\ c.listener /\ c.here /\ ~c.dns
        /\ c.failures = clients[i].failures /\ \A h \in Handles : c.conn[h] = "free"
    BY <1>1, <2>1, ClientAssumption DEF ClientType, Sound, SocketFits
  <2>3. \/ \E h \in FreeHandles(c) : clients' = [clients EXCEPT ![i] = ConnectTo(c, h)]
        \/ Reconnects(i, [clients EXCEPT ![i] = c])
    BY <1>1, <1>3, <2>2 DEF Resolved
  <2> HIDE DEF c
  <2>4. ASSUME NEW h \in FreeHandles(c), clients' = [clients EXCEPT ![i] = ConnectTo(c, h)]
        PROVE  KeepsOn(clients[0], clients'[0])
    <3>1. ConnectTo(c, h).failures = c.failures /\ ConnectTo(c, h).state = "Connecting"
      BY <2>2, ConnectToSound DEF Free, FreeHandles
    <3>2. KeepsOn(clients[i], ConnectTo(c, h))
      BY <2>2, <3>1 DEF KeepsOn, Kept
    <3> QED BY <1>1, <2>4, <3>2, OneClientKeepsOn
  <2>5. c.failures # -1 => Sought(Reconnect(c))
    BY <2>2, ReconnectSound DEF Free
  <2> QED BY <1>1, <2>2, <2>3, <2>4, <2>5, ReconnectsKeepsOn
<1>4. ASSUME NEW i \in Pools, Send(i) PROVE KeepsOn(clients[0], clients'[0])
  <2>1. clients' = [clients EXCEPT ![i] = [clients[i] EXCEPT !.expire = TRUE]]
    BY <1>4 DEF Send
  <2>2. KeepsOn(clients[i], [clients[i] EXCEPT !.expire = TRUE])
    BY <1>1 DEF Sound, ClientType, KeepsOn, Kept
  <2> QED BY <1>1, <2>1, <2>2, OneClientKeepsOn
<1>5. ASSUME NEW i \in Pools, NEW h \in Handles, OnConnect(i, h) PROVE KeepsOn(clients[0], clients'[0])
  <2>1. Sound(clients[i], FALSE) /\ clients[i].conn[h] \in {"connecting", "canceled"}
    BY <1>1, <1>5 DEF OnConnect
  <2>2. clients[i].here /\ clients[i].sock # NoHandle
    BY <1>5, OnConnectFinds
  <2>3. \/ clients[i].conn[h] = "connecting" /\ clients' = [clients EXCEPT ![i] = OnConnected(clients[i], h)]
        \/ clients' = [clients EXCEPT ![i] = OnConnectFailed(clients[i], h)]
    BY <1>5, <2>2 DEF OnConnect
  <2>4. clients[i].conn[h] = "connecting" => KeepsOn(clients[i], OnConnected(clients[i], h))
    BY <2>1, OnConnectedSound DEF KeepsOn, Kept
  <2>5. KeepsOn(clients[i], OnConnectFailed(clients[i], h))
    BY <2>1, OnConnectFailedSound DEF KeepsOn, Kept
  <2> QED BY <1>1, <2>3, <2>4, <2>5, OneClientKeepsOn
<1>6. ASSUME NEW i \in Pools, NEW h \in Handles, OnHandleClosed(i, h) PROVE KeepsOn(clients[0], clients'[0])
  <2> DEFINE c == OnClosed(clients[i], h)
  <2>1. Sound(clients[i], FALSE) /\ clients[i].conn[h] = "closing"
    BY <1>1, <1>6 DEF OnHandleClosed
  <2>2. clients[i].here /\ clients[i].sock = h
    <3>1. clients[i].sock = h
      BY <2>1 DEF Sound, SocketFits
    <3> QED BY <2>1, <3>1, ClientAssumption DEF Sound, OwnerFits
  <2>3. Reconnects(i, [clients EXCEPT ![i] = c])
    BY <1>6, <2>2 DEF OnHandleClosed
  <2>4. Lost(c) /\ c.failures = clients[i].failures /\ c.listener /\ c.state = "Unconnected"
    <3>1. clients[i].listener
      BY <1>1, <2>2 DEF Sound
    <3>2. Lost(c) /\ c.failures = clients[i].failures /\ c.listener = clients[i].listener /\ c.state = "Unconnected"
      BY <2>1, OnClosedLost
    <3> QED BY <3>1, <3>2
  <2> HIDE DEF c
  <2>5. c.failures # -1 => Sought(Reconnect(c))
    BY <2>4, ReconnectSound DEF Lost, Free
  <2> QED BY <1>1, <2>3, <2>4, <2>5, ReconnectsKeepsOn DEF Lost
<1>7. ASSUME NEW i \in Pools, NEW h \in Handles, LoginOk(i, h) PROVE KeepsOn(clients[0], clients'[0])
  <2> DEFINE c  == LoggedIn(clients[i], h)
             cs == [clients EXCEPT ![i] = c]
  <2>1. /\ Reads(i, h, OnLoginSuccess(i, cs) /\ UNCHANGED <<overlapped, faults>>, TRUE)
        /\ clients[i].conn[h] = "asked"
    BY <1>7 DEF LoginOk
  <2>2. OnLoginSuccess(i, cs)
    <3> HIDE DEF cs
    <3> QED BY <2>1, ReadSound
  <2>3. Sought(c)
    BY <1>1, <2>1, LoggedInSound
  <2>4. cs[0] = IF i = 0 THEN c ELSE clients[0]
    BY <1>1, FirstIsPool DEF TypeOK
  <2>5. clients'[0] = cs[0]
    <3> HIDE DEF cs
    <3> QED BY <2>2, FirstIsPool DEF OnLoginSuccess, Losers
  <2> HIDE DEF c, cs
  <2> QED BY <2>3, <2>4, <2>5 DEF KeepsOn, Kept, Sought
<1>8. ASSUME NEW i \in Pools, NEW h \in Handles, Receive(i, h) \/ Refused(i, h) \/ EndOfFile(i, h)
      PROVE  KeepsOn(clients[0], clients'[0])
  <2> DEFINE l == Line(clients[i])
  <2>1. /\ \/ clients' = [clients EXCEPT ![i] = l]
           \/ clients' = [clients EXCEPT ![i] = Close(l)]
           \/ clients' = [clients EXCEPT ![i] = Close(clients[i])]
        /\ clients[i].state = "Connected"
    BY <1>8, ReadSound DEF Receive, Refused, EndOfFile
  <2>2. Sound(l, FALSE) /\ KeepsOn(clients[i], l)
    BY <1>1, <2>1, LineSound DEF KeepsOn, Kept
  <2> HIDE DEF l
  <2>3. ASSUME NEW c, Sound(c, FALSE) PROVE KeepsOn(c, Close(c))
    <3>1. Close(c).failures = c.failures /\ (Sought(c) => Sought(Close(c)))
      BY <2>3, CloseSound
    <3> QED BY <3>1 DEF KeepsOn, Kept, Sought
  <2>4. KeepsOn(clients[i], Close(l)) /\ KeepsOn(clients[i], Close(clients[i]))
    BY <1>1, <2>2, <2>3 DEF KeepsOn
  <2> QED BY <1>1, <2>1, <2>2, <2>4, OneClientKeepsOn
<1> QED BY <1>2, <1>3, <1>4, <1>5, <1>6, <1>7, <1>8 DEF Network

\* Nothing comes from the network to clients nobody connected
LEMMA UntouchedIsQuiet ==
  ASSUME SoundState(FALSE), Untouched
  PROVE  ~Network
<1> SUFFICES ASSUME NEW i \in Pools,
                    \/ Expire(i) \/ Resolved(i) \/ Send(i)
                    \/ \E h \in Handles :
                         OnConnect(i, h) \/ OnHandleClosed(i, h) \/ LoginOk(i, h) \/ Receive(i, h)
                         \/ Refused(i, h) \/ EndOfFile(i, h)
             PROVE  FALSE
  BY DEF Network
<1>1. Sound(clients[i], FALSE) /\ clients[i].state = "Unconnected"
  BY ClientOfPool DEF Untouched
<1>2. ~clients[i].dns /\ \A h \in Handles : clients[i].conn[h] = "free"
  BY <1>1, ClientAssumption DEF Sound, SocketFits, OwnerFits
<1>3. ~Expire(i) /\ ~Resolved(i) /\ ~Send(i)
  BY <1>1, <1>2 DEF Expire, Resolved, Send
<1>4. ASSUME NEW h \in Handles
      PROVE  /\ ~OnConnect(i, h) /\ ~OnHandleClosed(i, h) /\ ~LoginOk(i, h)
             /\ ~Receive(i, h) /\ ~Refused(i, h) /\ ~EndOfFile(i, h)
  BY <1>2 DEF OnConnect, OnHandleClosed, LoginOk, Receive, Refused, EndOfFile, Reads, Reading
<1> QED BY <1>3, <1>4

LEMMA NextFirstInv ==
  ASSUME TypeOK, SocketInv(FALSE), FirstInv, [Next]_vars
  PROVE  FirstInv'
<1> SUFFICES ASSUME ~overlapped', ~deleted' PROVE Untouched' \/ Kept(clients'[0])
  BY DEF FirstInv
<1>1. ~overlapped
  BY OverlapStays DEF NextRedirected
<1>2. SoundState(FALSE)
  BY <1>1 DEF SoundState, SocketInv
<1>3. CASE Connect
  <2>1. PICK c \in Connects(clients[index]) : clients' = [clients EXCEPT ![index] = c]
    BY <1>3 DEF Connect
  <2>2. clients[index].sock = NoHandle /\ ~deleted /\ index \in Pools
    BY <1>1, <1>2, <1>3 DEF Connect, May, SoundState, TypeOK
  <2>3. Sought(c)
    BY <1>2, <2>2, ClientOfPool, ConnectsSound
  <2>4. clients'[0] = IF index = 0 THEN c ELSE clients[0]
    BY <2>1, <2>2, FirstIsPool DEF TypeOK
  <2> QED BY <1>1, <2>2, <2>3, <2>4 DEF FirstInv, Untouched, Kept, Sought
<1>4. CASE Stop
  <2>1. clients'[0] = Disconnect(clients[0]) /\ Sound(clients[0], FALSE)
    BY <1>2, <1>4, FirstIsPool, ClientOfPool DEF Stop
  <2>2. Disconnect(clients[0]).failures = -1
    <3> DEFINE d == [clients[0] EXCEPT !.expire = FALSE, !.failures = -1]
    <3>1. d.failures = -1 /\ Sound(d, FALSE)
      <4>1. /\ d \in ClientType /\ d.state = clients[0].state /\ d.failures = -1 /\ d.dns = clients[0].dns
            /\ d.sock = clients[0].sock /\ d.listener = clients[0].listener /\ d.here = clients[0].here
            /\ d.conn = clients[0].conn
        BY <2>1, FailuresType DEF ClientType, Sound
      <4> HIDE DEF d
      <4> QED BY <2>1, <4>1 DEF Sound, SocketFits, OwnerFits, TimeFits, Conn
    <3> HIDE DEF d
    <3>2. Close(d).failures = -1
      BY <3>1, CloseSound
    <3> QED BY <3>2 DEF Disconnect, d
  <2> QED BY <2>1, <2>2 DEF Kept
<1>5. CASE Delete
  BY <1>5 DEF Delete
<1>6. CASE Network
  <2>1. deleted' = deleted
    <3>1. \A i \in Pools : Expire(i) => deleted' = deleted
      BY DEF Expire
    <3>2. \A i \in Pools : Resolved(i) => deleted' = deleted
      BY DEF Resolved
    <3>3. \A i \in Pools : Send(i) => deleted' = deleted
      BY DEF Send
    <3>4. \A i \in Pools, h \in Handles : OnConnect(i, h) \/ OnHandleClosed(i, h) => deleted' = deleted
      BY DEF OnConnect, OnHandleClosed
    <3>5. \A i \in Pools, h \in Handles :
            LoginOk(i, h) \/ Receive(i, h) \/ Refused(i, h) \/ EndOfFile(i, h) => deleted' = deleted
      BY DEF LoginOk, Receive, Refused, EndOfFile, Reads
    <3> QED BY <1>6, <3>1, <3>2, <3>3, <3>4, <3>5 DEF Network
  <2> QED BY <1>1, <1>2, <1>6, <2>1, NetworkKeepsOn, UntouchedIsQuiet DEF FirstInv, KeepsOn
<1>7. CASE UNCHANGED vars
  BY <1>1, <1>7 DEF vars, strategyVars, FirstInv, Untouched, Kept
<1> QED BY <1>3, <1>4, <1>5, <1>6, <1>7 DEF Next, Over, Quiet

LEMMA FirstAlways == Spec => [](TypeOK /\ SocketInv(FALSE) /\ FirstInv)
<1>1. Init => FirstInv
  <2> SUFFICES ASSUME Init PROVE Untouched
    BY DEF FirstInv
  <2> QED BY DEF Init, Untouched, NewClient
<1> QED BY <1>1, NextFirstInv, SocketsFit, Redirections, TypeCorrect, PTL DEF Spec

\* A started strategy has a lookup, a deadline, a connection or a callback under way for the first
\* pool, whichever it is at, unless it is one a stop() disconnected.
FirstIsTried ==
  started /\ ~overlapped /\ clients[0].failures # -1 => Trying(clients[0])

\* Once it is tried the first pool is not given up until the owner stops the strategy, whatever
\* the pools do: no failure, and no login of another, disconnects it.
FirstIsNotGivenUp ==
  [][started /\ started' /\ ~overlapped' /\ clients[0].failures # -1 => clients'[0].failures # -1]_vars

\* FailoverStrategy comes back to the first pool when it can: the safety under PrimaryReturns, until a
\* client that has a socket begins to connect, while no server sends client.reconnect.
THEOREM FirstIsSought == Spec => []FirstIsTried
<1>1. TypeOK /\ SocketInv(FALSE) /\ FirstInv => FirstIsTried
  <2> SUFFICES ASSUME TypeOK, SocketInv(FALSE), FirstInv, started, ~overlapped, clients[0].failures # -1
               PROVE  Trying(clients[0])
    BY DEF FirstIsTried
  <2> DEFINE c == clients[0]
  <2>1. Sound(c, FALSE) /\ ~deleted /\ ~Untouched
    BY FirstIsPool DEF SocketInv, StrategyInv, PlaceFits, Untouched, Sought, TypeOK
  <2>2. Sought(c)
    BY <2>1 DEF FirstInv, Kept, Sought
  <2> HIDE DEF c
  <2>3. c.state \in {"HostLookup", "Connecting", "Reconnecting", "Connected", "Closing"}
    BY <2>1, <2>2 DEF Sound, Sought, ClientType, States
  <2>4. Trying(c)
    BY <2>1, <2>2, <2>3 DEF Sound, Sought, SocketFits, TimeFits, Conn, Trying
  <2> QED BY <2>4 DEF c
<1> QED BY <1>1, FirstAlways, PTL

\* The losers of a login (onLoginSuccess) never are the first pool.
THEOREM FirstIsKept == Spec => FirstIsNotGivenUp
<1>1. ASSUME TypeOK, SocketInv(FALSE), [Next]_vars
      PROVE  [started /\ started' /\ ~overlapped' /\ clients[0].failures # -1 => clients'[0].failures # -1]_vars
  <2> SUFFICES ASSUME started, started', ~overlapped', clients[0].failures # -1, ~UNCHANGED vars
               PROVE  clients'[0].failures # -1
    OBVIOUS
  <2>1. ~overlapped
    BY <1>1, OverlapStays DEF NextRedirected
  <2>2. SoundState(FALSE) /\ ~deleted
    BY <1>1, <2>1 DEF SoundState, SocketInv, StrategyInv, PlaceFits
  <2>3. ~Connect /\ ~Stop /\ ~Delete
    BY DEF Connect, Stop, Delete
  <2>4. Network
    BY <1>1, <2>3 DEF Next, Over, Quiet
  <2> QED BY <2>2, <2>4, NetworkKeepsOn DEF KeepsOn
<1> QED BY <1>1, FirstAlways, PTL DEF Spec, FirstIsNotGivenUp
=============================================================================
