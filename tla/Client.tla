------------------------------- MODULE Client -------------------------------
(***************************************************************************)
(* What the methods of a stratum Client do to the client itself            *)
(* (Client.cpp); the strategy that owns the clients and hears from them is *)
(* in Failover. TLS and SOCKS5 are left out, and a pool's address is not   *)
(* modelled.                                                               *)
(*                                                                         *)
(* m_socket points to a handle that libuv owns from uv_tcp_init until the  *)
(* callback of uv_close, whatever the client does to its pointer meanwhile:*)
(* `conn` is what libuv knows of each handle, `sock` is the pointer.       *)
(***************************************************************************)
EXTENDS Integers

CONSTANTS Handles,  \* bound of the model: handles one client may have at a time
          NoHandle, \* a null m_socket
          Retries   \* m_retries

ASSUME ClientAssumption == NoHandle \notin Handles /\ Retries \in Nat \ {0}

States == {"Unconnected", "HostLookup", "Connecting", "Connected", "Closing", "Reconnecting"}

(* free       no such handle
   connecting uv_tcp_connect was called and its callback is to come
   idle       connected or failed, and not read from
   asked      read from, a login was sent
   in         read from, the login was answered
   canceled   closed while connecting: two callbacks are to come
   closing    uv_close was called and its callback is to come                *)
Status  == {"free", "connecting", "idle", "asked", "in", "canceled", "closing"}
Reading == {"asked", "in"}

(* failures stays at Retries, which is all it is compared with; expire says
   whether m_expire is set; here, whether the Storage has the client.        *)
ClientType ==
  [state : States, failures : -1..Retries, dns : BOOLEAN, sock : Handles \union {NoHandle},
   expire : BOOLEAN, listener : BOOLEAN, here : BOOLEAN, conn : [Handles -> Status]]

NewClient ==
  [state |-> "Unconnected", failures |-> 0, dns |-> FALSE, sock |-> NoHandle,
   expire |-> FALSE, listener |-> TRUE, here |-> TRUE, conn |-> [h \in Handles |-> "free"]]

FreeHandles(c) == {h \in Handles : c.conn[h] = "free"}

\* setState sets m_expire in some states, but only if the state is another one
SetState(c, s) ==
  IF c.state = s THEN c
  ELSE [c EXCEPT !.state = s,
                 !.expire = CASE s = "HostLookup" -> FALSE
                              [] s \in {"Connecting", "Reconnecting"} -> TRUE
                              [] OTHER -> @]

Shut(status) ==
  CASE status = "connecting" -> "canceled"
    [] status \in {"idle", "asked", "in"} -> "closing"
    [] OTHER -> status

Closes(c) == c.state \notin {"Closing", "Unconnected"} /\ c.sock # NoHandle

Close(c) == IF Closes(c) THEN [SetState(c, "Closing") EXCEPT !.conn[c.sock] = Shut(@)] ELSE c

\* Does nothing to a lookup, nor to a socket the client has lost
Disconnect(c) == Close([c EXCEPT !.expire = FALSE, !.failures = -1])

\* The destructor; m_dns goes with it
Removed(c) == [c EXCEPT !.here = FALSE, !.dns = FALSE]

DeleteNow(c) == Removed([c EXCEPT !.listener = FALSE])

\* Waits for the close callback if there is one to wait for
DeleteLater(c) ==
  IF ~c.listener THEN c
  ELSE LET d == Disconnect([c EXCEPT !.listener = FALSE])
       IN IF d.state = "Closing" /\ d.sock # NoHandle THEN d ELSE Removed(d)

ResolveDisconnected(c) == [SetState(c, "HostLookup") EXCEPT !.dns = TRUE]

Resolve(c) == [SetState(c, "HostLookup") EXCEPT !.failures = IF @ = -1 THEN 0 ELSE @, !.dns = TRUE]

\* connect(addr): the socket there was is forgotten
ConnectTo(c, h) ==
  [SetState(c, "Connecting") EXCEPT !.dns = FALSE, !.sock = h, !.conn[h] = "connecting"]

\* connect(): the address is looked up, or Dns has it still
Connects(c) == {Resolve(c)} \union {ConnectTo(Resolve(c), h) : h \in FreeHandles(c)}

\* reconnect() of a client that was not disconnected and has a listener
ReconnectUncounted(c) == SetState(c, "Reconnecting")
Reconnect(c) == [SetState(c, "Reconnecting") EXCEPT !.failures = IF @ < Retries THEN @ + 1 ELSE @]

\* handshake() on the socket there is: nothing can be sent on one that is not connected
Handshake(c) ==
  IF c.sock # NoHandle /\ c.conn[c.sock] \in {"idle"} \union Reading
    THEN [c EXCEPT !.conn[c.sock] = "asked", !.expire = TRUE]
    ELSE c

\* onConnect for handle h
OnConnected(c, h) ==
  LET d == [c EXCEPT !.conn[h] = "idle"]
  IN IF c.state = "Connected" THEN d ELSE Handshake(SetState(d, "Connected"))

OnConnectFailed(c, h) ==
  LET d == [c EXCEPT !.conn[h] = IF @ = "canceled" THEN "closing" ELSE "idle"]
  IN IF c.state = "Connecting" THEN Close(d) ELSE d

\* onClose up to reconnect()
OnClosed(c, h) == SetState([c EXCEPT !.conn[h] = "free", !.sock = NoHandle], "Unconnected")

\* A line was received: no answer is due any more
Line(c) == [c EXCEPT !.expire = FALSE]

LoggedInDisconnected(c, h) == [Line(c) EXCEPT !.conn[h] = "in"]

\* The answer to the login on handle h
LoggedIn(c, h) == [Line(c) EXCEPT !.conn[h] = "in", !.failures = 0]

\* The socket the client has was logged in
HasLogin(c) == c.state = "Connected" /\ c.sock # NoHandle /\ c.conn[c.sock] = "in"

\* Something is to come that takes the client further
Trying(c) ==
  \/ c.state = "HostLookup" /\ c.dns
  \/ c.state \in {"Connecting", "Reconnecting"} /\ c.expire
  \/ c.state = "Connected"
  \/ c.state = "Closing" /\ c.sock # NoHandle /\ c.conn[c.sock] \in {"closing", "canceled"}

\* Connected, not logged in, and no deadline: a line came that was not the answer
Hangs(c) == c.state = "Connected" /\ ~c.expire /\ ~HasLogin(c)
=============================================================================
