------------------------------- MODULE Daemon -------------------------------
(***************************************************************************)
(* Mining alone, with a node's daemon: DaemonClient when it polls (without *)
(* ZMQ). It asks by HTTP for the height, for block templates and to submit *)
(* a block. Every request has a connection of its own, so answers come in  *)
(* any order, and none comes when the address of the host is not found.    *)
(*                                                                         *)
(* A template is known by the block it builds on, the tip of the chain;    *)
(* height and hash of a tip are one number. getheight and getinfo are one  *)
(* request. m_failures, which only the listener looks at, is left out.     *)
(***************************************************************************)
EXTENDS Integers

CONSTANTS DaemonSlots, \* bound of the model: requests there are at a time, one at least
          DaemonTips,  \* bound of the model: how often the tip changes
          DaemonFaults \* bound of the model: requests that fail or are not answered

ASSUME DaemonAssumption == DaemonSlots \in Nat \ {0} /\ DaemonTips \in Nat /\ DaemonFaults \in Nat

VARIABLES
  daemonTip,    \* the newest block the daemon knows
  daemonClient, \* m_state, m_timer, the tip of m_job, m_prevHash, m_blocktemplateRequestHash,
                \* and whether the job is older than jobTimeout
  daemonWeb,    \* requests: what was asked, and the tip there was at that time
  daemonFaults, \* for the bound
  daemonUnheard \* history: a request with which it connects is never answered

daemonVars == <<daemonTip, daemonClient, daemonWeb, daemonFaults, daemonUnheard>>

None == -1 \* a null string, or no job
Tips == 0..DaemonTips
Free == [kind |-> "free", since |-> 0]

DaemonInit ==
  /\ daemonTip = 0
  /\ daemonClient = [state |-> "Unconnected", timer |-> "off", job |-> None, prev |-> None, asked |-> None, old |-> TRUE]
  /\ daemonWeb = [s \in 1..DaemonSlots |-> Free]
  /\ daemonFaults = 0 /\ daemonUnheard = FALSE

-----------------------------------------------------------------------------
(* Requests *)

\* fetch(), when the requests there are are those of web
Sends(kind, web) ==
  \E s \in DOMAIN web :
    /\ web[s] = Free /\ \A r \in 1..(s - 1) : web[r] # Free
    /\ daemonWeb' = [web EXCEPT ![s] = [kind |-> kind, since |-> daemonTip]]

\* The requests there are when s has been answered
Without(s) == [daemonWeb EXCEPT ![s] = Free]

DaemonFault == daemonFaults < DaemonFaults /\ daemonFaults' = daemonFaults + 1

\* retry(): a one-shot timer, though disconnected
Retried(c) == [c EXCEPT !.state = IF @ = "Connected" THEN "Connecting" ELSE @, !.timer = "once"]

-----------------------------------------------------------------------------
(* The owner, a strategy *)

\* connect(), of a pool that has an algorithm and a wallet
Connecting(c) == [c EXCEPT !.state = "Connecting"]

DaemonConnect ==
  /\ daemonClient.state = "Unconnected"
  /\ daemonClient' = Connecting(daemonClient)
  /\ Sends("template", daemonWeb)
  /\ UNCHANGED <<daemonTip, daemonFaults, daemonUnheard>>

\* disconnect() does not end requests
DaemonDisconnect ==
  /\ daemonClient.state # "Unconnected"
  /\ daemonClient' = [daemonClient EXCEPT !.state = "Unconnected", !.timer = "off"]
  /\ UNCHANGED <<daemonTip, daemonWeb, daemonFaults, daemonUnheard>>

\* submit(), of a result for the job there is
DaemonSubmit ==
  /\ daemonClient.job # None
  /\ Sends("submit", daemonWeb)
  /\ UNCHANGED <<daemonTip, daemonClient, daemonFaults, daemonUnheard>>

-----------------------------------------------------------------------------
(* Time *)

\* The timer: what the client knows of the chain is forgotten when the job is old
OutdatedHash(c) == IF c.old THEN [c EXCEPT !.prev = None] ELSE c
Outdated(c)     == IF c.old THEN [c EXCEPT !.prev = None, !.asked = None] ELSE c

DaemonTimer ==
  LET c == Outdated([daemonClient EXCEPT !.timer = IF @ = "once" THEN "off" ELSE @])
  IN /\ daemonClient.timer # "off"
     /\ \/ c.state = "Connecting" /\ daemonClient' = c /\ Sends("template", daemonWeb)
        \/ c.state = "Connected" /\ daemonClient' = c /\ Sends("height", daemonWeb)
        \/ c.state = "Unconnected" /\ daemonClient' = c /\ UNCHANGED daemonWeb
     /\ UNCHANGED <<daemonTip, daemonFaults, daemonUnheard>>

\* jobTimeout is over
DaemonAge ==
  /\ ~daemonClient.old
  /\ daemonClient' = [daemonClient EXCEPT !.old = TRUE]
  /\ UNCHANGED <<daemonTip, daemonWeb, daemonFaults, daemonUnheard>>

\* A block is found, ours or another
DaemonTip ==
  /\ daemonTip < DaemonTips
  /\ daemonTip' = daemonTip + 1
  /\ UNCHANGED <<daemonClient, daemonWeb, daemonFaults, daemonUnheard>>

-----------------------------------------------------------------------------
(* Answers: onHttpData *)

\* The tip of an answer is one there was since the request was made
TipFor(s) == daemonWeb[s].since..daemonTip

IsOutdated(c, tip) == c.prev # tip \/ c.old

\* To getheight: a template is asked for once for each tip
DaemonHeight(s) ==
  /\ daemonWeb[s].kind = "height"
  /\ \E tip \in TipFor(s) :
       IF IsOutdated(daemonClient, tip) /\ daemonClient.asked # tip
         THEN /\ daemonClient' = [daemonClient EXCEPT !.asked = tip]
              /\ Sends("template", Without(s))
         ELSE UNCHANGED daemonClient /\ daemonWeb' = Without(s)
  /\ UNCHANGED <<daemonTip, daemonFaults, daemonUnheard>>

\* parseJob, and setState(ConnectedState) with the timer it starts
JobOf(c, tip) ==
  LET d == [c EXCEPT !.job = tip, !.prev = tip, !.old = FALSE]
  IN IF c.state = "Connecting" THEN [d EXCEPT !.state = "Connected", !.timer = "poll"] ELSE d

\* To getblocktemplate: whatever the client has, this is its job
DaemonTemplate(s) ==
  /\ daemonWeb[s].kind = "template"
  /\ \E tip \in TipFor(s) : daemonClient' = JobOf(daemonClient, tip)
  /\ daemonWeb' = Without(s)
  /\ UNCHANGED <<daemonTip, daemonFaults, daemonUnheard>>

\* To submitblock, if the block is accepted
DaemonAccepted(s) ==
  /\ daemonWeb[s].kind = "submit"
  /\ Sends("template", Without(s))
  /\ UNCHANGED <<daemonTip, daemonClient, daemonFaults, daemonUnheard>>

\* An error, a refused block, or an answer that cannot be used: retry()
DaemonFails(s) ==
  /\ daemonWeb[s] # Free
  /\ DaemonFault
  /\ daemonClient' = Retried(daemonClient)
  /\ daemonWeb' = Without(s)
  /\ UNCHANGED <<daemonTip, daemonUnheard>>

\* HttpClient::onResolved with an error tells nobody, and no request has a timeout
DaemonLost(s) ==
  /\ daemonWeb[s] # Free
  /\ DaemonFault
  /\ daemonWeb' = Without(s)
  /\ daemonUnheard' = (daemonUnheard \/ daemonClient.state = "Connecting")
  /\ UNCHANGED <<daemonTip, daemonClient>>

DaemonAnswer(s) == DaemonHeight(s) \/ DaemonTemplate(s) \/ DaemonAccepted(s)

DaemonNext ==
  \/ DaemonConnect \/ DaemonDisconnect \/ DaemonSubmit \/ DaemonTimer \/ DaemonAge \/ DaemonTip
  \/ \E s \in 1..DaemonSlots : DaemonAnswer(s) \/ DaemonFails(s) \/ DaemonLost(s)

\* Time passes, and what is asked is answered
DaemonSpec ==
  /\ DaemonInit /\ [][DaemonNext]_daemonVars
  /\ WF_daemonVars(DaemonTimer) /\ WF_daemonVars(DaemonAge)
  /\ \A s \in 1..DaemonSlots : WF_daemonVars(DaemonAnswer(s))

-----------------------------------------------------------------------------
(* Properties *)

\* A client that is not disconnected mines on the newest tip from some time on when the
\* tip and the network come to rest, though answers overtake each other, so that an old
\* template replaces a newer one whose tip is not asked for again, and though requests
\* fail or are lost, but for one with which it connects: then it waits forever.
TipIsMined ==
  <>[](daemonClient.state # "Unconnected")
    => <>daemonUnheard \/ <>[](daemonClient.state = "Connected" /\ daemonClient.job = daemonTip)
=============================================================================
