----------------------------- MODULE SelfSelect -----------------------------
(***************************************************************************)
(* Mining for a pool on block templates of one's own daemon:               *)
(* SelfSelectClient, between a stratum Client and the strategy. A job of   *)
(* the pool has no blob. The client asks the daemon for a template that is *)
(* made for the job, tells the pool which it has got, and gives the job to *)
(* its listener when the pool agrees. The daemon's answers come in any     *)
(* order and so may be late; those to an earlier request are ignored.      *)
(*                                                                         *)
(* The stratum client is here what it tells: a login with a job, a job,    *)
(* and that the connection was closed.                                     *)
(***************************************************************************)
EXTENDS Naturals

CONSTANTS SelfRetries, \* m_retries
          SelfJobs,    \* bound of the model: jobs of the pool
          SelfFaults   \* bound of the model: failures, and results for the daemon

ASSUME SelfAssumption == SelfRetries \in Nat /\ SelfJobs \in Nat /\ SelfFaults \in Nat

VARIABLES
  selfUp,     \* m_active: the pool's connection is logged in
  selfClient, \* m_state, m_sequence, m_failures, and m_job: its number and that of the job
              \* its blob was made for, 0 if it has none
  selfWeb,    \* requests to the daemon, with their id and the job they are made for
  selfPool,   \* block_template requests to the pool
  selfGiven,  \* the listener's job, as m_job; whether it takes the client for logged in
  selfFaults, \* for the bound
  selfHistory \* history: a job came before the pool agreed to the template of the one
              \* before (`overtaken`), and its request failed before the answer to the
              \* other came (`forgot`); the last request is never answered

selfVars == <<selfUp, selfClient, selfWeb, selfPool, selfGiven, selfFaults, selfHistory>>

SelfInit ==
  /\ selfUp = FALSE
  /\ selfClient = [state |-> "Idle", sequence |-> 1, failures |-> 0, job |-> 0, made |-> 0]
  /\ selfWeb = {} /\ selfPool = {}
  /\ selfGiven = [job |-> 0, made |-> 0, login |-> FALSE]
  /\ selfFaults = 0
  /\ selfHistory = [overtaken |-> FALSE, forgot |-> FALSE, unheard |-> FALSE]

SelfFault == selfFaults < SelfFaults /\ selfFaults' = selfFaults + 1

-----------------------------------------------------------------------------
(* What several handlers do *)

GivenUp(c) == c.failures > SelfRetries

\* setState; the listener hears of it when it was tried too often
Idle(c) == [c EXCEPT !.state = "Idle", !.failures = 0]

SelfRetry ==
  IF selfClient.state = "Retry" THEN UNCHANGED <<selfClient, selfGiven>>
  ELSE /\ selfClient' = [selfClient EXCEPT !.state = "Retry", !.failures = IF GivenUp(selfClient) THEN @ ELSE @ + 1]
       /\ selfGiven' = [selfGiven EXCEPT !.login = @ /\ ~GivenUp(selfClient)]

\* getBlockTemplate() of client c
GetBlockTemplate(c, web, history) ==
  /\ selfClient' = [c EXCEPT !.state = "Wait", !.sequence = @ + 1]
  /\ selfWeb' = web \union {[kind |-> "template", id |-> c.sequence, job |-> c.job]}
  /\ selfHistory' = [history EXCEPT !.unheard = FALSE]

\* onJobReceived
TakesJob(c) ==
  /\ c.job < SelfJobs
  /\ GetBlockTemplate([c EXCEPT !.job = @ + 1, !.made = 0], selfWeb,
                      [selfHistory EXCEPT !.overtaken = @ \/ selfPool # {}, !.forgot = FALSE])

-----------------------------------------------------------------------------
(* The pool *)

SelfLogin ==
  /\ ~selfUp /\ selfUp' = TRUE
  /\ TakesJob(Idle(selfClient))
  /\ selfGiven' = [selfGiven EXCEPT !.login = TRUE]
  /\ UNCHANGED <<selfPool, selfFaults>>

SelfJob ==
  /\ selfUp
  /\ TakesJob(selfClient)
  /\ UNCHANGED <<selfUp, selfPool, selfGiven, selfFaults>>

\* No answer comes on a connection that was closed
SelfClose ==
  /\ selfUp /\ selfUp' = FALSE
  /\ selfClient' = Idle(selfClient)
  /\ selfPool' = {}
  /\ selfGiven' = [selfGiven EXCEPT !.login = FALSE]
  /\ UNCHANGED <<selfWeb, selfFaults, selfHistory>>

\* The answer to block_template: m_job is given, whatever it is now
LoginAgain(given) == given.login
LoginTold(given)  == given.login \/ GivenUp(selfClient)

SelfAccepted(p) ==
  /\ p \in selfPool
  /\ selfPool' = selfPool \ {p}
  /\ selfClient' = Idle(selfClient)
  /\ selfGiven' = [job |-> selfClient.job, made |-> selfClient.made, login |-> LoginTold(selfGiven)]
  /\ selfHistory' = [selfHistory EXCEPT !.forgot = @ \/ (selfClient.state = "Retry" /\ selfClient.made = 0)]
  /\ UNCHANGED <<selfUp, selfWeb, selfFaults>>

SelfRefused(p) ==
  /\ p \in selfPool
  /\ SelfFault
  /\ selfPool' = selfPool \ {p}
  /\ SelfRetry
  /\ UNCHANGED <<selfUp, selfWeb, selfHistory>>

-----------------------------------------------------------------------------
(* The daemon *)

\* tick, when the pause is over
SelfTick ==
  /\ selfClient.state = "Retry"
  /\ GetBlockTemplate(selfClient, selfWeb, selfHistory)
  /\ UNCHANGED <<selfUp, selfPool, selfGiven, selfFaults>>

\* submit(): a result that makes a block goes to the daemon first, with the id that the
\* request for the next template will have
SelfSubmit ==
  /\ selfUp /\ selfGiven.job # 0
  /\ SelfFault
  /\ \E block \in {{}, {[kind |-> "submit", id |-> selfClient.sequence, job |-> selfGiven.job]}} :
       GetBlockTemplate(selfClient, selfWeb \union block, selfHistory)
  /\ UNCHANGED <<selfUp, selfPool, selfGiven>>

\* onHttpData ignores what does not answer the last request
LateNever(r) == FALSE
Late(r)      == selfClient.sequence - r.id # 1

SelfIgnore(r) ==
  /\ r \in selfWeb /\ Late(r)
  /\ selfWeb' = selfWeb \ {r}
  /\ UNCHANGED <<selfUp, selfClient, selfPool, selfGiven, selfFaults, selfHistory>>

\* parseResponse, and submitBlockTemplate, which is sent if there is a connection
SelfTemplate(r) ==
  /\ r \in selfWeb /\ ~Late(r) /\ r.kind = "template"
  /\ selfWeb' = selfWeb \ {r}
  /\ selfClient' = [selfClient EXCEPT !.made = r.job]
  /\ selfPool' = IF selfUp THEN selfPool \union {[id |-> r.id, job |-> selfClient.job]} ELSE selfPool
  /\ UNCHANGED <<selfUp, selfGiven, selfFaults, selfHistory>>

\* The answer to submitblock is no template
SelfSubmitted(r) ==
  /\ r \in selfWeb /\ ~Late(r) /\ r.kind = "submit"
  /\ selfWeb' = selfWeb \ {r}
  /\ SelfRetry
  /\ UNCHANGED <<selfUp, selfPool, selfFaults, selfHistory>>

\* A request fails, an earlier one too
SelfFails(r) ==
  /\ r \in selfWeb
  /\ SelfFault
  /\ selfWeb' = selfWeb \ {r}
  /\ SelfRetry
  /\ UNCHANGED <<selfUp, selfPool, selfHistory>>

\* HttpClient::onResolved with an error tells nobody
SelfLost(r) ==
  /\ r \in selfWeb
  /\ SelfFault
  /\ selfWeb' = selfWeb \ {r}
  /\ selfHistory' = [selfHistory EXCEPT !.unheard = @ \/ ~Late(r)]
  /\ UNCHANGED <<selfUp, selfClient, selfPool, selfGiven>>

SelfAnswer == \E r \in selfWeb : SelfIgnore(r) \/ SelfTemplate(r) \/ SelfSubmitted(r)
SelfAgree  == \E p \in selfPool : SelfAccepted(p)

SelfNext ==
  \/ SelfLogin \/ SelfJob \/ SelfClose \/ SelfTick \/ SelfSubmit
  \/ SelfAnswer \/ \E r \in selfWeb : SelfFails(r) \/ SelfLost(r)
  \/ SelfAgree \/ \E p \in selfPool : SelfRefused(p)

\* What is asked is answered, and tick is called
SelfSpec ==
  /\ SelfInit /\ [][SelfNext]_selfVars
  /\ WF_selfVars(SelfTick) /\ WF_selfVars(SelfAnswer) /\ WF_selfVars(SelfAgree)

-----------------------------------------------------------------------------
(* Properties *)

\* A job is given with the template that was made for it, though answers come late and
\* jobs in between. Where it has none, a job came before the pool had agreed to the
\* template of the one before: the answer gives the new one.
TemplateIsTheJobs ==
  selfGiven.made = selfGiven.job \/ (selfGiven.made = 0 /\ selfHistory.overtaken)

\* While the pool's connection lasts its newest job is given in the end with its
\* template, to a listener that takes the client for logged in, though requests fail,
\* are refused, or answered for another. Not so when the last request is never answered,
\* or when it failed and the pool's answer for the job before ends the wait for a retry.
Served == selfGiven = [job |-> selfClient.job, made |-> selfClient.job, login |-> TRUE]

JobsAreServed == <>[]selfUp => <>[](Served \/ selfHistory.unheard \/ selfHistory.forgot)
=============================================================================
