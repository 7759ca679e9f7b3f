------------------------------ MODULE Network ------------------------------
(***************************************************************************)
(* Whose job the miner has: Network (Network.cpp), which hears from the    *)
(* user's strategy and from DonateStrategy (DonateStrategy.cpp), itself a  *)
(* listener of a strategy and of a proxy client of its own.                *)
(*                                                                         *)
(* The strategies are those of Failover, here by what they tell: that a    *)
(* pool is active, a job, and onPause. All of it runs in the event loop:   *)
(* a callback with all the calls it makes is one step.                     *)
(***************************************************************************)
EXTENDS Naturals

CONSTANT Modes \* Pools::proxyDonate: "none", "auto", "always"

ASSUME ModesAssumption == Modes \subseteq {"none", "auto", "always"}

VARIABLES
  mode,      \* the one configured
  user,      \* m_strategy->isActive(): a pool of the user is active
  job,       \* the miner's: "none", "donate", or the user's: "newest", or "old" when
             \* the active pool has sent another one
  active,    \* MinerPrivate::active, whether it may mine
  state,     \* m_state of DonateStrategy
  timer,     \* its m_timer is started
  pools,     \* its m_strategy: stopped ("off"), stopped in a lookup that goes on
             \* ("late"), "trying", or "on" when a pool is active
  proxy,     \* its m_proxy: "none", "trying", or "on" when logged in
  failures,  \* of the proxy
  again,     \* setState was called with the state there was
  orphaned   \* history: the miner's job is of a strategy that was deleted while it was
             \* active and never said so

donateVars == <<state, timer, pools, proxy, failures, again>>
minerVars  == <<job, active, orphaned>>
vars       == <<mode, user, minerVars, donateVars>>

TypeOK ==
  /\ mode \in Modes
  /\ user \in BOOLEAN
  /\ job \in {"none", "newest", "old", "donate"} /\ active \in BOOLEAN
  /\ state \in {"IDLE", "CONNECT", "ACTIVE", "WAIT"} /\ timer \in BOOLEAN
  /\ pools \in {"off", "late", "trying", "on"}
  /\ proxy \in {"none", "trying", "on"} /\ failures \in {0, 1, 2, 3}
  /\ again \in BOOLEAN /\ orphaned \in BOOLEAN

\* Constructors, and setState(STATE_IDLE)
Init ==
  /\ mode \in Modes
  /\ user = FALSE /\ job = "none" /\ active = FALSE
  /\ state = "IDLE" /\ timer = TRUE
  /\ pools = "off" /\ proxy = "none" /\ failures = 0
  /\ again = FALSE /\ orphaned = FALSE

IsActive == state = "ACTIVE"

\* Miner::setJob and pause
Mines(j) == job' = j /\ active' = TRUE /\ orphaned' = FALSE
Pauses   == active' = FALSE /\ UNCHANGED <<job, orphaned>>

-----------------------------------------------------------------------------
(* The user's strategy *)

\* A user's job that the miner does not get
Missed == job' = (IF job = "newest" THEN "old" ELSE job) /\ UNCHANGED <<active, orphaned>>

\* onJob for the user's strategy
OnUserJob == IF IsActive THEN Missed ELSE Mines("newest")

\* A pool became active or has a new job
UserJob ==
  /\ user' = TRUE
  /\ OnUserJob
  /\ UNCHANGED <<mode, donateVars>>

\* onPause for the user's strategy
UserLost ==
  /\ user
  /\ user' = FALSE
  /\ Pauses
  /\ UNCHANGED <<mode, donateVars>>

\* onConfigChanged: if the pools are others the old strategy is stopped and deleted;
\* FailoverStrategy::stop calls onPause, SinglePoolStrategy::stop does not
ConfigChanged ==
  /\ mode' \in Modes
  /\ \/ UNCHANGED <<user, minerVars>>
     \/ user' = FALSE /\ Pauses
     \/ user /\ user' = FALSE /\ orphaned' = TRUE /\ UNCHANGED <<job, active>>
  /\ UNCHANGED donateVars

-----------------------------------------------------------------------------
(* DonateStrategy *)

SetState(s) == state' = s /\ again' = (again \/ state = s)

\* onActive and onLoginSuccess: the time of the donation begins
ActivatedAgain   == SetState("ACTIVE") /\ timer' = TRUE
ActivatedUntimed == IF IsActive THEN UNCHANGED <<state, timer, again>> ELSE SetState("ACTIVE") /\ UNCHANGED timer
Activated        == IF IsActive THEN UNCHANGED <<state, timer, again>> ELSE SetState("ACTIVE") /\ timer' = TRUE

\* setJob, and Network's onJob for the donation
DonateJob == IF IsActive THEN Mines("donate") ELSE UNCHANGED minerVars

\* A login with its job, and one whose job is still to come
DonateLogin   == Activated /\ Mines("donate")
LoginAwaitJob == Activated /\ UNCHANGED minerVars

\* A pool logs in: one of those tried, one that was looked up when the strategy was
\* stopped, or the first one while the second is active. An AutoClient in its ETH mode
\* gets its job later.
PoolsLogin ==
  /\ pools # "off"
  /\ pools' = "on"
  /\ DonateLogin \/ LoginAwaitJob
  /\ UNCHANGED <<mode, user, proxy, failures>>

PoolsJob ==
  /\ pools = "on"
  /\ DonateJob
  /\ UNCHANGED <<mode, user, donateVars>>

\* A pool is lost, which nobody hears of, or a late lookup comes to nothing
PoolsLost ==
  /\ \/ pools = "on" /\ pools' = "trying"
     \/ pools = "late" /\ pools' = "off"
  /\ UNCHANGED <<mode, user, minerVars, state, timer, proxy, failures, again>>

\* m_strategy->connect()
PoolsConnect == pools' = IF pools = "on" THEN "on" ELSE "trying"

ProxyLogin ==
  /\ proxy = "trying"
  /\ proxy' = "on" /\ failures' = 0
  /\ DonateLogin
  /\ UNCHANGED <<mode, user, pools>>

ProxyJob ==
  /\ proxy = "on"
  /\ DonateJob
  /\ UNCHANGED <<mode, user, donateVars>>

\* onClose: the pools are tried when the proxy has failed twice
FallsBackOnly == proxy' = "none" /\ failures' = 0 /\ UNCHANGED pools
FallsBack     == proxy' = "none" /\ failures' = 0 /\ PoolsConnect

ProxyLost ==
  /\ proxy # "none"
  /\ IF failures = 1 /\ mode = "auto" THEN FallsBack
     ELSE proxy' = "trying" /\ failures' = (IF failures < 3 THEN failures + 1 ELSE 3) /\ UNCHANGED pools
  /\ UNCHANGED <<mode, user, minerVars, state, timer, again>>

\* connect(): by the user's pool if it is active and knows how, or to the pools
DonateConnect ==
  \/ mode # "none" /\ user /\ proxy' = "trying" /\ failures' = 0 /\ UNCHANGED pools
  \/ PoolsConnect /\ UNCHANGED <<proxy, failures>>

\* Network::onPause for the donation: resume(), or pause
UserPaused      == IF user THEN UNCHANGED minerVars ELSE Pauses
UserResumedOnly == IF user THEN Mines("newest") ELSE UNCHANGED minerVars
UserResumed     == IF user THEN Mines("newest") ELSE Pauses

OnTimer ==
  /\ timer
  /\ timer' = FALSE
  /\ IF IsActive
       THEN SetState("WAIT") /\ UserResumed /\ UNCHANGED <<pools, proxy, failures>>
       ELSE SetState("CONNECT") /\ DonateConnect /\ UNCHANGED minerVars
  /\ UNCHANGED <<mode, user>>

\* tick, three seconds after: everything is stopped, but for a lookup
Tick ==
  /\ state = "WAIT"
  /\ SetState("IDLE")
  /\ timer' = TRUE
  /\ pools' \in IF pools = "off" THEN {"off"} ELSE {"off", "late"}
  /\ proxy' = "none" /\ failures' = 0
  /\ UNCHANGED <<mode, user, minerVars>>

Next ==
  \/ UserJob \/ UserLost \/ ConfigChanged
  \/ PoolsLogin \/ PoolsJob \/ PoolsLost \/ ProxyLogin \/ ProxyJob \/ ProxyLost
  \/ OnTimer \/ Tick

\* The loop runs its timer
Spec == Init /\ [][Next]_vars /\ WF_vars(OnTimer)

-----------------------------------------------------------------------------
(* Properties *)

\* setState asserts that it changes the state: no login, timer or tick comes in a
\* state in which it must not.
StateChanges == ~again

\* While a pool of the user is active and the donation is not, the miner mines the
\* newest job of that pool, though jobs that came during the donation were dropped.
UserJobIsMined == user /\ ~IsActive => job = "newest" /\ active

\* The miner mines for the donation only while it is active, whatever comes late.
DonatesOnlyWhileActive == job = "donate" /\ active => IsActive

\* Without an active pool of the user or of the donation nothing is mined (but the
\* last job of a single pool that was taken out of the configuration).
MinesForSomeone == active => user \/ IsActive \/ orphaned

\* In every state of DonateStrategy something goes on that takes it to the next.
DonationGoesOn ==
  /\ state \in {"IDLE", "ACTIVE"} => timer
  /\ state = "CONNECT" => proxy # "none" \/ pools \in {"trying", "on"}

\* A user whose pool stays active mines for it again and again.
UserIsServed == <>[]user => []<>(job = "newest" /\ active)
=============================================================================
