------------------------------ MODULE AutoPause ------------------------------
(***************************************************************************)
(* Who pauses the miner: the user (setEnabled by keys and the API), and    *)
(* the timer, on battery power and while the user is active, if the        *)
(* configuration says so (Miner::onTimer). What a pause does to threads is *)
(* in Mining; here is only `enabled`, and what the timer remembers.        *)
(***************************************************************************)
EXTENDS Integers

VARIABLES
  pauseConfig,  \* pause-on-battery, pause-on-active
  pauseWorld,   \* is the power a battery, is the user active
  pauseMiner,   \* MinerPrivate's battery_power, user_active, auto_pause and enabled
  pauseHistory  \* history: the timer has come since pauseConfig or pauseWorld changed
                \* (`seen`); the user changed `enabled` last; the configuration was changed
                \* while the timer had a reason to pause

pauseVars == <<pauseConfig, pauseWorld, pauseMiner, pauseHistory>>

Reason == [battery : BOOLEAN, active : BOOLEAN]

PauseTypeOK ==
  /\ pauseConfig \in Reason /\ pauseWorld \in Reason
  /\ pauseMiner \in [battery : BOOLEAN, active : BOOLEAN, count : 0..2, enabled : BOOLEAN]
  /\ pauseHistory \in [seen : BOOLEAN, user : BOOLEAN, reloaded : BOOLEAN]

PauseInit ==
  /\ pauseConfig \in Reason /\ pauseWorld \in Reason
  /\ pauseMiner = [battery |-> FALSE, active |-> FALSE, count |-> 0, enabled |-> TRUE]
  /\ pauseHistory = [seen |-> FALSE, user |-> FALSE, reloaded |-> FALSE]

\* setEnabled, of a miner m; not all that is asked for is done
SetEnabledAlways(m, e) == [m EXCEPT !.enabled = e]
Vetoed(m, e)           == pauseConfig.battery /\ m.battery /\ e
SetEnabled(m, e)       == IF Vetoed(m, e) THEN m ELSE [m EXCEPT !.enabled = e]

\* onTimer's lambda autoPause, for each of its states
PauseByBattery(m) ==
  LET n == m.count + (IF pauseWorld.battery THEN 1 ELSE -1)
  IN IF ~pauseConfig.battery \/ m.battery = pauseWorld.battery THEN m
     ELSE SetEnabled([m EXCEPT !.battery = pauseWorld.battery, !.count = n], n = 0)

PauseByActivity(m) ==
  LET n == m.count + (IF pauseWorld.active THEN 1 ELSE -1)
  IN IF ~pauseConfig.active \/ m.active = pauseWorld.active THEN m
     ELSE SetEnabled([m EXCEPT !.active = pauseWorld.active, !.count = n], n = 0)

PauseTimer ==
  /\ pauseMiner' = PauseByActivity(PauseByBattery(pauseMiner))
  /\ pauseHistory' = [pauseHistory EXCEPT !.seen = TRUE, !.user = @ /\ pauseMiner'.enabled = pauseMiner.enabled]
  /\ UNCHANGED <<pauseConfig, pauseWorld>>

\* Miner::execCommand and onRequest
PauseByUser(e) ==
  /\ pauseMiner' = SetEnabled(pauseMiner, e)
  /\ pauseHistory' = [pauseHistory EXCEPT !.user = @ \/ pauseMiner'.enabled # pauseMiner.enabled]
  /\ UNCHANGED <<pauseConfig, pauseWorld>>

\* A power cable, a key of the keyboard
PauseWorld ==
  /\ pauseWorld' \in Reason \ {pauseWorld}
  /\ pauseHistory' = [pauseHistory EXCEPT !.seen = FALSE]
  /\ UNCHANGED <<pauseConfig, pauseMiner>>

\* Another configuration, which Miner::onConfigChanged does not look into for this
PauseReload ==
  /\ pauseConfig' \in Reason \ {pauseConfig}
  /\ pauseHistory' = [pauseHistory EXCEPT !.seen = FALSE, !.reloaded = @ \/ pauseMiner.count > 0]
  /\ UNCHANGED <<pauseWorld, pauseMiner>>

PauseNext == PauseTimer \/ PauseWorld \/ PauseReload \/ \E e \in BOOLEAN : PauseByUser(e)

PauseSpec == PauseInit /\ [][PauseNext]_pauseVars

-----------------------------------------------------------------------------
(* Properties *)

OnBattery == pauseConfig.battery /\ pauseWorld.battery
Called    == OnBattery \/ (pauseConfig.active /\ pauseWorld.active)

\* When the timer has come, the miner is paused on battery whatever the user asked for; it
\* is paused while the user is active, and goes on when no reason is left, unless the
\* user said otherwise after the timer last did: two reasons that come and go in any
\* order, and what the user asks for in between, leave no pause behind. Not so if the
\* configuration is changed while there is a reason: its count stays.
PausesAsConfigured ==
  pauseHistory.seen /\ ~pauseHistory.reloaded =>
    /\ OnBattery => ~pauseMiner.enabled
    /\ pauseMiner.enabled = ~Called \/ pauseHistory.user
=============================================================================
