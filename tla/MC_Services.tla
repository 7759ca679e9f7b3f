---------------------------- MODULE MC_Services ----------------------------
(***************************************************************************)
(* The components that share no state with each other, in one model: each  *)
(* behaviour is one of a single component, `part`, the others stay as they *)
(* begin. So the properties of each are checked over exactly its own       *)
(* behaviours, and its fairness is stated for the behaviours that are its  *)
(* own.                                                                    *)
(***************************************************************************)
EXTENDS Network, Results, Dns, LineReader, Daemon, SelfSelect, AutoPause

VARIABLE part

servicesVars == <<part, vars, resultsVars, dnsVars, lineVars, daemonVars, selfVars, pauseVars>>

\* Nothing pauses the miner, in the behaviours of other components
Calm == pauseConfig = pauseWorld /\ ~pauseWorld.battery /\ ~pauseWorld.active

ServicesInit ==
  /\ part \in {"network", "results", "dns", "line", "daemon", "self", "pause"}
  /\ Init /\ (part = "network" \/ mode = "none")
  /\ ResultsInit /\ DnsInit /\ LineInit /\ DaemonInit /\ SelfInit
  /\ PauseInit /\ (part = "pause" \/ Calm)

ServicesNext ==
  \/ part = "network" /\ Next
     /\ UNCHANGED <<part, resultsVars, dnsVars, lineVars, daemonVars, selfVars, pauseVars>>
  \/ part = "results" /\ ResultsNext
     /\ UNCHANGED <<part, vars, dnsVars, lineVars, daemonVars, selfVars, pauseVars>>
  \/ part = "dns" /\ DnsNext
     /\ UNCHANGED <<part, vars, resultsVars, lineVars, daemonVars, selfVars, pauseVars>>
  \/ part = "line" /\ LineNext
     /\ UNCHANGED <<part, vars, resultsVars, dnsVars, daemonVars, selfVars, pauseVars>>
  \/ part = "daemon" /\ DaemonNext
     /\ UNCHANGED <<part, vars, resultsVars, dnsVars, lineVars, selfVars, pauseVars>>
  \/ part = "self" /\ SelfNext
     /\ UNCHANGED <<part, vars, resultsVars, dnsVars, lineVars, daemonVars, pauseVars>>
  \/ part = "pause" /\ PauseNext
     /\ UNCHANGED <<part, vars, resultsVars, dnsVars, lineVars, daemonVars, selfVars>>

\* The fairness of Spec, ResultsSpec, DnsSpec, DaemonSpec and SelfSpec
NetworkFairness == WF_vars(part = "network" /\ OnTimer)

ResultsFairness ==
  /\ WF_resultsVars(part = "results" /\ wrong = "no" /\ (OnSchedule \/ Deliver))
  /\ SF_resultsVars(part = "results" /\ wrong = "no" /\ Swap)
  /\ \A w \in Workers :
       /\ WF_resultsVars(part = "results" /\ wrong = "no" /\ (Test(w) \/ Push(w) \/ Send(w)))
       /\ SF_resultsVars(part = "results" /\ wrong = "no" /\ Lock(w))

DnsPartFairness == WF_dnsVars(part = "dns" /\ DnsNext /\ (DnsResolved \/ DnsAnswer \/ DnsRest))

DaemonFairness ==
  /\ WF_daemonVars(part = "daemon" /\ DaemonTimer) /\ WF_daemonVars(part = "daemon" /\ DaemonAge)
  /\ \A s \in 1..DaemonSlots : WF_daemonVars(part = "daemon" /\ DaemonAnswer(s))

SelfFairness ==
  /\ WF_selfVars(part = "self" /\ SelfTick)
  /\ WF_selfVars(part = "self" /\ SelfAnswer) /\ WF_selfVars(part = "self" /\ SelfAgree)

ServicesSpec ==
  /\ ServicesInit /\ [][ServicesNext]_servicesVars
  /\ NetworkFairness /\ ResultsFairness /\ DnsPartFairness /\ DaemonFairness /\ SelfFairness
=============================================================================
