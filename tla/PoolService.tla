----------------------------- MODULE PoolService -----------------------------
(***************************************************************************)
(* What a pool strategy promises to Network, its listener: it is told of   *)
(* one pool at a time, whose jobs it mines and which its results go to; a  *)
(* pool is replaced by another when it is lost, or by the first pool.      *)
(*                                                                         *)
(* Failover, with its clients, their sockets and libuv, implements this;   *)
(* Network takes the user's strategy to be so.                             *)
(***************************************************************************)
EXTENDS Integers

CONSTANT PoolSet \* the pools by their place in the configuration, from 0

VARIABLES
  serves, \* the pool whose results are taken, -1 for none
  mines   \* the pool whose job there is, -1 for none

psVars == <<serves, mines>>

PSInit == serves = -1 /\ mines = -1

\* onActive and the first onJob
Takes(p) ==
  /\ p = 0 \/ serves = -1
  /\ serves' = p /\ mines' = p

\* onPause
Loses == serves' = -1 /\ mines' = -1

PSNext == Loses \/ \E p \in PoolSet : Takes(p)

PSSpec == PSInit /\ [][PSNext]_psVars
=============================================================================
