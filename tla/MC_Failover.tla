---------------------------- MODULE MC_Failover ----------------------------
EXTENDS Failover, TLC

CONSTANTS h1, h2

NoneReliable == {{}}
OneReliable  == {{0}, {1}}

UntilOverlap == ~overlapped

Symmetric == Permutations(Handles)
=============================================================================
