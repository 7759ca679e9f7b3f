----------------------------- MODULE MC_Mining -----------------------------
(* Mining with few threads, jobs, seeds and algorithms. *)
EXTENDS Mining, TLC

CONSTANTS w1, w2, j1, j2, j3, s1, s2, a1, a2

Threads == Permutations(Workers)

\* Two jobs of one seed and one of another, all of one algorithm
OneAlgoSeedOf == (j1 :> s1) @@ (j2 :> s1) @@ (j3 :> s2)
OneAlgoAlgoOf == (s1 :> a1) @@ (s2 :> a1)

\* One job
OneJobSeedOf == j1 :> s1

\* Two jobs of different seeds
TwoSeedOf == (j1 :> s1) @@ (j3 :> s2)

\* ... and of different algorithms
TwoAlgoAlgoOf == (s1 :> a1) @@ (s2 :> a2)
=============================================================================
