----------------------------- MODULE MC_Nonces -----------------------------
(* Nonces with two threads, jobs of the user and of the donation, and ranges *)
(* that do not divide the low half.                                          *)
EXTENDS Nonces, TLC

CONSTANTS w1, w2, a, a2, b, d, i1, i2, i3, i4, x, y, z

Threads == Permutations(Workers)

\* a2 is job a again with another id, b is another job, d is the donation's
MCIdOf   == (a :> i1) @@ (a2 :> i2) @@ (b :> i3) @@ (d :> i4)
MCBlobOf == (a :> x) @@ (a2 :> x) @@ (b :> y) @@ (d :> z)
MCMask   == (a :> 5) @@ (a2 :> 5) @@ (b :> 5) @@ (d :> 2)
=============================================================================
