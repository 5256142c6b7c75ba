----------------------------- MODULE MCDomains ------------------------------
(* One configured domain, one custom one, and an identity at home in each.  *)
EXTENDS Domains, TLC

CONSTANTS s1, c1, i1, i2
MCHome == i1 :> s1 @@ i2 :> c1
Symmetry == Permutations(Threads)
=============================================================================
