------------------------ MODULE MCSharedSubscription ------------------------
(* SharedSubscription on small instances.                                  *)
EXTENDS SharedSubscription, TLC

CONSTANTS c1, c2, u1, u2

Symmetric == Permutations({c1, c2}) \cup Permutations({u1, u2})
=============================================================================
