------------------------------ MODULE MCExecutor ------------------------------
(* Executor on small instances.                                            *)
EXTENDS Executor, TLC

CONSTANTS r1, a, b, f, g

\* Two of each role, not in the order of their roles.
FourUpstreams        == <<f, a, g, b>>
FourUpstreamsWeights == a :> 2 @@ b :> 1 @@ f :> 1 @@ g :> 3
=============================================================================
