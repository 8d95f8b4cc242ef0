---------------------------- MODULE MCEventFanout ----------------------------
(* EventFanout on small instances.                                         *)
EXTENDS EventFanout

CONSTANTS m1, m2, f1, c1

\* A block, the one that replaces it after a reorganisation, and a later one
\* without a hash.
MCNumber == <<1, 1, 2>>
MCKey    == <<1, 2, 0>>

MCOneMain   == <<m1>>
MCTwoMains  == <<m2, m1>>
\* Whoever misses one of these is behind by more than a threshold of 1.
MCTwoBlocks == <<2, 4>>
=============================================================================
