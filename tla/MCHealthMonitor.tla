--------------------------- MODULE MCHealthMonitor ---------------------------
(* HealthMonitor on small instances: w has a WebSocket URL, p only HTTP,   *)
(* and b has both.                                                         *)
EXTENDS HealthMonitor

CONSTANTS w, p, b

\* Any number from anyone.
AnyBlock == [u \in Upstreams |-> 1..MaxBlock]

\* The feed is at the third block; the poller reports the first, behind by more
\* than a threshold of 1, or the second, which is within it.
FeedAhead == [u \in Upstreams |-> IF u = p THEN {1, 2} ELSE {3}]
=============================================================================
