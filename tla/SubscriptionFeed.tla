-------------------------- MODULE SubscriptionFeed --------------------------
(***************************************************************************)
(* What SharedSubscriptionManager (src/internal/subscription/shared.go)    *)
(* promises about one key, without connections, maps or goroutines.        *)
(*                                                                         *)
(* There is at most one feed.  It is opened for its first member, shared   *)
(* by whoever joins, closed when the last member leaves or the manager     *)
(* shuts down, and nobody joins or leaves while it opens or closes.  A     *)
(* retired feed may take a while to drain, and never serves anyone again.  *)
(***************************************************************************)
EXTENDS Integers

CONSTANTS Subscribers, MaxGen, NoSub

VARIABLES
    phase,      \* "off", "opening", "on", "closing"
    gen,        \* feeds opened so far: the number of the newest one
    caller,     \* the subscriber the feed is being opened for
    members,    \* subscribers of the feed
    draining    \* retired feeds that still hold resources

vars == <<phase, gen, caller, members, draining>>

Init ==
    phase = "off" /\ gen = 0 /\ caller = NoSub /\ members = {} /\ draining = {}

Join(c) ==
    /\ phase = "on"
    /\ members' = members \cup {c}
    /\ UNCHANGED <<phase, gen, caller, draining>>

Open(c) ==
    /\ phase = "off" /\ gen < MaxGen
    /\ phase' = "opening" /\ gen' = gen + 1 /\ caller' = c
    /\ UNCHANGED <<members, draining>>

Opened ==
    /\ phase = "opening"
    /\ phase' = "on" /\ members' = {caller} /\ caller' = NoSub
    /\ UNCHANGED <<gen, draining>>

\* No upstream could be subscribed: nothing is left behind.
OpenFails ==
    /\ phase = "opening"
    /\ phase' = "off" /\ caller' = NoSub
    /\ UNCHANGED <<gen, members, draining>>

Leave(c) ==
    /\ phase = "on"
    /\ members' = members \ {c}
    /\ phase' = IF members' = {} THEN "closing" ELSE "on"
    /\ UNCHANGED <<gen, caller, draining>>

ShutDown ==
    /\ phase = "on" /\ phase' = "closing"
    /\ UNCHANGED <<gen, caller, members, draining>>

\* The feed is retired, with or without something left to drain.
Retire ==
    /\ phase = "closing"
    /\ phase' = "off" /\ members' = {}
    /\ draining' \in {draining, draining \cup {gen}}
    /\ UNCHANGED <<gen, caller>>

Drain(g) ==
    /\ g \in draining
    /\ draining' = draining \ {g}
    /\ UNCHANGED <<phase, gen, caller, members>>

Next ==
    \/ \E c \in Subscribers : Join(c) \/ Open(c) \/ Leave(c)
    \/ Opened \/ OpenFails \/ ShutDown \/ Retire
    \/ \E g \in draining : Drain(g)

Spec == Init /\ [][Next]_vars
=============================================================================
