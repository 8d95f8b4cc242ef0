----------------------------- MODULE EventFanout -----------------------------
(***************************************************************************)
(* The way of a newHeads event from an upstream to the clients:            *)
(* readUpstreamEvents and broadcastEvent of shared.go, the Deduplicator    *)
(* (dedup.go), and clientSubscriber.OnEvent with waitForMainBlock          *)
(* (client.go), for one registered SharedSubscription whose connections    *)
(* are up.  The health monitor is a subscriber among the others, and the   *)
(* gate in OnEvent reads what the monitor learned from the same events.    *)
(* An event is its place in the history of the chain: a reorganisation has *)
(* the number of an earlier event and another key; one that cannot be      *)
(* parsed has neither.                                                     *)
(*                                                                         *)
(* One reader goroutine per upstream with a WebSocket URL.  OnEvent runs   *)
(* in the reader, one subscriber after the other, in the random order of a *)
(* Go map.  The pool answers the gate's questions by a loop over the main  *)
(* upstreams, which loads the health of each at a moment of its own.       *)
(***************************************************************************)
EXTENDS Naturals, Sequences, FiniteSets, FiniteSetsExt, Functions

CONSTANTS
    Mains, Fallbacks,   \* upstreams by role
    MainOrder,          \* the mains in the order of the pool's list
    Polled,             \* upstreams without a WebSocket URL: no reader, polled for blocks
    PollEvents,         \* bound: the events whose block a poll may find
    Clients,            \* client subscriptions
    HM,                 \* the health monitor's subscriber
    Number,             \* the block number in each event, 0: none or unreadable
    Key,                \* the dedup key of each event, 0: none can be generated
    DedupSize,          \* dedupCacheSize
    ChanCap,            \* capacity of a subscriber's sendChan (100)
    Threshold           \* blockLagThreshold

ASSUME RoleAssumption == Mains \cap Fallbacks = {} /\ Polled \subseteq Mains \cup Fallbacks
ASSUME OrderAssumption ==
    MainOrder \in Seq(Mains) /\ \A m \in Mains : \E i \in 1..Len(MainOrder) : MainOrder[i] = m
ASSUME HMAssumption   == HM \notin Clients
ASSUME EventAssumption ==
    /\ Number \in Seq(Nat) /\ Key \in Seq(Nat) /\ Len(Key) = Len(Number)
    /\ PollEvents \subseteq 1..Len(Number)
ASSUME SizeAssumption ==
    DedupSize \in Nat \ {0} /\ ChanCap \in Nat \ {0} /\ Threshold \in Nat

Upstreams == Mains \cup Fallbacks
Last      == Len(Number)
Events    == 1..Last

VARIABLES
    next,       \* the first event the feed of an upstream has not passed
    pc,         \* where the reader of an upstream is
    ev,         \* the event it handles
    dup,        \* its verdict of IsDuplicate
    targets,    \* subscribers broadcastEvent has still to call
    cur,        \* the client whose OnEvent it is in
    look,       \* the place in MainOrder the gate's loop has come to, 0: no loop
    dedup,      \* keys of the LRU cache, most recent first
    state,      \* a client: "out", "in", "closed" (subscriber.Close), "gone"
    queue,      \* messages in the client's sendChan
    fresh,      \* history: events found new so far
    owed,       \* history: events found new while the client was subscribed, which
                \* its sendChan has neither taken nor dropped because it was full
    known,      \* Status.currentBlock of an upstream
    healthy,    \* Status.healthy of a main upstream
    lapse       \* history: mains that were unhealthy at some moment of a fallback's OnEvent

readerVars == <<next, pc, ev, dup, targets, cur, look>>
clientVars == <<state, queue>>
healthVars == <<known, healthy, lapse>>
historyVars == <<fresh, owed>>
vars == <<readerVars, dedup, clientVars, historyVars, healthVars>>

ReaderPCs == {"read", "contains", "add", "snapshot", "deliver",
              "gateBlock", "gateLoad", "gateHealthy", "tick", "send"}

NoClient == HM      \* cur, when the reader is in no client's OnEvent

Members == {HM} \cup {c \in Clients : state[c] \in {"in", "closed"}}

Larger(a, b) == IF a > b THEN a ELSE b

\* The loops over the mains: where they are, and their end.
LookedAt(u)  == MainOrder[look[u]]
LookedAll(u) == look[u] > Len(MainOrder)

\* The mains that are unhealthy now.
Unhealthy == {m \in Mains : ~healthy[m]}

Init ==
    /\ next    = [u \in Upstreams |-> 1]
    /\ pc      = [u \in Upstreams |-> "read"]
    /\ ev      = [u \in Upstreams |-> 0]
    /\ dup     = [u \in Upstreams |-> FALSE]
    /\ targets = [u \in Upstreams |-> {}]
    /\ cur     = [u \in Upstreams |-> NoClient]
    /\ look    = [u \in Upstreams |-> 0]
    /\ dedup   = <<>>
    /\ state   = [c \in Clients |-> "out"]
    /\ queue   = [c \in Clients |-> 0]
    /\ fresh   = {}
    /\ owed    = [c \in Clients |-> {}]
    /\ known   = [u \in Upstreams |-> 0]
    /\ healthy = [m \in Mains |-> TRUE]
    /\ lapse   = [u \in Upstreams |-> {}]

Goto(u, where) == pc' = [pc EXCEPT ![u] = where]

\* The same at a place in the list of mains.
Look(u, where, i) == Goto(u, where) /\ look' = [look EXCEPT ![u] = i]

\* OnEvent of the client returns.
Leave(u, where) ==
    /\ Goto(u, where)
    /\ cur'   = [cur EXCEPT ![u] = NoClient]
    /\ lapse' = [lapse EXCEPT ![u] = {}]

\* OnEvent of the client begins.  The lapses of a fallback's call are noted from now on.
Enter(u, c) ==
    /\ cur'   = [cur EXCEPT ![u] = c]
    /\ lapse' = IF u \in Fallbacks THEN [lapse EXCEPT ![u] = Unhealthy] ELSE lapse

\* IsDuplicate returns false; the clients of this moment are owed the event.
FoundNew(u) ==
    /\ dup'  = [dup EXCEPT ![u] = FALSE]
    /\ fresh' = fresh \cup {ev[u]}
    /\ owed' = [c \in Clients |-> IF state[c] = "in" THEN owed[c] \cup {ev[u]} ELSE owed[c]]
    /\ Goto(u, "snapshot")

-----------------------------------------------------------------------------
(* Faulty variants of the actions below, to show the properties can fail.  *)

\* LRU add without the bound.
AddKey_Unbounded(u) ==
    /\ pc[u] = "add"
    /\ dedup' = <<Key[ev[u]]>> \o dedup
    /\ FoundNew(u)
    /\ UNCHANGED <<next, ev, targets, cur, look, clientVars, healthVars>>

\* The number makes the key: a reorganised block looks like the one it replaces.
Contains_ByNumber(u) ==
    /\ pc[u] = "contains"
    /\ \/ Number[ev[u]] \in {Number[b] : b \in {e \in Events : Key[e] \in Range(dedup)}}
          /\ dup' = [dup EXCEPT ![u] = TRUE] /\ Goto(u, "snapshot") /\ UNCHANGED historyVars
       \/ Number[ev[u]] \notin {Number[b] : b \in {e \in Events : Key[e] \in Range(dedup)}}
          /\ Goto(u, "add") /\ UNCHANGED <<dup, historyVars>>
    /\ UNCHANGED <<next, ev, targets, cur, look, dedup, clientVars, healthVars>>

\* The gate gives up on the first tick, and the event with it.
GateTick_GivesUp(u) ==
    /\ pc[u] = "tick"
    /\ Leave(u, "deliver")
    /\ UNCHANGED <<next, ev, dup, targets, look, dedup, clientVars, historyVars, known, healthy>>

\* The gate asked for every upstream, not for fallbacks only.
CallClient_GateAll(u, c) ==
    /\ pc[u] = "deliver" /\ c \in targets[u] \cap Clients
    /\ targets' = [targets EXCEPT ![u] = @ \ {c}]
    /\ IF state[c] \in {"closed", "gone"}
         THEN UNCHANGED <<pc, look, cur, lapse>>
         ELSE Enter(u, c) /\ Look(u, "gateBlock", 1)
    /\ UNCHANGED <<next, ev, dup, dedup, clientVars, historyVars, known, healthy>>

\* HasHealthyMain asks the first main only.
GateHealthy_First(u) ==
    /\ pc[u] = "gateHealthy"
    /\ IF healthy[LookedAt(u)] THEN Look(u, "tick", 0) ELSE Look(u, "send", 0)
    /\ UNCHANGED <<next, ev, dup, targets, cur, dedup, clientVars, historyVars, healthVars>>

-----------------------------------------------------------------------------
(* The reader: receive, deduplicate, take the snapshot of subscribers.     *)

\* ReadMessage returns a notification.  A feed follows the history and may skip
\* some of it (it was reconnecting).
Receive(u, b) ==
    /\ u \notin Polled /\ pc[u] = "read" /\ b >= next[u]
    /\ next' = [next EXCEPT ![u] = b + 1]
    /\ ev'   = [ev EXCEPT ![u] = b]
    /\ Goto(u, "contains")
    /\ UNCHANGED <<dup, targets, cur, look, dedup, clientVars, historyVars, healthVars>>

\* IsDuplicate: without a key the event is new; else d.cache.Contains(key) ...
Contains(u) ==
    /\ pc[u] = "contains"
    /\ \/ Key[ev[u]] = 0 /\ FoundNew(u)
       \/ /\ Key[ev[u]] \in Range(dedup)
          /\ dup' = [dup EXCEPT ![u] = TRUE] /\ Goto(u, "snapshot") /\ UNCHANGED historyVars
       \/ /\ Key[ev[u]] \notin Range(dedup) \cup {0}
          /\ Goto(u, "add") /\ UNCHANGED <<dup, historyVars>>
    /\ UNCHANGED <<next, ev, targets, cur, look, dedup, clientVars, healthVars>>

\* lru.Cache.Add: a key that is there moves to the front; a new one is put there,
\* and the least recent is evicted if there are too many.
AfterAdd(k) ==
    IF k \in Range(dedup)
      THEN LET i == CHOOSE j \in 1..Len(dedup) : dedup[j] = k
           IN  <<k>> \o SubSeq(dedup, 1, i - 1) \o SubSeq(dedup, i + 1, Len(dedup))
      ELSE <<k>> \o SubSeq(dedup, 1, Min({DedupSize - 1, Len(dedup)}))

\* ... and d.cache.Add(key).  The cache locks each call by itself, not the pair.
AddKey(u) ==
    /\ pc[u] = "add"
    /\ dedup' = AfterAdd(Key[ev[u]])
    /\ FoundNew(u)
    /\ UNCHANGED <<next, ev, targets, cur, look, clientVars, healthVars>>

\* broadcastEvent copies the subscribers under s.mu; a duplicate goes to those
\* with SkipDedup only, the health monitor.
Snapshot(u) ==
    /\ pc[u] = "snapshot"
    /\ targets' = [targets EXCEPT ![u] = IF dup[u] THEN {HM} ELSE Members]
    /\ Goto(u, "deliver")
    /\ UNCHANGED <<next, ev, dup, cur, look, dedup, clientVars, historyVars, healthVars>>

-----------------------------------------------------------------------------
(* The reader: calling OnEvent of one subscriber after the other.          *)

\* HealthMonitor.OnBlock (its steps are in HealthMonitor): unless the event is
\* unreadable, the upstream has the block and is healthy.
CallMonitor(u) ==
    /\ pc[u] = "deliver" /\ HM \in targets[u]
    /\ targets' = [targets EXCEPT ![u] = @ \ {HM}]
    /\ known'   = [known EXCEPT ![u] = Larger(@, Number[ev[u]])]
    /\ healthy' = [m \in Mains |-> healthy[m] \/ (m = u /\ Number[ev[u]] # 0)]
    /\ UNCHANGED <<next, pc, ev, dup, cur, look, dedup, clientVars, historyVars, lapse>>

\* clientSubscriber.OnEvent: a closed subscriber is skipped; a block from a
\* fallback passes the gate first, unless its number is unreadable.
CallClient(u, c) ==
    /\ pc[u] = "deliver" /\ c \in targets[u] \cap Clients
    /\ targets' = [targets EXCEPT ![u] = @ \ {c}]
    /\ IF state[c] \in {"closed", "gone"}
         THEN UNCHANGED <<pc, look, cur, lapse>>
         ELSE /\ Enter(u, c)
              /\ IF u \in Fallbacks /\ Number[ev[u]] # 0
                   THEN Look(u, "gateBlock", 1) ELSE Goto(u, "send") /\ UNCHANGED look
    /\ UNCHANGED <<next, ev, dup, dedup, clientVars, historyVars, known, healthy>>

\* waitForMainBlock: pool.GetMainMaxBlock() >= blockNum.  Of each main the loop
\* loads the health ...
GateBlock(u) ==
    /\ pc[u] = "gateBlock"
    /\ \/ LookedAll(u) /\ Look(u, "gateHealthy", 1)
       \/ ~LookedAll(u) /\ healthy[LookedAt(u)] /\ Goto(u, "gateLoad") /\ UNCHANGED look
       \/ ~LookedAll(u) /\ ~healthy[LookedAt(u)] /\ Look(u, "gateBlock", look[u] + 1)
    /\ UNCHANGED <<next, ev, dup, targets, cur, dedup, clientVars, historyVars, healthVars>>

\* ... and of a healthy one the block; one that has the block settles the maximum.
GateLoad(u) ==
    /\ pc[u] = "gateLoad"
    /\ IF known[LookedAt(u)] >= Number[ev[u]]
         THEN Look(u, "send", 0) ELSE Look(u, "gateBlock", look[u] + 1)
    /\ UNCHANGED <<next, ev, dup, targets, cur, dedup, clientVars, historyVars, healthVars>>

\* Then !pool.HasHealthyMain(), a second loop that ends at the first healthy main,
GateHealthy(u) ==
    /\ pc[u] = "gateHealthy"
    /\ \/ LookedAll(u) /\ Look(u, "send", 0)
       \/ ~LookedAll(u) /\ healthy[LookedAt(u)] /\ Look(u, "tick", 0)
       \/ ~LookedAll(u) /\ ~healthy[LookedAt(u)] /\ Look(u, "gateHealthy", look[u] + 1)
    /\ UNCHANGED <<next, ev, dup, targets, cur, dedup, clientVars, historyVars, healthVars>>

\* and both again at the next tick, every 50 ms,
GateTick(u) ==
    /\ pc[u] = "tick"
    /\ Look(u, "gateBlock", 1)
    /\ UNCHANGED <<next, ev, dup, targets, cur, dedup, clientVars, historyVars, healthVars>>

\* unless the subscriber (or its session) is closed.
GateClosed(u) ==
    /\ pc[u] = "tick" /\ state[cur[u]] \in {"closed", "gone"}
    /\ Leave(u, "deliver")
    /\ UNCHANGED <<next, ev, dup, targets, look, dedup, clientVars, historyVars, known, healthy>>

\* The channel has taken the event, or dropped it.
HandedOver(u) ==
    /\ owed' = [owed EXCEPT ![cur[u]] = @ \ {ev[u]}]
    /\ Leave(u, "deliver")

\* The select that sends without blocking: a full channel drops the event.
Enqueue(u) ==
    /\ pc[u] = "send" /\ queue[cur[u]] < ChanCap
    /\ queue' = [queue EXCEPT ![cur[u]] = @ + 1]
    /\ HandedOver(u)
    /\ UNCHANGED <<next, ev, dup, targets, look, dedup, state, fresh, known, healthy>>

DropFull(u) ==
    /\ pc[u] = "send" /\ queue[cur[u]] = ChanCap /\ state[cur[u]] = "in"
    /\ HandedOver(u)
    /\ UNCHANGED <<next, ev, dup, targets, look, dedup, state, queue, fresh, known, healthy>>

\* The same select sees closeChan (of the subscriber or the session).
SendClosed(u) ==
    /\ pc[u] = "send" /\ state[cur[u]] \in {"closed", "gone"}
    /\ Leave(u, "deliver")
    /\ UNCHANGED <<next, ev, dup, targets, look, dedup, clientVars, historyVars, known, healthy>>

\* All called: back to reading.
BroadcastEnd(u) ==
    /\ pc[u] = "deliver" /\ targets[u] = {}
    /\ pc'  = [pc EXCEPT ![u] = "read"]
    /\ ev'  = [ev EXCEPT ![u] = 0]
    /\ dup' = [dup EXCEPT ![u] = FALSE]
    /\ UNCHANGED <<next, targets, cur, look, dedup, clientVars, historyVars, healthVars>>

-----------------------------------------------------------------------------
(* The clients, and the health monitor's polls and lag checks.             *)

Subscribe(c) ==
    /\ state[c] = "out" /\ state' = [state EXCEPT ![c] = "in"]
    /\ UNCHANGED <<readerVars, dedup, queue, historyVars, healthVars>>

\* Unsubscribe and Close of a session: subscriber.Close() first,
CloseSubscriber(c) ==
    /\ state[c] = "in" /\ state' = [state EXCEPT ![c] = "closed"]
    /\ owed' = [owed EXCEPT ![c] = {}]
    /\ UNCHANGED <<readerVars, dedup, queue, fresh, healthVars>>

\* then the shared subscription forgets it.
RemoveSubscriber(c) ==
    /\ state[c] = "closed" /\ state' = [state EXCEPT ![c] = "gone"]
    /\ UNCHANGED <<readerVars, dedup, queue, historyVars, healthVars>>

\* sendToClient takes a message out of sendChan.
SendToClient(c) ==
    /\ queue[c] > 0
    /\ queue' = [queue EXCEPT ![c] = @ - 1]
    /\ UNCHANGED <<readerVars, dedup, state, historyVars, healthVars>>

\* The health monitor finds m unhealthy: that is a lapse of every fallback's
\* call under way.
FoundUnhealthy(m) ==
    /\ healthy' = [healthy EXCEPT ![m] = FALSE]
    /\ lapse' = [u \in Upstreams |->
                   IF u \in Fallbacks /\ cur[u] # NoClient THEN lapse[u] \cup {m} ELSE lapse[u]]
    /\ UNCHANGED <<readerVars, dedup, clientVars, historyVars, known>>

\* A lag check finds a main upstream behind (at any time, which is more than
\* the one check per new maximum of HealthMonitor).
LagCheck(m) ==
    /\ healthy[m] /\ \E u \in Upstreams : known[u] > known[m] + Threshold
    /\ FoundUnhealthy(m)

\* An upstream without a feed is polled: with a block that is not too far behind
\* the others it is healthy.
Poll(p, b) ==
    /\ Number[b] # 0
    /\ known'   = [known EXCEPT ![p] = Larger(@, Number[b])]
    /\ healthy' = [m \in Mains |->
                     healthy[m] \/ (m = p /\ \A u \in Upstreams : known'[u] <= known'[p] + Threshold)]
    /\ UNCHANGED <<readerVars, dedup, clientVars, historyVars, lapse>>

\* A poll that gets no answer.
PollFails(p) == healthy[p] /\ FoundUnhealthy(p)

-----------------------------------------------------------------------------

ReaderStep(u) ==
    \/ Contains(u) \/ AddKey(u) \/ Snapshot(u) \/ CallMonitor(u)
    \/ \E c \in Clients : CallClient(u, c)
    \/ GateBlock(u) \/ GateLoad(u) \/ GateHealthy(u) \/ GateTick(u) \/ GateClosed(u)
    \/ Enqueue(u) \/ DropFull(u) \/ SendClosed(u) \/ BroadcastEnd(u)

\* All blocks reported, all clients gone, all queues drained.
Finished ==
    /\ \A u \in Upstreams : pc[u] = "read" /\ (u \in Polled \/ next[u] > Last)
    /\ \A c \in Clients : state[c] = "gone" /\ queue[c] = 0
    /\ UNCHANGED vars

Next ==
    \/ \E u \in Upstreams, b \in Events : Receive(u, b)
    \/ \E u \in Upstreams : ReaderStep(u)
    \/ \E c \in Clients :
          Subscribe(c) \/ CloseSubscriber(c) \/ RemoveSubscriber(c) \/ SendToClient(c)
    \/ \E m \in Mains : LagCheck(m)
    \/ \E p \in Polled, b \in PollEvents : Poll(p, b)
    \/ \E p \in Polled \cap Mains : PollFails(p)
    \/ Finished

Spec == Init /\ [][Next]_vars

\* Readers go on, whatever clients, polls and feeds do ...
ReadersGoOn == \A u \in Upstreams \ Polled : WF_vars(ReaderStep(u))

ReaderSpec == Spec /\ ReadersGoOn

\* ... and so do lag checks; a select that finds a tick and a close again and
\* again takes the close at last.  Nothing is assumed of the upstreams: any of
\* them may fall silent.
FairSpec ==
    /\ ReaderSpec
    /\ \A m \in Mains : WF_vars(LagCheck(m))
    /\ \A f \in Fallbacks : SF_vars(GateClosed(f))

-----------------------------------------------------------------------------
(* Properties.                                                             *)

TypeOK ==
    /\ next \in [Upstreams -> 1..Last + 1]
    /\ pc \in [Upstreams -> ReaderPCs]
    /\ ev \in [Upstreams -> 0..Last]
    /\ dup \in [Upstreams -> BOOLEAN]
    /\ targets \in [Upstreams -> SUBSET (Clients \cup {HM})]
    /\ cur \in [Upstreams -> Clients \cup {NoClient}]
    /\ look \in [Upstreams -> 0..Len(MainOrder) + 1]
    /\ dedup \in Seq(Range(Key)) /\ Len(dedup) <= DedupSize
    /\ state \in [Clients -> {"out", "in", "closed", "gone"}]
    /\ queue \in [Clients -> 0..ChanCap]
    /\ fresh \subseteq Events
    /\ owed \in [Clients -> SUBSET Events]
    /\ known \in [Upstreams -> Range(Number) \cup {0}]
    /\ healthy \in [Mains -> BOOLEAN]
    /\ lapse \in [Upstreams -> SUBSET Mains]

\* The reader of u still has to bring its event to client c.
OnItsWay(u, c) ==
    /\ ~dup[u]
    /\ pc[u] = "snapshot" \/ c \in targets[u] \/ cur[u] = c

\* What is suppressed as a duplicate was found new before: no block hides another
\* one, be it of the same number.
SuppressedWasNew == \A u \in Upstreams : dup[u] => ev[u] \in fresh

\* And what was found new is not lost to the copies that are suppressed: what a
\* subscribed client is owed is in the hands of a reader that will call it.
SeenIsDelivered ==
    \A c \in Clients : state[c] = "in" =>
        \A b \in owed[c] : \E u \in Upstreams : ev[u] = b /\ OnItsWay(u, c)

\* A block from a fallback does not overtake a main that keeps healthy: the
\* fallback's reader is past the gate only if a main upstream had the block, or
\* if every main was unhealthy at some moment since the client's OnEvent began,
\* though perhaps not all at the same moment.
GateHolds ==
    \A f \in Fallbacks : pc[f] = "send" =>
        lapse[f] = Mains \/ \E m \in Mains : known[m] >= Number[ev[f]]

\* A reader of a main upstream is never held up: no gate, no full channel and
\* no slow client keeps it from its next event.
MainReadersReturn ==
    \A m \in Mains \ Polled : pc[m] # "read" ~> pc[m] = "read"

\* docs/subscriptions.md:331: "blockLagThreshold: If main lags too far behind,
\* it becomes unhealthy", and 333: "When all main upstreams are unhealthy,
\* fallback events are forwarded immediately".  A fallback's event that waits
\* for a silent main upstream is let through at last.
FallbackPasses ==
    \A f \in Fallbacks : pc[f] = "tick" ~> pc[f] \in {"send", "deliver", "read"}
=============================================================================
