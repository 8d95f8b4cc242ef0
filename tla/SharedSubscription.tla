------------------------- MODULE SharedSubscription -------------------------
(***************************************************************************)
(* src/internal/subscription/shared.go: the SharedSubscriptionManager and  *)
(* the life of the shared subscription of ONE key (type and parameters).   *)
(* Keys meet only at the mutex m.mu and at the per-upstream counters, so   *)
(* one key shows every interleaving of the goroutines of one subscription. *)
(*                                                                         *)
(* Goroutines: the callers of Subscribe, Unsubscribe and Close, serialised *)
(* by m.mu, and one reader per (SharedSubscription object, upstream), run- *)
(* ning readUpstreamEventsWithReconnect.  A subscription object is called  *)
(* a generation: after the last subscriber left, the readers of the old    *)
(* generation may still run while a new one is dialled.                    *)
(*                                                                         *)
(* Events and their delivery are left out here (a message only moves a     *)
(* reader from "read" back to "head"): what is modelled is who owns which  *)
(* connection, who is registered, and what ends when.                      *)
(***************************************************************************)
EXTENDS Integers, FiniteSets

CONSTANTS
    Subscribers,    \* clients and the health monitor, by subscriber ID
    Upstreams,      \* upstreams with a WebSocket URL (pool.GetWithWS)
    MaxGen,         \* bound: SharedSubscription objects created for the key
    MaxFaults,      \* bound: connections lost to a peer close or read timeout
    ReadPanicLimit, \* failing reads of one connection before gorilla panics
    NoSub           \* "no subscriber"

ASSUME GenAssumption   == MaxGen \in Nat
ASSUME FaultAssumption == MaxFaults \in Nat
ASSUME PanicAssumption == ReadPanicLimit \in Nat \ {0, 1}
ASSUME NoSubAssumption == NoSub \notin Subscribers

Gens == 1..MaxGen

VARIABLES
    mu,         \* what the holder of m.mu is doing; "free": nobody holds it
    caller,     \* the subscriber a "create" is for
    rest,       \* upstreams the loop under m.mu has not handled yet
    gen,        \* SharedSubscription objects created so far
    cur,        \* generation registered in m.subscriptions, 0: none
    subs,       \* s.subscribers of each generation
    closed,     \* s.closed (and s.closeChan) of each generation
    upSubs,     \* s.upstreamSubs of each generation: the names it holds
    pc,         \* where the reader goroutine of a generation and upstream is
    open,       \* whether the connection of that reader's upSub is open
    badReads,   \* failed reads of that connection (gorilla's readErrCount)
    count,      \* Status.subscriptionCount of each upstream
    shut,       \* manager.Close: "no", "cancelled" (m.cancel), "closed"
    faults,     \* connection losses so far
    crash       \* "no", or how the Go runtime ended the process

mgrVars    == <<mu, caller, rest, gen, cur, subs, closed, shut>>
readerVars == <<upSubs, pc, open, badReads, count, faults>>
vars       == <<mgrVars, readerVars, crash>>

ReaderPCs == {"none", "head", "read", "wait", "dial", "install",
              "cleanup", "delete", "done"}

\* A reader sees s.closeChan closed or the manager's context cancelled.
\* upSub.closeChan is closed only by Close, after s.closeChan.
Stopping(g) == closed[g] \/ shut # "no"

\* The reader goroutine was started and has not returned.
Running(g, u) == pc[g][u] \notin {"none", "done"}

Init ==
    /\ mu = "free" /\ caller = NoSub /\ rest = {}
    /\ gen = 0 /\ cur = 0
    /\ subs     = [g \in Gens |-> {}]
    /\ closed   = [g \in Gens |-> FALSE]
    /\ upSubs   = [g \in Gens |-> {}]
    /\ pc       = [g \in Gens |-> [u \in Upstreams |-> "none"]]
    /\ open     = [g \in Gens |-> [u \in Upstreams |-> FALSE]]
    /\ badReads = [g \in Gens |-> [u \in Upstreams |-> 0]]
    /\ count    = [u \in Upstreams |-> 0]
    /\ shut = "no" /\ faults = 0 /\ crash = "no"

At(g, u, where) == pc[g][u] = where

Goto(g, u, where) == pc' = [pc EXCEPT ![g][u] = where]

-----------------------------------------------------------------------------
(* Faulty variants of the actions below: what a slip in the code would do. *)
(* No specification uses them; each breaks one of the properties.          *)

\* AddSubscriber after the caller was forgotten.
CreateEnd_ForgetsCaller ==
    /\ mu = "create" /\ rest = {}
    /\ cur'  = gen
    /\ subs' = [subs EXCEPT ![gen] = {NoSub}]
    /\ mu' = "free" /\ caller' = NoSub
    /\ UNCHANGED <<rest, gen, closed, shut, readerVars, crash>>

\* The error path of Subscribe returns without m.mu.Unlock().
CreateEnd_ErrorKeepsLock ==
    /\ mu = "create" /\ rest = {} /\ upSubs[gen] # {}
    /\ cur'  = gen
    /\ subs' = [subs EXCEPT ![gen] = {caller}]
    /\ mu' = "free" /\ caller' = NoSub
    /\ UNCHANGED <<rest, gen, closed, shut, readerVars, crash>>

\* Subscribe looks the key up without waiting for a running Unsubscribe.
SubscribeExisting_NoLock(c) ==
    /\ mu \in {"free", "unsubscribe"} /\ cur # 0
    /\ subs' = [subs EXCEPT ![cur] = @ \cup {c}]
    /\ UNCHANGED <<mu, caller, rest, gen, cur, closed, shut, readerVars, crash>>

\* The key is deleted without closing the object.
Unsubscribe_NoClose(c) ==
    /\ mu = "free" /\ cur # 0
    /\ subs' = [subs EXCEPT ![cur] = @ \ {c}]
    /\ cur'  = IF subs'[cur] = {} THEN 0 ELSE cur
    /\ UNCHANGED <<mu, caller, rest, gen, closed, shut, readerVars, crash>>

\* SubscriberCount() <= 1 instead of == 0.
Unsubscribe_OffByOne(c) ==
    /\ mu = "free" /\ cur # 0
    /\ subs' = [subs EXCEPT ![cur] = @ \ {c}]
    /\ IF Cardinality(subs'[cur]) <= 1
         THEN /\ closed' = [closed EXCEPT ![cur] = TRUE]
              /\ mu' = "unsubscribe" /\ rest' = Upstreams
         ELSE UNCHANGED <<closed, mu, rest>>
    /\ UNCHANGED <<caller, gen, cur, shut, readerVars, crash>>

\* unsubscribeFromUpstream leaves the connection open.
CloseUpstream_KeepsConn(u) ==
    /\ mu \in {"unsubscribe", "shutdown"}
    /\ u \in rest \cap upSubs[cur]
    /\ rest'  = rest \ {u}
    /\ count' = [count EXCEPT ![u] = @ - 1]
    /\ UNCHANGED <<mu, caller, gen, cur, subs, closed, shut,
                   upSubs, pc, open, badReads, faults, crash>>

\* The closed object stays in m.subscriptions.
CloseEnd_KeepsKey ==
    /\ mu \in {"unsubscribe", "shutdown"}
    /\ rest \cap upSubs[cur] = {}
    /\ mu' = "free" /\ rest' = {}
    /\ shut' = IF mu = "shutdown" THEN "closed" ELSE shut
    /\ UNCHANGED <<caller, gen, cur, subs, closed, readerVars, crash>>

\* Every read error is final.
ReadFails_GivesUp(g, u) ==
    /\ At(g, u, "read")
    /\ badReads[g][u] + 1 < ReadPanicLimit
    /\ open[g][u] => faults < MaxFaults
    /\ faults'   = IF open[g][u] THEN faults + 1 ELSE faults
    /\ badReads' = [badReads EXCEPT ![g][u] = @ + 1]
    /\ Goto(g, u, "cleanup")
    /\ UNCHANGED <<mgrVars, upSubs, open, count, crash>>

\* The way out of the wait forgets the map entry.
WaitStopped_KeepsEntry(g, u) ==
    /\ At(g, u, "wait") /\ Stopping(g)
    /\ Goto(g, u, "done")
    /\ UNCHANGED <<mgrVars, upSubs, open, badReads, count, faults, crash>>

\* After a reconnect the reader reads on without looking at closeChan.
ReconnectInstall_NoCheck(g, u) ==
    /\ At(g, u, "install")
    /\ upSubs'   = [upSubs EXCEPT ![g] = @ \cup {u}]
    /\ open'     = [open EXCEPT ![g][u] = TRUE]
    /\ badReads' = [badReads EXCEPT ![g][u] = 0]
    /\ Goto(g, u, "read")
    /\ UNCHANGED <<mgrVars, count, faults, crash>>

\* cleanupUpstreamSub leaves the connection open.
Cleanup_KeepsConn(g, u) ==
    /\ At(g, u, "cleanup")
    /\ count' = [count EXCEPT ![u] = @ - 1]
    /\ Goto(g, u, "delete")
    /\ UNCHANGED <<mgrVars, upSubs, open, badReads, faults, crash>>

-----------------------------------------------------------------------------
(* The manager: Subscribe, Unsubscribe and Close, under m.mu.              *)

\* Subscribe finds the key: AddSubscriber, all under m.mu.
SubscribeExisting(c) ==
    /\ mu = "free" /\ cur # 0
    /\ subs' = [subs EXCEPT ![cur] = @ \cup {c}]
    /\ UNCHANGED <<mu, caller, rest, gen, cur, closed, shut, readerVars, crash>>

\* Subscribe does not find the key: createSharedSubscription starts, and m.mu
\* stays locked while it dials.
SubscribeNew(c) ==
    /\ mu = "free" /\ cur = 0 /\ gen < MaxGen
    /\ mu' = "create" /\ caller' = c /\ rest' = Upstreams /\ gen' = gen + 1
    /\ UNCHANGED <<cur, subs, closed, shut, readerVars, crash>>

\* subscribeToUpstream succeeds: count, map entry, reader goroutine.
CreateDial(u) ==
    /\ mu = "create" /\ u \in rest
    /\ rest'     = rest \ {u}
    /\ count'    = [count EXCEPT ![u] = @ + 1]
    /\ upSubs'   = [upSubs EXCEPT ![gen] = @ \cup {u}]
    /\ pc'       = [pc EXCEPT ![gen][u] = "head"]
    /\ open'     = [open EXCEPT ![gen][u] = TRUE]
    /\ badReads' = [badReads EXCEPT ![gen][u] = 0]
    /\ UNCHANGED <<mu, caller, gen, cur, subs, closed, shut, faults, crash>>

\* subscribeToUpstream fails: the upstream is skipped, no reader is started.
CreateDialFails(u) ==
    /\ mu = "create" /\ u \in rest
    /\ rest' = rest \ {u}
    /\ UNCHANGED <<mu, caller, gen, cur, subs, closed, shut, readerVars, crash>>

\* All upstreams tried: register the generation with its first subscriber, or
\* return an error when its map of upstreams is empty.
CreateEnd ==
    /\ mu = "create" /\ rest = {}
    /\ IF upSubs[gen] = {}
         THEN UNCHANGED <<cur, subs>>
         ELSE /\ cur'  = gen
              /\ subs' = [subs EXCEPT ![gen] = {caller}]
    /\ mu' = "free" /\ caller' = NoSub
    /\ UNCHANGED <<rest, gen, closed, shut, readerVars, crash>>

\* Unsubscribe: RemoveSubscriber; with nobody left, Close starts (still under
\* m.mu) by setting s.closed and closing s.closeChan.
Unsubscribe(c) ==
    /\ mu = "free" /\ cur # 0
    /\ subs' = [subs EXCEPT ![cur] = @ \ {c}]
    /\ IF subs'[cur] = {}
         THEN /\ closed' = [closed EXCEPT ![cur] = TRUE]
              /\ mu' = "unsubscribe" /\ rest' = Upstreams
         ELSE UNCHANGED <<closed, mu, rest>>
    /\ UNCHANGED <<caller, gen, cur, shut, readerVars, crash>>

\* Manager.Close, before it asks for m.mu: m.cancel().
CancelManager ==
    /\ shut = "no" /\ shut' = "cancelled"
    /\ UNCHANGED <<mu, caller, rest, gen, cur, subs, closed, readerVars, crash>>

\* Manager.Close has m.mu: it closes the registered subscription, if any.
CloseManager ==
    /\ mu = "free" /\ shut = "cancelled"
    /\ IF cur = 0
         THEN shut' = "closed" /\ UNCHANGED <<closed, mu, rest>>
         ELSE /\ closed' = [closed EXCEPT ![cur] = TRUE]
              /\ mu' = "shutdown" /\ rest' = Upstreams
              /\ UNCHANGED shut
    /\ UNCHANGED <<caller, gen, cur, subs, readerVars, crash>>

\* Close's loop over s.upstreamSubs, which it reads without s.mu: a Go range
\* skips entries deleted meanwhile.  unsubscribeFromUpstream closes the
\* connection of the entry and decrements the upstream's counter.
CloseUpstream(u) ==
    /\ mu \in {"unsubscribe", "shutdown"}
    /\ u \in rest \cap upSubs[cur]
    /\ rest'  = rest \ {u}
    /\ open'  = [open EXCEPT ![cur][u] = FALSE]
    /\ count' = [count EXCEPT ![u] = @ - 1]
    /\ UNCHANGED <<mu, caller, gen, cur, subs, closed, shut,
                   upSubs, pc, badReads, faults, crash>>

\* The loop ends, the key is deleted and m.mu released.
CloseEnd ==
    /\ mu \in {"unsubscribe", "shutdown"}
    /\ rest \cap upSubs[cur] = {}
    /\ cur' = 0 /\ mu' = "free" /\ rest' = {}
    /\ shut' = IF mu = "shutdown" THEN "closed" ELSE shut
    /\ UNCHANGED <<caller, gen, subs, closed, readerVars, crash>>

-----------------------------------------------------------------------------
(* The reader goroutine of generation g and upstream u.                    *)

\* The two selects before a read (loop head, then readUpstreamEvents).
ReaderHead(g, u) ==
    /\ At(g, u, "head")
    /\ Goto(g, u, IF Stopping(g) THEN "cleanup" ELSE "read")
    /\ UNCHANGED <<mgrVars, upSubs, open, badReads, count, faults, crash>>

\* ReadMessage returns a message, which is broadcast.
ReadEvent(g, u) ==
    /\ At(g, u, "read") /\ open[g][u]
    /\ Goto(g, u, "head")
    /\ UNCHANGED <<mgrVars, upSubs, open, badReads, count, faults, crash>>

\* ReadMessage fails: always on a closed connection, on an open one when the
\* peer closes it or the read deadline passes.  The reader stops, or closes
\* the connection and waits for the reconnect interval.
ReadFails(g, u) ==
    /\ At(g, u, "read")
    /\ badReads[g][u] + 1 < ReadPanicLimit
    /\ open[g][u] => faults < MaxFaults
    /\ faults'   = IF open[g][u] THEN faults + 1 ELSE faults
    /\ badReads' = [badReads EXCEPT ![g][u] = @ + 1]
    /\ IF Stopping(g)
         THEN Goto(g, u, "cleanup") /\ UNCHANGED open
         ELSE /\ Goto(g, u, "wait")
              /\ open' = [open EXCEPT ![g][u] = FALSE]
    /\ UNCHANGED <<mgrVars, upSubs, count, crash>>

\* gorilla/websocket panics at the ReadPanicLimit-th failing read of one
\* connection, and nothing recovers.  A failed reconnect sends the reader back
\* to reading the connection it has already closed.
ReadPanics(g, u) ==
    /\ At(g, u, "read") /\ ~open[g][u]
    /\ badReads[g][u] + 1 >= ReadPanicLimit
    /\ crash' = "readPanic"
    /\ UNCHANGED <<mgrVars, readerVars>>

\* The select after the failure: closeChan or the manager's context.  This
\* way out deletes the map entry but does not decrement the counter.
WaitStopped(g, u) ==
    /\ At(g, u, "wait") /\ Stopping(g)
    /\ Goto(g, u, "delete")
    /\ UNCHANGED <<mgrVars, upSubs, open, badReads, count, faults, crash>>

\* The same select: the reconnect interval has passed.
WaitElapsed(g, u) ==
    /\ At(g, u, "wait")
    /\ Goto(g, u, "dial")
    /\ UNCHANGED <<mgrVars, upSubs, open, badReads, count, faults, crash>>

\* reconnectToUpstream succeeds: a second connection is open, and counted, in
\* a local variable of the reader until ReconnectInstall.
ReconnectDial(g, u) ==
    /\ At(g, u, "dial")
    /\ count' = [count EXCEPT ![u] = @ + 1]
    /\ Goto(g, u, "install")
    /\ UNCHANGED <<mgrVars, upSubs, open, badReads, faults, crash>>

\* reconnectToUpstream fails: back to the loop head with the old connection.
ReconnectFails(g, u) ==
    /\ At(g, u, "dial")
    /\ Goto(g, u, "head")
    /\ UNCHANGED <<mgrVars, upSubs, open, badReads, count, faults, crash>>

\* s.upstreamSubs[u] and the reader's own upSub become the new connection.
ReconnectInstall(g, u) ==
    /\ At(g, u, "install")
    /\ upSubs'   = [upSubs EXCEPT ![g] = @ \cup {u}]
    /\ open'     = [open EXCEPT ![g][u] = TRUE]
    /\ badReads' = [badReads EXCEPT ![g][u] = 0]
    /\ Goto(g, u, "head")
    /\ UNCHANGED <<mgrVars, count, faults, crash>>

\* cleanupUpstreamSub: close the connection, decrement the counter ...
Cleanup(g, u) ==
    /\ At(g, u, "cleanup")
    /\ open'  = [open EXCEPT ![g][u] = FALSE]
    /\ count' = [count EXCEPT ![u] = @ - 1]
    /\ Goto(g, u, "delete")
    /\ UNCHANGED <<mgrVars, upSubs, badReads, faults, crash>>

\* ... and, under s.mu, delete the map entry; the goroutine returns.
DeleteEntry(g, u) ==
    /\ At(g, u, "delete")
    /\ upSubs' = [upSubs EXCEPT ![g] = @ \ {u}]
    /\ Goto(g, u, "done")
    /\ UNCHANGED <<mgrVars, open, badReads, count, faults, crash>>

-----------------------------------------------------------------------------
(* createSharedSubscription writes s.upstreamSubs, and Close ranges over   *)
(* it, without s.mu.  When a reader of the same generation writes the map  *)
(* at that moment the Go runtime may throw "concurrent map ...", which     *)
(* ends the process.                                                       *)
ConcurrentMapAccess ==
    /\ mu # "free"
    /\ \E u \in Upstreams : pc[gen][u] \in {"install", "delete"}
    /\ crash' = "mapThrow"
    /\ UNCHANGED <<mgrVars, readerVars>>

ManagerStep ==
    \/ CreateEnd \/ CloseEnd
    \/ \E u \in Upstreams : CreateDial(u) \/ CreateDialFails(u) \/ CloseUpstream(u)

\* What a reader does by itself.  Messages and the loss of an open connection
\* are the peer's.
ReaderStep(g, u) ==
    \/ ReaderHead(g, u)
    \/ ~open[g][u] /\ ReadFails(g, u)
    \/ ReadPanics(g, u)
    \/ WaitStopped(g, u) \/ WaitElapsed(g, u)
    \/ ReconnectDial(g, u) \/ ReconnectFails(g, u) \/ ReconnectInstall(g, u)
    \/ Cleanup(g, u) \/ DeleteEntry(g, u)

PeerStep(g, u) == ReadEvent(g, u) \/ (open[g][u] /\ ReadFails(g, u))

\* Nothing is left to do: the process died, or it was shut down, every reader
\* returned and the bound on generations is reached.
Stopped ==
    /\ \/ crash # "no"
       \/ /\ shut = "closed" /\ mu = "free" /\ cur = 0 /\ gen = MaxGen
          /\ \A g \in Gens, u \in Upstreams : ~Running(g, u)
    /\ UNCHANGED vars

Next ==
    \/ /\ crash = "no"
       /\ \/ \E c \in Subscribers :
                SubscribeExisting(c) \/ SubscribeNew(c) \/ Unsubscribe(c)
          \/ CancelManager \/ CloseManager
          \/ ManagerStep
          \/ \E g \in Gens, u \in Upstreams : ReaderStep(g, u) \/ PeerStep(g, u)
          \/ ConcurrentMapAccess
    \/ Stopped

Spec == Init /\ [][Next]_vars

\* Goroutines that can run do run; dials end (handshake and read deadlines of
\* 10 s); sync.RWMutex does not starve Close.  Nothing is assumed of the peers:
\* an upstream may refuse every reconnect.
Fairness ==
    /\ WF_vars(crash = "no" /\ ManagerStep)
    /\ SF_vars(crash = "no" /\ CloseManager)
    /\ \A g \in Gens, u \in Upstreams :
          WF_vars(crash = "no" /\ ReaderStep(g, u))

FairSpec == Spec /\ Fairness

-----------------------------------------------------------------------------
(* Properties.                                                             *)

TypeOK ==
    /\ mu \in {"free", "create", "unsubscribe", "shutdown"}
    /\ caller \in Subscribers \cup {NoSub}
    /\ rest \subseteq Upstreams
    /\ gen \in 0..MaxGen /\ cur \in 0..MaxGen
    /\ subs \in [Gens -> SUBSET Subscribers]
    /\ closed \in [Gens -> BOOLEAN]
    /\ upSubs \in [Gens -> SUBSET Upstreams]
    /\ pc \in [Gens -> [Upstreams -> ReaderPCs]]
    /\ open \in [Gens -> [Upstreams -> BOOLEAN]]
    /\ badReads \in [Gens -> [Upstreams -> Nat]]
    /\ count \in [Upstreams -> Int]
    /\ shut \in {"no", "cancelled", "closed"}
    /\ faults \in Nat
    /\ crash \in {"no", "readPanic", "mapThrow"}

\* Whoever takes m.mu finds at the key either nothing or an object that is
\* open and has subscribers, the newest one: a subscriber never joins an object
\* whose Close has begun.
RegisteredIsLive ==
    mu = "free" /\ cur # 0 => cur = gen /\ ~closed[cur] /\ subs[cur] # {}

\* The only objects whose readers keep going are the registered one and the
\* one under construction: any other one with readers has been closed.  So an
\* upstream never serves two lasting subscriptions for the same key.
OneLiveFeed ==
    \A g \in Gens : \A u \in Upstreams :
        Running(g, u) => closed[g] \/ g = cur \/ (g = gen /\ mu = "create")

\* An open connection belongs to a reader that will still use or close it: no
\* reader returns, or goes to wait for a reconnect, with its connection open.
NoLeakedConnection ==
    \A g \in Gens, u \in Upstreams :
        open[g][u] => pc[g][u] \in {"head", "read", "cleanup"}

\* Close finds every connection through s.upstreamSubs, which readers change
\* while it loops: once Close has returned (the key holds another object or
\* none), no reader of the closed object sits in ReadMessage on an open
\* connection, even if it reconnected during the loop.
CloseReachesReaders ==
    \A g \in Gens, u \in Upstreams :
        closed[g] /\ g # cur => ~(pc[g][u] = "read" /\ open[g][u])

\* s.upstreamSubs names exactly the upstreams whose reader has not returned.
MapMatchesReaders ==
    \A g \in Gens, u \in Upstreams : u \in upSubs[g] <=> Running(g, u)

\* A closed object stays closed and gets no subscriber and no reader.
ClosedIsFinal ==
    [][\A g \in Gens : closed[g] =>
          /\ closed'[g] /\ subs'[g] \subseteq subs[g]
          /\ \A u \in Upstreams : Running(g, u)' => Running(g, u)]_vars

\* Unless the process dies, the readers of a closed object all return.
ClosedReadersReturn ==
    \A g \in Gens :
        closed[g] ~> (crash # "no" \/ \A u \in Upstreams : ~Running(g, u))

\* A reader never gives an upstream up: as long as its object is in use it has
\* an open connection again and again, unless the process dies.
LostIsReconnected ==
    \A g \in Gens, u \in Upstreams :
        Running(g, u) ~> (open[g][u] \/ Stopping(g) \/ crash # "no")

\* Close of the manager gets m.mu and returns.
ShutdownCompletes == shut = "cancelled" ~> (shut = "closed" \/ crash # "no")

\* docs/subscriptions.md:179: "If failed: waits and retries indefinitely".
RetriesIndefinitely == crash # "readPanic"

-----------------------------------------------------------------------------
(* What the manager promises its callers: SubscriptionFeed.                *)

Opening(g) == mu = "create" /\ g = gen

phaseBar ==
    CASE mu = "create"                      -> "opening"
      [] mu \in {"unsubscribe", "shutdown"} -> "closing"
      [] mu = "free" /\ cur # 0             -> "on"
      [] mu = "free" /\ cur = 0             -> "off"

membersBar == IF cur = 0 THEN {} ELSE subs[cur]

drainingBar ==
    {g \in Gens : g # cur /\ ~Opening(g) /\ \E u \in Upstreams : Running(g, u)}

Feed == INSTANCE SubscriptionFeed
            WITH phase <- phaseBar, members <- membersBar, draining <- drainingBar

\* The manager and its readers implement the promise.
ImplementsFeed == Feed!Spec

=============================================================================
