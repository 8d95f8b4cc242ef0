----------------------------- MODULE ClientSession -----------------------------
(***************************************************************************)
(* One WebSocket connection and its subscriptions: ws/client.go,           *)
(* subscription/manager.go and the ClientSession of subscription/client.go.*)
(*                                                                         *)
(* Actors: the read goroutine, which handles one message at a time, a      *)
(* batch request by request; the write goroutine, which empties the send   *)
(* queue and closes the client when a write or a ping fails; the goroutine *)
(* of each subscription that forwards its events to the queue; the server  *)
(* that shuts down (CloseAll).  The first two close through closeOnce, the *)
(* last closes the session only, and the connection stays.  What the       *)
(* shared subscriptions do is in SharedSubscription; here they are the set *)
(* of subscribers registered with them.                                    *)
(***************************************************************************)
EXTENDS Naturals, Sequences, FiniteSets

CONSTANTS
    Subs,       \* bound: subscription ids the connection may be given
    MaxSubs,    \* maxSubscriptionsPerClient
    QueueCap,   \* capacity of Client.sendChan (256)
    MaxBatch,   \* bound: requests of one message, ordinary ones counting as one
    NoSub       \* "no subscription"

ASSUME NoSubAssumption == NoSub \notin Subs
ASSUME MaxAssumption   == MaxSubs \in Nat /\ QueueCap \in Nat \ {0} /\ MaxBatch \in Nat \ {0}

\* A connection has a new session at most after RemoveSession and after
\* CloseAll, each of which happens once.
Sessions == 1..3
Closers  == {"client", "server"}

VARIABLES
    rp,         \* where the read goroutine is
    rs,         \* the session its request uses
    sub,        \* the subscription its request is about
    left,       \* subscription requests of its message it has not come to
    plain,      \* ... and whether ordinary requests are to follow
    answer,     \* history: the answer that is followed, "none": written or dropped
    queue,      \* sendChan
    writer,     \* the write goroutine: "idle", the message it writes, "gone"
    once,       \* closeOnce: "free", "busy", "done"
    conn,       \* the connection: "up", "dead" (the client is gone), "closed"
    registered, \* Manager.sessions[conn], 0: none
    created,    \* sessions created so far
    closed,     \* ClientSession.closed
    subsOf,     \* ClientSession.subscriptions
    owner,      \* the session of a subscription, 0: not yet created
    ended,      \* clientSubscriber.closed
    sender,     \* sendToClient goroutine: "none", "running", "done"
    shared,     \* subscribers registered with the shared subscriptions
    cp,         \* where a closer is
    victim,     \* the session it closes
    todo,       \* subscriptions it has still to end
    hand        \* the one it is about to unregister

readerVars  == <<rp, rs, sub>>
sessionVars == <<registered, created, closed, subsOf, owner>>
subVars     == <<ended, sender, shared>>
closerVars  == <<cp, victim, todo, hand>>
messageVars == <<left, plain>>
sendVars    == <<answer, queue, writer>>
connVars    == <<messageVars, sendVars, once, conn>>
vars == <<readerVars, sessionVars, subVars, closerVars, connVars>>

ReaderPCs == {"head", "read", "next", "get", "check", "subscribe", "store",
              "find", "take", "end", "unregister", "respond",
              "close", "waitOnce", "gone"}
CloserPCs == {"idle", "remove", "close", "subs", "unregister", "conn", "done"}

\* generateSubID: an id that was not used before.
NewId == CHOOSE x \in Subs : owner[x] = 0

\* One answer at a time is followed, whichever; the others, and the events,
\* look alike.
Messages == {"followed", "other"}
Fates    == {"none", "owed", "queued"}

\* c.closeChan is closed: Client.Close was called.
ClientClosed == once # "free"

Init ==
    /\ rp = "head" /\ rs = 0 /\ sub = NoSub /\ left = 0 /\ plain = FALSE
    /\ answer = "none" /\ queue = <<>> /\ writer = "idle"
    /\ once = "free" /\ conn = "up"
    /\ registered = 0 /\ created = 0
    /\ closed = [s \in Sessions |-> FALSE]
    /\ subsOf = [s \in Sessions |-> {}]
    /\ owner  = [x \in Subs |-> 0]
    /\ ended  = [x \in Subs |-> FALSE]
    /\ sender = [x \in Subs |-> "none"]
    /\ shared = {}
    /\ cp     = [a \in Closers |-> "idle"]
    /\ victim = [a \in Closers |-> 0]
    /\ todo   = [a \in Closers |-> {}]
    /\ hand   = [a \in Closers |-> NoSub]

\* The handler of the request has its response.
ToRespond == rp' = "respond" /\ rs' = 0 /\ sub' = NoSub

-----------------------------------------------------------------------------
(* Faulty variants of the actions below, to show the properties can fail.  *)

\* The session is not stored in the manager's map.
GetOrCreateSession_NotStored ==
    /\ rp = "get" /\ created < 4
    /\ created' = created + 1 /\ rs' = 1
    /\ rp' = "check"
    /\ UNCHANGED <<sub, registered, closed, subsOf, owner, subVars, closerVars, connVars>>

\* len > maxSubs instead of >=.
CheckSession_OffByOne ==
    /\ rp = "check"
    /\ IF closed[rs] \/ Cardinality(subsOf[rs]) > MaxSubs
         THEN ToRespond /\ UNCHANGED owner
         ELSE /\ owner' = [owner EXCEPT ![NewId] = rs]
              /\ sub' = NewId /\ rp' = "subscribe" /\ UNCHANGED rs
    /\ UNCHANGED <<registered, created, closed, subsOf, subVars, closerVars, connVars>>

\* The subscription stays in the session's map.
TakeSubscription_NoDelete ==
    /\ rp = "take"
    /\ IF sub \in subsOf[rs] THEN rp' = "end" /\ UNCHANGED <<rs, sub>> ELSE ToRespond
    /\ UNCHANGED <<sessionVars, subVars, closerVars, connVars>>

\* The map is emptied before its subscriptions are collected.
CloseSession_EmptyFirst(a) ==
    /\ cp[a] = "close"
    /\ closed' = [closed EXCEPT ![victim[a]] = TRUE]
    /\ subsOf' = [subsOf EXCEPT ![victim[a]] = {}]
    /\ cp' = [cp EXCEPT ![a] = "subs"]
    /\ UNCHANGED <<readerVars, registered, created, owner, subVars,
                   victim, todo, hand, connVars>>

\* The subscriber is not closed.
EndSubscriber_LeftOpen ==
    /\ rp = "end" /\ rp' = "unregister"
    /\ UNCHANGED <<rs, sub, sessionVars, subVars, closerVars, connVars>>

\* The error of a subscribe is not reported.
SubscribeSharedFails_Silent ==
    /\ rp = "subscribe" /\ rp' = "head" /\ rs' = 0 /\ sub' = NoSub
    /\ UNCHANGED <<sessionVars, subVars, closerVars, connVars>>

\* send waits until there is room.
Drop_Never == FALSE /\ UNCHANGED queue

-----------------------------------------------------------------------------
(* The read goroutine: readPump and handleMessage.                         *)

ReadHead ==
    /\ rp = "head" /\ rp' = IF ClientClosed THEN "close" ELSE "read"
    /\ UNCHANGED <<rs, sub, sessionVars, subVars, closerVars, connVars>>

\* ReadMessage fails: the client hung up or did not answer the pings (the read
\* deadline), or Close was called.
ReadFails ==
    /\ rp = "read" /\ rp' = "close"
    /\ UNCHANGED <<rs, sub, sessionVars, subVars, closerVars, connVars>>

\* A message: n subscription requests and maybe ordinary ones; more than one
\* request is a batch.  A message that cannot be parsed is answered as one.
Read(n, p) ==
    /\ rp = "read" /\ conn = "up" /\ n + (IF p THEN 1 ELSE 0) \in 1..MaxBatch
    /\ rp' = "next" /\ left' = n /\ plain' = p
    /\ UNCHANGED <<rs, sub, sessionVars, subVars, closerVars, sendVars, once, conn>>

\* A request may be the one whose answer is followed.
Follow == answer' \in {answer, IF answer = "none" THEN "owed" ELSE answer}

\* eth_subscribe (while the bound leaves an id for it).
NextSubscribe ==
    /\ rp = "next" /\ left > 0 /\ left' = left - 1
    /\ \E x \in Subs : owner[x] = 0
    /\ rp' = "get" /\ Follow
    /\ UNCHANGED <<rs, sub, sessionVars, subVars, closerVars, plain, queue, writer, once, conn>>

\* eth_unsubscribe of an id the connection was given.
NextUnsubscribe(x) ==
    /\ rp = "next" /\ left > 0 /\ left' = left - 1
    /\ owner[x] # 0
    /\ rp' = "find" /\ sub' = x /\ Follow
    /\ UNCHANGED <<rs, sessionVars, subVars, closerVars, plain, queue, writer, once, conn>>

\* A subscription request that is invalid.
NextInvalid ==
    /\ rp = "next" /\ left > 0 /\ left' = left - 1
    /\ rp' = "respond" /\ Follow
    /\ UNCHANGED <<rs, sub, sessionVars, subVars, closerVars, plain, queue, writer, once, conn>>

\* Last, the ordinary requests together: cache and upstreams (ProxyCache), or
\* one error if any of them is invalid.
NextPlain ==
    /\ rp = "next" /\ left = 0 /\ plain /\ plain' = FALSE
    /\ rp' = "respond" /\ Follow
    /\ UNCHANGED <<rs, sub, sessionVars, subVars, closerVars, left, queue, writer, once, conn>>

-----------------------------------------------------------------------------
(* send, of the read goroutine and of those that forward events.           *)

Enqueue(m) == Len(queue) < QueueCap /\ queue' = Append(queue, m)

\* The select drops when the channel is full, and may when closeChan is closed.
Drop == (Len(queue) >= QueueCap \/ ClientClosed) /\ UNCHANGED queue

\* The response is sent; the next request of the message, or the next message.
Respond ==
    /\ rp = "respond" /\ rp' = IF left > 0 \/ plain THEN "next" ELSE "head"
    /\ IF answer = "owed"
         THEN \/ Enqueue("followed") /\ answer' = "queued"
              \/ Drop /\ answer' = "none"
         ELSE (Enqueue("other") \/ Drop) /\ UNCHANGED answer
    /\ UNCHANGED <<rs, sub, sessionVars, subVars, closerVars, messageVars, writer, once, conn>>

\* sendToClient forwards an event of its subscription, as long as its select
\* does not choose a closed closeChan instead.
SenderForwards(x) ==
    /\ sender[x] = "running"
    /\ Enqueue("other") \/ Drop
    /\ UNCHANGED <<readerVars, sessionVars, subVars, closerVars,
                   messageVars, answer, writer, once, conn>>

\* sendToClient sees the closeChan of its subscriber or of its session.
SenderEnds(x) ==
    /\ sender[x] = "running" /\ (ended[x] \/ closed[owner[x]])
    /\ sender' = [sender EXCEPT ![x] = "done"]
    /\ UNCHANGED <<readerVars, sessionVars, ended, shared, closerVars, connVars>>

-----------------------------------------------------------------------------
(* The write goroutine: writePump.                                         *)

WriterTakes ==
    /\ writer = "idle" /\ queue # <<>>
    /\ writer' = Head(queue) /\ queue' = Tail(queue)
    /\ UNCHANGED <<readerVars, sessionVars, subVars, closerVars, messageVars,
                   answer, once, conn>>

\* WriteMessage may succeed for a while after the client is gone.
WriteSucceeds ==
    /\ writer \in Messages /\ conn # "closed"
    /\ writer' = "idle"
    /\ answer' = IF writer = "followed" THEN "none" ELSE answer
    /\ UNCHANGED <<readerVars, sessionVars, subVars, closerVars, messageVars,
                   queue, once, conn>>

-----------------------------------------------------------------------------
(* eth_subscribe: Manager.Subscribe and ClientSession.Subscribe.           *)

GetOrCreateSession ==
    /\ rp = "get" /\ rp' = "check"
    /\ IF registered # 0
         THEN rs' = registered /\ UNCHANGED <<registered, created>>
         ELSE /\ created' = created + 1
              /\ registered' = created + 1 /\ rs' = created + 1
    /\ UNCHANGED <<sub, closed, subsOf, owner, subVars, closerVars, connVars>>

\* First critical section: a closed session and a full one refuse.
CheckSession ==
    /\ rp = "check"
    /\ IF closed[rs] \/ Cardinality(subsOf[rs]) >= MaxSubs
         THEN ToRespond /\ UNCHANGED owner
         ELSE /\ owner' = [owner EXCEPT ![NewId] = rs]
              /\ sub' = NewId /\ rp' = "subscribe" /\ UNCHANGED rs
    /\ UNCHANGED <<registered, created, closed, subsOf, subVars, closerVars, connVars>>

\* SharedSubscriptionManager.Subscribe, which may dial for a long time ...
SubscribeShared ==
    /\ rp = "subscribe" /\ rp' = "store" /\ shared' = shared \cup {sub}
    /\ UNCHANGED <<rs, sub, sessionVars, ended, sender, closerVars, connVars>>

\* ... and may fail.
SubscribeSharedFails ==
    /\ rp = "subscribe" /\ ToRespond
    /\ UNCHANGED <<sessionVars, subVars, closerVars, connVars>>

\* Second critical section: store, whatever became of the session, and start the
\* sender; the response with the id comes after that.
StoreSubscription ==
    /\ rp = "store" /\ ToRespond
    /\ subsOf' = [subsOf EXCEPT ![rs] = @ \cup {sub}]
    /\ sender' = [sender EXCEPT ![sub] = "running"]
    /\ UNCHANGED <<registered, created, closed, owner, ended, shared, closerVars, connVars>>

-----------------------------------------------------------------------------
(* eth_unsubscribe: Manager.Unsubscribe and ClientSession.Unsubscribe.     *)

\* Without a session nothing happens, and the reply is "true".
GetSession ==
    /\ rp = "find"
    /\ IF registered = 0 THEN ToRespond
                         ELSE rp' = "take" /\ rs' = registered /\ UNCHANGED sub
    /\ UNCHANGED <<sessionVars, subVars, closerVars, connVars>>

TakeSubscription ==
    /\ rp = "take"
    /\ IF sub \in subsOf[rs]
         THEN /\ subsOf' = [subsOf EXCEPT ![rs] = @ \ {sub}]
              /\ rp' = "end" /\ UNCHANGED <<rs, sub>>
         ELSE ToRespond /\ UNCHANGED subsOf
    /\ UNCHANGED <<registered, created, closed, owner, subVars, closerVars, connVars>>

EndSubscriber ==
    /\ rp = "end" /\ rp' = "unregister" /\ ended' = [ended EXCEPT ![sub] = TRUE]
    /\ UNCHANGED <<rs, sub, sessionVars, sender, shared, closerVars, connVars>>

UnsubscribeShared ==
    /\ rp = "unregister" /\ ToRespond /\ shared' = shared \ {sub}
    /\ UNCHANGED <<sessionVars, ended, sender, closerVars, connVars>>

-----------------------------------------------------------------------------
(* Client.Close, Manager.RemoveSession and CloseAll, ClientSession.Close.  *)

\* closeOnce.Do: the first caller closes the client, a second one waits.
Close ==
    IF once = "free" THEN once' = "busy" /\ cp' = [cp EXCEPT !["client"] = "remove"]
                     ELSE UNCHANGED <<once, cp>>

\* The deferred Close of the read goroutine.
ReaderCloses ==
    /\ rp = "close" /\ rp' = "waitOnce" /\ Close
    /\ UNCHANGED <<rs, sub, sessionVars, subVars, victim, todo, hand,
                   messageVars, sendVars, conn>>

ReaderGone ==
    /\ rp = "waitOnce" /\ once = "done" /\ rp' = "gone"
    /\ UNCHANGED <<rs, sub, sessionVars, subVars, closerVars, connVars>>

\* A write (at the latest by its deadline) or a ping fails, or closeChan is
\* closed: the write goroutine ends with Close.
WriterCloses ==
    /\ writer # "gone" /\ writer' = "gone" /\ Close
    /\ UNCHANGED <<readerVars, sessionVars, subVars, victim, todo, hand,
                   messageVars, answer, queue, conn>>

\* The shutdown of the server: CloseAll takes the session off the map.
ServerCloses ==
    /\ cp["server"] = "idle"
    /\ victim' = [victim EXCEPT !["server"] = registered]
    /\ registered' = 0
    /\ cp' = [cp EXCEPT !["server"] = IF registered = 0 THEN "done" ELSE "close"]
    /\ UNCHANGED <<readerVars, created, closed, subsOf, owner, subVars,
                   todo, hand, connVars>>

RemoveSession(a) ==
    /\ cp[a] = "remove"
    /\ victim' = [victim EXCEPT ![a] = registered]
    /\ registered' = 0
    /\ cp' = [cp EXCEPT ![a] = IF registered = 0 THEN "conn" ELSE "close"]
    /\ UNCHANGED <<readerVars, created, closed, subsOf, owner, subVars,
                   todo, hand, connVars>>

AfterSession(a) == IF a = "server" THEN "done" ELSE "conn"

\* ClientSession.Close under cs.mu: mark it closed, collect and empty the map.
CloseSession(a) ==
    /\ cp[a] = "close"
    /\ closed' = [closed EXCEPT ![victim[a]] = TRUE]
    /\ todo'   = [todo EXCEPT ![a] = subsOf[victim[a]]]
    /\ subsOf' = [subsOf EXCEPT ![victim[a]] = {}]
    /\ cp' = [cp EXCEPT ![a] = "subs"]
    /\ UNCHANGED <<readerVars, registered, created, owner, subVars,
                   victim, hand, connVars>>

\* Then, for each of them, subscriber.Close ...
CloseSubscriber(a, x) ==
    /\ cp[a] = "subs" /\ x \in todo[a]
    /\ todo'  = [todo EXCEPT ![a] = @ \ {x}]
    /\ ended' = [ended EXCEPT ![x] = TRUE]
    /\ hand'  = [hand EXCEPT ![a] = x]
    /\ cp' = [cp EXCEPT ![a] = "unregister"]
    /\ UNCHANGED <<readerVars, sessionVars, sender, shared, victim, connVars>>

\* ... and the shared manager's Unsubscribe.
Unregister(a) ==
    /\ cp[a] = "unregister"
    /\ shared' = shared \ {hand[a]}
    /\ hand' = [hand EXCEPT ![a] = NoSub]
    /\ cp' = [cp EXCEPT ![a] = "subs"]
    /\ UNCHANGED <<readerVars, sessionVars, ended, sender, victim, todo, connVars>>

SessionClosed(a) ==
    /\ cp[a] = "subs" /\ todo[a] = {}
    /\ cp'     = [cp EXCEPT ![a] = AfterSession(a)]
    /\ victim' = [victim EXCEPT ![a] = 0]
    /\ UNCHANGED <<readerVars, sessionVars, subVars, todo, hand, connVars>>

\* conn.Close(), the end of closeOnce.
CloseConn ==
    /\ cp["client"] = "conn" /\ cp' = [cp EXCEPT !["client"] = "done"]
    /\ conn' = "closed" /\ once' = "done"
    /\ UNCHANGED <<readerVars, sessionVars, subVars, victim, todo, hand,
                   messageVars, sendVars>>

\* The client crashes, or the network between does.  (Once the proxy closes it
\* too, this makes no difference.)
ClientDies ==
    /\ conn = "up" /\ ~ClientClosed /\ conn' = "dead"
    /\ UNCHANGED <<readerVars, sessionVars, subVars, closerVars, messageVars, sendVars, once>>

-----------------------------------------------------------------------------

HandlerStep ==
    \/ ReadHead \/ NextSubscribe \/ NextInvalid \/ NextPlain
    \/ \E x \in Subs : NextUnsubscribe(x)
    \/ GetOrCreateSession \/ CheckSession
    \/ SubscribeShared \/ SubscribeSharedFails \/ StoreSubscription
    \/ GetSession \/ TakeSubscription \/ EndSubscriber \/ UnsubscribeShared
    \/ Respond \/ ReaderCloses \/ ReaderGone

WriterStep == WriterTakes \/ WriteSucceeds \/ WriterCloses

SenderStep(x) == SenderForwards(x) \/ SenderEnds(x)

CloserStep(a) ==
    \/ RemoveSession(a) \/ CloseSession(a) \/ SessionClosed(a) \/ Unregister(a)
    \/ a = "client" /\ CloseConn
    \/ \E x \in Subs : CloseSubscriber(a, x)

\* The connection is closed and everyone returned.
Stopped ==
    /\ rp = "gone" /\ writer = "gone" /\ cp["server"] = "done"
    /\ \A x \in Subs : sender[x] \in {"none", "done"}
    /\ UNCHANGED vars

Next ==
    \/ \E n \in 0..MaxBatch, p \in BOOLEAN : Read(n, p)
    \/ ReadFails \/ HandlerStep \/ WriterStep
    \/ \E x \in Subs : SenderStep(x)
    \/ ServerCloses \/ ClientDies
    \/ \E a \in Closers : CloserStep(a)
    \/ Stopped

Spec == Init /\ [][Next]_vars

\* Goroutines run.  Dials of the shared manager and calls of the executor end; a
\* read ends with the connection, or by its deadline when no pong comes; a write
\* ends by its deadline.
Fairness ==
    /\ WF_vars(HandlerStep)
    /\ WF_vars(conn # "up" /\ ReadFails)
    /\ WF_vars(\/ WriterTakes \/ WriteSucceeds
               \/ (writer \in Messages \/ ClientClosed) /\ WriterCloses)
    /\ WF_vars(\E a \in Closers : CloserStep(a))

FairSpec == Spec /\ Fairness

-----------------------------------------------------------------------------
(* Properties.                                                             *)

TypeOK ==
    /\ rp \in ReaderPCs /\ rs \in Sessions \cup {0} /\ sub \in Subs \cup {NoSub}
    /\ left \in 0..MaxBatch /\ plain \in BOOLEAN
    /\ answer \in Fates
    /\ queue \in Seq(Messages) /\ Len(queue) <= QueueCap
    /\ writer \in {"idle", "gone"} \cup Messages
    /\ conn \in {"up", "dead", "closed"}
    /\ once \in {"free", "busy", "done"}
    /\ registered \in Sessions \cup {0} /\ created \in Sessions \cup {0}
    /\ closed \in [Sessions -> BOOLEAN]
    /\ subsOf \in [Sessions -> SUBSET Subs]
    /\ owner \in [Subs -> Sessions \cup {0}]
    /\ ended \in [Subs -> BOOLEAN]
    /\ sender \in [Subs -> {"none", "running", "done"}]
    /\ shared \subseteq Subs
    /\ cp \in [Closers -> CloserPCs]
    /\ victim \in [Closers -> Sessions \cup {0}]
    /\ todo \in [Closers -> SUBSET Subs]
    /\ hand \in [Closers -> Subs \cup {NoSub}]

\* A subscription an open session lists is served: registered with the shared
\* manager, its subscriber open, its events forwarded.
ListedIsServed ==
    \A s \in Sessions : ~closed[s] =>
        \A x \in subsOf[s] : x \in shared /\ ~ended[x] /\ sender[x] = "running"

\* A registered subscriber is in the books: some session lists it, or someone
\* who is subscribing, unsubscribing or closing has it in hand.
RegisteredIsKnown ==
    \A x \in shared :
        \/ \E s \in Sessions : x \in subsOf[s]
        \/ x = sub /\ rp \in {"store", "end", "unregister"}
        \/ \E a \in Closers : x \in todo[a] \cup {hand[a]}

\* The check of the limit and the store are two critical sections; still no
\* session lists more subscriptions than allowed.
WithinLimit == \A s \in Sessions : Cardinality(subsOf[s]) <= MaxSubs

\* No forwarding goroutine is left behind: as long as it runs, its subscription is
\* registered and brings it events, or a closed channel tells it to end.
ForwardersAreTold ==
    \A x \in Subs : sender[x] = "running" =>
        x \in shared \/ ended[x] \/ closed[owner[x]]

\* A client that is gone, or closed by whichever goroutine, is cleaned up in the
\* end: the connection closed, its goroutines returned, though the reader may
\* have been in the middle of a batch and the queue full.
CloseCompletes ==
    (conn = "dead" \/ ClientClosed) ~> (rp = "gone" /\ writer = "gone" /\ conn = "closed")

\* Every request is answered, whatever else comes with it in a batch and however
\* many events go the same way: the answer is written, unless send dropped it on
\* a full queue or the client was closed.
RequestsAreAnswered ==
    answer # "none" ~> (answer = "none" \/ ClientClosed)

\* docs/subscriptions.md:423-424: "On disconnect: a. Client removed from all
\* SharedSubscriptions".
DisconnectUnregisters ==
    rp = "gone" /\ conn = "closed" /\ (\A a \in Closers : cp[a] \in {"idle", "done"})
        => shared = {}
=============================================================================
