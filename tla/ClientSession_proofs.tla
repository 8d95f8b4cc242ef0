------------------------ MODULE ClientSession_proofs ------------------------
(***************************************************************************)
(* The safety properties of ClientSession, for any number of subscriptions,*)
(* any limit, queue capacity and batch size.                               *)
(*                                                                         *)
(* Four goroutines pass a subscription from hand to hand under different   *)
(* locks or none.  SubInv follows one subscription and says what its       *)
(* holder may rely on; ReaderInv and CloserInv say what the read goroutine *)
(* and the two closers still know at each of their steps; SessionBudget is *)
(* why three sessions are enough for one connection.                       *)
(***************************************************************************)
EXTENDS ClientSession, FiniteSetTheorems, TLAPS

\* Steps at which the read goroutine has a subscription to itself.
Subscribing   == {"subscribe", "store"}
Unsubscribing == {"end", "unregister"}
ReaderHolds(x) == x = sub /\ rp \in Subscribing \cup Unsubscribing

\* Closers that have collected a subscription and are to end or unregister it.
CloserHolds(x) == \E a \in Closers : x \in todo[a] \/ x = hand[a]

\* An id nobody was given is nowhere.
FreshIsNowhere(x) ==
    owner[x] = 0 =>
        /\ x \notin shared /\ ~ended[x] /\ sender[x] = "none"
        /\ ~ReaderHolds(x) /\ ~CloserHolds(x)

\* What a session lists is its own, served, and in nobody's hands.
ListedIsAtRest(x) ==
    \A s \in Sessions : x \in subsOf[s] =>
        /\ owner[x] = s /\ x \in shared /\ ~ended[x]
        /\ sender[x] = "running" \/ (sender[x] = "done" /\ closed[s])
        /\ ~ReaderHolds(x) /\ ~CloserHolds(x)

\* The reader, between the two critical sections of a subscribe, is alone with
\* its subscription.
SubscribingIsAlone(x) ==
    x = sub /\ rp \in Subscribing =>
        /\ owner[x] = rs /\ ~ended[x] /\ sender[x] = "none" /\ ~CloserHolds(x)
        /\ rp = "store" => x \in shared

\* Subscribers are closed before they are unregistered.
UnregisteredIsEnded(x) ==
    /\ x = sub /\ rp = "unregister" => ended[x]
    /\ \A a \in Closers : x = hand[a] => ended[x]

KnownIfRegistered(x) ==
    x \in shared =>
        \/ \E s \in Sessions : x \in subsOf[s]
        \/ x = sub /\ rp \in {"store", "end", "unregister"}
        \/ CloserHolds(x)

ToldIfRunning(x) == sender[x] = "running" => x \in shared \/ ended[x] \/ closed[owner[x]]

SubInv(x) ==
    /\ FreshIsNowhere(x) /\ ListedIsAtRest(x) /\ SubscribingIsAlone(x)
    /\ UnregisteredIsEnded(x) /\ KnownIfRegistered(x) /\ ToldIfRunning(x)

\* What the read goroutine knows of its request.  Only it adds to a session, so
\* the room it found there is still there when it stores.
ReaderInv ==
    /\ rp \in {"check", "take"} \cup Subscribing => rs \in Sessions
    /\ rp \in {"find", "take"} \cup Subscribing \cup Unsubscribing => sub \in Subs
    /\ rp \in {"get", "check"} => \E x \in Subs : owner[x] = 0
    /\ rp \in Subscribing => Cardinality(subsOf[rs]) < MaxSubs

\* What a closer knows, and that closeOnce lets only one through.
CloserInv ==
    /\ \A a \in Closers :
          /\ cp[a] \in {"close", "subs", "unregister"} => victim[a] \in Sessions
          /\ cp[a] \notin {"subs", "unregister"} => todo[a] = {}
          /\ cp[a] # "unregister" => hand[a] = NoSub
          /\ cp[a] = "unregister" => hand[a] \in Subs
    /\ cp["server"] \notin {"remove", "conn"}
    /\ once = "free" <=> cp["client"] = "idle"

\* The map is emptied once by each closer, so with every closer that has done so
\* the connection may have had one session more.
SessionBudget ==
    /\ created + (IF cp["server"] = "idle" THEN 1 ELSE 0)
               + (IF cp["client"] \in {"idle", "remove"} THEN 1 ELSE 0)
         <= (IF registered = 0 THEN 2 ELSE 3)
    /\ registered <= created

ListsAreFinite == \A s \in Sessions : IsFiniteSet(subsOf[s])

IndInv ==
    /\ TypeOK /\ ReaderInv /\ CloserInv /\ SessionBudget
    /\ ListsAreFinite /\ WithinLimit
    /\ \A x \in Subs : SubInv(x)
-----------------------------------------------------------------------------
(* What the proofs use of the operators of the model.                      *)

\* While an id is left, NewId is one that nobody was given.
LEMMA NewIdIsFresh ==
    ASSUME \E x \in Subs : owner[x] = 0
    PROVE  NewId \in Subs /\ owner[NewId] = 0
  BY DEF NewId

\* send leaves a queue of messages within its capacity.
LEMMA EnqueueKeepsQueue ==
    ASSUME NEW m \in Messages, queue \in Seq(Messages), Len(queue) <= QueueCap,
           Enqueue(m) \/ Drop
    PROVE  queue' \in Seq(Messages) /\ Len(queue') <= QueueCap
<1>1. CASE Enqueue(m)
  BY <1>1, MaxAssumption DEF Enqueue
<1>2. CASE Drop
  BY <1>2 DEF Drop
<1> QED
  BY <1>1, <1>2

\* The initial states satisfy the inductive invariant.
LEMMA InitIndInv == Init => IndInv
<1> SUFFICES ASSUME Init PROVE IndInv
  OBVIOUS
<1> USE NoSubAssumption, MaxAssumption DEF Init, Sessions, Closers
<1>1. TypeOK
  <2>1. queue \in Seq(Messages) /\ Len(queue) <= QueueCap
    OBVIOUS
  <2>2. plain \in BOOLEAN
    OBVIOUS
  <2> QED
    BY <2>1, <2>2 DEF TypeOK, ReaderPCs, CloserPCs, Fates, Messages
<1>2. ReaderInv /\ CloserInv /\ SessionBudget
  BY DEF ReaderInv, CloserInv, SessionBudget, Subscribing, Unsubscribing
<1>3. ListsAreFinite /\ WithinLimit
  BY FS_EmptySet DEF ListsAreFinite, WithinLimit
<1>4. ASSUME NEW x \in Subs PROVE SubInv(x)
  BY DEF SubInv, FreshIsNowhere, ListedIsAtRest, SubscribingIsAlone, UnregisteredIsEnded,
         KnownIfRegistered, ToldIfRunning, ReaderHolds, CloserHolds, Subscribing, Unsubscribing
<1> QED
  BY <1>1, <1>2, <1>3, <1>4 DEF IndInv
-----------------------------------------------------------------------------
(* Types.                                                                  *)

\* Every step keeps the types; that a new session has a number left is
\* SessionBudget.
LEMMA TypesPreserved == IndInv /\ [Next]_vars => TypeOK'
<1> SUFFICES ASSUME IndInv, [Next]_vars PROVE TypeOK'
  OBVIOUS
<1>0. TypeOK /\ ReaderInv /\ CloserInv /\ SessionBudget
  BY DEF IndInv
<1> USE <1>0, NoSubAssumption, MaxAssumption
    DEF TypeOK, ReaderPCs, CloserPCs, Fates, Messages, Sessions, Closers, ToRespond, Follow, Close,
        readerVars, sessionVars, subVars, closerVars, messageVars, sendVars, connVars,
        Subscribing, Unsubscribing
<1>1. ASSUME NEW n \in 0..MaxBatch, NEW p \in BOOLEAN, Read(n, p) PROVE TypeOK'
  BY <1>1 DEF Read
<1>2. CASE ReadHead
  BY <1>2 DEF ReadHead
<1>3. CASE ReadFails
  BY <1>3 DEF ReadFails
<1>4. CASE NextSubscribe
  BY <1>4 DEF NextSubscribe
<1>5. CASE NextInvalid
  BY <1>5 DEF NextInvalid
<1>6. CASE NextPlain
  <2>1. plain' \in BOOLEAN
    BY <1>6, Zenon DEF NextPlain
  <2> QED
    BY <1>6, <2>1 DEF NextPlain
<1>7. CASE Respond
  <2>1. /\ answer' \in Fates
        /\ \E m \in Messages : Enqueue(m) \/ Drop
    BY <1>7 DEF Respond
  <2>2. queue' \in Seq(Messages) /\ Len(queue') <= QueueCap
    BY <2>1, EnqueueKeepsQueue
  <2> QED
    BY <1>7, <2>1, <2>2 DEF Respond
<1>8. CASE WriterTakes
  BY <1>8 DEF WriterTakes
<1>9. CASE WriteSucceeds
  BY <1>9 DEF WriteSucceeds
<1>10. CASE GetOrCreateSession
  <2>1. /\ registered' \in Sessions /\ rs' \in Sessions
        /\ created' \in Sessions \cup {0}
    BY <1>10 DEF GetOrCreateSession, SessionBudget
  <2> QED
    BY <1>10, <2>1 DEF GetOrCreateSession
<1>11. CASE CheckSession
  BY <1>11, NewIdIsFresh DEF CheckSession, ReaderInv
<1>12. CASE SubscribeShared
  BY <1>12 DEF SubscribeShared, ReaderInv
<1>13. CASE SubscribeSharedFails
  BY <1>13 DEF SubscribeSharedFails
<1>14. CASE StoreSubscription
  BY <1>14 DEF StoreSubscription, ReaderInv
<1>15. CASE GetSession
  BY <1>15 DEF GetSession
<1>16. CASE TakeSubscription
  BY <1>16 DEF TakeSubscription
<1>17. CASE EndSubscriber
  BY <1>17 DEF EndSubscriber, ReaderInv
<1>18. CASE UnsubscribeShared
  BY <1>18 DEF UnsubscribeShared
<1>19. CASE ReaderCloses
  BY <1>19 DEF ReaderCloses
<1>20. CASE ReaderGone
  BY <1>20 DEF ReaderGone
<1>21. CASE WriterCloses
  BY <1>21 DEF WriterCloses
<1>22. CASE ServerCloses
  BY <1>22 DEF ServerCloses
<1>23. CASE CloseConn
  BY <1>23 DEF CloseConn
<1>24. CASE ClientDies
  BY <1>24 DEF ClientDies
<1>25. ASSUME NEW x \in Subs, NextUnsubscribe(x) PROVE TypeOK'
  BY <1>25 DEF NextUnsubscribe
<1>26. ASSUME NEW x \in Subs, SenderForwards(x) PROVE TypeOK'
  <2>1. queue' \in Seq(Messages) /\ Len(queue') <= QueueCap
    BY <1>26, EnqueueKeepsQueue DEF SenderForwards
  <2> QED
    BY <1>26, <2>1 DEF SenderForwards
<1>27. ASSUME NEW x \in Subs, SenderEnds(x) PROVE TypeOK'
  BY <1>27 DEF SenderEnds
<1>28. ASSUME NEW a \in Closers, RemoveSession(a) PROVE TypeOK'
  BY <1>28 DEF RemoveSession
<1>29. ASSUME NEW a \in Closers, CloseSession(a) PROVE TypeOK'
  BY <1>29 DEF CloseSession, CloserInv
<1>30. ASSUME NEW a \in Closers, SessionClosed(a) PROVE TypeOK'
  BY <1>30 DEF SessionClosed, AfterSession
<1>31. ASSUME NEW a \in Closers, Unregister(a) PROVE TypeOK'
  BY <1>31 DEF Unregister
<1>32. ASSUME NEW a \in Closers, NEW x \in Subs, CloseSubscriber(a, x) PROVE TypeOK'
  BY <1>32 DEF CloseSubscriber
<1>33. CASE UNCHANGED vars
  BY <1>33 DEF vars
<1> HIDE DEF TypeOK
<1>34. CASE HandlerStep
  BY <1>2, <1>4, <1>5, <1>6, <1>7, <1>10, <1>11, <1>12, <1>13, <1>14, <1>15, <1>16,
     <1>17, <1>18, <1>19, <1>20, <1>25, <1>34 DEF HandlerStep
<1>35. CASE WriterStep
  BY <1>8, <1>9, <1>21, <1>35 DEF WriterStep
<1>36. ASSUME NEW x \in Subs, SenderStep(x) PROVE TypeOK'
  BY <1>26, <1>27, <1>36 DEF SenderStep
<1>37. ASSUME NEW a \in Closers, CloserStep(a) PROVE TypeOK'
  BY <1>23, <1>28, <1>29, <1>30, <1>31, <1>32, <1>37 DEF CloserStep
<1> QED
  BY <1>1, <1>3, <1>22, <1>24, <1>33, <1>34, <1>35, <1>36, <1>37 DEF Next, Stopped

-----------------------------------------------------------------------------
(* The goroutines and the session they work on.                            *)

\* Steps of the reader, the writer and the senders that take no part in opening
\* or closing a session, nor in what it lists.
Sideline ==
    \/ \E n \in 0..MaxBatch, p \in BOOLEAN : Read(n, p)
    \/ ReadHead \/ ReadFails \/ NextSubscribe \/ NextInvalid \/ NextPlain \/ Respond \/ ReaderGone
    \/ \E x \in Subs : NextUnsubscribe(x) \/ SenderForwards(x)
    \/ WriterTakes \/ WriteSucceeds \/ ClientDies
    \/ UNCHANGED vars

\* They leave the books and the closers alone.
LEMMA SidelineEffect ==
    Sideline => UNCHANGED <<sessionVars, subVars, closerVars>>
  BY DEF Sideline, Read, ReadHead, ReadFails, NextSubscribe, NextInvalid, NextPlain, Respond,
         ReaderGone, NextUnsubscribe, SenderForwards, WriterTakes, WriteSucceeds, ClientDies,
         sessionVars, subVars, closerVars, vars

\* Neither do they touch closeOnce.
LEMMA SidelineOnce == Sideline => UNCHANGED once
  BY DEF Sideline, Read, ReadHead, ReadFails, NextSubscribe, NextInvalid, NextPlain, Respond,
         ReaderGone, NextUnsubscribe, SenderForwards, WriterTakes, WriteSucceeds, ClientDies,
         vars, connVars

\* All steps, those of the sideline together.
LEMMA StepCases ==
    ASSUME [Next]_vars
    PROVE  \/ Sideline
           \/ GetOrCreateSession \/ CheckSession
           \/ SubscribeShared \/ SubscribeSharedFails \/ StoreSubscription
           \/ GetSession \/ TakeSubscription \/ EndSubscriber \/ UnsubscribeShared
           \/ ReaderCloses \/ WriterCloses \/ ServerCloses \/ CloseConn
           \/ \E x \in Subs : SenderEnds(x)
           \/ \E a \in Closers :
                 \/ RemoveSession(a) \/ CloseSession(a) \/ SessionClosed(a) \/ Unregister(a)
                 \/ \E x \in Subs : CloseSubscriber(a, x)
  BY Zenon DEF Next, HandlerStep, WriterStep, SenderStep, CloserStep, Stopped, Sideline

\* Every step keeps within the budget of sessions.
LEMMA BudgetKept == IndInv /\ [Next]_vars => SessionBudget'
<1> SUFFICES ASSUME IndInv, [Next]_vars PROVE SessionBudget'
  OBVIOUS
<1>0. TypeOK /\ CloserInv /\ SessionBudget
  BY DEF IndInv
<1> USE <1>0 DEF TypeOK, SessionBudget, Sessions, Closers, Close, sessionVars, closerVars
<1>1. CASE UNCHANGED <<registered, created, cp>>
  BY <1>1
<1>2. CASE GetOrCreateSession
  BY <1>2 DEF GetOrCreateSession
<1>3. CASE ReaderCloses
  BY <1>3 DEF ReaderCloses, CloserInv
<1>4. CASE WriterCloses
  BY <1>4 DEF WriterCloses, CloserInv
<1>5. CASE ServerCloses
  BY <1>5 DEF ServerCloses
<1>6. CASE CloseConn
  BY <1>6 DEF CloseConn
<1>7. ASSUME NEW a \in Closers, RemoveSession(a) PROVE SessionBudget'
  BY <1>7 DEF RemoveSession, CloserInv
<1>8. ASSUME NEW a \in Closers, CloseSession(a) PROVE SessionBudget'
  BY <1>8 DEF CloseSession
<1>9. ASSUME NEW a \in Closers, SessionClosed(a) PROVE SessionBudget'
  BY <1>9 DEF SessionClosed, AfterSession
<1>10. ASSUME NEW a \in Closers, Unregister(a) PROVE SessionBudget'
  BY <1>10 DEF Unregister
<1>11. ASSUME NEW a \in Closers, NEW x \in Subs, CloseSubscriber(a, x) PROVE SessionBudget'
  BY <1>11 DEF CloseSubscriber
<1>12. ASSUME \/ Sideline \/ CheckSession
              \/ SubscribeShared \/ SubscribeSharedFails \/ StoreSubscription
              \/ GetSession \/ TakeSubscription \/ EndSubscriber \/ UnsubscribeShared
              \/ \E x \in Subs : SenderEnds(x)
       PROVE  UNCHANGED <<registered, created, cp>>
  BY <1>12, SidelineEffect
     DEF CheckSession, SubscribeShared, SubscribeSharedFails, StoreSubscription, GetSession,
         TakeSubscription, EndSubscriber, UnsubscribeShared, SenderEnds
<1> QED
  BY <1>1, <1>2, <1>3, <1>4, <1>5, <1>6, <1>7, <1>8, <1>9, <1>10, <1>11, <1>12, StepCases

\* Every step keeps what the closers know.
LEMMA ClosersKept == IndInv /\ [Next]_vars => CloserInv'
<1> SUFFICES ASSUME IndInv, [Next]_vars PROVE CloserInv'
  OBVIOUS
<1>0. TypeOK /\ CloserInv
  BY DEF IndInv
<1> USE <1>0 DEF TypeOK, CloserInv, Sessions, Closers, Close, closerVars
<1>1. CASE UNCHANGED <<closerVars, once>>
  BY <1>1
<1>2. CASE ReaderCloses
  BY <1>2 DEF ReaderCloses
<1>3. CASE WriterCloses
  BY <1>3 DEF WriterCloses
<1>4. CASE ServerCloses
  BY <1>4 DEF ServerCloses, connVars
<1>5. CASE CloseConn
  BY <1>5 DEF CloseConn
<1>6. ASSUME NEW a \in Closers, RemoveSession(a) PROVE CloserInv'
  BY <1>6 DEF RemoveSession, connVars
<1>7. ASSUME NEW a \in Closers, CloseSession(a) PROVE CloserInv'
  BY <1>7 DEF CloseSession, connVars
<1>8. ASSUME NEW a \in Closers, SessionClosed(a) PROVE CloserInv'
  BY <1>8 DEF SessionClosed, AfterSession, connVars
<1>9. ASSUME NEW a \in Closers, Unregister(a) PROVE CloserInv'
  BY <1>9 DEF Unregister, connVars
<1>10. ASSUME NEW a \in Closers, NEW x \in Subs, CloseSubscriber(a, x) PROVE CloserInv'
  BY <1>10 DEF CloseSubscriber, connVars
<1>11. ASSUME \/ Sideline \/ GetOrCreateSession \/ CheckSession
              \/ SubscribeShared \/ SubscribeSharedFails \/ StoreSubscription
              \/ GetSession \/ TakeSubscription \/ EndSubscriber \/ UnsubscribeShared
              \/ \E x \in Subs : SenderEnds(x)
       PROVE  UNCHANGED <<closerVars, once>>
  BY <1>11, SidelineEffect, SidelineOnce
     DEF GetOrCreateSession, CheckSession, SubscribeShared, SubscribeSharedFails,
         StoreSubscription, GetSession, TakeSubscription, EndSubscriber, UnsubscribeShared,
         SenderEnds, connVars
<1> QED
  BY <1>1, <1>2, <1>3, <1>4, <1>5, <1>6, <1>7, <1>8, <1>9, <1>10, <1>11, StepCases

\* Every step keeps what the reader knows: what it does itself, and that the
\* others add nothing to a session.
LEMMA ReaderKept == IndInv /\ [Next]_vars => ReaderInv'
<1> SUFFICES ASSUME IndInv, [Next]_vars PROVE ReaderInv'
  OBVIOUS
<1>0. TypeOK /\ ReaderInv /\ CloserInv /\ SessionBudget
  BY DEF IndInv
<1> USE <1>0 DEF TypeOK, ReaderInv, Subscribing, Unsubscribing
<1>1. CASE UNCHANGED <<rp, rs, sub, owner, subsOf>>
  BY <1>1
<1>2. CASE rp' \notin {"get", "check", "find", "take"} \cup Subscribing \cup Unsubscribing
  BY <1>2
<1>3. CASE NextSubscribe
  BY <1>3 DEF NextSubscribe, sessionVars
<1>4. ASSUME NEW x \in Subs, NextUnsubscribe(x) PROVE ReaderInv'
  BY <1>4 DEF NextUnsubscribe
<1>5. CASE GetOrCreateSession
  BY <1>5 DEF GetOrCreateSession, SessionBudget, Sessions
<1>6. CASE CheckSession
  <2>1. CASE closed[rs] \/ Cardinality(subsOf[rs]) >= MaxSubs
    BY <1>6, <2>1 DEF CheckSession, ToRespond
  <2>2. CASE ~(closed[rs] \/ Cardinality(subsOf[rs]) >= MaxSubs)
    <3>1. Cardinality(subsOf[rs]) \in Nat
      BY <1>6, FS_CardinalityType DEF IndInv, ListsAreFinite, CheckSession
    <3>2. Cardinality(subsOf[rs]) < MaxSubs
      BY <2>2, <3>1, MaxAssumption
    <3> QED
      BY <1>6, <2>2, <3>2, NewIdIsFresh DEF CheckSession
  <2> QED
    BY <2>1, <2>2
<1>7. CASE SubscribeShared
  BY <1>7 DEF SubscribeShared, sessionVars
<1>8. CASE GetSession
  BY <1>8 DEF GetSession, ToRespond
<1>9. CASE TakeSubscription
  BY <1>9 DEF TakeSubscription, ToRespond
<1>10. CASE EndSubscriber
  BY <1>10 DEF EndSubscriber
<1>11. ASSUME NEW a \in Closers, CloseSession(a) PROVE ReaderInv'
  <2>1. UNCHANGED <<rp, rs, sub, owner>>
    BY <1>11 DEF CloseSession, readerVars
  <2>2. rp \in Subscribing => Cardinality(subsOf[rs]) \in Nat
    BY FS_CardinalityType DEF IndInv, ListsAreFinite
  <2>3. rp \in Subscribing => subsOf'[rs] = subsOf[rs] \/ subsOf'[rs] = {}
    BY <1>11 DEF CloseSession
  <2>4. rp \in Subscribing => Cardinality(subsOf'[rs]) < MaxSubs
    <3>1. Cardinality({}) = 0
      BY FS_EmptySet
    <3>2. rp \in Subscribing => Cardinality(subsOf[rs]) < MaxSubs /\ 0 < MaxSubs
      BY <2>2, MaxAssumption
    <3> QED
      BY <2>3, <3>1, <3>2
  <2> QED
    BY <2>1, <2>4
<1>12. ASSUME \/ SubscribeSharedFails \/ StoreSubscription \/ UnsubscribeShared
              \/ ReaderCloses \/ ReadHead \/ ReadFails \/ NextInvalid \/ NextPlain
              \/ Respond \/ ReaderGone
              \/ \E n \in 0..MaxBatch, p \in BOOLEAN : Read(n, p)
       PROVE  rp' \notin {"get", "check", "find", "take"} \cup Subscribing \cup Unsubscribing
  BY <1>12 DEF SubscribeSharedFails, StoreSubscription, UnsubscribeShared, ReaderCloses,
               ReadHead, ReadFails, NextInvalid, NextPlain, Respond, ReaderGone, Read, ToRespond
<1>13. ASSUME \/ \E x \in Subs : SenderForwards(x) \/ SenderEnds(x)
              \/ WriterTakes \/ WriteSucceeds \/ ClientDies \/ UNCHANGED vars
              \/ WriterCloses \/ ServerCloses \/ CloseConn
              \/ \E a \in Closers :
                    \/ RemoveSession(a) \/ SessionClosed(a) \/ Unregister(a)
                    \/ \E x \in Subs : CloseSubscriber(a, x)
       PROVE  UNCHANGED <<rp, rs, sub, owner, subsOf>>
  BY <1>13 DEF SenderForwards, SenderEnds, WriterTakes, WriteSucceeds, ClientDies, vars,
               WriterCloses, ServerCloses, CloseConn, RemoveSession, SessionClosed, Unregister,
               CloseSubscriber, readerVars, sessionVars
<1> QED
  BY <1>1, <1>2, <1>3, <1>4, <1>5, <1>6, <1>7, <1>8, <1>9, <1>10, <1>11, <1>12, <1>13,
     StepCases, Zenon DEF Sideline

\* A session's list grows only in the second critical section of a subscribe, by
\* one, and there is room for it.
LEMMA ListsKept == IndInv /\ [Next]_vars => ListsAreFinite' /\ WithinLimit'
<1> SUFFICES ASSUME IndInv, [Next]_vars, NEW s \in Sessions
             PROVE  IsFiniteSet(subsOf'[s]) /\ Cardinality(subsOf'[s]) <= MaxSubs
  BY DEF ListsAreFinite, WithinLimit
<1>0. TypeOK /\ ReaderInv /\ CloserInv /\ IsFiniteSet(subsOf[s]) /\ Cardinality(subsOf[s]) <= MaxSubs
  BY DEF IndInv, ListsAreFinite, WithinLimit
<1>t. Cardinality(subsOf[s]) \in Nat
  BY <1>0, FS_CardinalityType
<1>1. CASE subsOf'[s] = subsOf[s]
  BY <1>0, <1>1
<1>2. CASE StoreSubscription
  <2>1. CASE s = rs
    <3>1. subsOf'[s] = subsOf[s] \cup {sub}
      BY <1>0, <1>2, <2>1 DEF StoreSubscription, TypeOK
    <3>2. Cardinality(subsOf[s]) < MaxSubs
      BY <1>0, <1>2, <2>1 DEF StoreSubscription, ReaderInv, Subscribing
    <3>3. /\ IsFiniteSet(subsOf[s] \cup {sub})
          /\ Cardinality(subsOf[s] \cup {sub}) =
                IF sub \in subsOf[s] THEN Cardinality(subsOf[s]) ELSE Cardinality(subsOf[s]) + 1
      BY <1>0, FS_AddElement, Zenon
    <3>4. Cardinality(subsOf[s] \cup {sub}) <= MaxSubs
      BY <1>t, <3>2, <3>3, MaxAssumption
    <3> QED
      BY <3>1, <3>3, <3>4
  <2>2. CASE s # rs
    BY <1>0, <1>1, <1>2, <2>2 DEF StoreSubscription, TypeOK
  <2> QED
    BY <2>1, <2>2
<1>3. CASE TakeSubscription
  <2>1. \E x : subsOf'[s] = subsOf[s] \ {x}
    <3>1. subsOf'[s] = subsOf[s] \ {sub} \/ subsOf'[s] = subsOf[s]
      BY <1>0, <1>3 DEF TakeSubscription, TypeOK
    <3>2. subsOf[s] \ {NoSub} = subsOf[s]
      BY <1>0, NoSubAssumption DEF TypeOK
    <3> QED
      BY <3>1, <3>2
  <2>2. PICK x : subsOf'[s] = subsOf[s] \ {x}
    BY <2>1
  <2>3. /\ IsFiniteSet(subsOf[s] \ {x})
        /\ Cardinality(subsOf[s] \ {x}) =
              IF x \in subsOf[s] THEN Cardinality(subsOf[s]) - 1 ELSE Cardinality(subsOf[s])
    BY <1>0, FS_RemoveElement, Zenon
  <2>4. Cardinality(subsOf[s] \ {x}) <= MaxSubs
    BY <1>0, <1>t, <2>3, MaxAssumption
  <2> QED
    BY <2>2, <2>3, <2>4
<1>4. ASSUME NEW a \in Closers, CloseSession(a)
      PROVE  IsFiniteSet(subsOf'[s]) /\ Cardinality(subsOf'[s]) <= MaxSubs
  <2>1. subsOf'[s] = subsOf[s] \/ subsOf'[s] = {}
    BY <1>0, <1>4 DEF CloseSession, TypeOK
  <2> QED
    BY <1>0, <2>1, FS_EmptySet, MaxAssumption
<1>5. ASSUME \/ Sideline \/ GetOrCreateSession \/ CheckSession
             \/ SubscribeShared \/ SubscribeSharedFails
             \/ GetSession \/ EndSubscriber \/ UnsubscribeShared
             \/ ReaderCloses \/ WriterCloses \/ ServerCloses \/ CloseConn
             \/ \E x \in Subs : SenderEnds(x)
             \/ \E a \in Closers :
                   \/ RemoveSession(a) \/ SessionClosed(a) \/ Unregister(a)
                   \/ \E x \in Subs : CloseSubscriber(a, x)
      PROVE  UNCHANGED subsOf
  BY <1>5, SidelineEffect
     DEF GetOrCreateSession, CheckSession, SubscribeShared, SubscribeSharedFails, GetSession,
         EndSubscriber, UnsubscribeShared, ReaderCloses, WriterCloses, ServerCloses, CloseConn,
         SenderEnds, RemoveSession, SessionClosed, Unregister, CloseSubscriber, sessionVars
<1> QED
  BY <1>1, <1>2, <1>3, <1>4, <1>5, StepCases

-----------------------------------------------------------------------------
(* One subscription.                                                       *)

\* Nothing SubInv(x) speaks of has changed, but that the reader may have given
\* up one it had not registered.
Undisturbed ==
    /\ UNCHANGED <<closed, subsOf, owner, ended, sender, shared, todo, hand>>
    /\ \/ UNCHANGED <<rp, rs, sub>>
       \/ /\ rp \notin {"store"} \cup Unsubscribing
          /\ rp' \notin Subscribing \cup Unsubscribing

\* Then it still holds.
LEMMA SubUndisturbed ==
    ASSUME NEW x \in Subs, SubInv(x), Undisturbed
    PROVE  SubInv(x)'
<1> USE DEF SubInv, ReaderHolds, CloserHolds, Undisturbed, Subscribing, Unsubscribing
<1>1. FreshIsNowhere(x)'
  BY DEF FreshIsNowhere
<1>2. ListedIsAtRest(x)'
  BY DEF ListedIsAtRest
<1>3. SubscribingIsAlone(x)' /\ UnregisteredIsEnded(x)'
  BY DEF SubscribingIsAlone, UnregisteredIsEnded
<1>4. KnownIfRegistered(x)' /\ ToldIfRunning(x)'
  BY DEF KnownIfRegistered, ToldIfRunning
<1> QED
  BY <1>1, <1>2, <1>3, <1>4

\* Steps that open, refuse or wait.
LEMMA WaitingDisturbsNone ==
    ASSUME TypeOK,
           \/ Sideline \/ GetOrCreateSession \/ SubscribeSharedFails \/ GetSession
           \/ ReaderCloses \/ WriterCloses \/ ServerCloses \/ CloseConn
           \/ \E a \in Closers : RemoveSession(a) \/ SessionClosed(a)
    PROVE  Undisturbed
<1> USE DEF Undisturbed, Subscribing, Unsubscribing, readerVars, sessionVars, subVars, closerVars
<1>1. CASE Sideline
  <2>1. UNCHANGED <<closed, subsOf, owner, ended, sender, shared, todo, hand>>
    BY <1>1, SidelineEffect
  <2> QED
    BY <1>1, <2>1
       DEF Sideline, Read, ReadHead, ReadFails, NextSubscribe, NextInvalid, NextPlain, Respond,
           ReaderGone, NextUnsubscribe, SenderForwards, WriterTakes, WriteSucceeds, ClientDies, vars
<1>2. CASE GetOrCreateSession \/ SubscribeSharedFails \/ GetSession \/ ReaderCloses
  BY <1>2 DEF GetOrCreateSession, SubscribeSharedFails, GetSession, ReaderCloses, ToRespond
<1>3. CASE WriterCloses \/ ServerCloses \/ CloseConn
  BY <1>3 DEF WriterCloses, ServerCloses, CloseConn
<1>4. ASSUME NEW a \in Closers, RemoveSession(a) \/ SessionClosed(a) PROVE Undisturbed
  BY <1>4 DEF RemoveSession, SessionClosed
<1> QED
  BY <1>1, <1>2, <1>3, <1>4

\* What the steps below may use of the state they start from.
BookInv == TypeOK /\ ReaderInv /\ CloserInv /\ \A x \in Subs : SubInv(x)

\* The id given out is a fresh one.
LEMMA CheckSessionKeeps ==
    ASSUME BookInv, TypeOK', CheckSession, NEW x \in Subs
    PROVE  SubInv(x)'
<1> USE DEF BookInv, CheckSession, Subscribing, Unsubscribing, readerVars, sessionVars, subVars, closerVars
<1>1. CASE closed[rs] \/ Cardinality(subsOf[rs]) >= MaxSubs
  <2>1. Undisturbed
    BY <1>1 DEF Undisturbed, ToRespond
  <2> QED
    BY <2>1, SubUndisturbed
<1>2. CASE ~(closed[rs] \/ Cardinality(subsOf[rs]) >= MaxSubs)
  <2>1. owner[NewId] = 0 /\ NewId \in Subs /\ rs \in Sessions
    BY NewIdIsFresh DEF ReaderInv
  <2>2. /\ sub' = NewId /\ rs' = rs /\ rp' = "subscribe"
        /\ owner' = [owner EXCEPT ![NewId] = rs]
        /\ UNCHANGED <<closed, subsOf, ended, sender, shared, todo, hand>>
    BY <1>2
  <2> USE <2>1, <2>2 DEF TypeOK, SubInv, ReaderHolds, CloserHolds, Sessions
  <2>3. FreshIsNowhere(x)'
    BY DEF FreshIsNowhere
  <2>4. ListedIsAtRest(x)'
    BY DEF FreshIsNowhere, ListedIsAtRest
  <2>5. SubscribingIsAlone(x)'
    BY DEF FreshIsNowhere, SubscribingIsAlone
  <2>6. UnregisteredIsEnded(x)' /\ KnownIfRegistered(x)'
    BY DEF UnregisteredIsEnded, KnownIfRegistered
  <2>7. ToldIfRunning(x)'
    BY DEF FreshIsNowhere, ToldIfRunning
  <2> QED
    BY <2>3, <2>4, <2>5, <2>6, <2>7
<1> QED
  BY <1>1, <1>2

\* Registered, and still in the reader's hands.
LEMMA SubscribeSharedKeeps ==
    ASSUME BookInv, TypeOK', SubscribeShared, NEW x \in Subs
    PROVE  SubInv(x)'
<1> USE DEF BookInv, TypeOK, ReaderInv, CloserInv, SubInv, ReaderHolds, CloserHolds, Subscribing, Unsubscribing,
        SubscribeShared, Sessions, readerVars, sessionVars, subVars, closerVars
<1>1. FreshIsNowhere(x)'
  BY DEF FreshIsNowhere
<1>2. ListedIsAtRest(x)'
  BY DEF ListedIsAtRest
<1>3. SubscribingIsAlone(x)'
  BY DEF SubscribingIsAlone
<1>4. UnregisteredIsEnded(x)'
  BY DEF UnregisteredIsEnded
<1>5. KnownIfRegistered(x)'
  BY DEF KnownIfRegistered
<1>6. ToldIfRunning(x)'
  BY DEF ToldIfRunning
<1> QED
  BY <1>1, <1>2, <1>3, <1>4, <1>5, <1>6

\* From the reader's hands into the list, with a sender.
LEMMA StoreSubscriptionKeeps ==
    ASSUME BookInv, TypeOK', StoreSubscription, NEW x \in Subs
    PROVE  SubInv(x)'
<1> USE DEF BookInv, TypeOK, ReaderInv, CloserInv, SubInv, ReaderHolds, CloserHolds, Subscribing, Unsubscribing,
        StoreSubscription, ToRespond, Sessions, readerVars, sessionVars, subVars, closerVars
<1>1. FreshIsNowhere(x)'
  BY DEF FreshIsNowhere
<1>2. ListedIsAtRest(x)'
  BY DEF ListedIsAtRest, SubscribingIsAlone
<1>3. SubscribingIsAlone(x)'
  BY DEF SubscribingIsAlone
<1>4. UnregisteredIsEnded(x)'
  BY DEF UnregisteredIsEnded
<1>5. KnownIfRegistered(x)'
  BY DEF KnownIfRegistered
<1>6. ToldIfRunning(x)'
  BY DEF SubscribingIsAlone, ToldIfRunning
<1> QED
  BY <1>1, <1>2, <1>3, <1>4, <1>5, <1>6

\* From the list into the reader's hands.
LEMMA TakeSubscriptionKeeps ==
    ASSUME BookInv, TypeOK', TakeSubscription, NEW x \in Subs
    PROVE  SubInv(x)'
<1> USE DEF BookInv, TypeOK, ReaderInv, CloserInv, SubInv, ReaderHolds, CloserHolds, Subscribing, Unsubscribing,
        TakeSubscription, ToRespond, Sessions, readerVars, sessionVars, subVars, closerVars
<1>1. FreshIsNowhere(x)'
  BY DEF FreshIsNowhere, ListedIsAtRest
<1>2. ListedIsAtRest(x)'
  BY DEF ListedIsAtRest
<1>3. SubscribingIsAlone(x)'
  BY DEF SubscribingIsAlone
<1>4. UnregisteredIsEnded(x)'
  BY DEF UnregisteredIsEnded
<1>5. KnownIfRegistered(x)'
  BY DEF KnownIfRegistered
<1>6. ToldIfRunning(x)'
  BY DEF ToldIfRunning
<1> QED
  BY <1>1, <1>2, <1>3, <1>4, <1>5, <1>6

\* Ended before it is unregistered.
LEMMA EndSubscriberKeeps ==
    ASSUME BookInv, TypeOK', EndSubscriber, NEW x \in Subs
    PROVE  SubInv(x)'
<1> USE DEF BookInv, TypeOK, ReaderInv, CloserInv, SubInv, ReaderHolds, CloserHolds, Subscribing, Unsubscribing,
        EndSubscriber, Sessions, readerVars, sessionVars, subVars, closerVars
<1>1. FreshIsNowhere(x)'
  BY DEF FreshIsNowhere
<1>2. ListedIsAtRest(x)'
  BY DEF ListedIsAtRest
<1>3. SubscribingIsAlone(x)'
  BY DEF SubscribingIsAlone
<1>4. UnregisteredIsEnded(x)'
  BY DEF UnregisteredIsEnded
<1>5. KnownIfRegistered(x)'
  BY DEF KnownIfRegistered
<1>6. ToldIfRunning(x)'
  BY DEF ToldIfRunning
<1> QED
  BY <1>1, <1>2, <1>3, <1>4, <1>5, <1>6

\* Unregistered when it was ended.
LEMMA UnsubscribeSharedKeeps ==
    ASSUME BookInv, TypeOK', UnsubscribeShared, NEW x \in Subs
    PROVE  SubInv(x)'
<1> USE DEF BookInv, TypeOK, ReaderInv, CloserInv, SubInv, ReaderHolds, CloserHolds, Subscribing, Unsubscribing,
        UnsubscribeShared, ToRespond, Sessions, readerVars, sessionVars, subVars, closerVars
<1>1. FreshIsNowhere(x)'
  BY DEF FreshIsNowhere
<1>2. ListedIsAtRest(x)'
  BY DEF ListedIsAtRest
<1>3. SubscribingIsAlone(x)'
  BY DEF SubscribingIsAlone
<1>4. UnregisteredIsEnded(x)'
  BY DEF UnregisteredIsEnded
<1>5. KnownIfRegistered(x)'
  BY DEF KnownIfRegistered
<1>6. ToldIfRunning(x)'
  BY DEF UnregisteredIsEnded, ToldIfRunning
<1> QED
  BY <1>1, <1>2, <1>3, <1>4, <1>5, <1>6

\* A sender ends only for a reason.
LEMMA SenderEndsKeeps ==
    ASSUME BookInv, TypeOK', NEW y \in Subs, SenderEnds(y), NEW x \in Subs
    PROVE  SubInv(x)'
<1> USE DEF BookInv, TypeOK, ReaderInv, CloserInv, SubInv, ReaderHolds, CloserHolds, Subscribing, Unsubscribing,
        SenderEnds, Sessions, readerVars, sessionVars, subVars, closerVars
<1>1. FreshIsNowhere(x)'
  BY DEF FreshIsNowhere
<1>2. ListedIsAtRest(x)'
  BY DEF ListedIsAtRest
<1>3. SubscribingIsAlone(x)'
  BY DEF SubscribingIsAlone
<1>4. UnregisteredIsEnded(x)'
  BY DEF UnregisteredIsEnded
<1>5. KnownIfRegistered(x)'
  BY DEF KnownIfRegistered
<1>6. ToldIfRunning(x)'
  BY DEF ToldIfRunning
<1> QED
  BY <1>1, <1>2, <1>3, <1>4, <1>5, <1>6

\* From the list into the closer's hands, all at once.
LEMMA CloseSessionKeeps ==
    ASSUME BookInv, TypeOK', NEW a \in Closers, CloseSession(a), NEW x \in Subs
    PROVE  SubInv(x)'
<1> USE DEF BookInv, TypeOK, ReaderInv, CloserInv, SubInv, ReaderHolds, CloserHolds, Subscribing, Unsubscribing,
        CloseSession, Sessions, readerVars, sessionVars, subVars, closerVars
<1>1. FreshIsNowhere(x)'
  BY DEF FreshIsNowhere, ListedIsAtRest
<1>2. ListedIsAtRest(x)'
  BY DEF ListedIsAtRest
<1>3. SubscribingIsAlone(x)'
  BY DEF ListedIsAtRest, SubscribingIsAlone
<1>4. UnregisteredIsEnded(x)'
  BY DEF UnregisteredIsEnded
<1>5. KnownIfRegistered(x)'
  BY DEF UnregisteredIsEnded, KnownIfRegistered
<1>6. ToldIfRunning(x)'
  BY DEF ToldIfRunning
<1> QED
  BY <1>1, <1>2, <1>3, <1>4, <1>5, <1>6

\* Ended, and still in the closer's hands.
LEMMA CloseSubscriberKeeps ==
    ASSUME BookInv, TypeOK', NEW a \in Closers, NEW y \in Subs, CloseSubscriber(a, y), NEW x \in Subs
    PROVE  SubInv(x)'
<1> USE NoSubAssumption DEF BookInv, TypeOK, ReaderInv, CloserInv, SubInv, ReaderHolds, CloserHolds, Subscribing, Unsubscribing,
        CloseSubscriber, Sessions, readerVars, sessionVars, subVars, closerVars
<1>1. FreshIsNowhere(x)'
  BY DEF FreshIsNowhere
<1>2. ListedIsAtRest(x)'
  BY DEF ListedIsAtRest
<1>3. SubscribingIsAlone(x)'
  BY DEF SubscribingIsAlone
<1>4. UnregisteredIsEnded(x)'
  BY DEF UnregisteredIsEnded
<1>5. KnownIfRegistered(x)'
  BY DEF KnownIfRegistered
<1>6. ToldIfRunning(x)'
  BY DEF ToldIfRunning
<1> QED
  BY <1>1, <1>2, <1>3, <1>4, <1>5, <1>6

\* Unregistered when it was ended.
LEMMA UnregisterKeeps ==
    ASSUME BookInv, TypeOK', NEW a \in Closers, Unregister(a), NEW x \in Subs
    PROVE  SubInv(x)'
<1> USE NoSubAssumption DEF BookInv, TypeOK, ReaderInv, CloserInv, SubInv, ReaderHolds, CloserHolds, Subscribing, Unsubscribing,
        Unregister, Sessions, readerVars, sessionVars, subVars, closerVars
<1>1. FreshIsNowhere(x)'
  BY DEF FreshIsNowhere
<1>2. ListedIsAtRest(x)'
  BY DEF ListedIsAtRest
<1>3. SubscribingIsAlone(x)'
  BY DEF SubscribingIsAlone
<1>4. UnregisteredIsEnded(x)'
  BY DEF UnregisteredIsEnded
<1>5. KnownIfRegistered(x)'
  BY DEF KnownIfRegistered
<1>6. ToldIfRunning(x)'
  BY DEF UnregisteredIsEnded, ToldIfRunning
<1> QED
  BY <1>1, <1>2, <1>3, <1>4, <1>5, <1>6

-----------------------------------------------------------------------------
(* The theorems.                                                           *)

\* Every step keeps SubInv for every subscription.
LEMMA SubsKept == IndInv /\ [Next]_vars => \A x \in Subs : SubInv(x)'
<1> SUFFICES ASSUME IndInv, [Next]_vars, NEW x \in Subs PROVE SubInv(x)'
  OBVIOUS
<1>0. BookInv /\ TypeOK' /\ TypeOK /\ SubInv(x)
  BY TypesPreserved DEF IndInv, BookInv
<1>1. ASSUME \/ Sideline \/ GetOrCreateSession \/ SubscribeSharedFails \/ GetSession
             \/ ReaderCloses \/ WriterCloses \/ ServerCloses \/ CloseConn
             \/ \E a \in Closers : RemoveSession(a) \/ SessionClosed(a)
      PROVE  SubInv(x)'
  BY <1>0, <1>1, WaitingDisturbsNone, SubUndisturbed
<1>2. ASSUME \/ CheckSession \/ SubscribeShared \/ StoreSubscription
             \/ TakeSubscription \/ EndSubscriber \/ UnsubscribeShared
      PROVE  SubInv(x)'
  BY <1>0, <1>2, CheckSessionKeeps, SubscribeSharedKeeps, StoreSubscriptionKeeps,
     TakeSubscriptionKeeps, EndSubscriberKeeps, UnsubscribeSharedKeeps
<1>3. ASSUME NEW y \in Subs, SenderEnds(y) PROVE SubInv(x)'
  BY <1>0, <1>3, SenderEndsKeeps
<1>4. ASSUME NEW a \in Closers, CloseSession(a) \/ Unregister(a) PROVE SubInv(x)'
  BY <1>0, <1>4, CloseSessionKeeps, UnregisterKeeps
<1>5. ASSUME NEW a \in Closers, NEW y \in Subs, CloseSubscriber(a, y) PROVE SubInv(x)'
  BY <1>0, <1>5, CloseSubscriberKeeps
<1> QED
  BY <1>1, <1>2, <1>3, <1>4, <1>5, StepCases

\* IndInv is an invariant.
LEMMA Invariance == Spec => []IndInv
<1>1. IndInv /\ [Next]_vars => IndInv'
  BY TypesPreserved, ReaderKept, ClosersKept, BudgetKept, ListsKept, SubsKept DEF IndInv
<1> QED
  BY InitIndInv, <1>1, PTL DEF Spec

\* The variables keep their types; in particular one connection never has more
\* than three sessions, however its requests, RemoveSession and CloseAll
\* interleave.
THEOREM TypeCorrect == Spec => []TypeOK
<1>1. IndInv => TypeOK
  BY DEF IndInv
<1> QED
  BY <1>1, Invariance, PTL

\* A subscription that an open session lists is registered with the shared
\* manager, its subscriber open and its events forwarded: no closer or
\* unsubscribe has its hands on it.
THEOREM ListedServed == Spec => []ListedIsServed
<1>1. IndInv => ListedIsServed
  BY DEF IndInv, SubInv, ListedIsAtRest, ListedIsServed, TypeOK
<1> QED
  BY <1>1, Invariance, PTL

\* No registered subscriber is forgotten by everyone: a session lists it or a
\* goroutine has it in hand.
THEOREM RegisteredKnown == Spec => []RegisteredIsKnown
<1>1. IndInv => RegisteredIsKnown
  BY DEF IndInv, SubInv, KnownIfRegistered, CloserHolds, RegisteredIsKnown, TypeOK
<1> QED
  BY <1>1, Invariance, PTL

\* No session lists more than maxSubscriptionsPerClient, although the check and
\* the store are two critical sections.
THEOREM LimitHolds == Spec => []WithinLimit
<1>1. IndInv => WithinLimit
  BY DEF IndInv
<1> QED
  BY <1>1, Invariance, PTL

\* No forwarding goroutine is left without events and without an end: its
\* subscription is registered, or a closed channel tells it to return.
THEOREM ForwardersTold == Spec => []ForwardersAreTold
<1>1. IndInv => ForwardersAreTold
  BY DEF IndInv, SubInv, ToldIfRunning, ForwardersAreTold
<1> QED
  BY <1>1, Invariance, PTL

=============================================================================
