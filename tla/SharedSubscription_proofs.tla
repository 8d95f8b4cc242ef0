---------------------- MODULE SharedSubscription_proofs ----------------------
(***************************************************************************)
(* What holds of SharedSubscription for every set of subscribers and       *)
(* upstreams and every bound.  The inductive invariant is IndInv: the      *)
(* typing, the manager's part (what a value of mu says about the newest    *)
(* object) and the readers' part (what a pc says about the connection and  *)
(* the map, and which readers Close has still to reach).                   *)
(***************************************************************************)
EXTENDS SharedSubscription, TLAPS

\* The constants' assumptions, for the leaves.
USE GenAssumption, FaultAssumption, PanicAssumption, NoSubAssumption

ManagerInv ==
    /\ cur \in {0, gen}
    /\ mu = "create" => gen # 0 /\ cur = 0 /\ ~closed[gen] /\ caller \in Subscribers
    /\ mu \in {"unsubscribe", "shutdown"} => cur # 0 /\ closed[cur]
    /\ \A g \in Gens : g > gen => ~closed[g]

\* Stronger than CloseReachesReaders: during Close's loop it already holds for
\* the upstreams the loop has passed.
ReachedInv ==
    \A g \in Gens, u \in Upstreams :
        closed[g] /\ (g # cur \/ u \notin rest) => ~(pc[g][u] = "read" /\ open[g][u])

IndInv ==
    /\ TypeOK
    /\ ManagerInv
    /\ RegisteredIsLive
    /\ OneLiveFeed
    /\ NoLeakedConnection
    /\ MapMatchesReaders
    /\ ReachedInv

-----------------------------------------------------------------------------
(* Type correctness, with what a value of mu says about the newest object. *)

\* Initially every variable has its type, and the lock is free.
LEMMA TypeInit == Init => TypeOK /\ ManagerInv
BY DEF Init, TypeOK, ManagerInv, Gens, ReaderPCs

\* Every step of the manager, of a reader and of the runtime keeps the types:
\* under m.mu, caller is a subscriber and the newest object exists.
LEMMA TypeStep == TypeOK /\ ManagerInv /\ [Next]_vars => TypeOK'
<1> SUFFICES ASSUME TypeOK, ManagerInv, [Next]_vars PROVE TypeOK'
  OBVIOUS
<1>1. ASSUME NEW c \in Subscribers, SubscribeExisting(c)
      PROVE  TypeOK'
  BY <1>1
     DEF TypeOK, mgrVars, readerVars, Gens, ReaderPCs, ManagerInv,
         SubscribeExisting
<1>2. ASSUME NEW c \in Subscribers, SubscribeNew(c)
      PROVE  TypeOK'
  BY <1>2 DEF TypeOK, mgrVars, readerVars, Gens, ReaderPCs, ManagerInv, SubscribeNew
<1>3. ASSUME NEW c \in Subscribers, Unsubscribe(c)
      PROVE  TypeOK'
  BY <1>3 DEF TypeOK, mgrVars, readerVars, Gens, ReaderPCs, ManagerInv, Unsubscribe
<1>4. CASE CancelManager
  BY <1>4
     DEF TypeOK, mgrVars, readerVars, Gens, ReaderPCs, ManagerInv,
         CancelManager
<1>5. CASE CloseManager
  BY <1>5 DEF TypeOK, mgrVars, readerVars, Gens, ReaderPCs, ManagerInv, CloseManager
<1>6. CASE CreateEnd
  BY <1>6 DEF TypeOK, mgrVars, readerVars, Gens, ReaderPCs, ManagerInv, CreateEnd
<1>7. CASE CloseEnd
  BY <1>7 DEF TypeOK, mgrVars, readerVars, Gens, ReaderPCs, ManagerInv, CloseEnd
<1>8. ASSUME NEW u \in Upstreams, CreateDial(u)
      PROVE  TypeOK'
  BY <1>8 DEF TypeOK, mgrVars, readerVars, Gens, ReaderPCs, ManagerInv, CreateDial
<1>9. ASSUME NEW u \in Upstreams, CreateDialFails(u)
      PROVE  TypeOK'
  BY <1>9
     DEF TypeOK, mgrVars, readerVars, Gens, ReaderPCs, ManagerInv,
         CreateDialFails
<1>10. ASSUME NEW u \in Upstreams, CloseUpstream(u)
      PROVE  TypeOK'
  BY <1>10
     DEF TypeOK, mgrVars, readerVars, Gens, ReaderPCs, ManagerInv,
         CloseUpstream
<1>11. ASSUME NEW g \in Gens, NEW u \in Upstreams, ReaderHead(g, u)
      PROVE  TypeOK'
  BY <1>11
     DEF TypeOK, mgrVars, readerVars, Gens, ReaderPCs, ManagerInv, ReaderHead,
         Goto, At
<1>12. ASSUME NEW g \in Gens, NEW u \in Upstreams, ReadEvent(g, u)
      PROVE  TypeOK'
  BY <1>12
     DEF TypeOK, mgrVars, readerVars, Gens, ReaderPCs, ManagerInv, ReadEvent,
         Goto, At
<1>13. ASSUME NEW g \in Gens, NEW u \in Upstreams, ReadFails(g, u)
      PROVE  TypeOK'
  <2>1. badReads' \in [Gens -> [Upstreams -> Nat]]
    BY <1>13 DEF TypeOK, ReadFails
  <2>2. faults' \in Nat
    <3>1. faults' = faults + 1 \/ faults' = faults
      BY <1>13 DEF ReadFails
    <3>2. CASE open[g][u]
      BY <3>1, <3>2 DEF TypeOK
    <3>3. CASE ~open[g][u]
      BY <3>1, <3>3 DEF TypeOK
    <3>4. QED
      BY <3>2, <3>3
  <2>3. pc' \in [Gens -> [Upstreams -> ReaderPCs]]
    <3>1. CASE Goto(g, u, "cleanup")
      BY <3>1 DEF TypeOK, Goto, ReaderPCs
    <3>2. CASE Goto(g, u, "wait")
      BY <3>2 DEF TypeOK, Goto, ReaderPCs
    <3>3. QED
      BY <1>13, <3>1, <3>2 DEF ReadFails
  <2>4. open' \in [Gens -> [Upstreams -> BOOLEAN]]
    <3>1. CASE open' = open
      BY <3>1 DEF TypeOK
    <3>2. CASE open' = [open EXCEPT ![g][u] = FALSE]
      BY <3>2 DEF TypeOK
    <3>3. QED
      BY <1>13, <3>1, <3>2 DEF ReadFails
  <2>5. UNCHANGED <<mgrVars, upSubs, count, crash>>
    BY <1>13 DEF ReadFails
  <2>6. QED
    BY <2>1, <2>2, <2>3, <2>4, <2>5 DEF TypeOK, mgrVars, Gens
<1>14. ASSUME NEW g \in Gens, NEW u \in Upstreams, ReadPanics(g, u)
      PROVE  TypeOK'
  BY <1>14
     DEF TypeOK, mgrVars, readerVars, Gens, ReaderPCs, ManagerInv, ReadPanics,
         At
<1>15. ASSUME NEW g \in Gens, NEW u \in Upstreams, WaitStopped(g, u)
      PROVE  TypeOK'
  BY <1>15
     DEF TypeOK, mgrVars, readerVars, Gens, ReaderPCs, ManagerInv,
         WaitStopped, Goto, At
<1>16. ASSUME NEW g \in Gens, NEW u \in Upstreams, WaitElapsed(g, u)
      PROVE  TypeOK'
  BY <1>16
     DEF TypeOK, mgrVars, readerVars, Gens, ReaderPCs, ManagerInv,
         WaitElapsed, Goto, At
<1>17. ASSUME NEW g \in Gens, NEW u \in Upstreams, ReconnectDial(g, u)
      PROVE  TypeOK'
  BY <1>17
     DEF TypeOK, mgrVars, readerVars, Gens, ReaderPCs, ManagerInv,
         ReconnectDial, Goto, At
<1>18. ASSUME NEW g \in Gens, NEW u \in Upstreams, ReconnectFails(g, u)
      PROVE  TypeOK'
  BY <1>18
     DEF TypeOK, mgrVars, readerVars, Gens, ReaderPCs, ManagerInv,
         ReconnectFails, Goto, At
<1>19. ASSUME NEW g \in Gens, NEW u \in Upstreams, ReconnectInstall(g, u)
      PROVE  TypeOK'
  BY <1>19
     DEF TypeOK, mgrVars, readerVars, Gens, ReaderPCs, ManagerInv,
         ReconnectInstall, Goto, At
<1>20. ASSUME NEW g \in Gens, NEW u \in Upstreams, Cleanup(g, u)
      PROVE  TypeOK'
  BY <1>20
     DEF TypeOK, mgrVars, readerVars, Gens, ReaderPCs, ManagerInv, Cleanup,
         Goto, At
<1>21. ASSUME NEW g \in Gens, NEW u \in Upstreams, DeleteEntry(g, u)
      PROVE  TypeOK'
  BY <1>21
     DEF TypeOK, mgrVars, readerVars, Gens, ReaderPCs, ManagerInv,
         DeleteEntry, Goto, At
<1>22. CASE ConcurrentMapAccess
  BY <1>22
     DEF TypeOK, mgrVars, readerVars, Gens, ReaderPCs, ManagerInv,
         ConcurrentMapAccess
<1>23. CASE UNCHANGED vars
  BY <1>23 DEF TypeOK, mgrVars, readerVars, Gens, ReaderPCs, ManagerInv, vars
<1>24. QED
  BY <1>1, <1>2, <1>3, <1>4, <1>5, <1>6, <1>7, <1>8, <1>9, <1>10, <1>11,
     <1>12, <1>13, <1>14, <1>15, <1>16, <1>17, <1>18, <1>19, <1>20, <1>21, <1>22, <1>23
     DEF Next, ManagerStep, ReaderStep, PeerStep, Stopped

\* Only the holder of m.mu changes what ManagerInv speaks of.
LEMMA ManagerKept == TypeOK /\ ManagerInv /\ [Next]_vars => ManagerInv'
<1> SUFFICES ASSUME TypeOK, ManagerInv, [Next]_vars PROVE ManagerInv'
  OBVIOUS
<1>1. ASSUME NEW c \in Subscribers, SubscribeExisting(c)
      PROVE  ManagerInv'
  BY <1>1 DEF TypeOK, ManagerInv, mgrVars, Gens, SubscribeExisting
<1>2. ASSUME NEW c \in Subscribers, SubscribeNew(c)
      PROVE  ManagerInv'
  BY <1>2 DEF TypeOK, ManagerInv, mgrVars, Gens, SubscribeNew
<1>3. ASSUME NEW c \in Subscribers, Unsubscribe(c)
      PROVE  ManagerInv'
  BY <1>3 DEF TypeOK, ManagerInv, mgrVars, Gens, Unsubscribe
<1>4. CASE CancelManager
  BY <1>4 DEF TypeOK, ManagerInv, mgrVars, Gens, CancelManager
<1>5. CASE CloseManager
  BY <1>5 DEF TypeOK, ManagerInv, mgrVars, Gens, CloseManager
<1>6. CASE CreateEnd
  BY <1>6 DEF TypeOK, ManagerInv, mgrVars, Gens, CreateEnd
<1>7. CASE CloseEnd
  BY <1>7 DEF TypeOK, ManagerInv, mgrVars, Gens, CloseEnd
<1>8. ASSUME NEW u \in Upstreams, CreateDial(u)
      PROVE  ManagerInv'
  BY <1>8 DEF TypeOK, ManagerInv, mgrVars, Gens, CreateDial
<1>9. ASSUME NEW u \in Upstreams, CreateDialFails(u)
      PROVE  ManagerInv'
  BY <1>9 DEF TypeOK, ManagerInv, mgrVars, Gens, CreateDialFails
<1>10. ASSUME NEW u \in Upstreams, CloseUpstream(u)
      PROVE  ManagerInv'
  BY <1>10 DEF TypeOK, ManagerInv, mgrVars, Gens, CloseUpstream
<1>11. ASSUME NEW g \in Gens, NEW u \in Upstreams, ReaderHead(g, u)
      PROVE  ManagerInv'
  BY <1>11 DEF TypeOK, ManagerInv, mgrVars, Gens, ReaderHead, Goto, At
<1>12. ASSUME NEW g \in Gens, NEW u \in Upstreams, ReadEvent(g, u)
      PROVE  ManagerInv'
  BY <1>12 DEF TypeOK, ManagerInv, mgrVars, Gens, ReadEvent, Goto, At
<1>13. ASSUME NEW g \in Gens, NEW u \in Upstreams, ReadFails(g, u)
      PROVE  ManagerInv'
  BY <1>13 DEF TypeOK, ManagerInv, mgrVars, Gens, ReadFails, Goto, At
<1>14. ASSUME NEW g \in Gens, NEW u \in Upstreams, ReadPanics(g, u)
      PROVE  ManagerInv'
  BY <1>14 DEF TypeOK, ManagerInv, mgrVars, Gens, ReadPanics, At
<1>15. ASSUME NEW g \in Gens, NEW u \in Upstreams, WaitStopped(g, u)
      PROVE  ManagerInv'
  BY <1>15 DEF TypeOK, ManagerInv, mgrVars, Gens, WaitStopped, Goto, At
<1>16. ASSUME NEW g \in Gens, NEW u \in Upstreams, WaitElapsed(g, u)
      PROVE  ManagerInv'
  BY <1>16 DEF TypeOK, ManagerInv, mgrVars, Gens, WaitElapsed, Goto, At
<1>17. ASSUME NEW g \in Gens, NEW u \in Upstreams, ReconnectDial(g, u)
      PROVE  ManagerInv'
  BY <1>17 DEF TypeOK, ManagerInv, mgrVars, Gens, ReconnectDial, Goto, At
<1>18. ASSUME NEW g \in Gens, NEW u \in Upstreams, ReconnectFails(g, u)
      PROVE  ManagerInv'
  BY <1>18 DEF TypeOK, ManagerInv, mgrVars, Gens, ReconnectFails, Goto, At
<1>19. ASSUME NEW g \in Gens, NEW u \in Upstreams, ReconnectInstall(g, u)
      PROVE  ManagerInv'
  BY <1>19 DEF TypeOK, ManagerInv, mgrVars, Gens, ReconnectInstall, Goto, At
<1>20. ASSUME NEW g \in Gens, NEW u \in Upstreams, Cleanup(g, u)
      PROVE  ManagerInv'
  BY <1>20 DEF TypeOK, ManagerInv, mgrVars, Gens, Cleanup, Goto, At
<1>21. ASSUME NEW g \in Gens, NEW u \in Upstreams, DeleteEntry(g, u)
      PROVE  ManagerInv'
  BY <1>21 DEF TypeOK, ManagerInv, mgrVars, Gens, DeleteEntry, Goto, At
<1>22. CASE ConcurrentMapAccess
  BY <1>22 DEF TypeOK, ManagerInv, mgrVars, Gens, ConcurrentMapAccess
<1>23. CASE UNCHANGED vars
  BY <1>23 DEF TypeOK, ManagerInv, mgrVars, Gens, vars
<1>24. QED
  BY <1>1, <1>2, <1>3, <1>4, <1>5, <1>6, <1>7, <1>8, <1>9, <1>10, <1>11,
     <1>12, <1>13, <1>14, <1>15, <1>16, <1>17, <1>18, <1>19, <1>20, <1>21, <1>22, <1>23
     DEF Next, ManagerStep, ReaderStep, PeerStep, Stopped

\* The manager and the readers never leave their state space.
THEOREM TypeCorrect == Spec => []TypeOK
<1>1. TypeOK /\ ManagerInv /\ [Next]_vars => (TypeOK /\ ManagerInv)'
  BY TypeStep, ManagerKept
<1>2. QED
  BY TypeInit, <1>1, PTL DEF Spec

-----------------------------------------------------------------------------
(* Registration, connections and the end of a closed object.               *)

\* No object exists at first, so the inductive invariant holds.
LEMMA InvInit == Init => IndInv
<1> SUFFICES ASSUME Init PROVE IndInv
  OBVIOUS
<1>1. TypeOK /\ ManagerInv
  BY TypeInit
<1>2. QED
  BY <1>1 DEF Init, IndInv, RegisteredIsLive, OneLiveFeed, NoLeakedConnection,
     MapMatchesReaders, ReachedInv, Running, Gens

\* What a failing read does to the reader and its connection.
LEMMA ReadFailsEffect ==
  ASSUME NEW g \in Gens, NEW u \in Upstreams, ReadFails(g, u)
  PROVE  /\ pc[g][u] = "read" /\ UNCHANGED <<mgrVars, upSubs, count, crash>>
         /\ \/ Goto(g, u, "cleanup") /\ open' = open
            \/ Goto(g, u, "wait") /\ open' = [open EXCEPT ![g][u] = FALSE]
<1>1. CASE Stopping(g)
  BY <1>1 DEF ReadFails, At
<1>2. CASE ~Stopping(g)
  BY <1>2 DEF ReadFails, At
<1>3. QED
  BY <1>1, <1>2

\* The key holds an object only from a successful create to the end of its Close.
LEMMA RegisteredKept == TypeOK /\ ManagerInv /\ RegisteredIsLive /\ [Next]_vars => RegisteredIsLive'
<1> SUFFICES ASSUME TypeOK, ManagerInv, RegisteredIsLive, [Next]_vars PROVE RegisteredIsLive'
  OBVIOUS
<1>1. ASSUME NEW c \in Subscribers, SubscribeExisting(c)
      PROVE  RegisteredIsLive'
  BY <1>1 DEF RegisteredIsLive, TypeOK, ManagerInv, mgrVars, Gens, SubscribeExisting
<1>2. ASSUME NEW c \in Subscribers, SubscribeNew(c)
      PROVE  RegisteredIsLive'
  BY <1>2 DEF RegisteredIsLive, TypeOK, ManagerInv, mgrVars, Gens, SubscribeNew
<1>3. ASSUME NEW c \in Subscribers, Unsubscribe(c)
      PROVE  RegisteredIsLive'
  BY <1>3 DEF RegisteredIsLive, TypeOK, ManagerInv, mgrVars, Gens, Unsubscribe
<1>4. CASE CancelManager
  BY <1>4 DEF RegisteredIsLive, TypeOK, ManagerInv, mgrVars, Gens, CancelManager
<1>5. CASE CloseManager
  BY <1>5 DEF RegisteredIsLive, TypeOK, ManagerInv, mgrVars, Gens, CloseManager
<1>6. CASE CreateEnd
  <2>1. CASE upSubs[gen] = {}
    BY <1>6, <2>1 DEF RegisteredIsLive, ManagerInv, CreateEnd
  <2>2. CASE upSubs[gen] # {}
    <3>1. gen \in Gens /\ ~closed[gen]
      BY <1>6 DEF TypeOK, ManagerInv, CreateEnd, Gens
    <3>2. cur' = gen /\ gen' = gen /\ closed' = closed
      BY <1>6, <2>2 DEF CreateEnd
    <3>3. subs' = [subs EXCEPT ![gen] = {caller}]
      BY <1>6, <2>2 DEF CreateEnd
    <3>4. subs'[gen] = {caller}
      BY <3>1, <3>3 DEF TypeOK
    <3>5. QED
      BY <3>1, <3>2, <3>4 DEF RegisteredIsLive
  <2>3. QED
    BY <2>1, <2>2
<1>7. CASE CloseEnd
  BY <1>7 DEF RegisteredIsLive, TypeOK, ManagerInv, mgrVars, Gens, CloseEnd
<1>8. ASSUME NEW u \in Upstreams, CreateDial(u)
      PROVE  RegisteredIsLive'
  BY <1>8 DEF RegisteredIsLive, TypeOK, ManagerInv, mgrVars, Gens, CreateDial
<1>9. ASSUME NEW u \in Upstreams, CreateDialFails(u)
      PROVE  RegisteredIsLive'
  BY <1>9 DEF RegisteredIsLive, TypeOK, ManagerInv, mgrVars, Gens, CreateDialFails
<1>10. ASSUME NEW u \in Upstreams, CloseUpstream(u)
      PROVE  RegisteredIsLive'
  BY <1>10 DEF RegisteredIsLive, TypeOK, ManagerInv, mgrVars, Gens, CloseUpstream
<1>11. ASSUME NEW g \in Gens, NEW u \in Upstreams, ReaderHead(g, u)
      PROVE  RegisteredIsLive'
  BY <1>11
     DEF RegisteredIsLive, TypeOK, ManagerInv, mgrVars, Gens, ReaderHead,
         Goto, At
<1>12. ASSUME NEW g \in Gens, NEW u \in Upstreams, ReadEvent(g, u)
      PROVE  RegisteredIsLive'
  BY <1>12
     DEF RegisteredIsLive, TypeOK, ManagerInv, mgrVars, Gens, ReadEvent, Goto,
         At
<1>13. ASSUME NEW g \in Gens, NEW u \in Upstreams, ReadFails(g, u)
      PROVE  RegisteredIsLive'
  BY <1>13
     DEF RegisteredIsLive, TypeOK, ManagerInv, mgrVars, Gens, ReadFails, Goto,
         At
<1>14. ASSUME NEW g \in Gens, NEW u \in Upstreams, ReadPanics(g, u)
      PROVE  RegisteredIsLive'
  BY <1>14 DEF RegisteredIsLive, TypeOK, ManagerInv, mgrVars, Gens, ReadPanics, At
<1>15. ASSUME NEW g \in Gens, NEW u \in Upstreams, WaitStopped(g, u)
      PROVE  RegisteredIsLive'
  BY <1>15
     DEF RegisteredIsLive, TypeOK, ManagerInv, mgrVars, Gens, WaitStopped,
         Goto, At
<1>16. ASSUME NEW g \in Gens, NEW u \in Upstreams, WaitElapsed(g, u)
      PROVE  RegisteredIsLive'
  BY <1>16
     DEF RegisteredIsLive, TypeOK, ManagerInv, mgrVars, Gens, WaitElapsed,
         Goto, At
<1>17. ASSUME NEW g \in Gens, NEW u \in Upstreams, ReconnectDial(g, u)
      PROVE  RegisteredIsLive'
  BY <1>17
     DEF RegisteredIsLive, TypeOK, ManagerInv, mgrVars, Gens, ReconnectDial,
         Goto, At
<1>18. ASSUME NEW g \in Gens, NEW u \in Upstreams, ReconnectFails(g, u)
      PROVE  RegisteredIsLive'
  BY <1>18
     DEF RegisteredIsLive, TypeOK, ManagerInv, mgrVars, Gens, ReconnectFails,
         Goto, At
<1>19. ASSUME NEW g \in Gens, NEW u \in Upstreams, ReconnectInstall(g, u)
      PROVE  RegisteredIsLive'
  BY <1>19
     DEF RegisteredIsLive, TypeOK, ManagerInv, mgrVars, Gens,
         ReconnectInstall, Goto, At
<1>20. ASSUME NEW g \in Gens, NEW u \in Upstreams, Cleanup(g, u)
      PROVE  RegisteredIsLive'
  BY <1>20
     DEF RegisteredIsLive, TypeOK, ManagerInv, mgrVars, Gens, Cleanup, Goto,
         At
<1>21. ASSUME NEW g \in Gens, NEW u \in Upstreams, DeleteEntry(g, u)
      PROVE  RegisteredIsLive'
  BY <1>21
     DEF RegisteredIsLive, TypeOK, ManagerInv, mgrVars, Gens, DeleteEntry,
         Goto, At
<1>22. CASE ConcurrentMapAccess
  BY <1>22
     DEF RegisteredIsLive, TypeOK, ManagerInv, mgrVars, Gens,
         ConcurrentMapAccess
<1>23. CASE UNCHANGED vars
  BY <1>23 DEF RegisteredIsLive, TypeOK, ManagerInv, mgrVars, Gens, vars
<1>24. QED
  BY <1>1, <1>2, <1>3, <1>4, <1>5, <1>6, <1>7, <1>8, <1>9, <1>10, <1>11,
     <1>12, <1>13, <1>14, <1>15, <1>16, <1>17, <1>18, <1>19, <1>20, <1>21, <1>22, <1>23
     DEF Next, ManagerStep, ReaderStep, PeerStep, Stopped

\* A reader's map entry comes with its start and goes with its return.
LEMMA MapKept == TypeOK /\ ManagerInv /\ MapMatchesReaders /\ [Next]_vars => MapMatchesReaders'
<1> SUFFICES ASSUME TypeOK, ManagerInv, MapMatchesReaders, [Next]_vars PROVE MapMatchesReaders'
  OBVIOUS
<1>1. ASSUME NEW c \in Subscribers, SubscribeExisting(c)
      PROVE  MapMatchesReaders'
  BY <1>1
     DEF MapMatchesReaders, Running, TypeOK, ManagerInv, mgrVars, readerVars,
         Gens, SubscribeExisting
<1>2. ASSUME NEW c \in Subscribers, SubscribeNew(c)
      PROVE  MapMatchesReaders'
  BY <1>2
     DEF MapMatchesReaders, Running, TypeOK, ManagerInv, mgrVars, readerVars,
         Gens, SubscribeNew
<1>3. ASSUME NEW c \in Subscribers, Unsubscribe(c)
      PROVE  MapMatchesReaders'
  BY <1>3
     DEF MapMatchesReaders, Running, TypeOK, ManagerInv, mgrVars, readerVars,
         Gens, Unsubscribe
<1>4. CASE CancelManager
  BY <1>4
     DEF MapMatchesReaders, Running, TypeOK, ManagerInv, mgrVars, readerVars,
         Gens, CancelManager
<1>5. CASE CloseManager
  BY <1>5
     DEF MapMatchesReaders, Running, TypeOK, ManagerInv, mgrVars, readerVars,
         Gens, CloseManager
<1>6. CASE CreateEnd
  BY <1>6
     DEF MapMatchesReaders, Running, TypeOK, ManagerInv, mgrVars, readerVars,
         Gens, CreateEnd
<1>7. CASE CloseEnd
  BY <1>7
     DEF MapMatchesReaders, Running, TypeOK, ManagerInv, mgrVars, readerVars,
         Gens, CloseEnd
<1>8. ASSUME NEW u \in Upstreams, CreateDial(u)
      PROVE  MapMatchesReaders'
  BY <1>8
     DEF MapMatchesReaders, Running, TypeOK, ManagerInv, mgrVars, readerVars,
         Gens, CreateDial
<1>9. ASSUME NEW u \in Upstreams, CreateDialFails(u)
      PROVE  MapMatchesReaders'
  BY <1>9
     DEF MapMatchesReaders, Running, TypeOK, ManagerInv, mgrVars, readerVars,
         Gens, CreateDialFails
<1>10. ASSUME NEW u \in Upstreams, CloseUpstream(u)
      PROVE  MapMatchesReaders'
  BY <1>10
     DEF MapMatchesReaders, Running, TypeOK, ManagerInv, mgrVars, readerVars,
         Gens, CloseUpstream
<1>11. ASSUME NEW g \in Gens, NEW u \in Upstreams, ReaderHead(g, u)
      PROVE  MapMatchesReaders'
  BY <1>11
     DEF MapMatchesReaders, Running, TypeOK, ManagerInv, mgrVars, readerVars,
         Gens, ReaderHead, Goto, At
<1>12. ASSUME NEW g \in Gens, NEW u \in Upstreams, ReadEvent(g, u)
      PROVE  MapMatchesReaders'
  BY <1>12
     DEF MapMatchesReaders, Running, TypeOK, ManagerInv, mgrVars, readerVars,
         Gens, ReadEvent, Goto, At
<1>13. ASSUME NEW g \in Gens, NEW u \in Upstreams, ReadFails(g, u)
      PROVE  MapMatchesReaders'
  <2>1. /\ pc[g][u] = "read" /\ UNCHANGED <<mgrVars, upSubs, count, crash>>
        /\ \/ Goto(g, u, "cleanup") /\ open' = open
           \/ Goto(g, u, "wait") /\ open' = [open EXCEPT ![g][u] = FALSE]
    BY <1>13, ReadFailsEffect
  <2>2. CASE Goto(g, u, "cleanup") /\ open' = open
    BY <2>1, <2>2 DEF MapMatchesReaders, Running, TypeOK, mgrVars, Gens, Goto
  <2>3. CASE Goto(g, u, "wait") /\ open' = [open EXCEPT ![g][u] = FALSE]
    BY <2>1, <2>3 DEF MapMatchesReaders, Running, TypeOK, mgrVars, Gens, Goto
  <2>4. QED
    BY <2>1, <2>2, <2>3
<1>14. ASSUME NEW g \in Gens, NEW u \in Upstreams, ReadPanics(g, u)
      PROVE  MapMatchesReaders'
  BY <1>14
     DEF MapMatchesReaders, Running, TypeOK, ManagerInv, mgrVars, readerVars,
         Gens, ReadPanics, At
<1>15. ASSUME NEW g \in Gens, NEW u \in Upstreams, WaitStopped(g, u)
      PROVE  MapMatchesReaders'
  BY <1>15
     DEF MapMatchesReaders, Running, TypeOK, ManagerInv, mgrVars, readerVars,
         Gens, WaitStopped, Goto, At
<1>16. ASSUME NEW g \in Gens, NEW u \in Upstreams, WaitElapsed(g, u)
      PROVE  MapMatchesReaders'
  BY <1>16
     DEF MapMatchesReaders, Running, TypeOK, ManagerInv, mgrVars, readerVars,
         Gens, WaitElapsed, Goto, At
<1>17. ASSUME NEW g \in Gens, NEW u \in Upstreams, ReconnectDial(g, u)
      PROVE  MapMatchesReaders'
  BY <1>17
     DEF MapMatchesReaders, Running, TypeOK, ManagerInv, mgrVars, readerVars,
         Gens, ReconnectDial, Goto, At
<1>18. ASSUME NEW g \in Gens, NEW u \in Upstreams, ReconnectFails(g, u)
      PROVE  MapMatchesReaders'
  BY <1>18
     DEF MapMatchesReaders, Running, TypeOK, ManagerInv, mgrVars, readerVars,
         Gens, ReconnectFails, Goto, At
<1>19. ASSUME NEW g \in Gens, NEW u \in Upstreams, ReconnectInstall(g, u)
      PROVE  MapMatchesReaders'
  BY <1>19
     DEF MapMatchesReaders, Running, TypeOK, ManagerInv, mgrVars, readerVars,
         Gens, ReconnectInstall, Goto, At
<1>20. ASSUME NEW g \in Gens, NEW u \in Upstreams, Cleanup(g, u)
      PROVE  MapMatchesReaders'
  BY <1>20
     DEF MapMatchesReaders, Running, TypeOK, ManagerInv, mgrVars, readerVars,
         Gens, Cleanup, Goto, At
<1>21. ASSUME NEW g \in Gens, NEW u \in Upstreams, DeleteEntry(g, u)
      PROVE  MapMatchesReaders'
  BY <1>21
     DEF MapMatchesReaders, Running, TypeOK, ManagerInv, mgrVars, readerVars,
         Gens, DeleteEntry, Goto, At
<1>22. CASE ConcurrentMapAccess
  BY <1>22
     DEF MapMatchesReaders, Running, TypeOK, ManagerInv, mgrVars, readerVars,
         Gens, ConcurrentMapAccess
<1>23. CASE UNCHANGED vars
  BY <1>23
     DEF MapMatchesReaders, Running, TypeOK, ManagerInv, mgrVars, readerVars,
         Gens, vars
<1>24. QED
  BY <1>1, <1>2, <1>3, <1>4, <1>5, <1>6, <1>7, <1>8, <1>9, <1>10, <1>11,
     <1>12, <1>13, <1>14, <1>15, <1>16, <1>17, <1>18, <1>19, <1>20, <1>21, <1>22, <1>23
     DEF Next, ManagerStep, ReaderStep, PeerStep, Stopped

\* When a reader that has not returned moves, nobody starts to run.
LEMMA NobodyStarts ==
  ASSUME TypeOK, OneLiveFeed, NEW g \in Gens, NEW u \in Upstreams, NEW from, NEW where,
         At(g, u, from), from \notin {"none", "done"}, Goto(g, u, where), UNCHANGED mgrVars
  PROVE  OneLiveFeed'
<1>1. \A h \in Gens, v \in Upstreams : Running(h, v)' => Running(h, v)
  BY DEF TypeOK, At, Goto, Running
<1>2. QED
  BY <1>1 DEF OneLiveFeed, mgrVars

\* An unregistered, unclosed object is one whose creation failed: its map is
\* empty, so no reader is left.
LEMMA FeedKept == TypeOK /\ ManagerInv /\ MapMatchesReaders /\ OneLiveFeed /\ [Next]_vars => OneLiveFeed'
<1> SUFFICES ASSUME TypeOK, ManagerInv, MapMatchesReaders, OneLiveFeed, [Next]_vars PROVE OneLiveFeed'
  OBVIOUS
<1>1. ASSUME NEW c \in Subscribers, SubscribeExisting(c)
      PROVE  OneLiveFeed'
  BY <1>1
     DEF OneLiveFeed, MapMatchesReaders, Running, TypeOK, ManagerInv, mgrVars,
         readerVars, Gens, SubscribeExisting
<1>2. ASSUME NEW c \in Subscribers, SubscribeNew(c)
      PROVE  OneLiveFeed'
  BY <1>2
     DEF OneLiveFeed, MapMatchesReaders, Running, TypeOK, ManagerInv, mgrVars,
         readerVars, Gens, SubscribeNew
<1>3. ASSUME NEW c \in Subscribers, Unsubscribe(c)
      PROVE  OneLiveFeed'
  BY <1>3
     DEF OneLiveFeed, MapMatchesReaders, Running, TypeOK, ManagerInv, mgrVars,
         readerVars, Gens, Unsubscribe
<1>4. CASE CancelManager
  BY <1>4
     DEF OneLiveFeed, MapMatchesReaders, Running, TypeOK, ManagerInv, mgrVars,
         readerVars, Gens, CancelManager
<1>5. CASE CloseManager
  BY <1>5
     DEF OneLiveFeed, MapMatchesReaders, Running, TypeOK, ManagerInv, mgrVars,
         readerVars, Gens, CloseManager
<1>6. CASE CreateEnd
  BY <1>6
     DEF OneLiveFeed, MapMatchesReaders, Running, TypeOK, ManagerInv, mgrVars,
         readerVars, Gens, CreateEnd
<1>7. CASE CloseEnd
  BY <1>7
     DEF OneLiveFeed, MapMatchesReaders, Running, TypeOK, ManagerInv, mgrVars,
         readerVars, Gens, CloseEnd
<1>8. ASSUME NEW u \in Upstreams, CreateDial(u)
      PROVE  OneLiveFeed'
  BY <1>8
     DEF OneLiveFeed, MapMatchesReaders, Running, TypeOK, ManagerInv, mgrVars,
         readerVars, Gens, CreateDial
<1>9. ASSUME NEW u \in Upstreams, CreateDialFails(u)
      PROVE  OneLiveFeed'
  BY <1>9
     DEF OneLiveFeed, MapMatchesReaders, Running, TypeOK, ManagerInv, mgrVars,
         readerVars, Gens, CreateDialFails
<1>10. ASSUME NEW u \in Upstreams, CloseUpstream(u)
      PROVE  OneLiveFeed'
  BY <1>10
     DEF OneLiveFeed, MapMatchesReaders, Running, TypeOK, ManagerInv, mgrVars,
         readerVars, Gens, CloseUpstream
<1>11. ASSUME NEW g \in Gens, NEW u \in Upstreams, ReaderHead(g, u)
      PROVE  OneLiveFeed'
  BY <1>11, NobodyStarts DEF ReaderHead
<1>12. ASSUME NEW g \in Gens, NEW u \in Upstreams, ReadEvent(g, u)
      PROVE  OneLiveFeed'
  BY <1>12, NobodyStarts DEF ReadEvent
<1>13. ASSUME NEW g \in Gens, NEW u \in Upstreams, ReadFails(g, u)
      PROVE  OneLiveFeed'
  BY <1>13, ReadFailsEffect, NobodyStarts DEF At
<1>14. ASSUME NEW g \in Gens, NEW u \in Upstreams, ReadPanics(g, u)
      PROVE  OneLiveFeed'
  BY <1>14 DEF OneLiveFeed, Running, mgrVars, readerVars, ReadPanics
<1>15. ASSUME NEW g \in Gens, NEW u \in Upstreams, WaitStopped(g, u)
      PROVE  OneLiveFeed'
  BY <1>15, NobodyStarts DEF WaitStopped
<1>16. ASSUME NEW g \in Gens, NEW u \in Upstreams, WaitElapsed(g, u)
      PROVE  OneLiveFeed'
  BY <1>16, NobodyStarts DEF WaitElapsed
<1>17. ASSUME NEW g \in Gens, NEW u \in Upstreams, ReconnectDial(g, u)
      PROVE  OneLiveFeed'
  BY <1>17, NobodyStarts DEF ReconnectDial
<1>18. ASSUME NEW g \in Gens, NEW u \in Upstreams, ReconnectFails(g, u)
      PROVE  OneLiveFeed'
  BY <1>18, NobodyStarts DEF ReconnectFails
<1>19. ASSUME NEW g \in Gens, NEW u \in Upstreams, ReconnectInstall(g, u)
      PROVE  OneLiveFeed'
  BY <1>19, NobodyStarts DEF ReconnectInstall
<1>20. ASSUME NEW g \in Gens, NEW u \in Upstreams, Cleanup(g, u)
      PROVE  OneLiveFeed'
  BY <1>20, NobodyStarts DEF Cleanup
<1>21. ASSUME NEW g \in Gens, NEW u \in Upstreams, DeleteEntry(g, u)
      PROVE  OneLiveFeed'
  BY <1>21, NobodyStarts DEF DeleteEntry
<1>22. CASE ConcurrentMapAccess
  BY <1>22
     DEF OneLiveFeed, MapMatchesReaders, Running, TypeOK, ManagerInv, mgrVars,
         readerVars, Gens, ConcurrentMapAccess
<1>23. CASE UNCHANGED vars
  BY <1>23
     DEF OneLiveFeed, MapMatchesReaders, Running, TypeOK, ManagerInv, mgrVars,
         readerVars, Gens, vars
<1>24. QED
  BY <1>1, <1>2, <1>3, <1>4, <1>5, <1>6, <1>7, <1>8, <1>9, <1>10, <1>11,
     <1>12, <1>13, <1>14, <1>15, <1>16, <1>17, <1>18, <1>19, <1>20, <1>21, <1>22, <1>23
     DEF Next, ManagerStep, ReaderStep, PeerStep, Stopped

\* A reader leaves "read" for "wait", and "cleanup" for "delete", only with
\* its connection closed.
LEMMA ConnKept == TypeOK /\ ManagerInv /\ NoLeakedConnection /\ [Next]_vars => NoLeakedConnection'
<1> SUFFICES ASSUME TypeOK, ManagerInv, NoLeakedConnection, [Next]_vars PROVE NoLeakedConnection'
  OBVIOUS
<1>1. ASSUME NEW c \in Subscribers, SubscribeExisting(c)
      PROVE  NoLeakedConnection'
  BY <1>1
     DEF NoLeakedConnection, TypeOK, ManagerInv, mgrVars, readerVars, Gens,
         SubscribeExisting
<1>2. ASSUME NEW c \in Subscribers, SubscribeNew(c)
      PROVE  NoLeakedConnection'
  BY <1>2
     DEF NoLeakedConnection, TypeOK, ManagerInv, mgrVars, readerVars, Gens,
         SubscribeNew
<1>3. ASSUME NEW c \in Subscribers, Unsubscribe(c)
      PROVE  NoLeakedConnection'
  BY <1>3
     DEF NoLeakedConnection, TypeOK, ManagerInv, mgrVars, readerVars, Gens,
         Unsubscribe
<1>4. CASE CancelManager
  BY <1>4
     DEF NoLeakedConnection, TypeOK, ManagerInv, mgrVars, readerVars, Gens,
         CancelManager
<1>5. CASE CloseManager
  BY <1>5
     DEF NoLeakedConnection, TypeOK, ManagerInv, mgrVars, readerVars, Gens,
         CloseManager
<1>6. CASE CreateEnd
  BY <1>6
     DEF NoLeakedConnection, TypeOK, ManagerInv, mgrVars, readerVars, Gens,
         CreateEnd
<1>7. CASE CloseEnd
  BY <1>7
     DEF NoLeakedConnection, TypeOK, ManagerInv, mgrVars, readerVars, Gens,
         CloseEnd
<1>8. ASSUME NEW u \in Upstreams, CreateDial(u)
      PROVE  NoLeakedConnection'
  BY <1>8
     DEF NoLeakedConnection, TypeOK, ManagerInv, mgrVars, readerVars, Gens,
         CreateDial
<1>9. ASSUME NEW u \in Upstreams, CreateDialFails(u)
      PROVE  NoLeakedConnection'
  BY <1>9
     DEF NoLeakedConnection, TypeOK, ManagerInv, mgrVars, readerVars, Gens,
         CreateDialFails
<1>10. ASSUME NEW u \in Upstreams, CloseUpstream(u)
      PROVE  NoLeakedConnection'
  BY <1>10
     DEF NoLeakedConnection, TypeOK, ManagerInv, mgrVars, readerVars, Gens,
         CloseUpstream
<1>11. ASSUME NEW g \in Gens, NEW u \in Upstreams, ReaderHead(g, u)
      PROVE  NoLeakedConnection'
  BY <1>11
     DEF NoLeakedConnection, TypeOK, ManagerInv, mgrVars, readerVars, Gens,
         ReaderHead, Goto, At
<1>12. ASSUME NEW g \in Gens, NEW u \in Upstreams, ReadEvent(g, u)
      PROVE  NoLeakedConnection'
  BY <1>12
     DEF NoLeakedConnection, TypeOK, ManagerInv, mgrVars, readerVars, Gens,
         ReadEvent, Goto, At
<1>13. ASSUME NEW g \in Gens, NEW u \in Upstreams, ReadFails(g, u)
      PROVE  NoLeakedConnection'
  <2>1. /\ pc[g][u] = "read" /\ UNCHANGED <<mgrVars, upSubs, count, crash>>
        /\ \/ Goto(g, u, "cleanup") /\ open' = open
           \/ Goto(g, u, "wait") /\ open' = [open EXCEPT ![g][u] = FALSE]
    BY <1>13, ReadFailsEffect
  <2>2. CASE Goto(g, u, "cleanup") /\ open' = open
    BY <2>1, <2>2 DEF NoLeakedConnection, TypeOK, mgrVars, Gens, Goto
  <2>3. CASE Goto(g, u, "wait") /\ open' = [open EXCEPT ![g][u] = FALSE]
    BY <2>1, <2>3 DEF NoLeakedConnection, TypeOK, mgrVars, Gens, Goto
  <2>4. QED
    BY <2>1, <2>2, <2>3
<1>14. ASSUME NEW g \in Gens, NEW u \in Upstreams, ReadPanics(g, u)
      PROVE  NoLeakedConnection'
  BY <1>14
     DEF NoLeakedConnection, TypeOK, ManagerInv, mgrVars, readerVars, Gens,
         ReadPanics, At
<1>15. ASSUME NEW g \in Gens, NEW u \in Upstreams, WaitStopped(g, u)
      PROVE  NoLeakedConnection'
  BY <1>15
     DEF NoLeakedConnection, TypeOK, ManagerInv, mgrVars, readerVars, Gens,
         WaitStopped, Goto, At
<1>16. ASSUME NEW g \in Gens, NEW u \in Upstreams, WaitElapsed(g, u)
      PROVE  NoLeakedConnection'
  BY <1>16
     DEF NoLeakedConnection, TypeOK, ManagerInv, mgrVars, readerVars, Gens,
         WaitElapsed, Goto, At
<1>17. ASSUME NEW g \in Gens, NEW u \in Upstreams, ReconnectDial(g, u)
      PROVE  NoLeakedConnection'
  BY <1>17
     DEF NoLeakedConnection, TypeOK, ManagerInv, mgrVars, readerVars, Gens,
         ReconnectDial, Goto, At
<1>18. ASSUME NEW g \in Gens, NEW u \in Upstreams, ReconnectFails(g, u)
      PROVE  NoLeakedConnection'
  BY <1>18
     DEF NoLeakedConnection, TypeOK, ManagerInv, mgrVars, readerVars, Gens,
         ReconnectFails, Goto, At
<1>19. ASSUME NEW g \in Gens, NEW u \in Upstreams, ReconnectInstall(g, u)
      PROVE  NoLeakedConnection'
  BY <1>19
     DEF NoLeakedConnection, TypeOK, ManagerInv, mgrVars, readerVars, Gens,
         ReconnectInstall, Goto, At
<1>20. ASSUME NEW g \in Gens, NEW u \in Upstreams, Cleanup(g, u)
      PROVE  NoLeakedConnection'
  BY <1>20
     DEF NoLeakedConnection, TypeOK, ManagerInv, mgrVars, readerVars, Gens,
         Cleanup, Goto, At
<1>21. ASSUME NEW g \in Gens, NEW u \in Upstreams, DeleteEntry(g, u)
      PROVE  NoLeakedConnection'
  BY <1>21
     DEF NoLeakedConnection, TypeOK, ManagerInv, mgrVars, readerVars, Gens,
         DeleteEntry, Goto, At
<1>22. CASE ConcurrentMapAccess
  BY <1>22
     DEF NoLeakedConnection, TypeOK, ManagerInv, mgrVars, readerVars, Gens,
         ConcurrentMapAccess
<1>23. CASE UNCHANGED vars
  BY <1>23
     DEF NoLeakedConnection, TypeOK, ManagerInv, mgrVars, readerVars, Gens,
         vars
<1>24. QED
  BY <1>1, <1>2, <1>3, <1>4, <1>5, <1>6, <1>7, <1>8, <1>9, <1>10, <1>11,
     <1>12, <1>13, <1>14, <1>15, <1>16, <1>17, <1>18, <1>19, <1>20, <1>21, <1>22, <1>23
     DEF Next, ManagerStep, ReaderStep, PeerStep, Stopped

\* Once closeChan is closed a reader can be in ReadMessage on an open connection
\* only if Close's loop has still to visit it.
LEMMA ReachedKept == TypeOK /\ ManagerInv /\ MapMatchesReaders /\ ReachedInv /\ [Next]_vars => ReachedInv'
<1> SUFFICES ASSUME TypeOK, ManagerInv, MapMatchesReaders, ReachedInv, [Next]_vars PROVE ReachedInv'
  OBVIOUS
<1>1. ASSUME NEW c \in Subscribers, SubscribeExisting(c)
      PROVE  ReachedInv'
  BY <1>1
     DEF ReachedInv, MapMatchesReaders, Running, Stopping, TypeOK, ManagerInv,
         mgrVars, readerVars, Gens, SubscribeExisting
<1>2. ASSUME NEW c \in Subscribers, SubscribeNew(c)
      PROVE  ReachedInv'
  BY <1>2
     DEF ReachedInv, MapMatchesReaders, Running, Stopping, TypeOK, ManagerInv,
         mgrVars, readerVars, Gens, SubscribeNew
<1>3. ASSUME NEW c \in Subscribers, Unsubscribe(c)
      PROVE  ReachedInv'
  BY <1>3
     DEF ReachedInv, MapMatchesReaders, Running, Stopping, TypeOK, ManagerInv,
         mgrVars, readerVars, Gens, Unsubscribe
<1>4. CASE CancelManager
  BY <1>4
     DEF ReachedInv, MapMatchesReaders, Running, Stopping, TypeOK, ManagerInv,
         mgrVars, readerVars, Gens, CancelManager
<1>5. CASE CloseManager
  BY <1>5
     DEF ReachedInv, MapMatchesReaders, Running, Stopping, TypeOK, ManagerInv,
         mgrVars, readerVars, Gens, CloseManager
<1>6. CASE CreateEnd
  BY <1>6
     DEF ReachedInv, MapMatchesReaders, Running, Stopping, TypeOK, ManagerInv,
         mgrVars, readerVars, Gens, CreateEnd
<1>7. CASE CloseEnd
  BY <1>7
     DEF ReachedInv, MapMatchesReaders, Running, Stopping, TypeOK, ManagerInv,
         mgrVars, readerVars, Gens, CloseEnd
<1>8. ASSUME NEW u \in Upstreams, CreateDial(u)
      PROVE  ReachedInv'
  BY <1>8
     DEF ReachedInv, MapMatchesReaders, Running, Stopping, TypeOK, ManagerInv,
         mgrVars, readerVars, Gens, CreateDial
<1>9. ASSUME NEW u \in Upstreams, CreateDialFails(u)
      PROVE  ReachedInv'
  BY <1>9
     DEF ReachedInv, MapMatchesReaders, Running, Stopping, TypeOK, ManagerInv,
         mgrVars, readerVars, Gens, CreateDialFails
<1>10. ASSUME NEW u \in Upstreams, CloseUpstream(u)
      PROVE  ReachedInv'
  BY <1>10
     DEF ReachedInv, MapMatchesReaders, Running, Stopping, TypeOK, ManagerInv,
         mgrVars, readerVars, Gens, CloseUpstream
<1>11. ASSUME NEW g \in Gens, NEW u \in Upstreams, ReaderHead(g, u)
      PROVE  ReachedInv'
  BY <1>11
     DEF ReachedInv, MapMatchesReaders, Running, Stopping, TypeOK, ManagerInv,
         mgrVars, readerVars, Gens, ReaderHead, Goto, At
<1>12. ASSUME NEW g \in Gens, NEW u \in Upstreams, ReadEvent(g, u)
      PROVE  ReachedInv'
  BY <1>12
     DEF ReachedInv, MapMatchesReaders, Running, Stopping, TypeOK, ManagerInv,
         mgrVars, readerVars, Gens, ReadEvent, Goto, At
<1>13. ASSUME NEW g \in Gens, NEW u \in Upstreams, ReadFails(g, u)
      PROVE  ReachedInv'
  <2>1. /\ pc[g][u] = "read" /\ UNCHANGED <<mgrVars, upSubs, count, crash>>
        /\ \/ Goto(g, u, "cleanup") /\ open' = open
           \/ Goto(g, u, "wait") /\ open' = [open EXCEPT ![g][u] = FALSE]
    BY <1>13, ReadFailsEffect
  <2>2. CASE Goto(g, u, "cleanup") /\ open' = open
    BY <2>1, <2>2
       DEF ReachedInv, MapMatchesReaders, Running, Stopping, TypeOK, mgrVars,
           Gens, Goto
  <2>3. CASE Goto(g, u, "wait") /\ open' = [open EXCEPT ![g][u] = FALSE]
    BY <2>1, <2>3
       DEF ReachedInv, MapMatchesReaders, Running, Stopping, TypeOK, mgrVars,
           Gens, Goto
  <2>4. QED
    BY <2>1, <2>2, <2>3
<1>14. ASSUME NEW g \in Gens, NEW u \in Upstreams, ReadPanics(g, u)
      PROVE  ReachedInv'
  BY <1>14
     DEF ReachedInv, MapMatchesReaders, Running, Stopping, TypeOK, ManagerInv,
         mgrVars, readerVars, Gens, ReadPanics, At
<1>15. ASSUME NEW g \in Gens, NEW u \in Upstreams, WaitStopped(g, u)
      PROVE  ReachedInv'
  BY <1>15
     DEF ReachedInv, MapMatchesReaders, Running, Stopping, TypeOK, ManagerInv,
         mgrVars, readerVars, Gens, WaitStopped, Goto, At
<1>16. ASSUME NEW g \in Gens, NEW u \in Upstreams, WaitElapsed(g, u)
      PROVE  ReachedInv'
  BY <1>16
     DEF ReachedInv, MapMatchesReaders, Running, Stopping, TypeOK, ManagerInv,
         mgrVars, readerVars, Gens, WaitElapsed, Goto, At
<1>17. ASSUME NEW g \in Gens, NEW u \in Upstreams, ReconnectDial(g, u)
      PROVE  ReachedInv'
  BY <1>17
     DEF ReachedInv, MapMatchesReaders, Running, Stopping, TypeOK, ManagerInv,
         mgrVars, readerVars, Gens, ReconnectDial, Goto, At
<1>18. ASSUME NEW g \in Gens, NEW u \in Upstreams, ReconnectFails(g, u)
      PROVE  ReachedInv'
  BY <1>18
     DEF ReachedInv, MapMatchesReaders, Running, Stopping, TypeOK, ManagerInv,
         mgrVars, readerVars, Gens, ReconnectFails, Goto, At
<1>19. ASSUME NEW g \in Gens, NEW u \in Upstreams, ReconnectInstall(g, u)
      PROVE  ReachedInv'
  BY <1>19
     DEF ReachedInv, MapMatchesReaders, Running, Stopping, TypeOK, ManagerInv,
         mgrVars, readerVars, Gens, ReconnectInstall, Goto, At
<1>20. ASSUME NEW g \in Gens, NEW u \in Upstreams, Cleanup(g, u)
      PROVE  ReachedInv'
  BY <1>20
     DEF ReachedInv, MapMatchesReaders, Running, Stopping, TypeOK, ManagerInv,
         mgrVars, readerVars, Gens, Cleanup, Goto, At
<1>21. ASSUME NEW g \in Gens, NEW u \in Upstreams, DeleteEntry(g, u)
      PROVE  ReachedInv'
  BY <1>21
     DEF ReachedInv, MapMatchesReaders, Running, Stopping, TypeOK, ManagerInv,
         mgrVars, readerVars, Gens, DeleteEntry, Goto, At
<1>22. CASE ConcurrentMapAccess
  BY <1>22
     DEF ReachedInv, MapMatchesReaders, Running, Stopping, TypeOK, ManagerInv,
         mgrVars, readerVars, Gens, ConcurrentMapAccess
<1>23. CASE UNCHANGED vars
  BY <1>23
     DEF ReachedInv, MapMatchesReaders, Running, Stopping, TypeOK, ManagerInv,
         mgrVars, readerVars, Gens, vars
<1>24. QED
  BY <1>1, <1>2, <1>3, <1>4, <1>5, <1>6, <1>7, <1>8, <1>9, <1>10, <1>11,
     <1>12, <1>13, <1>14, <1>15, <1>16, <1>17, <1>18, <1>19, <1>20, <1>21, <1>22, <1>23
     DEF Next, ManagerStep, ReaderStep, PeerStep, Stopped

\* IndInv is inductive.
LEMMA InvStep == IndInv /\ [Next]_vars => IndInv'
BY TypeStep, ManagerKept, RegisteredKept, MapKept, FeedKept, ConnKept, ReachedKept
   DEF IndInv

\* The inductive invariant holds throughout.
LEMMA Invariance == Spec => []IndInv
BY InvInit, InvStep, PTL DEF Spec

\* Subscribe never joins an object whose Close has begun.
THEOREM RegisteredIsLiveHolds == Spec => []RegisteredIsLive
<1>1. IndInv => RegisteredIsLive
  BY DEF IndInv
<1>2. QED
  BY <1>1, Invariance, PTL

\* At most one object per key has readers that keep going.
THEOREM OneLiveFeedHolds == Spec => []OneLiveFeed
<1>1. IndInv => OneLiveFeed
  BY DEF IndInv
<1>2. QED
  BY <1>1, Invariance, PTL

\* No reader abandons an open connection.
THEOREM NoLeakedConnectionHolds == Spec => []NoLeakedConnection
<1>1. IndInv => NoLeakedConnection
  BY DEF IndInv
<1>2. QED
  BY <1>1, Invariance, PTL

\* s.upstreamSubs names exactly the running readers.
THEOREM MapMatchesReadersHolds == Spec => []MapMatchesReaders
<1>1. IndInv => MapMatchesReaders
  BY DEF IndInv
<1>2. QED
  BY <1>1, Invariance, PTL

\* Close leaves no reader of its object blocked on an open connection.
THEOREM CloseReachesReadersHolds == Spec => []CloseReachesReaders
<1>1. IndInv => CloseReachesReaders
  BY DEF IndInv, ReachedInv, CloseReachesReaders
<1>2. QED
  BY <1>1, Invariance, PTL

ClosedStays ==
    \A g \in Gens : closed[g] =>
        /\ closed'[g] /\ subs'[g] \subseteq subs[g]
        /\ \A u \in Upstreams : Running(g, u)' => Running(g, u)

\* Objects gain subscribers while registered, and readers while created: by
\* RegisteredIsLive and ManagerInv both are open then.
LEMMA ClosedStep == IndInv /\ [Next]_vars => ClosedStays
<1> SUFFICES ASSUME IndInv, [Next]_vars PROVE ClosedStays
  OBVIOUS
<1>1. ASSUME NEW c \in Subscribers, SubscribeExisting(c)
      PROVE  ClosedStays
  BY <1>1
     DEF ClosedStays, IndInv, RegisteredIsLive, Running, TypeOK, ManagerInv,
         mgrVars, readerVars, Gens, SubscribeExisting
<1>2. ASSUME NEW c \in Subscribers, SubscribeNew(c)
      PROVE  ClosedStays
  BY <1>2
     DEF ClosedStays, IndInv, RegisteredIsLive, Running, TypeOK, ManagerInv,
         mgrVars, readerVars, Gens, SubscribeNew
<1>3. ASSUME NEW c \in Subscribers, Unsubscribe(c)
      PROVE  ClosedStays
  BY <1>3
     DEF ClosedStays, IndInv, RegisteredIsLive, Running, TypeOK, ManagerInv,
         mgrVars, readerVars, Gens, Unsubscribe
<1>4. CASE CancelManager
  BY <1>4
     DEF ClosedStays, IndInv, RegisteredIsLive, Running, TypeOK, ManagerInv,
         mgrVars, readerVars, Gens, CancelManager
<1>5. CASE CloseManager
  BY <1>5
     DEF ClosedStays, IndInv, RegisteredIsLive, Running, TypeOK, ManagerInv,
         mgrVars, readerVars, Gens, CloseManager
<1>6. CASE CreateEnd
  <2>1. CASE upSubs[gen] = {}
    BY <1>6, <2>1 DEF ClosedStays, CreateEnd, readerVars, Running
  <2>2. CASE upSubs[gen] # {}
    <3>1. gen \in Gens /\ ~closed[gen]
      BY <1>6 DEF IndInv, TypeOK, ManagerInv, CreateEnd, Gens
    <3>2. subs' = [subs EXCEPT ![gen] = {caller}] /\ closed' = closed /\ pc' = pc
      BY <1>6, <2>2 DEF CreateEnd, readerVars
    <3>3. QED
      BY <3>1, <3>2 DEF ClosedStays, IndInv, TypeOK, Running
  <2>3. QED
    BY <2>1, <2>2
<1>7. CASE CloseEnd
  BY <1>7
     DEF ClosedStays, IndInv, RegisteredIsLive, Running, TypeOK, ManagerInv,
         mgrVars, readerVars, Gens, CloseEnd
<1>8. ASSUME NEW u \in Upstreams, CreateDial(u)
      PROVE  ClosedStays
  BY <1>8
     DEF ClosedStays, IndInv, RegisteredIsLive, Running, TypeOK, ManagerInv,
         mgrVars, readerVars, Gens, CreateDial
<1>9. ASSUME NEW u \in Upstreams, CreateDialFails(u)
      PROVE  ClosedStays
  BY <1>9
     DEF ClosedStays, IndInv, RegisteredIsLive, Running, TypeOK, ManagerInv,
         mgrVars, readerVars, Gens, CreateDialFails
<1>10. ASSUME NEW u \in Upstreams, CloseUpstream(u)
      PROVE  ClosedStays
  BY <1>10
     DEF ClosedStays, IndInv, RegisteredIsLive, Running, TypeOK, ManagerInv,
         mgrVars, readerVars, Gens, CloseUpstream
<1>11. ASSUME NEW g \in Gens, NEW u \in Upstreams, ReaderHead(g, u)
      PROVE  ClosedStays
  BY <1>11
     DEF ClosedStays, IndInv, RegisteredIsLive, Running, TypeOK, ManagerInv,
         mgrVars, readerVars, Gens, ReaderHead, Goto, At
<1>12. ASSUME NEW g \in Gens, NEW u \in Upstreams, ReadEvent(g, u)
      PROVE  ClosedStays
  BY <1>12
     DEF ClosedStays, IndInv, RegisteredIsLive, Running, TypeOK, ManagerInv,
         mgrVars, readerVars, Gens, ReadEvent, Goto, At
<1>13. ASSUME NEW g \in Gens, NEW u \in Upstreams, ReadFails(g, u)
      PROVE  ClosedStays
  <2>1. /\ pc[g][u] = "read" /\ UNCHANGED <<mgrVars, upSubs, count, crash>>
        /\ \/ Goto(g, u, "cleanup") /\ open' = open
           \/ Goto(g, u, "wait") /\ open' = [open EXCEPT ![g][u] = FALSE]
    BY <1>13, ReadFailsEffect
  <2>2. CASE Goto(g, u, "cleanup") /\ open' = open
    BY <2>1, <2>2 DEF ClosedStays, IndInv, Running, TypeOK, mgrVars, Gens, Goto
  <2>3. CASE Goto(g, u, "wait") /\ open' = [open EXCEPT ![g][u] = FALSE]
    BY <2>1, <2>3 DEF ClosedStays, IndInv, Running, TypeOK, mgrVars, Gens, Goto
  <2>4. QED
    BY <2>1, <2>2, <2>3
<1>14. ASSUME NEW g \in Gens, NEW u \in Upstreams, ReadPanics(g, u)
      PROVE  ClosedStays
  BY <1>14
     DEF ClosedStays, IndInv, RegisteredIsLive, Running, TypeOK, ManagerInv,
         mgrVars, readerVars, Gens, ReadPanics, At
<1>15. ASSUME NEW g \in Gens, NEW u \in Upstreams, WaitStopped(g, u)
      PROVE  ClosedStays
  BY <1>15
     DEF ClosedStays, IndInv, RegisteredIsLive, Running, TypeOK, ManagerInv,
         mgrVars, readerVars, Gens, WaitStopped, Goto, At
<1>16. ASSUME NEW g \in Gens, NEW u \in Upstreams, WaitElapsed(g, u)
      PROVE  ClosedStays
  BY <1>16
     DEF ClosedStays, IndInv, RegisteredIsLive, Running, TypeOK, ManagerInv,
         mgrVars, readerVars, Gens, WaitElapsed, Goto, At
<1>17. ASSUME NEW g \in Gens, NEW u \in Upstreams, ReconnectDial(g, u)
      PROVE  ClosedStays
  BY <1>17
     DEF ClosedStays, IndInv, RegisteredIsLive, Running, TypeOK, ManagerInv,
         mgrVars, readerVars, Gens, ReconnectDial, Goto, At
<1>18. ASSUME NEW g \in Gens, NEW u \in Upstreams, ReconnectFails(g, u)
      PROVE  ClosedStays
  BY <1>18
     DEF ClosedStays, IndInv, RegisteredIsLive, Running, TypeOK, ManagerInv,
         mgrVars, readerVars, Gens, ReconnectFails, Goto, At
<1>19. ASSUME NEW g \in Gens, NEW u \in Upstreams, ReconnectInstall(g, u)
      PROVE  ClosedStays
  BY <1>19
     DEF ClosedStays, IndInv, RegisteredIsLive, Running, TypeOK, ManagerInv,
         mgrVars, readerVars, Gens, ReconnectInstall, Goto, At
<1>20. ASSUME NEW g \in Gens, NEW u \in Upstreams, Cleanup(g, u)
      PROVE  ClosedStays
  BY <1>20
     DEF ClosedStays, IndInv, RegisteredIsLive, Running, TypeOK, ManagerInv,
         mgrVars, readerVars, Gens, Cleanup, Goto, At
<1>21. ASSUME NEW g \in Gens, NEW u \in Upstreams, DeleteEntry(g, u)
      PROVE  ClosedStays
  BY <1>21
     DEF ClosedStays, IndInv, RegisteredIsLive, Running, TypeOK, ManagerInv,
         mgrVars, readerVars, Gens, DeleteEntry, Goto, At
<1>22. CASE ConcurrentMapAccess
  BY <1>22
     DEF ClosedStays, IndInv, RegisteredIsLive, Running, TypeOK, ManagerInv,
         mgrVars, readerVars, Gens, ConcurrentMapAccess
<1>23. CASE UNCHANGED vars
  BY <1>23
     DEF ClosedStays, IndInv, RegisteredIsLive, Running, TypeOK, ManagerInv,
         mgrVars, readerVars, Gens, vars
<1>24. QED
  BY <1>1, <1>2, <1>3, <1>4, <1>5, <1>6, <1>7, <1>8, <1>9, <1>10, <1>11,
     <1>12, <1>13, <1>14, <1>15, <1>16, <1>17, <1>18, <1>19, <1>20, <1>21, <1>22, <1>23
     DEF Next, ManagerStep, ReaderStep, PeerStep, Stopped

\* A closed object stays closed and gets no subscriber and no reader.
THEOREM ClosedIsFinalHolds == Spec => ClosedIsFinal
<1>1. IndInv /\ [Next]_vars => [ClosedStays]_vars
  BY ClosedStep
<1>2. Spec => [][ClosedStays]_vars
  BY <1>1, Invariance, PTL DEF Spec
<1>3. QED
  BY <1>2 DEF ClosedIsFinal, ClosedStays

=============================================================================
