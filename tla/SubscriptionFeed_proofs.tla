----------------------- MODULE SubscriptionFeed_proofs -----------------------
(***************************************************************************)
(* The shared subscription manager implements SubscriptionFeed, for every  *)
(* set of subscribers and upstreams and every bound: each step of the      *)
(* manager and of a reader is a step of the feed or leaves it alone.       *)
(* The steps of the feed are taken under m.mu, but for Drain, which the    *)
(* last reader of a retired object takes when it returns.                  *)
(***************************************************************************)
EXTENDS SharedSubscription_proofs

FeedStep == Feed!Next \/ UNCHANGED Feed!vars

\* What has never been opened, or is open now, is not draining; what drains was
\* closed before.
LEMMA NothingAhead ==
  ASSUME IndInv, NEW g \in Gens, g > gen, NEW u \in Upstreams
  PROVE  ~Running(g, u)
BY DEF IndInv, TypeOK, ManagerInv, OneLiveFeed, Gens

\* The feed sees of the readers only which of them have not returned.
LEMMA Unseen ==
  ASSUME UNCHANGED mgrVars,
         \A g \in Gens, u \in Upstreams : Running(g, u)' = Running(g, u)
  PROVE  UNCHANGED Feed!vars
<1>1. phaseBar' = phaseBar /\ membersBar' = membersBar
  BY DEF phaseBar, membersBar, mgrVars
<1>2. drainingBar' = drainingBar
  BY DEF drainingBar, Opening, mgrVars
<1>3. QED
  BY <1>1, <1>2 DEF Feed!vars, mgrVars

\* A reader that goes from one place to another without returning.
LEMMA StillRunning ==
  ASSUME TypeOK, NEW g \in Gens, NEW u \in Upstreams, NEW where,
         Goto(g, u, where), where \notin {"none", "done"}, Running(g, u)
  PROVE  \A h \in Gens, v \in Upstreams : Running(h, v)' = Running(h, v)
BY DEF TypeOK, Goto, Running, Gens

\* Every step of a reader but its return goes unseen.
LEMMA ReaderUnseen ==
  ASSUME TypeOK, NEW g \in Gens, NEW u \in Upstreams,
         \/ ReaderHead(g, u) \/ ReadEvent(g, u) \/ ReadFails(g, u)
         \/ ReadPanics(g, u) \/ WaitStopped(g, u) \/ WaitElapsed(g, u)
         \/ ReconnectDial(g, u) \/ ReconnectFails(g, u) \/ ReconnectInstall(g, u)
         \/ Cleanup(g, u)
  PROVE  UNCHANGED Feed!vars
<1>1. CASE ReadPanics(g, u)
  BY <1>1, Unseen DEF ReadPanics, readerVars, Running
<1>2. CASE ReadFails(g, u)
  BY <1>2, ReadFailsEffect, StillRunning, Unseen DEF Running
<1>3. ASSUME NEW from, NEW where,
             At(g, u, from), from \notin {"none", "done"},
             Goto(g, u, where), where \notin {"none", "done"}, UNCHANGED mgrVars
      PROVE  UNCHANGED Feed!vars
  BY <1>3, StillRunning, Unseen DEF At, Running
<1>4. CASE ReaderHead(g, u)
  BY <1>3, <1>4 DEF ReaderHead
<1>5. CASE ReadEvent(g, u)
  BY <1>3, <1>5 DEF ReadEvent
<1>6. CASE WaitStopped(g, u)
  BY <1>3, <1>6 DEF WaitStopped
<1>7. CASE WaitElapsed(g, u)
  BY <1>3, <1>7 DEF WaitElapsed
<1>8. CASE ReconnectDial(g, u)
  BY <1>3, <1>8 DEF ReconnectDial
<1>9. CASE ReconnectFails(g, u)
  BY <1>3, <1>9 DEF ReconnectFails
<1>10. CASE ReconnectInstall(g, u)
  BY <1>3, <1>10 DEF ReconnectInstall
<1>11. CASE Cleanup(g, u)
  BY <1>3, <1>11 DEF Cleanup
<1>12. QED
  BY <1>1, <1>2, <1>4, <1>5, <1>6, <1>7, <1>8, <1>9, <1>10, <1>11

\* A reader returns: the last one of a retired object ends its draining.
LEMMA ReturnDrains ==
  ASSUME IndInv, NEW g \in Gens, NEW u \in Upstreams, DeleteEntry(g, u)
  PROVE  FeedStep
<1> USE DEF IndInv, TypeOK
<1>1. pc[g][u] = "delete" /\ Running(g, u) /\ UNCHANGED mgrVars
  BY DEF DeleteEntry, At, Running
<1>2. ~Running(g, u)'
  BY DEF DeleteEntry, Goto, Running
<1>3. \A h \in Gens, v \in Upstreams :
          <<h, v>> # <<g, u>> => Running(h, v)' = Running(h, v)
  BY DEF DeleteEntry, Goto, Running
<1>4. phaseBar' = phaseBar /\ membersBar' = membersBar
  BY <1>1 DEF phaseBar, membersBar, mgrVars
<1>5. CASE g \in drainingBar /\ ~\E v \in Upstreams : Running(g, v)'
  <2>1. drainingBar' = drainingBar \ {g}
    BY <1>1, <1>3, <1>5 DEF drainingBar, Opening, mgrVars
  <2>2. Feed!Drain(g)
    BY <1>1, <1>4, <1>5, <2>1 DEF Feed!Drain, mgrVars
  <2>3. QED
    BY <1>5, <2>2 DEF FeedStep, Feed!Next
<1>6. CASE g \notin drainingBar \/ \E v \in Upstreams : Running(g, v)'
  <2>1. drainingBar' = drainingBar
    <3>1. \A h \in Gens : h # g => (h \in drainingBar' <=> h \in drainingBar)
      BY <1>1, <1>3 DEF drainingBar, Opening, mgrVars
    <3>2. g \in drainingBar' <=> g \in drainingBar
      BY <1>1, <1>6 DEF drainingBar, Opening, mgrVars
    <3>3. QED
      BY <3>1, <3>2 DEF drainingBar
  <2>2. QED
    BY <1>1, <1>4, <2>1 DEF FeedStep, Feed!vars, mgrVars
<1>7. QED
  BY <1>5, <1>6

\* The manager's steps.  What they do to the feed is what they do under m.mu:
\* dialling goes unseen, and a failed create leaves no reader behind.
LEMMA ManagerFeeds ==
  ASSUME IndInv,
         \/ \E c \in Subscribers :
               SubscribeExisting(c) \/ SubscribeNew(c) \/ Unsubscribe(c)
         \/ CancelManager \/ CloseManager \/ ManagerStep
  PROVE  FeedStep
<1> USE DEF IndInv, TypeOK, ManagerInv, Feed!vars
<1> USE DEF FeedStep, Feed!Next
<1>1. ASSUME NEW c \in Subscribers, SubscribeExisting(c) PROVE Feed!Join(c)
  BY <1>1
     DEF SubscribeExisting, Feed!Join, phaseBar, membersBar, drainingBar, Opening,
         Running, readerVars, Gens
<1>2. ASSUME NEW c \in Subscribers, SubscribeNew(c) PROVE Feed!Open(c)
  <2>1. phaseBar = "off" /\ phaseBar' = "opening" /\ membersBar' = membersBar
    BY <1>2 DEF SubscribeNew, phaseBar, membersBar
  <2>2. drainingBar' = drainingBar
    <3>1. \A g \in Gens, u \in Upstreams : Running(g, u)' = Running(g, u)
      BY <1>2 DEF SubscribeNew, Running, readerVars
    <3>2. gen + 1 \in Gens /\ gen + 1 > gen
      BY <1>2, GenAssumption DEF SubscribeNew, Gens
    <3>3. \A u \in Upstreams : ~Running(gen + 1, u)
      BY <3>2, NothingAhead
    <3>4. QED
      BY <1>2, <3>1, <3>3 DEF SubscribeNew, drainingBar, Opening
  <2>3. QED
    BY <1>2, <2>1, <2>2 DEF SubscribeNew, Feed!Open
<1>3. ASSUME NEW c \in Subscribers, Unsubscribe(c) PROVE Feed!Leave(c)
  <2>1. drainingBar' = drainingBar
    BY <1>3 DEF Unsubscribe, drainingBar, Opening, Running, readerVars
  <2>2. phaseBar = "on" /\ membersBar' = membersBar \ {c}
    BY <1>3 DEF Unsubscribe, phaseBar, membersBar, Gens
  <2>3. phaseBar' = IF membersBar' = {} THEN "closing" ELSE "on"
    BY <1>3 DEF Unsubscribe, phaseBar, membersBar
  <2>4. QED
    BY <1>3, <2>1, <2>2, <2>3 DEF Unsubscribe, Feed!Leave
<1>4. CASE CancelManager
  BY <1>4
     DEF CancelManager, phaseBar, membersBar, drainingBar, Opening, Running, readerVars
<1>5. CASE CloseManager
  <2>1. membersBar' = membersBar /\ drainingBar' = drainingBar
    BY <1>5
       DEF CloseManager, membersBar, drainingBar, Opening, Running, readerVars
  <2>2. CASE cur = 0
    BY <1>5, <2>1, <2>2 DEF CloseManager, phaseBar
  <2>3. CASE cur # 0
    BY <1>5, <2>1, <2>3 DEF CloseManager, phaseBar, Feed!ShutDown
  <2>4. QED
    BY <2>2, <2>3
<1>6. CASE CreateEnd
  <2>1. gen \in Gens /\ cur = 0 /\ phaseBar = "opening"
    BY <1>6 DEF CreateEnd, phaseBar, Gens
  <2>2. \A g \in Gens, u \in Upstreams : Running(g, u)' = Running(g, u)
    BY <1>6 DEF CreateEnd, readerVars, Running
  <2>3. CASE upSubs[gen] = {}
    <3>1. \A u \in Upstreams : ~Running(gen, u)
      BY <2>1, <2>3 DEF MapMatchesReaders
    <3>2. drainingBar' = drainingBar
      BY <1>6, <2>1, <2>2, <2>3, <3>1 DEF CreateEnd, drainingBar, Opening
    <3>3. phaseBar' = "off" /\ membersBar' = membersBar
      BY <1>6, <2>1, <2>3 DEF CreateEnd, phaseBar, membersBar
    <3>4. QED
      BY <1>6, <2>1, <3>2, <3>3 DEF CreateEnd, Feed!OpenFails
  <2>4. CASE upSubs[gen] # {}
    <3>1. cur' = gen /\ gen' = gen /\ gen # 0 /\ mu' = "free"
      BY <1>6, <2>4 DEF CreateEnd
    <3>2. subs' = [subs EXCEPT ![gen] = {caller}]
      BY <1>6, <2>4 DEF CreateEnd
    <3>3. phaseBar' = "on" /\ membersBar' = {caller}
      BY <2>1, <3>1, <3>2 DEF phaseBar, membersBar
    <3>4. \A g \in Gens : g # 0
      BY DEF Gens
    <3>5. drainingBar' = drainingBar
      <4>1. \A g \in Gens : g # cur' /\ ~Opening(g)' <=> g # cur /\ ~Opening(g)
        BY <1>6, <2>1, <3>1, <3>4 DEF CreateEnd, Opening
      <4>2. QED
        BY <2>2, <4>1 DEF drainingBar
    <3>6. QED
      BY <1>6, <2>1, <3>3, <3>5 DEF CreateEnd, Feed!Opened
  <2>5. QED
    BY <2>3, <2>4
<1>7. CASE CloseEnd
  <2>1. phaseBar = "closing" /\ cur = gen /\ cur \in Gens
    BY <1>7 DEF CloseEnd, phaseBar, Gens
  <2>2. phaseBar' = "off" /\ membersBar' = {}
    BY <1>7 DEF CloseEnd, phaseBar, membersBar
  <2>3. drainingBar' \in {drainingBar, drainingBar \cup {gen}}
    <3>1. \A g \in Gens : g # gen => (g \in drainingBar' <=> g \in drainingBar)
      <4>1. \A g \in Gens : g # gen => (g # cur' /\ ~Opening(g)' <=> g # cur /\ ~Opening(g))
        BY <1>7, <2>1 DEF CloseEnd, Opening, Gens
      <4>2. \A g \in Gens, u \in Upstreams : Running(g, u)' = Running(g, u)
        BY <1>7 DEF CloseEnd, Running, readerVars
      <4>3. QED
        BY <4>1, <4>2 DEF drainingBar
    <3>2. gen \notin drainingBar
      BY <2>1 DEF drainingBar
    <3>3. drainingBar' = drainingBar \/ drainingBar' = drainingBar \cup {gen}
      BY <2>1, <3>1, <3>2 DEF drainingBar
    <3>4. QED
      BY <3>3
  <2>4. QED
    BY <1>7, <2>1, <2>2, <2>3 DEF CloseEnd, Feed!Retire
<1>8. ASSUME NEW u \in Upstreams, CreateDial(u)
      PROVE  UNCHANGED Feed!vars
  <2>1. gen \in Gens /\ mu' = mu /\ gen' = gen /\ cur' = cur /\ mu = "create"
    BY <1>8 DEF CreateDial, Gens
  <2>2. \A g \in Gens, v \in Upstreams : g # gen => Running(g, v)' = Running(g, v)
    BY <1>8 DEF CreateDial, Running
  <2>3. drainingBar' = drainingBar
    BY <2>1, <2>2 DEF drainingBar, Opening
  <2>4. phaseBar' = phaseBar /\ membersBar' = membersBar
    BY <1>8 DEF CreateDial, phaseBar, membersBar
  <2>5. QED
    BY <1>8, <2>3, <2>4 DEF CreateDial
<1>9. ASSUME NEW u \in Upstreams, CreateDialFails(u)
      PROVE  UNCHANGED Feed!vars
  BY <1>9
     DEF CreateDialFails, phaseBar, membersBar, drainingBar, Opening, Running, readerVars
<1>10. ASSUME NEW u \in Upstreams, CloseUpstream(u)
      PROVE  UNCHANGED Feed!vars
  BY <1>10
     DEF CloseUpstream, phaseBar, membersBar, drainingBar, Opening, Running
<1>11. QED
  BY <1>1, <1>2, <1>3, <1>4, <1>5, <1>6, <1>7, <1>8, <1>9, <1>10 DEF ManagerStep

\* Every step of the program is a step of the feed or leaves it alone.
LEMMA FeedSimulated == IndInv /\ [Next]_vars => [Feed!Next]_(Feed!vars)
<1> SUFFICES ASSUME IndInv, [Next]_vars PROVE FeedStep
  BY DEF FeedStep
<1>1. ASSUME NEW g \in Gens, NEW u \in Upstreams, ReaderStep(g, u) \/ PeerStep(g, u)
      PROVE  FeedStep
  BY <1>1, ReturnDrains, ReaderUnseen DEF ReaderStep, PeerStep, FeedStep, IndInv
<1>2. CASE ConcurrentMapAccess
  BY <1>2, Unseen DEF ConcurrentMapAccess, readerVars, Running, FeedStep
<1>3. CASE UNCHANGED vars
  BY <1>3, Unseen DEF vars, readerVars, Running, FeedStep
<1>4. QED
  BY <1>1, <1>2, <1>3, ManagerFeeds DEF Next, Stopped

\* The manager keeps SubscriptionFeed's promise: at most one feed, opened for
\* its first member, nobody joining or leaving while it opens or closes, and a
\* retired feed that only drains.
THEOREM FeedImplemented == Spec => ImplementsFeed
<1>1. Init => Feed!Init
  BY DEF Init, Feed!Init, phaseBar, membersBar, drainingBar, Running
<1>2. QED
  BY <1>1, FeedSimulated, Invariance, PTL DEF Spec, ImplementsFeed, Feed!Spec

=============================================================================
