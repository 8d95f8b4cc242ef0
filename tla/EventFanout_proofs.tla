------------------------- MODULE EventFanout_proofs -------------------------
(***************************************************************************)
(* The safety properties of EventFanout, for any upstreams, any clients,   *)
(* any history of events and any sizes of the cache and the channels.      *)
(*                                                                         *)
(* An event is in the hands of one reader from Receive to BroadcastEnd.    *)
(* ReaderInv says what the reader knows at each step; CacheInv relates the *)
(* LRU cache to the events that were found new.  The gate's second         *)
(* question is put to one main after the other: LapseIsNoted and           *)
(* AskedAreNoted say that each was unhealthy when it was passed over.      *)
(***************************************************************************)
EXTENDS EventFanout, FiniteSetTheorems, SequenceTheorems, FiniteNumbers, TLAPS

\* The reader is in a loop over the mains, in the gate, in some client's OnEvent.
InLoop == {"gateBlock", "gateLoad", "gateHealthy"}
InGate == InLoop \cup {"tick"}
InCall == InGate \cup {"send"}

\* The locals of the reader, by where it is.
ReaderInv(u) ==
    /\ pc[u] # "read" => ev[u] \in Events
    /\ pc[u] \in {"read", "contains", "add", "snapshot"} => targets[u] = {}
    /\ IF pc[u] \in InCall THEN cur[u] \in Clients ELSE cur[u] = NoClient
    /\ pc[u] \in {"read", "contains", "add"} => ~dup[u]
    /\ pc[u] = "add" => Key[ev[u]] # 0
    /\ pc[u] \in InGate => u \in Fallbacks /\ Number[ev[u]] # 0
    /\ IF pc[u] \in InLoop THEN look[u] \in 1..Len(MainOrder) + 1 ELSE look[u] = 0
    /\ pc[u] = "gateLoad" => look[u] <= Len(MainOrder)

\* An event that was found new has the key.
KeySeen(k) == k # 0 /\ \E b \in fresh : Key[b] = k

\* The cache holds keys of events found new, and what is suppressed has one.
CacheInv == \A k \in Range(dedup) : KeySeen(k)
SuppressedKeyWasSeen == \A u \in Upstreams : dup[u] => KeySeen(Key[ev[u]])

\* Nothing is owed to a client that is not yet subscribed.
OutsiderOwedNothing == \A c \in Clients : state[c] = "out" => owed[c] = {}

\* A fallback's call: what is unhealthy meanwhile is noted (LapseIsNoted), and so
\* are the mains that HasHealthyMain has passed over (AskedAreNoted); GateHolds for f.
LapseIsNoted(f)  == pc[f] \in InCall => Unhealthy \subseteq lapse[f]
AskedAreNoted(f) ==
    pc[f] = "gateHealthy" =>
        \A i \in 1..Len(MainOrder) : i < look[f] => MainOrder[i] \in lapse[f]
GateHoldsFor(f)  ==
    pc[f] = "send" => lapse[f] = Mains \/ \E m \in Mains : known[m] >= Number[ev[f]]

GateInv(f) == LapseIsNoted(f) /\ AskedAreNoted(f) /\ GateHoldsFor(f)

IndInv ==
    /\ TypeOK /\ CacheInv /\ SuppressedKeyWasSeen /\ OutsiderOwedNothing
    /\ SeenIsDelivered
    /\ \A u \in Upstreams : ReaderInv(u)
    /\ \A f \in Fallbacks : GateInv(f)
-----------------------------------------------------------------------------
(* The operators of the model.                                             *)

\* Max is the maximum.
LEMMA MaxProperty ==
    ASSUME NEW S \in SUBSET Nat, IsFiniteSet(S), S # {}
    PROVE  Max(S) \in S /\ \A y \in S : Max(S) >= y
  BY HasMaximum DEF Max

\* The smaller of two numbers.
LEMMA MinOfTwo ==
    ASSUME NEW m \in Nat, NEW n \in Nat
    PROVE  Min({m, n}) \in {m, n} /\ Min({m, n}) <= m /\ Min({m, n}) <= n
<1>1. CASE m <= n
  <2>1. m \in {m, n} /\ \A y \in {m, n} : m <= y
    BY <1>1
  <2> QED
    BY <2>1 DEF Min
<1>2. CASE n <= m
  <2>1. n \in {m, n} /\ \A y \in {m, n} : n <= y
    BY <1>2
  <2> QED
    BY <2>1 DEF Min
<1> QED
  BY <1>1, <1>2

\* A sequence has finitely many elements.
LEMMA RangeIsFinite ==
    ASSUME NEW f \in Seq(Nat)
    PROVE  IsFiniteSet(Range(f)) /\ Range(f) \subseteq Nat
<1>1. f \in [1..Len(f) -> Nat] /\ Len(f) \in Nat
  OBVIOUS
<1>2. f \in Surjection(1..Len(f), Range(f))
  BY <1>1 DEF Surjection, Range
<1>3. IsFiniteSet(1..Len(f))
  BY <1>1, FS_Interval
<1> QED
  BY <1>1, <1>2, <1>3, FS_Surjection DEF Range

\* lru.Cache.Add keeps the size, and brings in no key but the one added.
LEMMA AfterAddProperty ==
    ASSUME NEW K, dedup \in Seq(K), Len(dedup) <= DedupSize, NEW k \in K
    PROVE  /\ AfterAdd(k) \in Seq(K) /\ Len(AfterAdd(k)) <= DedupSize
           /\ Range(AfterAdd(k)) \subseteq Range(dedup) \cup {k}
<1> DEFINE R == Range(dedup) \cup {k}
<1>0. /\ Len(dedup) \in Nat /\ dedup \in Seq(R)
      /\ R \subseteq K /\ <<k>> \in Seq(R) /\ Len(<<k>>) = 1
      /\ \A j \in 1..Len(dedup) : dedup[j] \in R
  <2>1. dedup \in [1..Len(dedup) -> K] /\ Len(dedup) \in Nat
    OBVIOUS
  <2>2. dedup \in Seq(R)
    BY <2>1 DEF Range
  <2> QED
    BY <2>1, <2>2 DEF Range
<1>1. AfterAdd(k) \in Seq(R) /\ Len(AfterAdd(k)) <= DedupSize
  <2>1. CASE k \in Range(dedup)
    <3>1. PICK i \in 1..Len(dedup) :
            AfterAdd(k) = <<k>> \o SubSeq(dedup, 1, i - 1) \o SubSeq(dedup, i + 1, Len(dedup))
      <4>1. \E j \in 1..Len(dedup) : dedup[j] = k
        BY <2>1, <1>0 DEF Range
      <4> QED
        BY <2>1, <4>1 DEF AfterAdd
    <3>2. /\ SubSeq(dedup, 1, i - 1) \in Seq(R)
          /\ Len(SubSeq(dedup, 1, i - 1)) = i - 1
      BY <1>0, SubSeqProperties
    <3>3. /\ SubSeq(dedup, i + 1, Len(dedup)) \in Seq(R)
          /\ Len(SubSeq(dedup, i + 1, Len(dedup))) = Len(dedup) - i
      <4>1. Len(dedup) \in Nat /\ i + 1 \in Int /\ \A j \in i + 1..Len(dedup) : dedup[j] \in R
        BY <1>0
      <4>2. SubSeq(dedup, i + 1, Len(dedup)) \in Seq(R)
        BY <4>1, SubSeqProperties
      <4>3. Len(SubSeq(dedup, i + 1, Len(dedup)))
              = IF i + 1 <= Len(dedup) THEN Len(dedup) - (i + 1) + 1 ELSE 0
        BY <4>1, SubSeqProperties
      <4> QED
        BY <4>1, <4>2, <4>3
    <3> DEFINE first == SubSeq(dedup, 1, i - 1)
               after == SubSeq(dedup, i + 1, Len(dedup))
    <3>4. /\ first \in Seq(R) /\ Len(first) = i - 1
          /\ after \in Seq(R) /\ Len(after) = Len(dedup) - i
          /\ AfterAdd(k) = <<k>> \o first \o after
      BY <3>1, <3>2, <3>3
    <3> HIDE DEF first, after
    <3> DEFINE front == <<k>> \o first
    <3>5. front \in Seq(R) /\ Len(front) = 1 + Len(first)
      BY <1>0, <3>4, ConcatProperties
    <3>6. AfterAdd(k) = front \o after
      BY <3>4
    <3> HIDE DEF front
    <3>7. AfterAdd(k) \in Seq(R) /\ Len(AfterAdd(k)) = Len(front) + Len(after)
      BY <3>4, <3>5, <3>6, ConcatProperties
    <3>8. Len(AfterAdd(k)) = Len(dedup)
      <4>1. i \in Nat /\ Len(dedup) \in Nat
        BY <1>0
      <4>2. Len(AfterAdd(k)) = (1 + (i - 1)) + (Len(dedup) - i)
        BY <3>4, <3>5, <3>7
      <4> QED
        BY <4>1, <4>2
    <3> QED
      BY <1>0, <3>7, <3>8
  <2>2. CASE k \notin Range(dedup)
    <3>1. PICK n \in Nat : /\ n <= DedupSize - 1 /\ n <= Len(dedup)
                           /\ AfterAdd(k) = <<k>> \o SubSeq(dedup, 1, n)
      <4>1. DedupSize - 1 \in Nat
        BY SizeAssumption
      <4>2. /\ Min({DedupSize - 1, Len(dedup)}) \in Nat
            /\ Min({DedupSize - 1, Len(dedup)}) <= DedupSize - 1
            /\ Min({DedupSize - 1, Len(dedup)}) <= Len(dedup)
        BY <1>0, <4>1, MinOfTwo
      <4> QED
        BY <2>2, <4>2 DEF AfterAdd
    <3>2. SubSeq(dedup, 1, n) \in Seq(R) /\ Len(SubSeq(dedup, 1, n)) = n
      BY <1>0, <3>1, SubSeqProperties
    <3> QED
      BY <1>0, <3>1, <3>2, SizeAssumption, ConcatProperties
  <2> QED
    BY <2>1, <2>2
<1>2. AfterAdd(k) \in [1..Len(AfterAdd(k)) -> R]
  BY <1>1
<1> QED
  BY <1>0, <1>1, <1>2, SeqMonotonic DEF Range

\* The roles cover the upstreams, and the names stay apart.
LEMMA Roles ==
    /\ Mains \subseteq Upstreams /\ Fallbacks \subseteq Upstreams
    /\ \A u \in Upstreams : u \in Mains <=> u \notin Fallbacks
    /\ NoClient \notin Clients
  BY RoleAssumption, HMAssumption DEF Upstreams, NoClient

\* Numbers and keys of events are natural numbers.
LEMMA EventTypes ==
    /\ Last \in Nat
    /\ \A e \in Events : /\ Number[e] \in Range(Number) /\ Number[e] \in Nat
                         /\ Key[e] \in Range(Key) /\ Key[e] \in Nat
<1>1. /\ Number \in [1..Len(Number) -> Nat] /\ Key \in [1..Len(Key) -> Nat]
      /\ Len(Number) \in Nat /\ Len(Key) = Len(Number)
  BY EventAssumption
<1> QED
  BY <1>1 DEF Range, Last, Events

\* The places of the list of mains.
LEMMA OrderTypes ==
    /\ Len(MainOrder) \in Nat
    /\ \A i \in 1..Len(MainOrder) : MainOrder[i] \in Mains
  BY OrderAssumption

\* The initial states satisfy the inductive invariant.
LEMMA InitIndInv == Init => IndInv
<1> SUFFICES ASSUME Init PROVE IndInv
  OBVIOUS
<1> USE Roles, EventTypes, SizeAssumption DEF Init
<1>1. TypeOK
  <2>1. dedup \in Seq(Range(Key)) /\ Len(dedup) <= DedupSize
    OBVIOUS
  <2> QED
    BY <2>1 DEF TypeOK, ReaderPCs, Events
<1>2. CacheInv
  BY DEF CacheInv, Range
<1>3. SuppressedKeyWasSeen /\ OutsiderOwedNothing /\ SeenIsDelivered
  BY DEF SuppressedKeyWasSeen, OutsiderOwedNothing, SeenIsDelivered
<1>4. ASSUME NEW f \in Fallbacks PROVE GateInv(f)
  BY DEF GateInv, LapseIsNoted, AskedAreNoted, GateHoldsFor, InCall, InGate, InLoop
<1>5. ASSUME NEW u \in Upstreams PROVE ReaderInv(u)
  BY DEF ReaderInv, InCall, InGate, InLoop
<1> QED
  BY <1>1, <1>2, <1>3, <1>4, <1>5 DEF IndInv

-----------------------------------------------------------------------------
(* Types.                                                                  *)

\* An event found new is one that was announced.
LEMMA FoundNewTypes ==
    ASSUME TypeOK, NEW u \in Upstreams, ev[u] \in Events, FoundNew(u)
    PROVE  /\ dup' \in [Upstreams -> BOOLEAN] /\ pc' \in [Upstreams -> ReaderPCs]
           /\ fresh' \subseteq Events /\ owed' \in [Clients -> SUBSET Events]
<1>1. owed' \in [Clients -> SUBSET Events]
  <2>1. ASSUME NEW c \in Clients
        PROVE  (IF state[c] = "in" THEN owed[c] \cup {ev[u]} ELSE owed[c]) \in SUBSET Events
    BY DEF TypeOK
  <2> QED
    BY <2>1 DEF FoundNew
<1> QED
  BY <1>1 DEF TypeOK, FoundNew, Goto, ReaderPCs

\* A reader goes to a place in the list of mains.
LEMMA LookTypes ==
    ASSUME TypeOK, NEW u \in Upstreams, NEW where \in ReaderPCs, NEW i \in 0..Len(MainOrder) + 1,
           Look(u, where, i)
    PROVE  pc' \in [Upstreams -> ReaderPCs] /\ look' \in [Upstreams -> 0..Len(MainOrder) + 1]
  BY DEF TypeOK, Look, Goto

\* The loops of the gate go on to the next main, or leave the list.
LEMMA LoopTypes ==
    ASSUME TypeOK, NEW u \in Upstreams, ReaderInv(u), GateBlock(u) \/ GateLoad(u) \/ GateHealthy(u)
    PROVE  pc' \in [Upstreams -> ReaderPCs] /\ look' \in [Upstreams -> 0..Len(MainOrder) + 1]
<1>1. 0 \in 0..Len(MainOrder) + 1 /\ 1 \in 0..Len(MainOrder) + 1
  BY OrderTypes
<1>2. ~LookedAll(u) \/ GateLoad(u) => look[u] + 1 \in 0..Len(MainOrder) + 1
  BY OrderTypes DEF TypeOK, LookedAll, GateLoad, ReaderInv
<1>3. CASE GateBlock(u)
  <2>1. CASE Goto(u, "gateLoad") /\ UNCHANGED look
    BY <2>1 DEF TypeOK, Goto, ReaderPCs
  <2> QED
    BY <1>1, <1>2, <1>3, <2>1, LookTypes DEF GateBlock, ReaderPCs
<1>4. CASE GateLoad(u)
  BY <1>1, <1>2, <1>4, LookTypes DEF GateLoad, ReaderPCs
<1>5. CASE GateHealthy(u)
  BY <1>1, <1>2, <1>5, LookTypes DEF GateHealthy, ReaderPCs
<1> QED
  BY <1>3, <1>4, <1>5

\* Every step keeps the types.
LEMMA TypesPreserved == IndInv /\ [Next]_vars => TypeOK'
<1> SUFFICES ASSUME IndInv, [Next]_vars PROVE TypeOK'
  OBVIOUS
<1>0. TypeOK /\ \A u \in Upstreams : ReaderInv(u)
  BY DEF IndInv
<1> USE <1>0, Roles, EventTypes, OrderTypes, SizeAssumption
    DEF TypeOK, ReaderPCs, Events, ReaderInv, InCall, InGate, InLoop,
        readerVars, clientVars, healthVars, historyVars
<1>1. ASSUME NEW u \in Upstreams, NEW e \in Events, Receive(u, e) PROVE TypeOK'
  BY <1>1 DEF Receive, Goto
<1>2. ASSUME NEW u \in Upstreams, Contains(u) PROVE TypeOK'
  <2>1. CASE FoundNew(u)
    BY <1>2, <2>1, FoundNewTypes DEF Contains
  <2>2. CASE dup' = [dup EXCEPT ![u] = TRUE] /\ Goto(u, "snapshot") /\ UNCHANGED historyVars
    BY <1>2, <2>2 DEF Contains, Goto
  <2>3. CASE Goto(u, "add") /\ UNCHANGED <<dup, historyVars>>
    BY <1>2, <2>3 DEF Contains, Goto
  <2> QED
    BY <1>2, <2>1, <2>2, <2>3 DEF Contains
<1>3. ASSUME NEW u \in Upstreams, AddKey(u) PROVE TypeOK'
  <2>1. dedup' \in Seq(Range(Key)) /\ Len(dedup') <= DedupSize
    <3>1. Key[ev[u]] \in Range(Key) /\ dedup' = AfterAdd(Key[ev[u]])
      BY <1>3 DEF AddKey
    <3>2. /\ AfterAdd(Key[ev[u]]) \in Seq(Range(Key))
          /\ Len(AfterAdd(Key[ev[u]])) <= DedupSize
      BY <3>1, AfterAddProperty
    <3> QED
      BY <3>1, <3>2
  <2>2. FoundNew(u)
    BY <1>3 DEF AddKey
  <2> QED
    BY <1>3, <2>1, <2>2, FoundNewTypes DEF AddKey
<1>4. ASSUME NEW u \in Upstreams, Snapshot(u) PROVE TypeOK'
  BY <1>4 DEF Snapshot, Goto, Members
<1>5. ASSUME NEW u \in Upstreams, CallMonitor(u) PROVE TypeOK'
  <2>1. known' \in [Upstreams -> Range(Number) \cup {0}]
    BY <1>5 DEF CallMonitor, Larger
  <2>2. healthy' \in [Mains -> BOOLEAN]
    BY <1>5, Zenon DEF CallMonitor
  <2> QED
    BY <1>5, <2>1, <2>2 DEF CallMonitor
<1>6. ASSUME NEW u \in Upstreams, NEW d \in Clients, CallClient(u, d) PROVE TypeOK'
  <2>0. targets' \in [Upstreams -> SUBSET (Clients \cup {HM})]
    BY <1>6 DEF CallClient
  <2>1. CASE state[d] \in {"closed", "gone"}
    BY <1>6, <2>1 DEF CallClient
  <2>2. CASE state[d] \notin {"closed", "gone"}
    <3>1. Enter(u, d) /\ UNCHANGED <<next, ev, dup, dedup, clientVars, historyVars, known, healthy>>
      BY <1>6, <2>2 DEF CallClient
    <3>2. cur' \in [Upstreams -> Clients \cup {NoClient}]
      BY <3>1 DEF Enter
    <3>3. lapse' \in [Upstreams -> SUBSET Mains]
      BY <3>1 DEF Enter, Unhealthy
    <3>4. pc' \in [Upstreams -> ReaderPCs] /\ look' \in [Upstreams -> 0..Len(MainOrder) + 1]
      <4>1. CASE Look(u, "gateBlock", 1)
        BY <4>1, LookTypes
      <4>2. CASE Goto(u, "send") /\ UNCHANGED look
        BY <4>2 DEF Goto
      <4> QED
        BY <1>6, <2>2, <4>1, <4>2 DEF CallClient
    <3> QED
      BY <2>0, <3>1, <3>2, <3>3, <3>4
  <2> QED
    BY <2>1, <2>2
<1>7. ASSUME NEW u \in Upstreams, GateBlock(u) PROVE TypeOK'
  BY <1>7, LoopTypes DEF GateBlock
<1>8. ASSUME NEW u \in Upstreams, GateLoad(u) PROVE TypeOK'
  BY <1>8, LoopTypes DEF GateLoad
<1>9. ASSUME NEW u \in Upstreams, GateHealthy(u) PROVE TypeOK'
  BY <1>9, LoopTypes DEF GateHealthy
<1>10. ASSUME NEW u \in Upstreams, GateTick(u) PROVE TypeOK'
  BY <1>10 DEF GateTick, Goto, Look
<1>11. ASSUME NEW u \in Upstreams, GateClosed(u) PROVE TypeOK'
  BY <1>11 DEF GateClosed, Goto, Leave
<1>12. ASSUME NEW u \in Upstreams, Enqueue(u) PROVE TypeOK'
  BY <1>12 DEF Enqueue, HandedOver, Goto, Leave
<1>13. ASSUME NEW u \in Upstreams, DropFull(u) PROVE TypeOK'
  BY <1>13 DEF DropFull, HandedOver, Goto, Leave
<1>14. ASSUME NEW u \in Upstreams, SendClosed(u) PROVE TypeOK'
  BY <1>14 DEF SendClosed, Goto, Leave
<1>15. ASSUME NEW u \in Upstreams, BroadcastEnd(u) PROVE TypeOK'
  BY <1>15 DEF BroadcastEnd
<1>16. ASSUME NEW d \in Clients, Subscribe(d) PROVE TypeOK'
  BY <1>16 DEF Subscribe
<1>17. ASSUME NEW d \in Clients, CloseSubscriber(d) PROVE TypeOK'
  BY <1>17 DEF CloseSubscriber
<1>18. ASSUME NEW d \in Clients, RemoveSubscriber(d) PROVE TypeOK'
  BY <1>18 DEF RemoveSubscriber
<1>19. ASSUME NEW d \in Clients, SendToClient(d) PROVE TypeOK'
  BY <1>19 DEF SendToClient
<1>20. ASSUME NEW m \in Mains, LagCheck(m) PROVE TypeOK'
  BY <1>20 DEF LagCheck, FoundUnhealthy
<1>21. ASSUME NEW p \in Polled, NEW e \in PollEvents, Poll(p, e) PROVE TypeOK'
  <2>1. Number[e] \in Range(Number)
    BY EventAssumption DEF Last
  <2>2. known' \in [Upstreams -> Range(Number) \cup {0}]
    BY <1>21, <2>1 DEF Poll, Larger
  <2>3. healthy' \in [Mains -> BOOLEAN]
    BY <1>21, Zenon DEF Poll
  <2> QED
    BY <1>21, <2>2, <2>3 DEF Poll
<1>22. ASSUME NEW p \in Polled \cap Mains, PollFails(p) PROVE TypeOK'
  BY <1>22 DEF PollFails, FoundUnhealthy
<1>23. CASE UNCHANGED vars
  BY <1>23 DEF vars
<1> QED
  BY <1>1, <1>2, <1>3, <1>4, <1>5, <1>6, <1>7, <1>8, <1>9, <1>10,
     <1>11, <1>12, <1>13, <1>14, <1>15, <1>16, <1>17, <1>18, <1>19, <1>20,
     <1>21, <1>22, <1>23
     DEF Next, ReaderStep, Finished

-----------------------------------------------------------------------------
(* What a reader knows.                                                    *)

\* Every step keeps ReaderInv for every upstream.
LEMMA ReadersKept == IndInv /\ [Next]_vars => \A v \in Upstreams : ReaderInv(v)'
<1> SUFFICES ASSUME IndInv, [Next]_vars, NEW v \in Upstreams PROVE ReaderInv(v)'
  OBVIOUS
<1>0. TypeOK /\ ReaderInv(v)
  BY DEF IndInv
<1> USE <1>0, Roles, OrderTypes DEF TypeOK, ReaderInv, InCall, InGate, InLoop, readerVars
<1>1. ASSUME NEW u \in Upstreams, NEW e \in Events, Receive(u, e) PROVE ReaderInv(v)'
  BY <1>1 DEF Receive, Goto
<1>2. ASSUME NEW u \in Upstreams, Contains(u) PROVE ReaderInv(v)'
  BY <1>2 DEF Contains, Goto, FoundNew
<1>3. ASSUME NEW u \in Upstreams, AddKey(u) PROVE ReaderInv(v)'
  BY <1>3 DEF AddKey, Goto, FoundNew
<1>4. ASSUME NEW u \in Upstreams, Snapshot(u) PROVE ReaderInv(v)'
  BY <1>4 DEF Snapshot, Goto
<1>5. ASSUME NEW u \in Upstreams, CallMonitor(u) PROVE ReaderInv(v)'
  BY <1>5 DEF CallMonitor
<1>6. ASSUME NEW u \in Upstreams, NEW d \in Clients, CallClient(u, d) PROVE ReaderInv(v)'
  BY <1>6 DEF CallClient, Enter, Look, Goto
<1>7. ASSUME NEW u \in Upstreams, GateBlock(u) PROVE ReaderInv(v)'
  BY <1>7 DEF GateBlock, Goto, Look, LookedAll
<1>8. ASSUME NEW u \in Upstreams, GateLoad(u) PROVE ReaderInv(v)'
  BY <1>8 DEF GateLoad, Goto, Look
<1>9. ASSUME NEW u \in Upstreams, GateHealthy(u) PROVE ReaderInv(v)'
  BY <1>9 DEF GateHealthy, Goto, Look, LookedAll
<1>10. ASSUME NEW u \in Upstreams, GateTick(u) PROVE ReaderInv(v)'
  BY <1>10 DEF GateTick, Goto, Look
<1>11. ASSUME NEW u \in Upstreams, GateClosed(u) PROVE ReaderInv(v)'
  BY <1>11 DEF GateClosed, Goto, Leave
<1>12. ASSUME NEW u \in Upstreams, Enqueue(u) PROVE ReaderInv(v)'
  BY <1>12 DEF Enqueue, HandedOver, Goto, Leave
<1>13. ASSUME NEW u \in Upstreams, DropFull(u) PROVE ReaderInv(v)'
  BY <1>13 DEF DropFull, HandedOver, Goto, Leave
<1>14. ASSUME NEW u \in Upstreams, SendClosed(u) PROVE ReaderInv(v)'
  BY <1>14 DEF SendClosed, Goto, Leave
<1>15. ASSUME NEW u \in Upstreams, BroadcastEnd(u) PROVE ReaderInv(v)'
  BY <1>15 DEF BroadcastEnd
<1>16. ASSUME NEW d \in Clients, Subscribe(d) PROVE ReaderInv(v)'
  BY <1>16 DEF Subscribe
<1>17. ASSUME NEW d \in Clients, CloseSubscriber(d) PROVE ReaderInv(v)'
  BY <1>17 DEF CloseSubscriber
<1>18. ASSUME NEW d \in Clients, RemoveSubscriber(d) PROVE ReaderInv(v)'
  BY <1>18 DEF RemoveSubscriber
<1>19. ASSUME NEW d \in Clients, SendToClient(d) PROVE ReaderInv(v)'
  BY <1>19 DEF SendToClient
<1>20. ASSUME NEW m \in Mains, LagCheck(m) PROVE ReaderInv(v)'
  BY <1>20 DEF LagCheck, FoundUnhealthy
<1>21. ASSUME NEW p \in Polled, NEW e \in PollEvents, Poll(p, e) PROVE ReaderInv(v)'
  BY <1>21 DEF Poll
<1>22. ASSUME NEW p \in Polled \cap Mains, PollFails(p) PROVE ReaderInv(v)'
  BY <1>22 DEF PollFails, FoundUnhealthy
<1>23. CASE UNCHANGED vars
  BY <1>23 DEF vars
<1> QED
  BY <1>1, <1>2, <1>3, <1>4, <1>5, <1>6, <1>7, <1>8, <1>9, <1>10,
     <1>11, <1>12, <1>13, <1>14, <1>15, <1>16, <1>17, <1>18, <1>19, <1>20,
     <1>21, <1>22, <1>23
     DEF Next, ReaderStep, Finished

-----------------------------------------------------------------------------
(* Deduplication.                                                          *)

\* What was found new stays so.
LEMMA KeysStaySeen ==
    ASSUME fresh \subseteq fresh', NEW k, KeySeen(k)
    PROVE  KeySeen(k)'
  BY DEF KeySeen

\* Every step keeps CacheInv and SuppressedKeyWasSeen.
LEMMA CacheKept == IndInv /\ [Next]_vars => CacheInv' /\ SuppressedKeyWasSeen'
<1> SUFFICES ASSUME IndInv, [Next]_vars PROVE CacheInv' /\ SuppressedKeyWasSeen'
  OBVIOUS
<1>0. /\ TypeOK /\ CacheInv /\ SuppressedKeyWasSeen
      /\ \A u \in Upstreams : ReaderInv(u)
  BY DEF IndInv
<1>1. ASSUME UNCHANGED <<dedup, dup, ev, fresh>> PROVE CacheInv' /\ SuppressedKeyWasSeen'
  BY <1>0, <1>1 DEF CacheInv, SuppressedKeyWasSeen, KeySeen
<1>2. ASSUME NEW u \in Upstreams, NEW e \in Events, Receive(u, e)
      PROVE  CacheInv' /\ SuppressedKeyWasSeen'
  BY <1>0, <1>2
     DEF Receive, historyVars, TypeOK, ReaderInv, CacheInv, SuppressedKeyWasSeen, KeySeen
<1>3. ASSUME NEW u \in Upstreams, Contains(u) PROVE CacheInv' /\ SuppressedKeyWasSeen'
  <2>1. UNCHANGED <<dedup, ev>> /\ fresh \subseteq fresh'
    BY <1>3 DEF Contains, FoundNew, historyVars
  <2>2. \/ dup' = [dup EXCEPT ![u] = FALSE]
        \/ dup' = dup
        \/ dup' = [dup EXCEPT ![u] = TRUE] /\ KeySeen(Key[ev[u]])
    <3>1. CASE FoundNew(u)
      BY <3>1 DEF FoundNew
    <3>2. CASE Key[ev[u]] \in Range(dedup) /\ dup' = [dup EXCEPT ![u] = TRUE]
      BY <1>0, <3>2 DEF CacheInv
    <3>3. CASE UNCHANGED dup
      BY <3>3
    <3> QED
      BY <1>3, <3>1, <3>2, <3>3 DEF Contains
  <2> QED
    BY <1>0, <2>1, <2>2, KeysStaySeen DEF TypeOK, CacheInv, SuppressedKeyWasSeen
<1>4. ASSUME NEW u \in Upstreams, AddKey(u) PROVE CacheInv' /\ SuppressedKeyWasSeen'
  <2>1. /\ ev' = ev /\ fresh' = fresh \cup {ev[u]}
        /\ dup' = [dup EXCEPT ![u] = FALSE]
        /\ dedup' = AfterAdd(Key[ev[u]])
    BY <1>4 DEF AddKey, FoundNew
  <2>2. ev[u] \in Events /\ Key[ev[u]] # 0 /\ Key[ev[u]] \in Range(Key)
    BY <1>0, <1>4, EventTypes DEF AddKey, ReaderInv
  <2>3. Range(dedup') \subseteq Range(dedup) \cup {Key[ev[u]]}
    BY <1>0, <2>1, <2>2, AfterAddProperty DEF TypeOK
  <2>4. KeySeen(Key[ev[u]])'
    BY <2>1, <2>2 DEF KeySeen
  <2>5. CacheInv'
    BY <1>0, <2>1, <2>3, <2>4, KeysStaySeen DEF CacheInv
  <2>6. SuppressedKeyWasSeen'
    BY <1>0, <2>1, KeysStaySeen DEF TypeOK, SuppressedKeyWasSeen
  <2> QED
    BY <2>5, <2>6
<1>5. ASSUME NEW u \in Upstreams, BroadcastEnd(u) PROVE CacheInv' /\ SuppressedKeyWasSeen'
  BY <1>0, <1>5 DEF BroadcastEnd, historyVars, TypeOK, CacheInv, SuppressedKeyWasSeen, KeySeen
<1>6. ASSUME \/ \E u \in Upstreams :
                   \/ Snapshot(u) \/ CallMonitor(u) \/ GateBlock(u) \/ GateLoad(u) \/ GateHealthy(u)
                   \/ GateTick(u) \/ GateClosed(u) \/ Enqueue(u) \/ DropFull(u) \/ SendClosed(u)
                   \/ \E c \in Clients : CallClient(u, c)
             \/ \E c \in Clients : \/ Subscribe(c) \/ CloseSubscriber(c)
                                   \/ RemoveSubscriber(c) \/ SendToClient(c)
             \/ \E m \in Mains : LagCheck(m)
             \/ \E p \in Polled, e \in PollEvents : Poll(p, e)
             \/ \E p \in Polled \cap Mains : PollFails(p)
             \/ UNCHANGED vars
      PROVE  UNCHANGED <<dedup, dup, ev, fresh>>
  BY <1>6 DEF Snapshot, CallMonitor, GateBlock, GateLoad, GateHealthy, GateTick, GateClosed, Enqueue,
              DropFull, HandedOver, SendClosed, CallClient, Subscribe, CloseSubscriber,
              RemoveSubscriber, SendToClient, LagCheck, Poll, PollFails, FoundUnhealthy, vars,
              readerVars, historyVars
<1> QED
  BY <1>1, <1>2, <1>3, <1>4, <1>5, <1>6 DEF Next, ReaderStep, Finished

-----------------------------------------------------------------------------
(* Delivery.                                                               *)

\* Every step keeps OutsiderOwedNothing.
LEMMA OutsidersKept == IndInv /\ [Next]_vars => OutsiderOwedNothing'
<1> SUFFICES ASSUME IndInv, [Next]_vars PROVE OutsiderOwedNothing'
  OBVIOUS
<1>0. TypeOK /\ OutsiderOwedNothing
  BY DEF IndInv
<1> USE <1>0 DEF TypeOK, OutsiderOwedNothing, clientVars, historyVars
<1>1. ASSUME NEW u \in Upstreams, NEW e \in Events, Receive(u, e) PROVE OutsiderOwedNothing'
  BY <1>1 DEF Receive, Goto
<1>2. ASSUME NEW u \in Upstreams, Contains(u) PROVE OutsiderOwedNothing'
  BY <1>2 DEF Contains, Goto, FoundNew
<1>3. ASSUME NEW u \in Upstreams, AddKey(u) PROVE OutsiderOwedNothing'
  BY <1>3 DEF AddKey, Goto, FoundNew
<1>4. ASSUME NEW u \in Upstreams, Snapshot(u) PROVE OutsiderOwedNothing'
  BY <1>4 DEF Snapshot, Goto
<1>5. ASSUME NEW u \in Upstreams, CallMonitor(u) PROVE OutsiderOwedNothing'
  BY <1>5 DEF CallMonitor
<1>6. ASSUME NEW u \in Upstreams, NEW d \in Clients, CallClient(u, d) PROVE OutsiderOwedNothing'
  BY <1>6 DEF CallClient, Enter, Look, Goto
<1>7. ASSUME NEW u \in Upstreams, GateBlock(u) PROVE OutsiderOwedNothing'
  BY <1>7 DEF GateBlock, Goto, Look
<1>8. ASSUME NEW u \in Upstreams, GateLoad(u) PROVE OutsiderOwedNothing'
  BY <1>8 DEF GateLoad, Goto, Look
<1>9. ASSUME NEW u \in Upstreams, GateHealthy(u) PROVE OutsiderOwedNothing'
  BY <1>9 DEF GateHealthy, Goto, Look
<1>10. ASSUME NEW u \in Upstreams, GateTick(u) PROVE OutsiderOwedNothing'
  BY <1>10 DEF GateTick, Goto, Look
<1>11. ASSUME NEW u \in Upstreams, GateClosed(u) PROVE OutsiderOwedNothing'
  BY <1>11 DEF GateClosed, Goto, Leave
<1>12. ASSUME NEW u \in Upstreams, Enqueue(u) PROVE OutsiderOwedNothing'
  BY <1>12 DEF Enqueue, HandedOver, Goto, Leave
<1>13. ASSUME NEW u \in Upstreams, DropFull(u) PROVE OutsiderOwedNothing'
  BY <1>13 DEF DropFull, HandedOver, Goto, Leave
<1>14. ASSUME NEW u \in Upstreams, SendClosed(u) PROVE OutsiderOwedNothing'
  BY <1>14 DEF SendClosed, Goto, Leave
<1>15. ASSUME NEW u \in Upstreams, BroadcastEnd(u) PROVE OutsiderOwedNothing'
  BY <1>15 DEF BroadcastEnd
<1>16. ASSUME NEW d \in Clients, Subscribe(d) PROVE OutsiderOwedNothing'
  BY <1>16 DEF Subscribe
<1>17. ASSUME NEW d \in Clients, CloseSubscriber(d) PROVE OutsiderOwedNothing'
  BY <1>17 DEF CloseSubscriber
<1>18. ASSUME NEW d \in Clients, RemoveSubscriber(d) PROVE OutsiderOwedNothing'
  BY <1>18 DEF RemoveSubscriber
<1>19. ASSUME NEW d \in Clients, SendToClient(d) PROVE OutsiderOwedNothing'
  BY <1>19 DEF SendToClient
<1>20. ASSUME NEW m \in Mains, LagCheck(m) PROVE OutsiderOwedNothing'
  BY <1>20 DEF LagCheck, FoundUnhealthy
<1>21. ASSUME NEW p \in Polled, NEW e \in PollEvents, Poll(p, e) PROVE OutsiderOwedNothing'
  BY <1>21 DEF Poll
<1>22. ASSUME NEW p \in Polled \cap Mains, PollFails(p) PROVE OutsiderOwedNothing'
  BY <1>22 DEF PollFails, FoundUnhealthy
<1>23. CASE UNCHANGED vars
  BY <1>23 DEF vars
<1> QED
  BY <1>1, <1>2, <1>3, <1>4, <1>5, <1>6, <1>7, <1>8, <1>9, <1>10,
     <1>11, <1>12, <1>13, <1>14, <1>15, <1>16, <1>17, <1>18, <1>19, <1>20,
     <1>21, <1>22, <1>23
     DEF Next, ReaderStep, Finished

\* The reader v still has its event for client c, or nothing is owed any more.
StillOnItsWay(v, c) ==
    \/ ev'[v] = ev[v] /\ OnItsWay(v, c)'
    \/ ev[v] \notin owed'[c]

\* An event on its way to a subscribed client does not get lost on it.
LEMMA NothingGetsLost ==
    ASSUME IndInv, [Next]_vars,
           NEW v \in Upstreams, NEW c \in Clients, OnItsWay(v, c), state[c] = "in"
    PROVE  StillOnItsWay(v, c)
<1>0. TypeOK /\ ReaderInv(v)
  BY DEF IndInv
<1> USE <1>0, Roles DEF TypeOK, StillOnItsWay, OnItsWay, ReaderInv, InCall, InGate, InLoop, readerVars, clientVars
<1>1. ASSUME NEW u \in Upstreams, NEW e \in Events, Receive(u, e) PROVE StillOnItsWay(v, c)
  BY <1>1 DEF Receive, Goto
<1>2. ASSUME NEW u \in Upstreams, Contains(u) PROVE StillOnItsWay(v, c)
  BY <1>2 DEF Contains, Goto, FoundNew
<1>3. ASSUME NEW u \in Upstreams, AddKey(u) PROVE StillOnItsWay(v, c)
  BY <1>3 DEF AddKey, Goto, FoundNew
<1>4. ASSUME NEW u \in Upstreams, Snapshot(u) PROVE StillOnItsWay(v, c)
  BY <1>4 DEF Snapshot, Goto, Members
<1>5. ASSUME NEW u \in Upstreams, CallMonitor(u) PROVE StillOnItsWay(v, c)
  BY <1>5, HMAssumption DEF CallMonitor
<1>6. ASSUME NEW u \in Upstreams, NEW d \in Clients, CallClient(u, d) PROVE StillOnItsWay(v, c)
  <2>1. CASE state[d] \in {"closed", "gone"}
    BY <1>6, <2>1 DEF CallClient
  <2>2. CASE state[d] \notin {"closed", "gone"}
    <3>1. pc[u] = "deliver" /\ ev' = ev /\ dup' = dup
      BY <1>6 DEF CallClient
    <3>2. CASE v = u
      BY <1>6, <2>2, <3>1, <3>2 DEF CallClient, Enter, Look, Goto
    <3>3. CASE v # u
      BY <1>6, <2>2, <3>1, <3>3 DEF CallClient, Enter, Look, Goto
    <3> QED
      BY <3>2, <3>3
  <2> QED
    BY <2>1, <2>2
<1>7. ASSUME NEW u \in Upstreams, GateBlock(u) PROVE StillOnItsWay(v, c)
  BY <1>7 DEF GateBlock, Goto, Look
<1>8. ASSUME NEW u \in Upstreams, GateLoad(u) PROVE StillOnItsWay(v, c)
  BY <1>8 DEF GateLoad, Goto, Look
<1>9. ASSUME NEW u \in Upstreams, GateHealthy(u) PROVE StillOnItsWay(v, c)
  BY <1>9 DEF GateHealthy, Goto, Look
<1>10. ASSUME NEW u \in Upstreams, GateTick(u) PROVE StillOnItsWay(v, c)
  BY <1>10 DEF GateTick, Goto, Look
<1>11. ASSUME NEW u \in Upstreams, GateClosed(u) PROVE StillOnItsWay(v, c)
  BY <1>11 DEF GateClosed, Goto, Leave
<1>12. ASSUME NEW u \in Upstreams, Enqueue(u) PROVE StillOnItsWay(v, c)
  BY <1>12 DEF Enqueue, HandedOver, Goto, Leave
<1>13. ASSUME NEW u \in Upstreams, DropFull(u) PROVE StillOnItsWay(v, c)
  BY <1>13 DEF DropFull, HandedOver, Goto, Leave
<1>14. ASSUME NEW u \in Upstreams, SendClosed(u) PROVE StillOnItsWay(v, c)
  BY <1>14 DEF SendClosed, Goto, Leave
<1>15. ASSUME NEW u \in Upstreams, BroadcastEnd(u) PROVE StillOnItsWay(v, c)
  BY <1>15 DEF BroadcastEnd
<1>16. ASSUME NEW d \in Clients, Subscribe(d) PROVE StillOnItsWay(v, c)
  BY <1>16 DEF Subscribe
<1>17. ASSUME NEW d \in Clients, CloseSubscriber(d) PROVE StillOnItsWay(v, c)
  BY <1>17 DEF CloseSubscriber
<1>18. ASSUME NEW d \in Clients, RemoveSubscriber(d) PROVE StillOnItsWay(v, c)
  BY <1>18 DEF RemoveSubscriber
<1>19. ASSUME NEW d \in Clients, SendToClient(d) PROVE StillOnItsWay(v, c)
  BY <1>19 DEF SendToClient
<1>20. ASSUME NEW m \in Mains, LagCheck(m) PROVE StillOnItsWay(v, c)
  BY <1>20 DEF LagCheck, FoundUnhealthy
<1>21. ASSUME NEW p \in Polled, NEW e \in PollEvents, Poll(p, e) PROVE StillOnItsWay(v, c)
  BY <1>21 DEF Poll
<1>22. ASSUME NEW p \in Polled \cap Mains, PollFails(p) PROVE StillOnItsWay(v, c)
  BY <1>22 DEF PollFails, FoundUnhealthy
<1>23. CASE UNCHANGED vars
  BY <1>23 DEF vars
<1> QED
  BY <1>1, <1>2, <1>3, <1>4, <1>5, <1>6, <1>7, <1>8, <1>9, <1>10,
     <1>11, <1>12, <1>13, <1>14, <1>15, <1>16, <1>17, <1>18, <1>19, <1>20,
     <1>21, <1>22, <1>23
     DEF Next, ReaderStep, Finished

\* An event is owed to a subscribed client since before, or a reader has just
\* found it new and will call the client.
LEMMA OwedSince ==
    ASSUME IndInv, [Next]_vars,
           NEW c \in Clients, state'[c] = "in", NEW b \in owed'[c]
    PROVE  \/ state[c] = "in" /\ b \in owed[c]
           \/ \E v \in Upstreams : ev'[v] = b /\ OnItsWay(v, c)'
<1> DEFINE Goal == \/ state[c] = "in" /\ b \in owed[c]
                   \/ \E v \in Upstreams : ev'[v] = b /\ OnItsWay(v, c)'
<1>0. TypeOK /\ OutsiderOwedNothing
  BY DEF IndInv
<1>1. ASSUME NEW u \in Upstreams, FoundNew(u), UNCHANGED <<ev, state>> PROVE Goal
  <2>1. (b \in owed[c] /\ state[c] = "in") \/ b = ev[u]
    BY <1>0, <1>1 DEF FoundNew, TypeOK
  <2>2. ev'[u] = ev[u] /\ OnItsWay(u, c)'
    BY <1>0, <1>1 DEF FoundNew, Goto, TypeOK, OnItsWay
  <2> QED
    BY <2>1, <2>2
<1>2. ASSUME state' = state, owed'[c] \subseteq owed[c] PROVE Goal
  BY <1>2
<1>3. ASSUME NEW u \in Upstreams, Contains(u) PROVE Goal
  BY <1>1, <1>2, <1>3 DEF Contains, clientVars, historyVars
<1>4. ASSUME NEW u \in Upstreams, AddKey(u) PROVE Goal
  BY <1>1, <1>4 DEF AddKey, clientVars
<1>5. ASSUME NEW d \in Clients, Subscribe(d) \/ CloseSubscriber(d) \/ RemoveSubscriber(d) PROVE Goal
  BY <1>0, <1>5
     DEF Subscribe, CloseSubscriber, RemoveSubscriber, TypeOK, OutsiderOwedNothing, historyVars
<1>6. ASSUME \/ \E u \in Upstreams :
                   \/ Snapshot(u) \/ CallMonitor(u) \/ GateBlock(u) \/ GateLoad(u) \/ GateHealthy(u)
                   \/ GateTick(u) \/ GateClosed(u) \/ SendClosed(u) \/ BroadcastEnd(u)
                   \/ \E e \in Events : Receive(u, e)
                   \/ \E d \in Clients : CallClient(u, d)
             \/ \E d \in Clients : SendToClient(d)
             \/ \E m \in Mains : LagCheck(m)
             \/ \E p \in Polled, e \in PollEvents : Poll(p, e)
             \/ \E p \in Polled \cap Mains : PollFails(p)
             \/ UNCHANGED vars
      PROVE  UNCHANGED <<owed, state>>
  BY <1>6 DEF Snapshot, CallMonitor, GateBlock, GateLoad, GateHealthy, GateTick, GateClosed,
              SendClosed, BroadcastEnd, Receive, CallClient, SendToClient, LagCheck, Poll,
              PollFails, FoundUnhealthy, vars, clientVars, historyVars
<1>7. ASSUME NEW u \in Upstreams, Enqueue(u) \/ DropFull(u) PROVE Goal
  <2>1. state' = state /\ owed'[c] \subseteq owed[c]
    BY <1>0, <1>7 DEF Enqueue, DropFull, HandedOver, TypeOK
  <2> QED
    BY <1>2, <2>1
<1> QED
  BY <1>2, <1>3, <1>4, <1>5, <1>6, <1>7 DEF Next, ReaderStep, Finished

\* Every step keeps SeenIsDelivered: what stays owed stays in the hands of a
\* reader that still has to call the client.
LEMMA DeliveryKept == IndInv /\ [Next]_vars => SeenIsDelivered'
<1> SUFFICES ASSUME IndInv, [Next]_vars, NEW c \in Clients, state'[c] = "in", NEW b \in owed'[c]
             PROVE  \E v \in Upstreams : ev'[v] = b /\ OnItsWay(v, c)'
  BY DEF SeenIsDelivered
<1>1. CASE state[c] = "in" /\ b \in owed[c]
  <2>1. PICK v \in Upstreams : ev[v] = b /\ OnItsWay(v, c)
    BY <1>1 DEF IndInv, SeenIsDelivered
  <2> QED
    BY <1>1, <2>1, NothingGetsLost DEF StillOnItsWay
<1> QED
  BY <1>1, OwedSince

-----------------------------------------------------------------------------
(* The gate.                                                               *)

\* No step takes a block away from an upstream.
LEMMA KnownGrows ==
    ASSUME IndInv, [Next]_vars, NEW m \in Upstreams
    PROVE  known[m] \in Nat /\ known'[m] \in Nat /\ known'[m] >= known[m]
<1>0. TypeOK /\ TypeOK' /\ Range(Number) \subseteq Nat /\ \A u \in Upstreams : ReaderInv(u)
  BY TypesPreserved, EventAssumption, RangeIsFinite DEF IndInv
<1>1. known[m] \in Nat /\ known'[m] \in Nat
  BY <1>0 DEF TypeOK
<1>2. ASSUME NEW u \in Upstreams, CallMonitor(u) PROVE known'[m] >= known[m]
  <2>1. Number[ev[u]] \in Nat
    BY <1>0, <1>2, EventTypes DEF CallMonitor, ReaderInv
  <2> QED
    BY <1>0, <1>1, <1>2, <2>1 DEF CallMonitor, Larger, TypeOK
<1>3. ASSUME NEW p \in Polled, NEW e \in PollEvents, Poll(p, e) PROVE known'[m] >= known[m]
  <2>1. Number[e] \in Nat
    BY EventAssumption, EventTypes DEF Events, Last
  <2> QED
    BY <1>0, <1>1, <1>3, <2>1 DEF Poll, Larger, TypeOK
<1>4. \/ known' = known
      \/ \E u \in Upstreams : CallMonitor(u)
      \/ \E p \in Polled, e \in PollEvents : Poll(p, e)
  BY DEF Next, ReaderStep, Finished, vars, healthVars, Receive, Contains, AddKey, Snapshot, CallClient,
         GateBlock, GateLoad, GateHealthy, GateTick, GateClosed, Enqueue, DropFull, SendClosed,
         BroadcastEnd, Subscribe, CloseSubscriber, RemoveSubscriber, SendToClient, LagCheck,
         PollFails, FoundUnhealthy
<1>5. CASE known' = known
  BY <1>1, <1>5
<1> QED
  BY <1>1, <1>2, <1>3, <1>4, <1>5

\* GateInv of a fallback whose reader stands still, while blocks come in and every
\* new lapse is noted.
LEMMA GateUndisturbed ==
    ASSUME TypeOK, TypeOK', IndInv, [Next]_vars, NEW f \in Fallbacks, GateInv(f),
           pc'[f] = pc[f], look'[f] = look[f], ev'[f] = ev[f], lapse[f] \subseteq lapse'[f],
           pc[f] \in InCall => Unhealthy' \subseteq Unhealthy \cup lapse'[f]
    PROVE  GateInv(f)'
<1>1. LapseIsNoted(f)'
  BY DEF GateInv, LapseIsNoted
<1>2. AskedAreNoted(f)'
  BY DEF GateInv, AskedAreNoted
<1>3. GateHoldsFor(f)'
  <2> SUFFICES ASSUME pc[f] = "send"
               PROVE  lapse'[f] = Mains \/ \E m \in Mains : known'[m] >= Number[ev[f]]
    BY DEF GateHoldsFor
  <2>1. CASE lapse[f] = Mains
    BY <2>1, Roles DEF TypeOK
  <2>2. ASSUME NEW m \in Mains, known[m] >= Number[ev[f]] PROVE known'[m] >= Number[ev[f]]
    <3>1. known[m] \in Nat /\ known'[m] \in Nat /\ known'[m] >= known[m]
      BY KnownGrows, Roles
    <3>2. Number[ev[f]] \in Nat
      BY Roles, EventTypes DEF IndInv, ReaderInv
    <3> QED
      BY <2>2, <3>1, <3>2
  <2> QED
    BY <2>1, <2>2 DEF GateInv, GateHoldsFor
<1> QED
  BY <1>1, <1>2, <1>3 DEF GateInv

\* A step of another reader leaves a fallback's call as it is.
LEMMA GateOfAnother ==
    ASSUME TypeOK, NEW u \in Upstreams, NEW f \in Fallbacks, u # f,
           ReaderStep(u) \/ \E e \in Events : Receive(u, e)
    PROVE  /\ pc'[f] = pc[f] /\ look'[f] = look[f] /\ ev'[f] = ev[f] /\ lapse'[f] = lapse[f]
           /\ Unhealthy' \subseteq Unhealthy
<1> DEFINE Goal == /\ pc'[f] = pc[f] /\ look'[f] = look[f] /\ ev'[f] = ev[f] /\ lapse'[f] = lapse[f]
                   /\ Unhealthy' \subseteq Unhealthy
<1> USE Roles DEF TypeOK, readerVars, healthVars, Unhealthy, Goto, Look, Leave
<1>1. ASSUME NEW e \in Events, Receive(u, e) PROVE Goal
  BY <1>1 DEF Receive
<1>2. ASSUME Contains(u) PROVE Goal
  BY <1>2 DEF Contains, FoundNew
<1>3. ASSUME AddKey(u) PROVE Goal
  BY <1>3 DEF AddKey, FoundNew
<1>4. ASSUME Snapshot(u) PROVE Goal
  BY <1>4 DEF Snapshot
<1>5. ASSUME CallMonitor(u) PROVE Goal
  BY <1>5 DEF CallMonitor
<1>6. ASSUME NEW d \in Clients, CallClient(u, d) PROVE Goal
  BY <1>6 DEF CallClient, Enter
<1>7. ASSUME GateBlock(u) PROVE Goal
  BY <1>7 DEF GateBlock
<1>8. ASSUME GateLoad(u) PROVE Goal
  BY <1>8 DEF GateLoad
<1>9. ASSUME GateHealthy(u) PROVE Goal
  BY <1>9 DEF GateHealthy
<1>10. ASSUME GateTick(u) PROVE Goal
  BY <1>10 DEF GateTick
<1>11. ASSUME GateClosed(u) PROVE Goal
  BY <1>11 DEF GateClosed
<1>12. ASSUME Enqueue(u) PROVE Goal
  BY <1>12 DEF Enqueue, HandedOver
<1>13. ASSUME DropFull(u) PROVE Goal
  BY <1>13 DEF DropFull, HandedOver
<1>14. ASSUME SendClosed(u) PROVE Goal
  BY <1>14 DEF SendClosed
<1>15. ASSUME BroadcastEnd(u) PROVE Goal
  BY <1>15 DEF BroadcastEnd
<1> QED
  BY <1>1, <1>2, <1>3, <1>4, <1>5, <1>6, <1>7, <1>8,
     <1>9, <1>10, <1>11, <1>12, <1>13, <1>14, <1>15
     DEF ReaderStep

\* Every step keeps GateInv for every fallback.
LEMMA GateKept == IndInv /\ [Next]_vars => \A f \in Fallbacks : GateInv(f)'
<1> SUFFICES ASSUME IndInv, [Next]_vars, NEW f \in Fallbacks PROVE GateInv(f)'
  OBVIOUS
<1>0. TypeOK /\ TypeOK' /\ ReaderInv(f) /\ GateInv(f) /\ f \in Upstreams
  BY TypesPreserved, Roles DEF IndInv
<1>1. ASSUME NEW u \in Upstreams, u # f, ReaderStep(u) \/ \E e \in Events : Receive(u, e)
      PROVE  GateInv(f)'
  <2>1. /\ pc'[f] = pc[f] /\ look'[f] = look[f] /\ ev'[f] = ev[f] /\ lapse'[f] = lapse[f]
        /\ Unhealthy' \subseteq Unhealthy
    BY <1>0, <1>1, GateOfAnother
  <2> QED
    BY <1>0, <2>1, GateUndisturbed
<1>2. ASSUME NEW e \in Events, Receive(f, e) PROVE GateInv(f)'
  BY <1>0, <1>2
     DEF Receive, Goto, TypeOK, healthVars, Unhealthy, ReaderInv,
         GateInv, LapseIsNoted, AskedAreNoted, GateHoldsFor, InCall, InGate, InLoop
<1>3. ASSUME Contains(f) PROVE GateInv(f)'
  BY <1>0, <1>3
     DEF Contains, FoundNew, Goto, TypeOK, healthVars, Unhealthy, ReaderInv,
         GateInv, LapseIsNoted, AskedAreNoted, GateHoldsFor, InCall, InGate, InLoop
<1>4. ASSUME AddKey(f) PROVE GateInv(f)'
  BY <1>0, <1>4
     DEF AddKey, FoundNew, Goto, TypeOK, healthVars, Unhealthy, ReaderInv,
         GateInv, LapseIsNoted, AskedAreNoted, GateHoldsFor, InCall, InGate, InLoop
<1>5. ASSUME Snapshot(f) PROVE GateInv(f)'
  BY <1>0, <1>5
     DEF Snapshot, Goto, TypeOK, healthVars, Unhealthy, ReaderInv,
         GateInv, LapseIsNoted, AskedAreNoted, GateHoldsFor, InCall, InGate, InLoop
<1>6. ASSUME CallMonitor(f) PROVE GateInv(f)'
  BY <1>0, <1>6, GateUndisturbed DEF CallMonitor, Unhealthy
<1>7. ASSUME NEW d \in Clients, CallClient(f, d) PROVE GateInv(f)'
  <2>1. CASE state[d] \in {"closed", "gone"}
    BY <1>0, <1>7, <2>1, GateUndisturbed DEF CallClient, Unhealthy
  <2>2. CASE state[d] \notin {"closed", "gone"}
    <3>1. /\ lapse'[f] = Unhealthy /\ Unhealthy' = Unhealthy /\ ev' = ev /\ known' = known
      BY <1>0, <1>7, <2>2, Roles DEF CallClient, Enter, TypeOK, Unhealthy
    <3>2. \/ pc'[f] = "gateBlock"
          \/ pc'[f] = "send" /\ Number[ev[f]] = 0
      BY <1>0, <1>7, <2>2 DEF CallClient, Look, Goto, TypeOK
    <3>3. pc'[f] = "send" => \A m \in Mains : known'[m] >= Number[ev'[f]]
      BY <1>0, <3>1, <3>2, KnownGrows, Roles
    <3>4. Mains = {} => lapse'[f] = Mains
      BY <3>1 DEF Unhealthy
    <3> QED
      BY <3>1, <3>2, <3>3, <3>4 DEF GateInv, LapseIsNoted, AskedAreNoted, GateHoldsFor
  <2> QED
    BY <2>1, <2>2
<1>8. ASSUME GateBlock(f) PROVE GateInv(f)'
  BY <1>0, <1>8 DEF GateBlock, Look, Goto, TypeOK, Unhealthy, healthVars,
     GateInv, LapseIsNoted, AskedAreNoted, GateHoldsFor, InCall, InGate, InLoop
<1>9. ASSUME GateLoad(f) PROVE GateInv(f)'
  <2>1. MainOrder[look[f]] \in Mains
    BY <1>0, <1>9, OrderTypes DEF GateLoad, ReaderInv, InLoop
  <2> QED
    BY <1>0, <1>9, <2>1
       DEF GateLoad, LookedAt, Look, Goto, TypeOK, Unhealthy, healthVars,
           GateInv, LapseIsNoted, AskedAreNoted, GateHoldsFor, InCall, InGate, InLoop
<1>10. ASSUME GateHealthy(f) PROVE GateInv(f)'
  <2>1. UNCHANGED <<lapse, known, ev>> /\ Unhealthy' = Unhealthy /\ LapseIsNoted(f)'
    BY <1>0, <1>10
       DEF GateHealthy, Look, Goto, TypeOK, healthVars, Unhealthy,
           GateInv, LapseIsNoted, InCall, InGate, InLoop
  <2>2. look[f] \in Nat /\ \A i \in 1..Len(MainOrder) : i < look[f] => MainOrder[i] \in lapse[f]
    BY <1>0, <1>10 DEF GateHealthy, GateInv, AskedAreNoted, TypeOK
  <2>3. CASE LookedAll(f) /\ Look(f, "send", 0)
    <3>1. \A i \in 1..Len(MainOrder) : MainOrder[i] \in lapse[f]
      BY <2>2, <2>3, OrderTypes DEF LookedAll
    <3>2. lapse[f] \subseteq Mains
      BY <1>0 DEF TypeOK
    <3>3. ASSUME NEW m \in Mains PROVE m \in lapse[f]
      <4>1. PICK i \in 1..Len(MainOrder) : MainOrder[i] = m
        BY OrderAssumption
      <4> QED
        BY <3>1, <4>1
    <3>4. lapse[f] = Mains
      BY <3>2, <3>3
    <3> QED
      BY <1>0, <2>1, <2>3, <3>4 DEF Look, Goto, TypeOK, GateInv, AskedAreNoted, GateHoldsFor
  <2>4. CASE Look(f, "tick", 0)
    BY <1>0, <2>1, <2>4 DEF Look, Goto, TypeOK, GateInv, AskedAreNoted, GateHoldsFor
  <2>5. CASE ~LookedAll(f) /\ ~healthy[LookedAt(f)] /\ Look(f, "gateHealthy", look[f] + 1)
    <3>1. MainOrder[look[f]] \in lapse[f]
      BY <1>0, <1>10, <2>2, <2>5, OrderTypes
         DEF GateHealthy, ReaderInv, InLoop, LookedAll, LookedAt, Unhealthy,
             GateInv, LapseIsNoted, InCall, InGate
    <3>2. pc'[f] = "gateHealthy" /\ look'[f] = look[f] + 1
      BY <1>0, <2>5 DEF Look, Goto, TypeOK
    <3>3. \A i \in 1..Len(MainOrder) : i < look[f] + 1 => i < look[f] \/ i = look[f]
      BY <2>2, OrderTypes
    <3>4. AskedAreNoted(f)'
      BY <2>1, <2>2, <3>1, <3>2, <3>3 DEF AskedAreNoted
    <3> QED
      BY <2>1, <3>2, <3>4 DEF GateInv, GateHoldsFor
  <2> QED
    BY <1>10, <2>3, <2>4, <2>5 DEF GateHealthy
<1>11. ASSUME GateTick(f) PROVE GateInv(f)'
  BY <1>0, <1>11
     DEF GateTick, Look, Goto, TypeOK, healthVars, Unhealthy, ReaderInv,
         GateInv, LapseIsNoted, AskedAreNoted, GateHoldsFor, InCall, InGate, InLoop
<1>12. ASSUME GateClosed(f) PROVE GateInv(f)'
  BY <1>0, <1>12
     DEF GateClosed, Leave, Goto, TypeOK, healthVars, Unhealthy, ReaderInv,
         GateInv, LapseIsNoted, AskedAreNoted, GateHoldsFor, InCall, InGate, InLoop
<1>13. ASSUME Enqueue(f) PROVE GateInv(f)'
  BY <1>0, <1>13
     DEF Enqueue, HandedOver, Leave, Goto, TypeOK, healthVars, Unhealthy, ReaderInv,
         GateInv, LapseIsNoted, AskedAreNoted, GateHoldsFor, InCall, InGate, InLoop
<1>14. ASSUME DropFull(f) PROVE GateInv(f)'
  BY <1>0, <1>14
     DEF DropFull, HandedOver, Leave, Goto, TypeOK, healthVars, Unhealthy, ReaderInv,
         GateInv, LapseIsNoted, AskedAreNoted, GateHoldsFor, InCall, InGate, InLoop
<1>15. ASSUME SendClosed(f) PROVE GateInv(f)'
  BY <1>0, <1>15
     DEF SendClosed, Leave, Goto, TypeOK, healthVars, Unhealthy, ReaderInv,
         GateInv, LapseIsNoted, AskedAreNoted, GateHoldsFor, InCall, InGate, InLoop
<1>16. ASSUME BroadcastEnd(f) PROVE GateInv(f)'
  BY <1>0, <1>16
     DEF BroadcastEnd, TypeOK, healthVars, Unhealthy, ReaderInv,
         GateInv, LapseIsNoted, AskedAreNoted, GateHoldsFor, InCall, InGate, InLoop
<1>17. ASSUME NEW d \in Clients, Subscribe(d) PROVE GateInv(f)'
  BY <1>0, <1>17, GateUndisturbed DEF Subscribe, readerVars, healthVars, Unhealthy
<1>18. ASSUME NEW d \in Clients, CloseSubscriber(d) PROVE GateInv(f)'
  BY <1>0, <1>18, GateUndisturbed DEF CloseSubscriber, readerVars, healthVars, Unhealthy
<1>19. ASSUME NEW d \in Clients, RemoveSubscriber(d) PROVE GateInv(f)'
  BY <1>0, <1>19, GateUndisturbed DEF RemoveSubscriber, readerVars, healthVars, Unhealthy
<1>20. ASSUME NEW d \in Clients, SendToClient(d) PROVE GateInv(f)'
  BY <1>0, <1>20, GateUndisturbed DEF SendToClient, readerVars, healthVars, Unhealthy
<1>21. ASSUME NEW m \in Mains, LagCheck(m) PROVE GateInv(f)'
  <2>1. FoundUnhealthy(m) /\ m \in Mains
    BY <1>21 DEF LagCheck
  <2>2. pc[f] \in InCall => cur[f] # NoClient
    BY <1>0, Roles DEF ReaderInv
  <2>3. lapse[f] \subseteq lapse'[f] /\ (pc[f] \in InCall => m \in lapse'[f])
    BY <2>1, <2>2, Roles DEF FoundUnhealthy
  <2>4. Unhealthy' \subseteq Unhealthy \cup {m}
    BY <1>0, <2>1 DEF FoundUnhealthy, Unhealthy, TypeOK
  <2> QED
    BY <1>0, <2>1, <2>3, <2>4, GateUndisturbed DEF FoundUnhealthy, readerVars
<1>22. ASSUME NEW p \in Polled, NEW e \in PollEvents, Poll(p, e) PROVE GateInv(f)'
  BY <1>0, <1>22, GateUndisturbed DEF Poll, readerVars, Unhealthy
<1>23. ASSUME NEW p \in Polled \cap Mains, PollFails(p) PROVE GateInv(f)'
  <2>1. FoundUnhealthy(p) /\ p \in Mains
    BY <1>23 DEF PollFails
  <2>2. pc[f] \in InCall => cur[f] # NoClient
    BY <1>0, Roles DEF ReaderInv
  <2>3. lapse[f] \subseteq lapse'[f] /\ (pc[f] \in InCall => p \in lapse'[f])
    BY <2>1, <2>2, Roles DEF FoundUnhealthy
  <2>4. Unhealthy' \subseteq Unhealthy \cup {p}
    BY <1>0, <2>1 DEF FoundUnhealthy, Unhealthy, TypeOK
  <2> QED
    BY <1>0, <2>1, <2>3, <2>4, GateUndisturbed DEF FoundUnhealthy, readerVars
<1>24. CASE UNCHANGED vars
  BY <1>0, <1>24, GateUndisturbed DEF vars, readerVars, healthVars, Unhealthy
<1> QED
  BY <1>1, <1>2, <1>3, <1>4, <1>5, <1>6, <1>7, <1>8, <1>9,
     <1>10, <1>11, <1>12, <1>13, <1>14, <1>15, <1>16, <1>17, <1>18, <1>19,
     <1>20, <1>21, <1>22, <1>23, <1>24
     DEF Next, ReaderStep, Finished

-----------------------------------------------------------------------------
(* The theorems.                                                           *)

\* IndInv is an invariant.
LEMMA Invariance == Spec => []IndInv
<1>1. IndInv /\ [Next]_vars => IndInv'
  BY TypesPreserved, ReadersKept, CacheKept, OutsidersKept, DeliveryKept, GateKept
     DEF IndInv
<1> QED
  BY InitIndInv, <1>1, PTL DEF Spec

\* The variables keep their types; in particular the deduplication cache never
\* outgrows dedupCacheSize and no channel its capacity.
THEOREM TypeCorrect == Spec => []TypeOK
<1>1. IndInv => TypeOK
  BY DEF IndInv
<1> QED
  BY <1>1, Invariance, PTL

\* An event is suppressed only if one with the same key was found new before,
\* whatever the readers do between Contains and Add, and whatever was evicted.
THEOREM SuppressedKeys == Spec => []SuppressedKeyWasSeen
<1>1. IndInv => SuppressedKeyWasSeen
  BY DEF IndInv
<1> QED
  BY <1>1, Invariance, PTL

\* Where keys tell the events of the history apart, as block hashes do unless the
\* chain returns to a block it had left, no event hides another one.
THEOREM SuppressedNew ==
    ASSUME \A a, b \in Events : Key[a] = Key[b] /\ Key[a] # 0 => a = b
    PROVE  Spec => []SuppressedWasNew
<1>1. IndInv => SuppressedWasNew
  <2> SUFFICES ASSUME IndInv, NEW u \in Upstreams, dup[u] PROVE ev[u] \in fresh
    BY DEF SuppressedWasNew
  <2>1. PICK b \in fresh : Key[b] = Key[ev[u]] /\ Key[ev[u]] # 0
    BY DEF IndInv, SuppressedKeyWasSeen, KeySeen
  <2>2. ev[u] \in Events /\ b \in Events
    BY <2>1 DEF IndInv, TypeOK, ReaderInv
  <2> QED
    BY <2>1, <2>2
<1> QED
  BY <1>1, Invariance, PTL

\* What was found new is not lost to the suppressed copies: every client
\* subscribed at that moment, and still subscribed, has it, lost it to its own
\* full channel, or is about to be called with it.
THEOREM SeenDelivered == Spec => []SeenIsDelivered
<1>1. IndInv => SeenIsDelivered
  BY DEF IndInv
<1> QED
  BY <1>1, Invariance, PTL

\* A fallback's block does not overtake a main that keeps healthy, though the gate
\* asks the mains one after the other.
THEOREM GateIsHeld == Spec => []GateHolds
<1>1. IndInv => GateHolds
  BY DEF IndInv, GateInv, GateHoldsFor, GateHolds
<1> QED
  BY <1>1, Invariance, PTL

=============================================================================
