------------------------ MODULE HealthMonitor_proofs ------------------------
(***************************************************************************)
(* The safety properties of HealthMonitor, for any upstreams, any range of *)
(* block numbers and any threshold.                                        *)
(*                                                                         *)
(* Handlers and lag checks share three variables without a common lock, so *)
(* the properties rest on what each handler still knows of what it read or *)
(* wrote some steps before: HandlerInv.                                    *)
(***************************************************************************)
EXTENDS HealthMonitor, TLAPS

\* A block number is being handled.
HasBlock(u) == pc[u] \in {"update", "markHealthy", "max"} => msg[u] \in Blocks

\* Between UpdateBlock and updateMaxBlock the block of the upstream is at least
\* the number handled, and ahead of maxBlock by that number only.
BlockIsHandled(u) ==
    pc[u] \in {"markHealthy", "max"} =>
        msg[u] <= block[u] /\ (block[u] <= msg[u] \/ block[u] <= maxBlock)

\* Only the reader of a newHeads feed marks healthy without a look at the lag.
OnlyFeedsMark(u) ==
    /\ fromWS[u] => u \in WsUpstreams
    /\ pc[u] = "markHealthy" => fromWS[u]

\* A handler about to judge by a maximum that is out of date: the check of the
\* new one has not begun.
StaleJudgeIsEarly(u) ==
    LagChecks /\ pc[u] = "judge" /\ mx[u] < maxBlock => timer[maxBlock] = "pending"

HandlerInv(u) ==
    HasBlock(u) /\ BlockIsHandled(u) /\ OnlyFeedsMark(u) /\ StaleJudgeIsEarly(u)

IndInv ==
    /\ TypeOK /\ MaxIsBestBlock /\ LaggardIsBeingChecked
    /\ \A u \in Upstreams : HandlerInv(u)

-----------------------------------------------------------------------------

\* The initial states satisfy the inductive invariant.
LEMMA InitIndInv == Init => IndInv
<1> SUFFICES ASSUME Init PROVE IndInv
  OBVIOUS
<1> USE NumberAssumption DEF Init
<1>1. TypeOK
  BY DEF TypeOK, HandlerPCs
<1>2. MaxIsBestBlock /\ LaggardIsBeingChecked
  BY DEF MaxIsBestBlock, LaggardIsBeingChecked
<1>3. ASSUME NEW u \in Upstreams PROVE HandlerInv(u)
  BY DEF HandlerInv, HasBlock, BlockIsHandled, OnlyFeedsMark, StaleJudgeIsEarly
<1> QED
  BY <1>1, <1>2, <1>3 DEF IndInv
\* The larger of two numbers.
LEMMA LargerProperty ==
    ASSUME NEW m \in Int, NEW n \in Int
    PROVE  /\ Larger(m, n) \in {m, n}
           /\ Larger(m, n) >= m /\ Larger(m, n) >= n
  BY DEF Larger

\* Every step keeps the types: block numbers stay within those announced.
LEMMA TypesPreserved == IndInv /\ [Next]_vars => TypeOK'
<1> SUFFICES ASSUME IndInv, [Next]_vars PROVE TypeOK'
  OBVIOUS
<1>0. TypeOK /\ \A u \in Upstreams : HasBlock(u)
  BY DEF IndInv, HandlerInv
<1> USE <1>0, NumberAssumption DEF TypeOK, HandlerPCs, Blocks, Larger, startVars, handlerVars, timerVars
<1>1. ASSUME NEW u \in Upstreams, NEW b \in Blocks, FetchOk(u, b) PROVE TypeOK'
  BY <1>1 DEF FetchOk, Receive
<1>2. ASSUME NEW u \in Upstreams, NEW b \in Blocks, OnBlock(u, b) PROVE TypeOK'
  BY <1>2 DEF OnBlock, Receive
<1>3. ASSUME NEW u \in Upstreams, NEW b \in Blocks, PollOk(u, b) PROVE TypeOK'
  BY <1>3 DEF PollOk, Receive
<1>4. ASSUME NEW u \in Upstreams, FetchFails(u) PROVE TypeOK'
  BY <1>4 DEF FetchFails
<1>5. ASSUME NEW u \in Upstreams, PollFails(u) PROVE TypeOK'
  BY <1>5 DEF PollFails
<1>6. ASSUME NEW reached \in SUBSET WsUpstreams, StartMonitoring(reached) PROVE TypeOK'
  BY <1>6 DEF StartMonitoring
<1>7. CASE Stop
  BY <1>7 DEF Stop
<1>8. ASSUME NEW u \in Upstreams, UpdateBlock(u) PROVE TypeOK'
  BY <1>8 DEF UpdateBlock
<1>9. ASSUME NEW u \in Upstreams, MarkHealthy(u) PROVE TypeOK'
  BY <1>9 DEF MarkHealthy
<1>10. ASSUME NEW u \in Upstreams, UpdateMax(u) PROVE TypeOK'
  BY <1>10 DEF UpdateMax, HasBlock
<1>11. ASSUME NEW u \in Upstreams, ReadMax(u) PROVE TypeOK'
  BY <1>11 DEF ReadMax
<1>12. ASSUME NEW u \in Upstreams, Judge(u) PROVE TypeOK'
  BY <1>12 DEF Judge, Return
<1>13. ASSUME NEW t \in Blocks, TimerFires(t) PROVE TypeOK'
  BY <1>13 DEF TimerFires
<1>14. ASSUME NEW t \in Blocks, NEW u \in Upstreams, CheckRead(t, u) PROVE TypeOK'
  BY <1>14 DEF CheckRead
<1>15. ASSUME NEW t \in Blocks, CheckMark(t) PROVE TypeOK'
  BY <1>15 DEF CheckMark
<1>16. ASSUME NEW t \in Blocks, CheckEnd(t) PROVE TypeOK'
  BY <1>16 DEF CheckEnd
<1>17. CASE UNCHANGED vars
  BY <1>17 DEF vars
<1> QED
  BY <1>1, <1>2, <1>3, <1>4, <1>5, <1>6, <1>7, <1>8, <1>9, <1>10,
     <1>11, <1>12, <1>13, <1>14, <1>15, <1>16, <1>17
     DEF Next, HandlerStep, CheckStep, Stopped

-----------------------------------------------------------------------------
(* What a handler knows.                                                   *)

\* maxBlock never recedes; when it grows, a lag check for it is scheduled.
LEMMA MaxGrows ==
    ASSUME TypeOK, TypeOK', [Next]_vars
    PROVE  /\ maxBlock' >= maxBlock
           /\ LagChecks /\ maxBlock' # maxBlock => timer'[maxBlock'] = "pending"
<1> USE NumberAssumption DEF TypeOK, Blocks
<1>1. ASSUME NEW u \in Upstreams, UpdateMax(u)
      PROVE  /\ maxBlock' >= maxBlock
             /\ LagChecks /\ maxBlock' # maxBlock => timer'[maxBlock'] = "pending"
  BY <1>1 DEF UpdateMax, Larger
<1>2. (\A u \in Upstreams : ~UpdateMax(u)) => maxBlock' = maxBlock
  BY DEF Next, HandlerStep, CheckStep, Stopped, vars, FetchOk, OnBlock, PollOk, Receive, FetchFails,
         PollFails, StartMonitoring, Stop, UpdateBlock, MarkHealthy, ReadMax, Judge, TimerFires,
         CheckRead, CheckMark, CheckEnd
<1> QED
  BY <1>1, <1>2

\* Every step keeps what the handlers know.
LEMMA HandlersKept == IndInv /\ [Next]_vars => \A v \in Upstreams : HandlerInv(v)'
<1> SUFFICES ASSUME IndInv, [Next]_vars, NEW v \in Upstreams PROVE HandlerInv(v)'
  OBVIOUS
<1>0. TypeOK /\ TypeOK' /\ HandlerInv(v) /\ MaxIsBestBlock
  BY TypesPreserved DEF IndInv
<1> USE <1>0, NumberAssumption, KindAssumption
    DEF TypeOK, HandlerPCs, Blocks, HandlerInv, HasBlock, BlockIsHandled, OnlyFeedsMark,
        StaleJudgeIsEarly, startVars, handlerVars, timerVars
<1>1. ASSUME NEW u \in Upstreams, NEW b \in Blocks, FetchOk(u, b) PROVE HandlerInv(v)'
  BY <1>1 DEF FetchOk, Receive, Polled
<1>2. ASSUME NEW u \in Upstreams, NEW b \in Blocks, OnBlock(u, b) PROVE HandlerInv(v)'
  BY <1>2 DEF OnBlock, Receive
<1>3. ASSUME NEW u \in Upstreams, NEW b \in Blocks, PollOk(u, b) PROVE HandlerInv(v)'
  BY <1>3 DEF PollOk, Receive, Polled
<1>4. ASSUME NEW u \in Upstreams, FetchFails(u) PROVE HandlerInv(v)'
  BY <1>4 DEF FetchFails
<1>5. ASSUME NEW u \in Upstreams, PollFails(u) PROVE HandlerInv(v)'
  BY <1>5 DEF PollFails
<1>6. ASSUME NEW reached \in SUBSET WsUpstreams, StartMonitoring(reached) PROVE HandlerInv(v)'
  BY <1>6 DEF StartMonitoring
<1>7. CASE Stop
  BY <1>7 DEF Stop
<1>8. ASSUME NEW u \in Upstreams, UpdateBlock(u) PROVE HandlerInv(v)'
  BY <1>8 DEF UpdateBlock, Larger, MaxIsBestBlock
<1>9. ASSUME NEW u \in Upstreams, MarkHealthy(u) PROVE HandlerInv(v)'
  BY <1>9 DEF MarkHealthy
<1>10. ASSUME NEW u \in Upstreams, UpdateMax(u) PROVE HandlerInv(v)'
  BY <1>10 DEF UpdateMax, Larger
<1>11. ASSUME NEW u \in Upstreams, ReadMax(u) PROVE HandlerInv(v)'
  BY <1>11 DEF ReadMax
<1>12. ASSUME NEW u \in Upstreams, Judge(u) PROVE HandlerInv(v)'
  BY <1>12 DEF Judge, Return
<1>13. ASSUME NEW t \in Blocks, TimerFires(t) PROVE HandlerInv(v)'
  BY <1>13 DEF TimerFires
<1>14. ASSUME NEW t \in Blocks, NEW u \in Upstreams, CheckRead(t, u) PROVE HandlerInv(v)'
  BY <1>14 DEF CheckRead
<1>15. ASSUME NEW t \in Blocks, CheckMark(t) PROVE HandlerInv(v)'
  BY <1>15 DEF CheckMark
<1>16. ASSUME NEW t \in Blocks, CheckEnd(t) PROVE HandlerInv(v)'
  BY <1>16 DEF CheckEnd
<1>17. CASE UNCHANGED vars
  BY <1>17 DEF vars
<1> QED
  BY <1>1, <1>2, <1>3, <1>4, <1>5, <1>6, <1>7, <1>8, <1>9, <1>10,
     <1>11, <1>12, <1>13, <1>14, <1>15, <1>16, <1>17
     DEF Next, HandlerStep, CheckStep, Stopped

-----------------------------------------------------------------------------
(* The maximum and the laggards.                                           *)

\* Every step keeps MaxIsBestBlock.
LEMMA MaxKept == IndInv /\ [Next]_vars => MaxIsBestBlock'
<1> SUFFICES ASSUME IndInv, [Next]_vars PROVE MaxIsBestBlock'
  OBVIOUS
<1>0. TypeOK /\ MaxIsBestBlock /\ \A u \in Upstreams : HasBlock(u) /\ BlockIsHandled(u)
  BY DEF IndInv, HandlerInv
<1> USE <1>0, NumberAssumption DEF TypeOK, HandlerPCs, Blocks, MaxIsBestBlock, startVars, handlerVars, timerVars
<1>1. ASSUME NEW u \in Upstreams, NEW b \in Blocks, FetchOk(u, b) PROVE MaxIsBestBlock'
  BY <1>1 DEF FetchOk, Receive
<1>2. ASSUME NEW u \in Upstreams, NEW b \in Blocks, OnBlock(u, b) PROVE MaxIsBestBlock'
  BY <1>2 DEF OnBlock, Receive
<1>3. ASSUME NEW u \in Upstreams, NEW b \in Blocks, PollOk(u, b) PROVE MaxIsBestBlock'
  BY <1>3 DEF PollOk, Receive
<1>4. ASSUME NEW u \in Upstreams, FetchFails(u) PROVE MaxIsBestBlock'
  BY <1>4 DEF FetchFails
<1>5. ASSUME NEW u \in Upstreams, PollFails(u) PROVE MaxIsBestBlock'
  BY <1>5 DEF PollFails
<1>6. ASSUME NEW reached \in SUBSET WsUpstreams, StartMonitoring(reached) PROVE MaxIsBestBlock'
  BY <1>6 DEF StartMonitoring
<1>7. CASE Stop
  BY <1>7 DEF Stop
<1>8. ASSUME NEW u \in Upstreams, UpdateBlock(u) PROVE MaxIsBestBlock'
  BY <1>8 DEF UpdateBlock, Larger
<1>9. ASSUME NEW u \in Upstreams, MarkHealthy(u) PROVE MaxIsBestBlock'
  BY <1>9 DEF MarkHealthy
<1>10. ASSUME NEW u \in Upstreams, UpdateMax(u) PROVE MaxIsBestBlock'
  BY <1>10 DEF UpdateMax, Larger, HasBlock, BlockIsHandled
<1>11. ASSUME NEW u \in Upstreams, ReadMax(u) PROVE MaxIsBestBlock'
  BY <1>11 DEF ReadMax
<1>12. ASSUME NEW u \in Upstreams, Judge(u) PROVE MaxIsBestBlock'
  BY <1>12 DEF Judge, Return
<1>13. ASSUME NEW t \in Blocks, TimerFires(t) PROVE MaxIsBestBlock'
  BY <1>13 DEF TimerFires
<1>14. ASSUME NEW t \in Blocks, NEW u \in Upstreams, CheckRead(t, u) PROVE MaxIsBestBlock'
  BY <1>14 DEF CheckRead
<1>15. ASSUME NEW t \in Blocks, CheckMark(t) PROVE MaxIsBestBlock'
  BY <1>15 DEF CheckMark
<1>16. ASSUME NEW t \in Blocks, CheckEnd(t) PROVE MaxIsBestBlock'
  BY <1>16 DEF CheckEnd
<1>17. CASE UNCHANGED vars
  BY <1>17 DEF vars
<1> QED
  BY <1>1, <1>2, <1>3, <1>4, <1>5, <1>6, <1>7, <1>8, <1>9, <1>10,
     <1>11, <1>12, <1>13, <1>14, <1>15, <1>16, <1>17
     DEF Next, HandlerStep, CheckStep, Stopped

\* Every step keeps LaggardIsBeingChecked.
LEMMA LaggardsKept == IndInv /\ [Next]_vars => LaggardIsBeingChecked'
<1> SUFFICES ASSUME IndInv, [Next]_vars PROVE LaggardIsBeingChecked'
  OBVIOUS
<1>0. TypeOK /\ LaggardIsBeingChecked /\ \A u \in Upstreams : HasBlock(u) /\ OnlyFeedsMark(u) /\ StaleJudgeIsEarly(u)
  BY DEF IndInv, HandlerInv
<1> USE <1>0, NumberAssumption, NobodyAssumption
    DEF TypeOK, HandlerPCs, Blocks, LaggardIsBeingChecked, startVars, handlerVars, timerVars
<1>1. ASSUME NEW u \in Upstreams, NEW b \in Blocks, FetchOk(u, b) PROVE LaggardIsBeingChecked'
  BY <1>1 DEF FetchOk, Receive
<1>2. ASSUME NEW u \in Upstreams, NEW b \in Blocks, OnBlock(u, b) PROVE LaggardIsBeingChecked'
  BY <1>2 DEF OnBlock, Receive
<1>3. ASSUME NEW u \in Upstreams, NEW b \in Blocks, PollOk(u, b) PROVE LaggardIsBeingChecked'
  BY <1>3 DEF PollOk, Receive
<1>4. ASSUME NEW u \in Upstreams, FetchFails(u) PROVE LaggardIsBeingChecked'
  BY <1>4 DEF FetchFails
<1>5. ASSUME NEW u \in Upstreams, PollFails(u) PROVE LaggardIsBeingChecked'
  BY <1>5 DEF PollFails
<1>6. ASSUME NEW reached \in SUBSET WsUpstreams, StartMonitoring(reached) PROVE LaggardIsBeingChecked'
  BY <1>6 DEF StartMonitoring
<1>7. CASE Stop
  BY <1>7 DEF Stop
<1>8. ASSUME NEW u \in Upstreams, UpdateBlock(u) PROVE LaggardIsBeingChecked'
  BY <1>8 DEF UpdateBlock, Larger
<1>9. ASSUME NEW u \in Upstreams, MarkHealthy(u) PROVE LaggardIsBeingChecked'
  BY <1>9 DEF MarkHealthy, OnlyFeedsMark
<1>10. ASSUME NEW u \in Upstreams, UpdateMax(u) PROVE LaggardIsBeingChecked'
  BY <1>10 DEF UpdateMax, Larger, HasBlock
<1>11. ASSUME NEW u \in Upstreams, ReadMax(u) PROVE LaggardIsBeingChecked'
  BY <1>11 DEF ReadMax
<1>12. ASSUME NEW u \in Upstreams, Judge(u) PROVE LaggardIsBeingChecked'
  BY <1>12 DEF Judge, Return, StaleJudgeIsEarly
<1>13. ASSUME NEW t \in Blocks, TimerFires(t) PROVE LaggardIsBeingChecked'
  BY <1>13 DEF TimerFires
<1>14. ASSUME NEW t \in Blocks, NEW u \in Upstreams, CheckRead(t, u) PROVE LaggardIsBeingChecked'
  BY <1>14 DEF CheckRead
<1>15. ASSUME NEW t \in Blocks, CheckMark(t) PROVE LaggardIsBeingChecked'
  BY <1>15 DEF CheckMark
<1>16. ASSUME NEW t \in Blocks, CheckEnd(t) PROVE LaggardIsBeingChecked'
  BY <1>16 DEF CheckEnd
<1>17. CASE UNCHANGED vars
  BY <1>17 DEF vars
<1> QED
  BY <1>1, <1>2, <1>3, <1>4, <1>5, <1>6, <1>7, <1>8, <1>9, <1>10,
     <1>11, <1>12, <1>13, <1>14, <1>15, <1>16, <1>17
     DEF Next, HandlerStep, CheckStep, Stopped

-----------------------------------------------------------------------------
(* The theorems.                                                           *)

\* IndInv is an invariant.
LEMMA Invariance == Spec => []IndInv
<1>1. IndInv /\ [Next]_vars => IndInv'
  BY TypesPreserved, HandlersKept, MaxKept, LaggardsKept DEF IndInv
<1> QED
  BY InitIndInv, <1>1, PTL DEF Spec

\* The variables keep their types; block numbers stay within those announced.
THEOREM TypeCorrect == Spec => []TypeOK
<1>1. IndInv => TypeOK
  BY DEF IndInv
<1> QED
  BY <1>1, Invariance, PTL

\* updateMaxBlock and UpdateBlock race over different variables, and still
\* maxBlock is never ahead of every upstream's block, nor behind the block of an
\* upstream whose handler has passed it.
THEOREM MaxIsBest == Spec => []MaxIsBestBlock
<1>1. IndInv => MaxIsBestBlock
  BY DEF IndInv
<1> QED
  BY <1>1, Invariance, PTL

\* A polled upstream beyond the threshold that still counts as healthy always
\* has a lag check on its way, whatever a stale judgement or an earlier check
\* does in between.
THEOREM LaggardsChecked == Spec => []LaggardIsBeingChecked
<1>1. IndInv => LaggardIsBeingChecked
  BY DEF IndInv
<1> QED
  BY <1>1, Invariance, PTL

=============================================================================
