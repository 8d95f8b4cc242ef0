---------------------------- MODULE HealthMonitor ----------------------------
(***************************************************************************)
(* src/internal/upstream/health.go: which upstreams count as healthy.      *)
(*                                                                         *)
(* Goroutines: per upstream a poller or the reader of its newHeads feed,   *)
(* which handles one block number at a time (pc), and one goroutine per    *)
(* fired lag check timer.  They share Status.healthy, Status.currentBlock  *)
(* (atomics) and maxBlock (under hm.mu); between two accesses anyone may   *)
(* run.                                                                    *)
(***************************************************************************)
EXTENDS Integers, FiniteSets

CONSTANTS
    Upstreams,
    WsUpstreams,    \* those with a WebSocket URL
    RpcUpstreams,   \* those with an HTTP URL
    MaxBlock,       \* bound: block numbers are 1..MaxBlock
    Reports,        \* bound: those of them that an upstream reports
    Threshold,      \* blockLagThreshold
    LagChecks,      \* lagRecoveryTimeout > 0
    Nobody          \* "no upstream"

ASSUME KindAssumption ==
    /\ WsUpstreams \subseteq Upstreams /\ RpcUpstreams \subseteq Upstreams
    /\ Upstreams = WsUpstreams \cup RpcUpstreams
ASSUME NumberAssumption ==
    /\ MaxBlock \in Nat /\ Threshold \in Nat
    /\ Reports \in [Upstreams -> SUBSET (1..MaxBlock)]
ASSUME LagAssumption    == LagChecks \in BOOLEAN
ASSUME NobodyAssumption == Nobody \notin Upstreams

Blocks == 1..MaxBlock

VARIABLES
    phase,      \* "starting" (initial fetch), "running", "stopped" (ctx done)
    fetched,    \* upstreams whose initial fetch was made
    feeds,      \* WebSocket upstreams the shared subscription reached
    healthy,    \* Status.healthy
    block,      \* Status.currentBlock
    maxBlock,   \* hm.maxBlock
    pc,         \* where the goroutine of the upstream is in its handler
    fromWS,     \* its handler is OnBlock, not pollBlockNumber
    msg,        \* the block number it handles
    mx,         \* the maxBlock it read
    timer,      \* state of the lag check of each target block
    todo,       \* upstreams that check has still to look at
    hit         \* the upstream it is about to mark unhealthy

handlerVars == <<pc, fromWS, msg, mx>>
timerVars   == <<timer, todo, hit>>
startVars   == <<phase, fetched, feeds>>
vars == <<startVars, healthy, block, maxBlock, handlerVars, timerVars>>

HandlerPCs == {"idle", "update", "markHealthy", "max", "readMax", "judge"}

\* Upstreams monitored by polling: all when the shared subscription failed,
\* else those without WebSocket.
Polled(u) == u \in RpcUpstreams /\ (feeds = {} \/ u \notin WsUpstreams)

Larger(a, b) == IF a > b THEN a ELSE b

\* The handler returns: its locals are gone.
Return(u) ==
    /\ pc'     = [pc EXCEPT ![u] = "idle"]
    /\ fromWS' = [fromWS EXCEPT ![u] = FALSE]
    /\ msg'    = [msg EXCEPT ![u] = 0]
    /\ mx'     = [mx EXCEPT ![u] = 0]

Init ==
    /\ phase = "starting" /\ fetched = {} /\ feeds = {}
    /\ healthy = [u \in Upstreams |-> TRUE]
    /\ block   = [u \in Upstreams |-> 0]
    /\ maxBlock = 0
    /\ pc     = [u \in Upstreams |-> "idle"]
    /\ fromWS = [u \in Upstreams |-> FALSE]
    /\ msg    = [u \in Upstreams |-> 0]
    /\ mx     = [u \in Upstreams |-> 0]
    /\ timer  = [t \in Blocks |-> "none"]
    /\ todo   = [t \in Blocks |-> {}]
    /\ hit    = [t \in Blocks |-> Nobody]

-----------------------------------------------------------------------------
(* Faulty variants of the actions below, to show the properties can fail.  *)

\* maxBlock overwritten without the comparison.
UpdateMax_NoCompare(u) ==
    /\ pc[u] = "max"
    /\ maxBlock' = msg[u]
    /\ timer' = IF LagChecks THEN [timer EXCEPT ![msg[u]] = "pending"] ELSE timer
    /\ pc' = [pc EXCEPT ![u] = "readMax"]
    /\ UNCHANGED <<startVars, healthy, block, fromWS, msg, mx, todo, hit>>

\* The next block expected instead of the one seen.
UpdateMax_PlusOne(u) ==
    /\ pc[u] = "max"
    /\ maxBlock' = Larger(maxBlock, msg[u] + 1)
    /\ UNCHANGED timer
    /\ pc' = [pc EXCEPT ![u] = "readMax"]
    /\ UNCHANGED <<startVars, healthy, block, fromWS, msg, mx, todo, hit>>

\* A check scheduled only when some upstream is already unhealthy.
UpdateMax_NoTimer(u) ==
    /\ pc[u] = "max"
    /\ maxBlock' = Larger(maxBlock, msg[u])
    /\ timer' = IF LagChecks /\ maxBlock' > maxBlock /\ \E v \in Upstreams : ~healthy[v]
                  THEN [timer EXCEPT ![msg[u]] = "pending"] ELSE timer
    /\ pc' = [pc EXCEPT ![u] = "readMax"]
    /\ UNCHANGED <<startVars, healthy, block, fromWS, msg, mx, todo, hit>>

\* lag >= threshold + 2.
CheckRead_OffByOne(t, u) ==
    /\ timer[t] = "running" /\ hit[t] = Nobody /\ u \in todo[t]
    /\ todo' = [todo EXCEPT ![t] = @ \ {u}]
    /\ hit'  = IF t - block[u] > Threshold + 1 THEN [hit EXCEPT ![t] = u] ELSE hit
    /\ UNCHANGED <<startVars, healthy, block, maxBlock, handlerVars, timer>>

\* lag < threshold instead of <=.
Judge_Strict(u) ==
    /\ pc[u] = "judge"
    /\ healthy' = IF mx[u] # 0 /\ block[u] # 0 /\ mx[u] - block[u] < Threshold
                    THEN [healthy EXCEPT ![u] = TRUE] ELSE healthy
    /\ Return(u)
    /\ UNCHANGED <<startVars, block, maxBlock, timerVars>>

-----------------------------------------------------------------------------
(* Where block numbers come from.                                          *)

Receive(u, b, ws) ==
    /\ pc[u] = "idle"
    /\ pc'     = [pc EXCEPT ![u] = "update"]
    /\ fromWS' = [fromWS EXCEPT ![u] = ws]
    /\ msg'    = [msg EXCEPT ![u] = b]
    /\ UNCHANGED <<healthy, block, maxBlock, mx, timerVars>>

\* fetchInitialBlocks: one poll per HTTP upstream, in parallel.
FetchOk(u, b) ==
    /\ phase = "starting" /\ u \in RpcUpstreams \ fetched
    /\ Receive(u, b, FALSE)
    /\ fetched' = fetched \cup {u}
    /\ UNCHANGED <<phase, feeds>>

FetchFails(u) ==
    /\ phase = "starting" /\ u \in RpcUpstreams \ fetched
    /\ healthy' = [healthy EXCEPT ![u] = FALSE]
    /\ fetched' = fetched \cup {u}
    /\ UNCHANGED <<phase, feeds, block, maxBlock, handlerVars, timerVars>>

\* Start after the initial fetch: SubscribeNewHeads reaches some of the
\* WebSocket upstreams, or fails (none) and everything is polled.
StartMonitoring(reached) ==
    /\ phase = "starting" /\ RpcUpstreams \subseteq fetched
    /\ \A u \in Upstreams : pc[u] = "idle"
    /\ phase' = "running" /\ feeds' = reached
    /\ UNCHANGED <<fetched, healthy, block, maxBlock, handlerVars, timerVars>>

\* A newHeads event.  Feeds may repeat a block or deliver an older one.
OnBlock(u, b) ==
    /\ phase = "running" /\ u \in feeds
    /\ Receive(u, b, TRUE)
    /\ UNCHANGED startVars

\* pollBlockNumber gets an answer.
PollOk(u, b) ==
    /\ phase = "running" /\ Polled(u)
    /\ Receive(u, b, FALSE)
    /\ UNCHANGED startVars

\* pollBlockNumber fails: no answer, an error or nonsense, or hm.ctx is done.
PollFails(u) ==
    /\ phase \in {"running", "stopped"} /\ Polled(u) /\ pc[u] = "idle"
    /\ healthy' = [healthy EXCEPT ![u] = FALSE]
    /\ UNCHANGED <<startVars, block, maxBlock, handlerVars, timerVars>>

\* Stop: unsubscribe and cancel hm.ctx.  Handlers under way go on.
Stop ==
    /\ phase = "running" /\ phase' = "stopped"
    /\ UNCHANGED <<fetched, feeds, healthy, block, maxBlock, handlerVars, timerVars>>

-----------------------------------------------------------------------------
(* Handling a block number.                                                *)

\* Status.UpdateBlock: a compare-and-swap loop that keeps the larger number.
UpdateBlock(u) ==
    /\ pc[u] = "update"
    /\ block' = [block EXCEPT ![u] = Larger(@, msg[u])]
    /\ pc' = [pc EXCEPT ![u] = IF fromWS[u] THEN "markHealthy" ELSE "max"]
    /\ UNCHANGED <<startVars, healthy, maxBlock, fromWS, msg, mx, timerVars>>

\* OnBlock: SetHealthy(true), whatever the block number is.
MarkHealthy(u) ==
    /\ pc[u] = "markHealthy"
    /\ healthy' = [healthy EXCEPT ![u] = TRUE]
    /\ pc' = [pc EXCEPT ![u] = "max"]
    /\ UNCHANGED <<startVars, block, maxBlock, fromWS, msg, mx, timerVars>>

\* updateMaxBlock, and scheduleLagCheck for a new maximum.
UpdateMax(u) ==
    /\ pc[u] = "max"
    /\ maxBlock' = Larger(maxBlock, msg[u])
    /\ timer' = IF LagChecks /\ maxBlock' > maxBlock
                  THEN [timer EXCEPT ![msg[u]] = "pending"] ELSE timer
    /\ pc' = [pc EXCEPT ![u] = "readMax"]
    /\ UNCHANGED <<startVars, healthy, block, fromWS, msg, mx, todo, hit>>

\* checkUpstreamCaughtUp, first part: maxBlock under hm.mu.
ReadMax(u) ==
    /\ pc[u] = "readMax"
    /\ mx' = [mx EXCEPT ![u] = maxBlock]
    /\ pc' = [pc EXCEPT ![u] = "judge"]
    /\ UNCHANGED <<startVars, healthy, block, maxBlock, fromWS, msg, timerVars>>

\* checkUpstreamCaughtUp, second part: within the threshold it is healthy; a
\* larger lag changes nothing here.
Judge(u) ==
    /\ pc[u] = "judge"
    /\ healthy' = IF mx[u] # 0 /\ block[u] # 0 /\ mx[u] - block[u] <= Threshold
                    THEN [healthy EXCEPT ![u] = TRUE] ELSE healthy
    /\ Return(u)
    /\ UNCHANGED <<startVars, block, maxBlock, timerVars>>

-----------------------------------------------------------------------------
(* Lag checks.                                                             *)

\* The timer of target t fires.  It was armed lagRecoveryTimeout (seconds)
\* ago; a handler takes microseconds from ReadMax to Judge, so none is still
\* about to judge by an older maximum than t.
TimerFires(t) ==
    /\ timer[t] = "pending"
    /\ \A u \in Upstreams : pc[u] = "judge" => mx[u] >= t
    /\ IF phase = "stopped"
         THEN timer' = [timer EXCEPT ![t] = "done"] /\ UNCHANGED todo
         ELSE /\ timer' = [timer EXCEPT ![t] = "running"]
              /\ todo'  = [todo EXCEPT ![t] = Upstreams]
    /\ UNCHANGED <<startVars, healthy, block, maxBlock, handlerVars, hit>>

\* checkLagForBlock looks at the block of the next upstream ...
CheckRead(t, u) ==
    /\ timer[t] = "running" /\ hit[t] = Nobody /\ u \in todo[t]
    /\ todo' = [todo EXCEPT ![t] = @ \ {u}]
    /\ hit'  = IF t - block[u] > Threshold THEN [hit EXCEPT ![t] = u] ELSE hit
    /\ UNCHANGED <<startVars, healthy, block, maxBlock, handlerVars, timer>>

\* ... and marks it unhealthy, whatever the upstream reported in between.
CheckMark(t) ==
    /\ timer[t] = "running" /\ hit[t] # Nobody
    /\ healthy' = [healthy EXCEPT ![hit[t]] = FALSE]
    /\ hit'     = [hit EXCEPT ![t] = Nobody]
    /\ UNCHANGED <<startVars, block, maxBlock, handlerVars, timer, todo>>

CheckEnd(t) ==
    /\ timer[t] = "running" /\ hit[t] = Nobody /\ todo[t] = {}
    /\ timer' = [timer EXCEPT ![t] = "done"]
    /\ UNCHANGED <<startVars, healthy, block, maxBlock, handlerVars, todo, hit>>

-----------------------------------------------------------------------------

HandlerStep(u) ==
    UpdateBlock(u) \/ MarkHealthy(u) \/ UpdateMax(u) \/ ReadMax(u) \/ Judge(u)

CheckStep(t) ==
    \/ TimerFires(t) \/ CheckMark(t) \/ CheckEnd(t)
    \/ \E u \in Upstreams : CheckRead(t, u)

\* Stopped for good: nothing under way.
Stopped ==
    /\ phase = "stopped"
    /\ \A u \in Upstreams : pc[u] = "idle"
    /\ \A t \in Blocks : timer[t] \in {"none", "done"}
    /\ UNCHANGED vars

Next ==
    \/ \E u \in Upstreams : \E b \in Reports[u] : FetchOk(u, b) \/ OnBlock(u, b) \/ PollOk(u, b)
    \/ \E u \in Upstreams : FetchFails(u) \/ PollFails(u)
    \/ \E reached \in SUBSET WsUpstreams : StartMonitoring(reached)
    \/ Stop
    \/ \E u \in Upstreams : HandlerStep(u)
    \/ \E t \in Blocks : CheckStep(t)
    \/ Stopped

Spec == Init /\ [][Next]_vars

\* Handlers and fired timers run; Start goes on after the initial fetch (whose
\* polls end within 10 s); of the polls of an upstream some succeed.
Fairness ==
    /\ \A u \in Upstreams : WF_vars(HandlerStep(u))
    /\ \A t \in Blocks : WF_vars(CheckStep(t))
    /\ \A u \in Upstreams :
          WF_vars(FetchFails(u) \/ \E b \in Reports[u] : FetchOk(u, b))
    /\ WF_vars(\E reached \in SUBSET WsUpstreams : StartMonitoring(reached))
    /\ \A u \in Upstreams : SF_vars(\E b \in Reports[u] : PollOk(u, b))

FairSpec == Spec /\ Fairness

-----------------------------------------------------------------------------
(* Properties.                                                             *)

TypeOK ==
    /\ phase \in {"starting", "running", "stopped"}
    /\ fetched \subseteq RpcUpstreams /\ feeds \subseteq WsUpstreams
    /\ healthy \in [Upstreams -> BOOLEAN]
    /\ block \in [Upstreams -> 0..MaxBlock]
    /\ maxBlock \in 0..MaxBlock
    /\ pc \in [Upstreams -> HandlerPCs]
    /\ fromWS \in [Upstreams -> BOOLEAN]
    /\ msg \in [Upstreams -> 0..MaxBlock]
    /\ mx \in [Upstreams -> 0..MaxBlock]
    /\ timer \in [Blocks -> {"none", "pending", "running", "done"}]
    /\ todo \in [Blocks -> SUBSET Upstreams]
    /\ hit \in [Blocks -> Upstreams \cup {Nobody}]

\* updateMaxBlock and UpdateBlock race over different variables: maxBlock is
\* never ahead of every upstream's own block, and never behind the block of an
\* upstream whose handler has passed it.
MaxIsBestBlock ==
    /\ maxBlock # 0 => \E u \in Upstreams : block[u] >= maxBlock
    /\ \A u \in Upstreams : pc[u] \notin {"markHealthy", "max"} => block[u] <= maxBlock

\* A polled upstream that lags behind maxBlock by more than the threshold and
\* still counts as healthy has a lag check on its way: the timer of maxBlock
\* is armed, or its check has yet to mark the upstream.
LaggardIsBeingChecked ==
    LagChecks =>
    \A u \in Upstreams \ WsUpstreams :
        healthy[u] /\ maxBlock - block[u] > Threshold /\ phase # "stopped" =>
            \/ timer[maxBlock] = "pending"
            \/ timer[maxBlock] = "running" /\ (u \in todo[maxBlock] \/ hit[maxBlock] = u)

Lagging(u) == maxBlock - block[u] > Threshold

\* So a polled laggard is marked unhealthy, unless it catches up.
LaggardIsMarked ==
    \A u \in Upstreams \ WsUpstreams :
        Lagging(u) ~> (~healthy[u] \/ ~Lagging(u) \/ phase = "stopped")

\* A polled upstream within the threshold becomes healthy again, even after a
\* failed poll or a lag check that read its block too early.
PolledRecovers ==
    \A u \in Upstreams \ WsUpstreams :
        block[u] # 0 /\ ~Lagging(u) ~> (healthy[u] \/ Lagging(u) \/ phase = "stopped")

\* docs/health-monitoring.md:71: "healthy = (lag <= blockLagThreshold)".  When
\* no handler and no lag check is under way or scheduled, no upstream that lags
\* by more than the threshold counts as healthy.
Settled ==
    /\ phase = "running"
    /\ \A u \in Upstreams : pc[u] = "idle"
    /\ \A t \in Blocks : timer[t] \in {"none", "done"}

LaggingIsUnhealthy ==
    Settled => \A u \in Upstreams : healthy[u] => maxBlock - block[u] <= Threshold
=============================================================================
