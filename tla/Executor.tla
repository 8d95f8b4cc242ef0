------------------------------- MODULE Executor -------------------------------
(***************************************************************************)
(* How a request finds an upstream: the Executor of proxy/retry.go with    *)
(* the weighted round-robin balancer of balancer.go and the health checks  *)
(* of pool.go.  ExecuteWithPool makes a new balancer for every request, so *)
(* requests share nothing but the health of the upstreams, which changes   *)
(* under them.                                                             *)
(***************************************************************************)
EXTENDS Naturals, Sequences, FiniteSets

CONSTANTS
    Requests,
    Order,          \* the upstreams of the pool, in the order of the config
    Mains,          \* those with role main; the others are fallbacks
    Rpc,            \* those with an HTTP URL
    Weight,         \* their weights
    RetryEnabled,
    MaxAttempts,
    MaxFlips        \* bound: changes of health

Upstreams == {Order[i] : i \in 1..Len(Order)}
Fallbacks == Upstreams \ Mains

ASSUME PoolAssumption ==
    /\ Order \in Seq(Upstreams)
    /\ \A i, j \in 1..Len(Order) : Order[i] = Order[j] => i = j
    /\ Mains \subseteq Upstreams /\ Rpc \subseteq Upstreams
ASSUME WeightAssumption == Weight \in [Upstreams -> Nat \ {0}]
ASSUME RetryAssumption ==
    RetryEnabled \in BOOLEAN /\ MaxAttempts \in Nat \ {0} /\ MaxFlips \in Nat

VARIABLES
    pc,         \* where the goroutine of a request is
    batch,      \* it executes a batch
    tried,      \* names in the tried map
    attempt,    \* attempts that failed
    list,       \* upstreams Next chooses from
    index,      \* currentIndex of its balancer, plus one
    weight,     \* currentWeight
    target,     \* the upstream it asks, or asked last
    lastResp,   \* a retryable error response was kept
    result,     \* how it ended
    calls,      \* how often the request was sent to each upstream
    healthy,    \* Status.healthy of each upstream
    flips,      \* changes of health so far
    lapse,      \* upstreams unhealthy at some moment since the request began
    cancelled   \* the request's context is done

balancerVars == <<list, index, weight>>
requestVars  == <<pc, batch, tried, attempt, target, lastResp, result, calls, cancelled>>
healthVars   == <<healthy, flips, lapse>>
vars == <<requestVars, balancerVars, healthVars>>

PCs     == {"idle", "mains", "fallbacks", "scan", "chosen", "call", "failed", "done"}
Results == {"none", "ok", "rpcError", "lastError", "unavailable", "cancelled"}

NoTarget == "none"

Goto(r, where) == pc' = [pc EXCEPT ![r] = where]

\* An upstream's place among the upstreams of S, in the order of the pool.
Rank(S, u) == Cardinality({i \in 1..Len(Order) : Order[i] \in S /\
                              \E j \in i..Len(Order) : Order[j] = u})

Healthy(S) == {u \in S : healthy[u]}

Divides(d, n) == \E k \in 1..n : n = d * k

maxWeight(S) == CHOOSE w \in {Weight[u] : u \in S} : \A u \in S : Weight[u] <= w

gcdWeights(S) ==
    LET common == {d \in 1..maxWeight(S) : \A u \in S : Divides(d, Weight[u])}
    IN  CHOOSE d \in common : \A e \in common : e <= d

Init ==
    /\ pc       = [r \in Requests |-> "idle"]
    /\ batch    = [r \in Requests |-> FALSE]
    /\ tried    = [r \in Requests |-> {}]
    /\ attempt  = [r \in Requests |-> 0]
    /\ list     = [r \in Requests |-> {}]
    /\ index    = [r \in Requests |-> 0]
    /\ weight   = [r \in Requests |-> 0]
    /\ target   = [r \in Requests |-> NoTarget]
    /\ lastResp = [r \in Requests |-> FALSE]
    /\ result   = [r \in Requests |-> "none"]
    /\ calls    = [r \in Requests |-> [u \in Upstreams |-> 0]]
    /\ healthy  = [u \in Upstreams |-> TRUE]
    /\ flips    = 0
    /\ lapse    = [r \in Requests |-> {}]
    /\ cancelled = [r \in Requests |-> FALSE]

-----------------------------------------------------------------------------
(* Faulty variants of the actions below, to show the properties can fail.  *)

\* The whole pool instead of the main upstreams.
TryMains_All(r) ==
    /\ pc[r] = "mains"
    /\ list' = [list EXCEPT ![r] = Healthy(Upstreams) \ tried[r]]
    /\ Goto(r, IF list'[r] = {} THEN "fallbacks" ELSE "scan")
    /\ UNCHANGED <<batch, tried, attempt, target, lastResp, result, calls, cancelled,
                   index, weight, healthVars>>

\* Fallbacks not filtered by the exclude map.
TryFallbacks_Unfiltered(r) ==
    /\ pc[r] = "fallbacks"
    /\ list' = [list EXCEPT ![r] = Healthy(Fallbacks)]
    /\ Goto(r, IF list'[r] = {} THEN "done" ELSE "scan")
    /\ result' = IF list'[r] = {} THEN [result EXCEPT ![r] = "unavailable"] ELSE result
    /\ UNCHANGED <<batch, tried, attempt, target, lastResp, calls, cancelled,
                   index, weight, healthVars>>

\* No fallback once a main upstream was tried.
TryFallbacks_OnlyFirst(r) ==
    /\ pc[r] = "fallbacks"
    /\ list' = [list EXCEPT ![r] = IF tried[r] = {} THEN Healthy(Fallbacks) ELSE {}]
    /\ IF list'[r] = {}
         THEN /\ Goto(r, "done")
              /\ result' = [result EXCEPT ![r] =
                              IF lastResp[r] THEN "lastError" ELSE "unavailable"]
         ELSE Goto(r, "scan") /\ UNCHANGED result
    /\ UNCHANGED <<batch, tried, attempt, target, lastResp, calls, cancelled,
                   index, weight, healthVars>>

\* currentWeight is not wrapped around to the maximum.
Advance_NoWrap(r) ==
    /\ pc[r] = "scan" /\ Cardinality(list[r]) > 1
    /\ \E u \in list[r] :
          LET i == (index[r] % Cardinality(list[r])) + 1
              w == IF i = 1 /\ weight[r] = 0 THEN maxWeight(list[r]) + 1 ELSE weight[r]
          IN  /\ Rank(list[r], u) = i
              /\ index'  = [index EXCEPT ![r] = i]
              /\ weight' = [weight EXCEPT ![r] = w]
              /\ IF Weight[u] >= w
                   THEN target' = [target EXCEPT ![r] = u] /\ Goto(r, "chosen")
                   ELSE UNCHANGED <<target, pc>>
    /\ UNCHANGED <<batch, tried, attempt, lastResp, result, calls, cancelled,
                   list, healthVars>>

\* A batch keeps its last answers too.
AnswerRetryable_KeepsBatch(r) ==
    /\ pc[r] = "call"
    /\ lastResp' = [lastResp EXCEPT ![r] = TRUE]
    /\ Goto(r, "failed")
    /\ UNCHANGED <<batch, tried, attempt, target, result, calls, cancelled,
                   balancerVars, healthVars>>

\* attempt <= maxAttempts.
NextAttempt_OneMore(r) ==
    /\ pc[r] = "failed"
    /\ attempt' = [attempt EXCEPT ![r] = @ + 1]
    /\ IF cancelled[r] \/ ~RetryEnabled \/ attempt'[r] = MaxAttempts + 1
         THEN Goto(r, "done") /\ result' = [result EXCEPT ![r] = "unavailable"]
         ELSE Goto(r, "mains") /\ UNCHANGED result
    /\ UNCHANGED <<batch, tried, target, lastResp, calls, cancelled,
                   balancerVars, healthVars>>

-----------------------------------------------------------------------------
(* Execute and ExecuteBatch begin.                                         *)

Start(r, b) ==
    /\ pc[r] = "idle"
    /\ batch' = [batch EXCEPT ![r] = b]
    /\ lapse' = [lapse EXCEPT ![r] = {u \in Upstreams : ~healthy[u]}]
    /\ Goto(r, "mains")
    /\ UNCHANGED <<tried, attempt, target, lastResp, result, calls, cancelled,
                   balancerVars, healthy, flips>>

-----------------------------------------------------------------------------
(* WeightedRoundRobin.Next.                                                *)

\* getAvailable: the healthy main upstreams that are not excluded ...
TryMains(r) ==
    /\ pc[r] = "mains"
    /\ list' = [list EXCEPT ![r] = Healthy(Mains) \ tried[r]]
    /\ Goto(r, IF list'[r] = {} THEN "fallbacks" ELSE "scan")
    /\ UNCHANGED <<batch, tried, attempt, target, lastResp, result, calls, cancelled,
                   index, weight, healthVars>>

\* ... and, when there is none, a moment later the healthy fallbacks.  With
\* none of these either, Next is nil and the request ends: with the error
\* response it kept, if it is a single request that has one.
TryFallbacks(r) ==
    /\ pc[r] = "fallbacks"
    /\ list' = [list EXCEPT ![r] = Healthy(Fallbacks) \ tried[r]]
    /\ IF list'[r] # {}
         THEN Goto(r, "scan") /\ UNCHANGED result
         ELSE /\ Goto(r, "done")
              /\ result' = [result EXCEPT ![r] =
                              IF cancelled[r]  THEN "cancelled"
                              ELSE IF lastResp[r] THEN "lastError" ELSE "unavailable"]
    /\ UNCHANGED <<batch, tried, attempt, target, lastResp, calls, cancelled,
                   index, weight, healthVars>>

\* A single available upstream is taken as it is.
TakeOnly(r) ==
    /\ pc[r] = "scan" /\ Cardinality(list[r]) = 1
    /\ \E u \in list[r] : target' = [target EXCEPT ![r] = u]
    /\ Goto(r, "chosen")
    /\ UNCHANGED <<batch, tried, attempt, lastResp, result, calls, cancelled,
                   balancerVars, healthVars>>

\* One turn of the selection loop: the next upstream of the list; at its start
\* the weight to reach falls by the gcd, and starts again at the maximum.
Advance(r) ==
    /\ pc[r] = "scan" /\ Cardinality(list[r]) > 1
    /\ \E u \in list[r] :
          LET i == (index[r] % Cardinality(list[r])) + 1
              w == CASE i # 1                                   -> weight[r]
                     [] i = 1 /\ weight[r] > gcdWeights(list[r]) ->
                            weight[r] - gcdWeights(list[r])
                     [] OTHER                                   -> maxWeight(list[r])
          IN  /\ Rank(list[r], u) = i
              /\ index'  = [index EXCEPT ![r] = i]
              /\ weight' = [weight EXCEPT ![r] = w]
              /\ IF Weight[u] >= w
                   THEN target' = [target EXCEPT ![r] = u] /\ Goto(r, "chosen")
                   ELSE UNCHANGED <<target, pc>>
    /\ UNCHANGED <<batch, tried, attempt, lastResp, result, calls, cancelled,
                   list, healthVars>>

-----------------------------------------------------------------------------
(* executeOnce and executeBatchOnce.                                       *)

\* The chosen upstream joins the tried map, which exists only with retries.
\* One without an HTTP URL gets nothing sent: batches are refused, and for a
\* single request its WebSocket is never connected.
Send(r) ==
    /\ pc[r] = "chosen"
    /\ tried' = IF RetryEnabled THEN [tried EXCEPT ![r] = @ \cup {target[r]}] ELSE tried
    /\ IF target[r] \in Rpc
         THEN Goto(r, "call") /\ calls' = [calls EXCEPT ![r][target[r]] = @ + 1]
         ELSE Goto(r, "failed") /\ UNCHANGED calls
    /\ UNCHANGED <<batch, attempt, target, lastResp, result, cancelled,
                   balancerVars, healthVars>>

\* A good answer, or one the executor takes for final: for a single request an
\* error that is not retryable, for a batch answers without a retryable error.
AnswerFinal(r, res) ==
    /\ pc[r] = "call" /\ (batch[r] => res = "ok")
    /\ result' = [result EXCEPT ![r] = res]
    /\ Goto(r, "done")
    /\ UNCHANGED <<batch, tried, attempt, target, lastResp, calls, cancelled,
                   balancerVars, healthVars>>

\* A retryable error response: a single request keeps it, a batch drops all
\* its answers.  Without retries either is returned as it is.
AnswerRetryable(r) ==
    /\ pc[r] = "call"
    /\ IF RetryEnabled
         THEN /\ lastResp' = [lastResp EXCEPT ![r] = ~batch[r]]
              /\ Goto(r, "failed") /\ UNCHANGED result
         ELSE /\ result' = [result EXCEPT ![r] = "lastError"]
              /\ Goto(r, "done") /\ UNCHANGED lastResp
    /\ UNCHANGED <<batch, tried, attempt, target, calls, cancelled,
                   balancerVars, healthVars>>

\* No answer: refused, timed out, not JSON-RPC, or the context is done.
Fails(r) ==
    /\ pc[r] = "call"
    /\ Goto(r, "failed")
    /\ UNCHANGED <<batch, tried, attempt, target, lastResp, result, calls, cancelled,
                   balancerVars, healthVars>>

\* The end of a failed attempt: give up (context done, no attempt left, no
\* retries), or choose again.
NextAttempt(r) ==
    /\ pc[r] = "failed"
    /\ attempt' = [attempt EXCEPT ![r] = @ + 1]
    /\ IF cancelled[r] \/ ~RetryEnabled \/ attempt'[r] = MaxAttempts
         THEN /\ Goto(r, "done")
              /\ result' = [result EXCEPT ![r] =
                              IF cancelled[r]  THEN "cancelled"
                              ELSE IF lastResp[r] THEN "lastError" ELSE "unavailable"]
         ELSE Goto(r, "mains") /\ UNCHANGED result
    /\ UNCHANGED <<batch, tried, target, lastResp, calls, cancelled,
                   balancerVars, healthVars>>

-----------------------------------------------------------------------------
(* The surroundings: the client goes away, the health monitor decides.     *)

Cancel(r) ==
    /\ pc[r] \notin {"idle", "done"} /\ ~cancelled[r]
    /\ cancelled' = [cancelled EXCEPT ![r] = TRUE]
    /\ UNCHANGED <<pc, batch, tried, attempt, target, lastResp, result, calls,
                   balancerVars, healthVars>>

SetHealthy(u) ==
    /\ flips < MaxFlips /\ flips' = flips + 1
    /\ healthy' = [healthy EXCEPT ![u] = ~@]
    /\ lapse' = [r \in Requests |->
                   IF pc[r] \in {"idle", "done"} \/ healthy'[u] THEN lapse[r]
                   ELSE lapse[r] \cup {u}]
    /\ UNCHANGED <<requestVars, balancerVars>>

-----------------------------------------------------------------------------

RequestStep(r) ==
    \/ TryMains(r) \/ TryFallbacks(r) \/ TakeOnly(r) \/ Advance(r)
    \/ Send(r) \/ AnswerFinal(r, "ok") \/ AnswerFinal(r, "rpcError")
    \/ AnswerRetryable(r) \/ Fails(r) \/ NextAttempt(r)

AllDone == (\A r \in Requests : pc[r] = "done") /\ UNCHANGED vars

Next ==
    \/ \E r \in Requests :
          (\E b \in BOOLEAN : Start(r, b)) \/ RequestStep(r) \/ Cancel(r)
    \/ \E u \in Upstreams : SetHealthy(u)
    \/ AllDone

Spec == Init /\ [][Next]_vars

\* A request goes on: HTTP calls end, with an answer or by the client's timeout.
FairSpec == Spec /\ \A r \in Requests : WF_vars(RequestStep(r))

-----------------------------------------------------------------------------
(* Properties.                                                             *)

TypeOK ==
    /\ pc \in [Requests -> PCs]
    /\ batch \in [Requests -> BOOLEAN]
    /\ tried \in [Requests -> SUBSET Upstreams]
    /\ attempt \in [Requests -> 0..MaxAttempts]
    /\ list \in [Requests -> SUBSET Upstreams]
    /\ index \in [Requests -> 0..Len(Order)]
    /\ weight \in [Requests -> Nat]
    /\ target \in [Requests -> Upstreams \cup {NoTarget}]
    /\ lastResp \in [Requests -> BOOLEAN]
    /\ result \in [Requests -> Results]
    /\ calls \in [Requests -> [Upstreams -> Nat]]
    /\ healthy \in [Upstreams -> BOOLEAN]
    /\ flips \in 0..MaxFlips
    /\ lapse \in [Requests -> SUBSET Upstreams]
    /\ cancelled \in [Requests -> BOOLEAN]

\* However the list of candidates shrinks and the health changes between the
\* attempts, no upstream is sent the same request twice.
SentOnce == \A r \in Requests, u \in Upstreams : calls[r][u] <= 1

\* A fallback is asked only when every main upstream was asked before, or was
\* unhealthy at some moment since the request began.
FallbackIsLastResort ==
    \A r \in Requests :
        pc[r] = "call" /\ target[r] \in Fallbacks /\ RetryEnabled =>
            Mains \subseteq tried[r] \cup lapse[r]

\* A request is not given up while there is an upstream left to ask: one that
\* was healthy all the time was tried, unless the attempts ran out.
GivesUpOnlyExhausted ==
    \A r \in Requests :
        pc[r] = "done" /\ RetryEnabled /\ result[r] \in {"lastError", "unavailable"} =>
            attempt[r] = MaxAttempts \/ Upstreams \subseteq tried[r] \cup lapse[r]

\* The selection loop finds an upstream, and every request ends.
RequestsEnd == \A r \in Requests : pc[r] # "idle" ~> pc[r] = "done"

-----------------------------------------------------------------------------
(* What a request comes to for its caller: UpstreamCall.                   *)

phaseBar ==
    [r \in Requests |-> IF pc[r] \in {"idle", "done"} THEN pc[r] ELSE "busy"]

Call == INSTANCE UpstreamCall
            WITH phase <- phaseBar, failed <- attempt, kept <- lastResp, outcome <- result

\* Choosing upstreams under changing health implements it: the attempts stay
\* within their number, an error that a single request kept is its outcome when
\* nothing better comes, and a batch comes to all its answers or to none.
ImplementsCall == Call!Spec
=============================================================================
