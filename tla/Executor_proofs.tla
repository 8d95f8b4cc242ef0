--------------------------- MODULE Executor_proofs ---------------------------
(***************************************************************************)
(* The safety properties of Executor, for every pool, every set of weights *)
(* and any number of requests, attempts and changes of health.             *)
(*                                                                         *)
(* None of the three is inductive: what is sent was chosen from a list     *)
(* read some steps before, while the health went on changing.  RequestInv  *)
(* says what the goroutine of a request still knows at each of its steps.  *)
(***************************************************************************)
EXTENDS Executor, FiniteNumbers, SequenceTheorems, TLAPS

\* The types the argument needs.  The balancer's index and weight only decide
\* which member of the list is taken, and so need none.
RequestTypes ==
    /\ pc \in [Requests -> PCs]
    /\ batch \in [Requests -> BOOLEAN]
    /\ lastResp \in [Requests -> BOOLEAN]
    /\ cancelled \in [Requests -> BOOLEAN]
    /\ tried \in [Requests -> SUBSET Upstreams]
    /\ attempt \in [Requests -> Nat]
    /\ list \in [Requests -> SUBSET Upstreams]
    /\ target \in [Requests -> Upstreams \cup {NoTarget}]
    /\ result \in [Requests -> Results]
    /\ calls \in [Requests -> [Upstreams -> Nat]]
    /\ healthy \in [Upstreams -> BOOLEAN]
    /\ lapse \in [Requests -> SUBSET Upstreams]

\* Upstreams a request need not be sent to any more.
Spent(r) == tried[r] \cup lapse[r]

\* Nothing was sent yet that the tried map does not know; without retries
\* there is no such map, but then there is only one attempt.
CallsAreTried(r) ==
    /\ \A u \in Upstreams : calls[r][u] <= 1
    /\ RetryEnabled => \A u \in Upstreams : calls[r][u] > 0 => u \in tried[r]
    /\ ~RetryEnabled /\ pc[r] \in {"idle", "mains", "fallbacks", "scan", "chosen"} =>
           \A u \in Upstreams : calls[r][u] = 0

\* What is chosen, or may be, is not in the tried map.
ChoiceIsNew(r) ==
    /\ pc[r] = "scan"   => list[r] \cap tried[r] = {}
    /\ pc[r] = "chosen" => target[r] \in Upstreams \ tried[r]

\* The request knows of every upstream that is down.
DownIsLapsed(r) ==
    pc[r] \notin {"idle", "done"} => \A u \in Upstreams : ~healthy[u] => u \in lapse[r]

\* From the moment the main upstreams are given up.
MainsAreSpent(r) ==
    /\ pc[r] = "fallbacks" => Mains \subseteq Spent(r)
    /\ pc[r] = "scan" => list[r] \subseteq Mains \/ Mains \subseteq Spent(r)
    /\ pc[r] \in {"chosen", "call"} => target[r] \in Mains \/ Mains \subseteq Spent(r)

EndIsJustified(r) ==
    pc[r] = "done" /\ RetryEnabled /\ result[r] \in {"lastError", "unavailable"} =>
        attempt[r] = MaxAttempts \/ Upstreams \subseteq Spent(r)

RequestInv(r) ==
    /\ CallsAreTried(r) /\ ChoiceIsNew(r) /\ DownIsLapsed(r)
    /\ MainsAreSpent(r) /\ EndIsJustified(r)

IndInv == RequestTypes /\ \A r \in Requests : RequestInv(r)

-----------------------------------------------------------------------------

\* The initial states satisfy the inductive invariant.
LEMMA InitIndInv == Init => IndInv
  BY DEF Init, IndInv, RequestTypes, RequestInv, CallsAreTried, ChoiceIsNew,
         DownIsLapsed, MainsAreSpent, EndIsJustified, Spent, PCs, Results

\* What a turn of the selection loop does, its arithmetic left aside.
Choose(r, u) == target' = [target EXCEPT ![r] = u] /\ Goto(r, "chosen")

\* The chosen upstream is one of the list.
LEMMA AdvanceEffect ==
    ASSUME NEW r \in Requests, Advance(r)
    PROVE  /\ pc[r] = "scan"
           /\ (\E u \in list[r] : Choose(r, u)) \/ UNCHANGED <<target, pc>>
           /\ UNCHANGED <<batch, tried, attempt, lastResp, result, calls,
                          cancelled, list, healthVars>>
<1>1. PICK u \in list[r] : Choose(r, u) \/ UNCHANGED <<target, pc>>
  BY ZenonT(30) DEF Advance, Choose
<1> QED
  BY <1>1 DEF Advance

\* The roles are given to upstreams of the pool.
LEMMA MainsInPool == Mains \subseteq Upstreams
  BY PoolAssumption

\* Every step keeps the types.
LEMMA TypesPreserved == IndInv /\ [Next]_vars => RequestTypes'
<1> SUFFICES ASSUME IndInv, [Next]_vars PROVE RequestTypes'
  OBVIOUS
<1>0. RequestTypes /\ \A r \in Requests : ChoiceIsNew(r)
  BY DEF IndInv, RequestInv
<1> USE <1>0, MainsInPool DEF RequestTypes, Goto, PCs, Results, Healthy, Fallbacks
<1>1. ASSUME NEW r \in Requests, NEW b \in BOOLEAN, Start(r, b) PROVE RequestTypes'
  BY <1>1 DEF Start, balancerVars
<1>2. ASSUME NEW r \in Requests, TryMains(r) PROVE RequestTypes'
  BY <1>2 DEF TryMains, healthVars
<1>3. ASSUME NEW r \in Requests, TryFallbacks(r) PROVE RequestTypes'
  BY <1>3 DEF TryFallbacks, healthVars
<1>4. ASSUME NEW r \in Requests, TakeOnly(r) PROVE RequestTypes'
  BY <1>4 DEF TakeOnly, balancerVars, healthVars
<1>5. ASSUME NEW r \in Requests, Advance(r) PROVE RequestTypes'
  <2>1. CASE UNCHANGED <<target, pc>>
    BY <1>5, <2>1, AdvanceEffect DEF healthVars
  <2>2. ASSUME NEW u \in list[r], Choose(r, u) PROVE RequestTypes'
    <3>1. target' \in [Requests -> Upstreams \cup {NoTarget}]
      BY <2>2 DEF Choose
    <3>2. pc' \in [Requests -> PCs]
      BY <2>2 DEF Choose
    <3> QED
      BY <1>5, <3>1, <3>2, AdvanceEffect DEF healthVars
  <2> QED
    BY <1>5, <2>1, <2>2, AdvanceEffect
<1>6. ASSUME NEW r \in Requests, Send(r) PROVE RequestTypes'
  <2>1. PICK u \in Upstreams : u = target[r]
    BY <1>6 DEF Send, ChoiceIsNew
  <2>2. calls' \in [Requests -> [Upstreams -> Nat]]
    <3>1. CASE u \notin Rpc
      BY <1>6, <2>1, <3>1 DEF Send
    <3>2. CASE u \in Rpc
      <4>1. calls' = [calls EXCEPT ![r][u] = @ + 1]
        BY <1>6, <2>1, <3>2 DEF Send
      <4>2. calls[r] \in [Upstreams -> Nat] /\ calls[r][u] + 1 \in Nat
        OBVIOUS
      <4>3. [calls[r] EXCEPT ![u] = @ + 1] \in [Upstreams -> Nat]
        BY <4>2
      <4> QED
        BY <4>1, <4>3
    <3> QED
      BY <3>1, <3>2
  <2>3. tried' \in [Requests -> SUBSET Upstreams]
    BY <1>6, <2>1 DEF Send
  <2>4. pc' \in [Requests -> PCs]
    <3>1. PICK where \in {"call", "failed"} : pc' = [pc EXCEPT ![r] = where]
      BY <1>6 DEF Send
    <3> QED
      BY <3>1
  <2> QED
    BY <1>6, <2>2, <2>3, <2>4 DEF Send, balancerVars, healthVars
<1>7. ASSUME NEW r \in Requests, NEW res \in {"ok", "rpcError"}, AnswerFinal(r, res)
      PROVE  RequestTypes'
  BY <1>7 DEF AnswerFinal, balancerVars, healthVars
<1>8. ASSUME NEW r \in Requests, AnswerRetryable(r) PROVE RequestTypes'
  BY <1>8 DEF AnswerRetryable, balancerVars, healthVars
<1>9. ASSUME NEW r \in Requests, Fails(r) PROVE RequestTypes'
  BY <1>9 DEF Fails, balancerVars, healthVars
<1>10. ASSUME NEW r \in Requests, NextAttempt(r) PROVE RequestTypes'
  <2>1. /\ pc' \in [Requests -> PCs]
        /\ result' \in [Requests -> Results]
        /\ attempt' \in [Requests -> Nat]
    <3>1. CASE cancelled[r] \/ ~RetryEnabled \/ attempt'[r] = MaxAttempts
      <4>1. PICK res \in Results : result' = [result EXCEPT ![r] = res]
        BY <1>10, <3>1, RetryAssumption DEF NextAttempt
      <4>2. pc' \in [Requests -> PCs]
        BY <1>10, <3>1, RetryAssumption DEF NextAttempt
      <4> QED
        BY <1>10, <4>1, <4>2 DEF NextAttempt
    <3>2. CASE ~(cancelled[r] \/ ~RetryEnabled \/ attempt'[r] = MaxAttempts)
      BY <1>10, <3>2 DEF NextAttempt
    <3> QED
      BY <3>1, <3>2
  <2> QED
    BY <1>10, <2>1 DEF NextAttempt, balancerVars, healthVars
<1>11. ASSUME NEW r \in Requests, Cancel(r) PROVE RequestTypes'
  BY <1>11 DEF Cancel, balancerVars, healthVars
<1>12. ASSUME NEW u \in Upstreams, SetHealthy(u) PROVE RequestTypes'
  BY <1>12 DEF SetHealthy, requestVars, balancerVars
<1>13. CASE UNCHANGED vars
  BY <1>13 DEF vars, requestVars, balancerVars, healthVars
<1> QED
  BY <1>1, <1>2, <1>3, <1>4, <1>5, <1>6, <1>7, <1>8, <1>9, <1>10, <1>11, <1>12, <1>13
     DEF Next, RequestStep, AllDone

-----------------------------------------------------------------------------
(* RequestInv, one action at a time.                                       *)

\* Nothing RequestInv(q) speaks of has changed.
SameRequest(q) ==
    /\ pc'[q] = pc[q] /\ tried'[q] = tried[q] /\ attempt'[q] = attempt[q]
    /\ list'[q] = list[q] /\ target'[q] = target[q] /\ result'[q] = result[q]
    /\ calls'[q] = calls[q] /\ lapse'[q] = lapse[q]
    /\ healthy' = healthy

\* Then it still holds.
LEMMA Undisturbed ==
    ASSUME NEW q \in Requests, RequestInv(q), SameRequest(q)
    PROVE  RequestInv(q)'
  BY DEF RequestInv, CallsAreTried, ChoiceIsNew, DownIsLapsed, MainsAreSpent,
         EndIsJustified, Spent, SameRequest

\* A request that begins knows which upstreams are down.
LEMMA StartKeeps ==
    ASSUME IndInv, RequestTypes', NEW r \in Requests, NEW b \in BOOLEAN, Start(r, b)
    PROVE  \A q \in Requests : RequestInv(q)'
<1> USE DEF IndInv, RequestTypes, Goto
<1>1. ASSUME NEW q \in Requests, q # r PROVE RequestInv(q)'
  <2>1. SameRequest(q)
    BY <1>1 DEF Start, SameRequest, balancerVars
  <2> QED
    BY <2>1, Undisturbed
<1>2. RequestInv(r)'
  <2> USE MainsInPool, RetryAssumption DEF Healthy, Fallbacks, Spent, RequestInv, Start, balancerVars
  <2>1. CallsAreTried(r)'
    BY DEF CallsAreTried, ChoiceIsNew
  <2>2. ChoiceIsNew(r)'
    BY DEF ChoiceIsNew
  <2>3. DownIsLapsed(r)'
    BY DEF DownIsLapsed
  <2>4. MainsAreSpent(r)'
    BY DEF MainsAreSpent, DownIsLapsed
  <2>5. EndIsJustified(r)'
    BY DEF EndIsJustified, MainsAreSpent, DownIsLapsed
  <2> QED
    BY <2>1, <2>2, <2>3, <2>4, <2>5 DEF RequestInv
<1> QED
  BY <1>1, <1>2

\* With no main upstream left in the list, each was tried or is down.
LEMMA TryMainsKeeps ==
    ASSUME IndInv, RequestTypes', NEW r \in Requests, TryMains(r)
    PROVE  \A q \in Requests : RequestInv(q)'
<1> USE DEF IndInv, RequestTypes, Goto
<1>1. ASSUME NEW q \in Requests, q # r PROVE RequestInv(q)'
  <2>1. SameRequest(q)
    BY <1>1 DEF TryMains, SameRequest, healthVars
  <2> QED
    BY <2>1, Undisturbed
<1>2. RequestInv(r)'
  <2> USE MainsInPool, RetryAssumption DEF Healthy, Fallbacks, Spent, RequestInv, TryMains, healthVars
  <2>1. CallsAreTried(r)'
    BY DEF CallsAreTried, ChoiceIsNew
  <2>2. ChoiceIsNew(r)'
    BY DEF ChoiceIsNew
  <2>3. DownIsLapsed(r)'
    BY DEF DownIsLapsed
  <2>4. MainsAreSpent(r)'
    BY DEF MainsAreSpent, DownIsLapsed
  <2>5. EndIsJustified(r)'
    BY DEF EndIsJustified, MainsAreSpent, DownIsLapsed
  <2> QED
    BY <2>1, <2>2, <2>3, <2>4, <2>5 DEF RequestInv
<1> QED
  BY <1>1, <1>2

\* With no fallback left either, nothing is left to ask.
LEMMA TryFallbacksKeeps ==
    ASSUME IndInv, RequestTypes', NEW r \in Requests, TryFallbacks(r)
    PROVE  \A q \in Requests : RequestInv(q)'
<1> USE DEF IndInv, RequestTypes, Goto
<1>1. ASSUME NEW q \in Requests, q # r PROVE RequestInv(q)'
  <2>1. SameRequest(q)
    BY <1>1 DEF TryFallbacks, SameRequest, healthVars
  <2> QED
    BY <2>1, Undisturbed
<1>2. RequestInv(r)'
  <2> USE MainsInPool, RetryAssumption DEF Healthy, Fallbacks, Spent, RequestInv, TryFallbacks, healthVars
  <2>1. CallsAreTried(r)'
    BY DEF CallsAreTried, ChoiceIsNew
  <2>2. ChoiceIsNew(r)'
    BY DEF ChoiceIsNew
  <2>3. DownIsLapsed(r)'
    BY DEF DownIsLapsed
  <2>4. MainsAreSpent(r)'
    BY DEF MainsAreSpent, DownIsLapsed
  <2>5. EndIsJustified(r)'
    BY DEF EndIsJustified, MainsAreSpent, DownIsLapsed
  <2> QED
    BY <2>1, <2>2, <2>3, <2>4, <2>5 DEF RequestInv
<1> QED
  BY <1>1, <1>2

\* The only member of the list is new, as the list is.
LEMMA TakeOnlyKeeps ==
    ASSUME IndInv, RequestTypes', NEW r \in Requests, TakeOnly(r)
    PROVE  \A q \in Requests : RequestInv(q)'
<1> USE DEF IndInv, RequestTypes, Goto
<1>1. ASSUME NEW q \in Requests, q # r PROVE RequestInv(q)'
  <2>1. SameRequest(q)
    BY <1>1 DEF TakeOnly, SameRequest, balancerVars, healthVars
  <2> QED
    BY <2>1, Undisturbed
<1>2. RequestInv(r)'
  <2> USE MainsInPool, RetryAssumption DEF Healthy, Fallbacks, Spent, RequestInv, TakeOnly, balancerVars, healthVars
  <2>1. CallsAreTried(r)'
    BY DEF CallsAreTried, ChoiceIsNew
  <2>2. ChoiceIsNew(r)'
    BY DEF ChoiceIsNew
  <2>3. DownIsLapsed(r)'
    BY DEF DownIsLapsed
  <2>4. MainsAreSpent(r)'
    BY DEF MainsAreSpent, DownIsLapsed
  <2>5. EndIsJustified(r)'
    BY DEF EndIsJustified, MainsAreSpent, DownIsLapsed
  <2> QED
    BY <2>1, <2>2, <2>3, <2>4, <2>5 DEF RequestInv
<1> QED
  BY <1>1, <1>2

\* What is sent enters the tried map in the same step.
LEMMA SendKeeps ==
    ASSUME IndInv, RequestTypes', NEW r \in Requests, Send(r)
    PROVE  \A q \in Requests : RequestInv(q)'
<1> USE DEF IndInv, RequestTypes, Goto
<1>1. ASSUME NEW q \in Requests, q # r PROVE RequestInv(q)'
  <2>1. SameRequest(q)
    BY <1>1 DEF Send, SameRequest, balancerVars, healthVars
  <2> QED
    BY <2>1, Undisturbed
<1>2. RequestInv(r)'
  <2> USE MainsInPool, RetryAssumption DEF Healthy, Fallbacks, Spent, RequestInv, Send, balancerVars, healthVars
  <2>1. CallsAreTried(r)'
    <3>1. PICK u \in Upstreams : u = target[r] /\ u \notin tried[r]
      BY DEF ChoiceIsNew
    <3>2. calls[r][u] = 0
      BY <3>1 DEF CallsAreTried
    <3>3. CASE u \in Rpc
      <4>1. /\ calls' = [calls EXCEPT ![r][u] = @ + 1]
            /\ pc'[r] = "call"
        BY <3>1, <3>3
      <4>2. /\ calls'[r][u] = 1
            /\ \A v \in Upstreams : v # u => calls'[r][v] = calls[r][v]
        BY <3>2, <4>1
      <4> QED
        BY <3>1, <4>1, <4>2 DEF CallsAreTried
    <3>4. CASE u \notin Rpc
      BY <3>1, <3>4 DEF CallsAreTried
    <3> QED
      BY <3>3, <3>4
  <2>2. ChoiceIsNew(r)'
    BY DEF ChoiceIsNew
  <2>3. DownIsLapsed(r)'
    BY DEF DownIsLapsed
  <2>4. MainsAreSpent(r)'
    BY DEF MainsAreSpent, DownIsLapsed
  <2>5. EndIsJustified(r)'
    BY DEF EndIsJustified, MainsAreSpent, DownIsLapsed
  <2> QED
    BY <2>1, <2>2, <2>3, <2>4, <2>5 DEF RequestInv
<1> QED
  BY <1>1, <1>2

\* A final answer ends the request without an error of the pool.
LEMMA AnswerFinalKeeps ==
    ASSUME IndInv, RequestTypes', NEW r \in Requests, NEW res \in {"ok", "rpcError"}, AnswerFinal(r, res)
    PROVE  \A q \in Requests : RequestInv(q)'
<1> USE DEF IndInv, RequestTypes, Goto
<1>1. ASSUME NEW q \in Requests, q # r PROVE RequestInv(q)'
  <2>1. SameRequest(q)
    BY <1>1 DEF AnswerFinal, SameRequest, balancerVars, healthVars
  <2> QED
    BY <2>1, Undisturbed
<1>2. RequestInv(r)'
  <2> USE MainsInPool, RetryAssumption DEF Healthy, Fallbacks, Spent, RequestInv, AnswerFinal, balancerVars, healthVars
  <2>1. CallsAreTried(r)'
    BY DEF CallsAreTried, ChoiceIsNew
  <2>2. ChoiceIsNew(r)'
    BY DEF ChoiceIsNew
  <2>3. DownIsLapsed(r)'
    BY DEF DownIsLapsed
  <2>4. MainsAreSpent(r)'
    BY DEF MainsAreSpent, DownIsLapsed
  <2>5. EndIsJustified(r)'
    BY DEF EndIsJustified, MainsAreSpent, DownIsLapsed
  <2> QED
    BY <2>1, <2>2, <2>3, <2>4, <2>5 DEF RequestInv
<1> QED
  BY <1>1, <1>2

\* A retryable error leads to another attempt or, without retries, ends it.
LEMMA AnswerRetryableKeeps ==
    ASSUME IndInv, RequestTypes', NEW r \in Requests, AnswerRetryable(r)
    PROVE  \A q \in Requests : RequestInv(q)'
<1> USE DEF IndInv, RequestTypes, Goto
<1>1. ASSUME NEW q \in Requests, q # r PROVE RequestInv(q)'
  <2>1. SameRequest(q)
    BY <1>1 DEF AnswerRetryable, SameRequest, balancerVars, healthVars
  <2> QED
    BY <2>1, Undisturbed
<1>2. RequestInv(r)'
  <2> USE MainsInPool, RetryAssumption DEF Healthy, Fallbacks, Spent, RequestInv, AnswerRetryable, balancerVars, healthVars
  <2>1. CallsAreTried(r)'
    BY DEF CallsAreTried, ChoiceIsNew
  <2>2. ChoiceIsNew(r)'
    BY DEF ChoiceIsNew
  <2>3. DownIsLapsed(r)'
    BY DEF DownIsLapsed
  <2>4. MainsAreSpent(r)'
    BY DEF MainsAreSpent, DownIsLapsed
  <2>5. EndIsJustified(r)'
    BY DEF EndIsJustified, MainsAreSpent, DownIsLapsed
  <2> QED
    BY <2>1, <2>2, <2>3, <2>4, <2>5 DEF RequestInv
<1> QED
  BY <1>1, <1>2

\* So does a call without an answer.
LEMMA FailsKeeps ==
    ASSUME IndInv, RequestTypes', NEW r \in Requests, Fails(r)
    PROVE  \A q \in Requests : RequestInv(q)'
<1> USE DEF IndInv, RequestTypes, Goto
<1>1. ASSUME NEW q \in Requests, q # r PROVE RequestInv(q)'
  <2>1. SameRequest(q)
    BY <1>1 DEF Fails, SameRequest, balancerVars, healthVars
  <2> QED
    BY <2>1, Undisturbed
<1>2. RequestInv(r)'
  <2> USE MainsInPool, RetryAssumption DEF Healthy, Fallbacks, Spent, RequestInv, Fails, balancerVars, healthVars
  <2>1. CallsAreTried(r)'
    BY DEF CallsAreTried, ChoiceIsNew
  <2>2. ChoiceIsNew(r)'
    BY DEF ChoiceIsNew
  <2>3. DownIsLapsed(r)'
    BY DEF DownIsLapsed
  <2>4. MainsAreSpent(r)'
    BY DEF MainsAreSpent, DownIsLapsed
  <2>5. EndIsJustified(r)'
    BY DEF EndIsJustified, MainsAreSpent, DownIsLapsed
  <2> QED
    BY <2>1, <2>2, <2>3, <2>4, <2>5 DEF RequestInv
<1> QED
  BY <1>1, <1>2

\* A request is given up here after its last attempt only.
LEMMA NextAttemptKeeps ==
    ASSUME IndInv, RequestTypes', NEW r \in Requests, NextAttempt(r)
    PROVE  \A q \in Requests : RequestInv(q)'
<1> USE DEF IndInv, RequestTypes, Goto
<1>1. ASSUME NEW q \in Requests, q # r PROVE RequestInv(q)'
  <2>1. SameRequest(q)
    BY <1>1 DEF NextAttempt, SameRequest, balancerVars, healthVars
  <2> QED
    BY <2>1, Undisturbed
<1>2. RequestInv(r)'
  <2> USE MainsInPool, RetryAssumption DEF Healthy, Fallbacks, Spent, RequestInv, NextAttempt, balancerVars, healthVars
  <2>1. CallsAreTried(r)'
    BY DEF CallsAreTried, ChoiceIsNew
  <2>2. ChoiceIsNew(r)'
    BY DEF ChoiceIsNew
  <2>3. DownIsLapsed(r)'
    BY DEF DownIsLapsed
  <2>4. MainsAreSpent(r)'
    BY DEF MainsAreSpent, DownIsLapsed
  <2>5. EndIsJustified(r)'
    BY DEF EndIsJustified, MainsAreSpent, DownIsLapsed
  <2> QED
    BY <2>1, <2>2, <2>3, <2>4, <2>5 DEF RequestInv
<1> QED
  BY <1>1, <1>2

\* That the client went away changes nothing the request knows.
LEMMA CancelKeeps ==
    ASSUME IndInv, RequestTypes', NEW r \in Requests, Cancel(r)
    PROVE  \A q \in Requests : RequestInv(q)'
<1> USE DEF IndInv, RequestTypes, Goto
<1>1. ASSUME NEW q \in Requests, q # r PROVE RequestInv(q)'
  <2>1. SameRequest(q)
    BY <1>1 DEF Cancel, SameRequest, balancerVars, healthVars
  <2> QED
    BY <2>1, Undisturbed
<1>2. RequestInv(r)'
  <2> USE MainsInPool, RetryAssumption DEF Healthy, Fallbacks, Spent, RequestInv, Cancel, balancerVars, healthVars
  <2>1. CallsAreTried(r)'
    BY DEF CallsAreTried, ChoiceIsNew
  <2>2. ChoiceIsNew(r)'
    BY DEF ChoiceIsNew
  <2>3. DownIsLapsed(r)'
    BY DEF DownIsLapsed
  <2>4. MainsAreSpent(r)'
    BY DEF MainsAreSpent, DownIsLapsed
  <2>5. EndIsJustified(r)'
    BY DEF EndIsJustified, MainsAreSpent, DownIsLapsed
  <2> QED
    BY <2>1, <2>2, <2>3, <2>4, <2>5 DEF RequestInv
<1> QED
  BY <1>1, <1>2

\* A turn of the loop chooses from the list or leaves all as it is.
LEMMA AdvanceKeeps ==
    ASSUME IndInv, RequestTypes', NEW r \in Requests, Advance(r)
    PROVE  \A q \in Requests : RequestInv(q)'
<1> USE AdvanceEffect DEF IndInv, RequestTypes, Goto, healthVars
<1>1. ASSUME NEW q \in Requests, q # r PROVE RequestInv(q)'
  <2>1. SameRequest(q)
    BY <1>1 DEF Choose, SameRequest
  <2> QED
    BY <2>1, Undisturbed
<1>2. CASE UNCHANGED <<target, pc>>
  BY <1>1, <1>2, Undisturbed DEF SameRequest
<1>3. ASSUME NEW u \in list[r], Choose(r, u) PROVE RequestInv(r)'
  <2>1. /\ target'[r] = u /\ u \notin tried'[r] /\ pc[r] = "scan" /\ pc'[r] = "chosen"
        /\ u \in Mains \/ Mains \subseteq Spent(r)
    BY <1>3 DEF Choose, RequestInv, ChoiceIsNew, MainsAreSpent
  <2> QED
    BY <2>1 DEF RequestInv, CallsAreTried, ChoiceIsNew, DownIsLapsed, MainsAreSpent,
                EndIsJustified, Spent
<1> QED
  BY <1>1, <1>2, <1>3

\* An upstream that goes down joins the lapsed ones of every running request.
LEMMA SetHealthyKeeps ==
    ASSUME IndInv, RequestTypes', NEW u \in Upstreams, SetHealthy(u)
    PROVE  \A q \in Requests : RequestInv(q)'
<1> SUFFICES ASSUME NEW q \in Requests PROVE RequestInv(q)'
  OBVIOUS
<1> USE DEF IndInv, RequestTypes, SetHealthy, requestVars, balancerVars
<1>1. lapse[q] \subseteq lapse'[q] /\ (pc[q] = "done" => lapse'[q] = lapse[q])
  OBVIOUS
<1>2. Spent(q) \subseteq Spent(q)'
  BY <1>1 DEF Spent
<1>3. DownIsLapsed(q)'
  BY DEF RequestInv, DownIsLapsed
<1> QED
  BY <1>1, <1>2, <1>3
     DEF RequestInv, CallsAreTried, ChoiceIsNew, MainsAreSpent, EndIsJustified

\* The invariant is inductive.
LEMMA StepIndInv == IndInv /\ [Next]_vars => IndInv'
<1> SUFFICES ASSUME IndInv, [Next]_vars PROVE IndInv'
  OBVIOUS
<1>1. RequestTypes'
  BY TypesPreserved
<1>2. \A q \in Requests : RequestInv(q)'
  <2>1. CASE UNCHANGED vars
    BY <2>1, Undisturbed
       DEF IndInv, SameRequest, vars, requestVars, balancerVars, healthVars
  <2>2. CASE \E u \in Upstreams : SetHealthy(u)
    BY <1>1, <2>2, SetHealthyKeeps
  <2>3. ASSUME NEW r \in Requests, NEW b \in BOOLEAN, Start(r, b)
        PROVE  \A q \in Requests : RequestInv(q)'
    BY <1>1, <2>3, StartKeeps
  <2>4. ASSUME NEW r \in Requests, RequestStep(r) \/ Cancel(r)
        PROVE  \A q \in Requests : RequestInv(q)'
    BY <1>1, <2>4, TryMainsKeeps, TryFallbacksKeeps, TakeOnlyKeeps, AdvanceKeeps, SendKeeps,
       AnswerFinalKeeps, AnswerRetryableKeeps, FailsKeeps, NextAttemptKeeps, CancelKeeps
       DEF RequestStep
  <2> QED
    BY <2>1, <2>2, <2>3, <2>4 DEF Next, AllDone
<1> QED
  BY <1>1, <1>2 DEF IndInv

\* And so it holds always.
LEMMA Invariance == Spec => []IndInv
  BY InitIndInv, StepIndInv, PTL DEF Spec

-----------------------------------------------------------------------------

\* No upstream gets the same request twice, for every pool and any number of
\* attempts and changes of health in between.
THEOREM SentOnceHolds == Spec => []SentOnce
<1>1. IndInv => SentOnce
  BY DEF IndInv, RequestInv, CallsAreTried, SentOnce
<1> QED
  BY <1>1, Invariance, PTL

\* When a fallback is asked, each main upstream was asked before or was
\* unhealthy at some moment since the request began.
THEOREM FallbackIsLastResortHolds == Spec => []FallbackIsLastResort
<1>1. IndInv => FallbackIsLastResort
  BY DEF IndInv, RequestInv, MainsAreSpent, Spent, FallbackIsLastResort, Fallbacks
<1> QED
  BY <1>1, Invariance, PTL

\* A request ends without an answer only after its last attempt, or with no
\* upstream left that was healthy all the time and was not asked.
THEOREM GivesUpOnlyExhaustedHolds == Spec => []GivesUpOnlyExhausted
<1>1. IndInv => GivesUpOnlyExhausted
  BY DEF IndInv, RequestInv, EndIsJustified, Spent, GivesUpOnlyExhausted
<1> QED
  BY <1>1, Invariance, PTL

-----------------------------------------------------------------------------
(* The executor implements UpstreamCall.                                   *)

\* What the mapping needs besides: the attempts are counted and bounded, and a
\* batch keeps nothing.
CallInv ==
    /\ attempt \in [Requests -> Nat]
    /\ lastResp \in [Requests -> BOOLEAN]
    /\ result \in [Requests -> Results]
    /\ batch \in [Requests -> BOOLEAN]
    /\ pc \in [Requests -> PCs]
    /\ \A r \in Requests :
          /\ pc[r] # "done" => attempt[r] < IF RetryEnabled THEN MaxAttempts ELSE 1
          /\ batch[r] \/ pc[r] = "idle" => ~lastResp[r]

\* It holds always.
LEMMA CallInvHolds == Spec => []CallInv
<1>1. Init => CallInv
  BY RetryAssumption DEF Init, CallInv, PCs, Results
<1>2. IndInv /\ IndInv' /\ CallInv /\ [Next]_vars => CallInv'
  <2> SUFFICES ASSUME IndInv, IndInv', CallInv, [Next]_vars PROVE CallInv'
    OBVIOUS
  <2>0. /\ attempt' \in [Requests -> Nat] /\ lastResp' \in [Requests -> BOOLEAN]
        /\ result' \in [Requests -> Results] /\ batch' \in [Requests -> BOOLEAN]
        /\ pc' \in [Requests -> PCs]
    BY DEF IndInv, RequestTypes
  <2> SUFFICES ASSUME NEW q \in Requests
               PROVE  /\ pc'[q] # "done" =>
                            attempt'[q] < IF RetryEnabled THEN MaxAttempts ELSE 1
                      /\ batch'[q] \/ pc'[q] = "idle" => ~lastResp'[q]
    BY <2>0 DEF CallInv
  <2> DEFINE AttemptKept == attempt' = attempt /\ (pc'[q] # "done" => pc[q] # "done")
             AnswerKept  == /\ lastResp'[q] => lastResp[q] \/ ~batch'[q]
                            /\ pc'[q] = "idle" => pc[q] = "idle" /\ lastResp'[q] = lastResp[q]
                            /\ batch'[q] = batch[q] \/ pc[q] = "idle"
             Kept == AttemptKept /\ AnswerKept
  <2>1. CASE AttemptKept /\ AnswerKept
    BY <2>1 DEF CallInv
  <2>2. ASSUME NEW r \in Requests, NextAttempt(r)
        PROVE  /\ pc'[q] # "done" =>
                     attempt'[q] < IF RetryEnabled THEN MaxAttempts ELSE 1
               /\ AnswerKept
    <3>1. CASE q = r
      BY <2>2, <3>1, RetryAssumption DEF NextAttempt, CallInv, Goto
    <3>2. CASE q # r
      BY <2>2, <3>2 DEF NextAttempt, CallInv, Goto
    <3> QED
      BY <3>1, <3>2
  <2>3. ASSUME NEW r \in Requests, Advance(r) PROVE Kept
    BY <2>3, AdvanceEffect DEF Choose, Goto, CallInv
  <2>4. ASSUME NEW r \in Requests, NEW b \in BOOLEAN, Start(r, b) PROVE Kept
    BY <2>4 DEF CallInv, Goto, Start
  <2>5. ASSUME NEW r \in Requests,
               TryMains(r) \/ TryFallbacks(r) \/ TakeOnly(r) \/ Send(r)
        PROVE  Kept
    BY <2>5 DEF CallInv, Goto, TryMains, TryFallbacks, TakeOnly, Send
  <2>6. ASSUME NEW r \in Requests,
               \/ AnswerFinal(r, "ok") \/ AnswerFinal(r, "rpcError")
               \/ Fails(r) \/ Cancel(r)
        PROVE  Kept
    BY <2>6 DEF CallInv, Goto, AnswerFinal, Fails, Cancel
  <2>7. ASSUME NEW r \in Requests, AnswerRetryable(r) PROVE Kept
    <3>1. CASE q = r
      BY <2>7, <3>1 DEF CallInv, Goto, AnswerRetryable
    <3>2. CASE q # r
      BY <2>7, <3>2 DEF CallInv, Goto, AnswerRetryable
    <3> QED
      BY <3>1, <3>2
  <2>8. CASE (\E u \in Upstreams : SetHealthy(u)) \/ UNCHANGED vars
    BY <2>8, <2>1 DEF SetHealthy, vars, requestVars
  <2>9. CASE \E r \in Requests : NextAttempt(r)
    BY <2>2, <2>9 DEF CallInv
  <2> QED
    BY <2>1, <2>3, <2>4, <2>5, <2>6, <2>7, <2>8, <2>9 DEF Next, RequestStep, AllDone
<1> QED
  BY <1>1, <1>2, Invariance, PTL DEF Spec

\* A request that is neither idle nor done is busy, and stays so unless its pc
\* leaves the steps in between.
LEMMA PhaseKept ==
    ASSUME CallInv, CallInv', NEW r \in Requests, pc[r] \notin {"idle", "done"},
           NEW where \in PCs \ {"idle", "done"},
           Goto(r, where) \/ UNCHANGED pc
    PROVE  phaseBar' = phaseBar
<1>1. \A q \in Requests :
        (IF pc'[q] \in {"idle", "done"} THEN pc'[q] ELSE "busy")
            = (IF pc[q] \in {"idle", "done"} THEN pc[q] ELSE "busy")
  BY DEF CallInv, Goto
<1> QED
  BY <1>1 DEF phaseBar

\* A request that ends is busy before and done after, the others stay.
LEMMA PhaseEnds ==
    ASSUME CallInv, CallInv', NEW r \in Requests, pc[r] \notin {"idle", "done"},
           Goto(r, "done")
    PROVE  phaseBar[r] = "busy" /\ phaseBar' = [phaseBar EXCEPT ![r] = "done"]
<1>1. phaseBar[r] = "busy"
  BY DEF phaseBar
<1>2. \A q \in Requests :
        (IF pc'[q] \in {"idle", "done"} THEN pc'[q] ELSE "busy")
            = (IF q = r THEN "done" ELSE IF pc[q] \in {"idle", "done"} THEN pc[q] ELSE "busy")
  BY DEF CallInv, Goto
<1> QED
  BY <1>1, <1>2 DEF phaseBar

\* Every step of the executor is a step of the call, or none.
LEMMA CallStep == CallInv /\ CallInv' /\ [Next]_vars => [Call!Next]_(Call!vars)
<1> SUFFICES ASSUME CallInv, CallInv', [Next]_vars
             PROVE  Call!Next \/ UNCHANGED Call!vars
  OBVIOUS
<1>1. ASSUME NEW r \in Requests, NEW b \in BOOLEAN, Start(r, b) PROVE Call!Start(r, b)
  <2>1. phaseBar[r] = "idle"
    BY <1>1 DEF Start, phaseBar
  <2>2. \A q \in Requests :
          (IF pc'[q] \in {"idle", "done"} THEN pc'[q] ELSE "busy")
            = (IF q = r THEN "busy" ELSE IF pc[q] \in {"idle", "done"} THEN pc[q] ELSE "busy")
    BY <1>1 DEF Start, Goto, CallInv
  <2>3. phaseBar' = [phaseBar EXCEPT ![r] = "busy"]
    BY <2>2 DEF phaseBar
  <2> QED
    BY <1>1, <2>1, <2>3 DEF Start, Call!Start
<1>2. ASSUME NEW r \in Requests, TryMains(r) \/ TakeOnly(r) \/ Send(r) \/ Fails(r)
      PROVE  UNCHANGED Call!vars
  <2>1. pc[r] \notin {"idle", "done"}
        /\ \E where \in PCs \ {"idle", "done"} : Goto(r, where)
    BY <1>2 DEF TryMains, TakeOnly, Send, Fails, PCs
  <2>2. phaseBar' = phaseBar
    BY <2>1, PhaseKept
  <2> QED
    BY <1>2, <2>2 DEF TryMains, TakeOnly, Send, Fails, Call!vars
<1>3. ASSUME NEW r \in Requests, Advance(r) PROVE UNCHANGED Call!vars
  <2>1. Goto(r, "chosen") \/ UNCHANGED pc
    BY <1>3, AdvanceEffect DEF Choose
  <2>2. pc[r] \notin {"idle", "done"} /\ "chosen" \in PCs \ {"idle", "done"}
    BY <1>3, AdvanceEffect DEF PCs
  <2>3. phaseBar' = phaseBar
    BY <2>1, <2>2, PhaseKept
  <2> QED
    BY <1>3, <2>3, AdvanceEffect DEF Call!vars
<1>4. ASSUME NEW r \in Requests, TryFallbacks(r) PROVE Call!Next \/ UNCHANGED Call!vars
  <2>1. CASE list'[r] # {}
    <3>1. phaseBar' = phaseBar
      BY <1>4, <2>1, PhaseKept DEF TryFallbacks, PCs
    <3> QED
      BY <1>4, <2>1, <3>1 DEF TryFallbacks, Call!vars
  <2>2. CASE list'[r] = {}
    <3>1. Goto(r, "done") /\ pc[r] \notin {"idle", "done"}
      BY <1>4, <2>2 DEF TryFallbacks
    <3>2. phaseBar[r] = "busy" /\ phaseBar' = [phaseBar EXCEPT ![r] = "done"]
      BY <3>1, PhaseEnds
    <3>3. /\ attempt[r] <= Call!Attempts
          /\ attempt' = [attempt EXCEPT ![r] = attempt[r]]
      BY <1>4, RetryAssumption DEF TryFallbacks, CallInv, Call!Attempts
    <3>4. \/ Call!Finish(r, IF lastResp[r] THEN "lastError" ELSE "unavailable")
          \/ Call!Finish(r, "cancelled")
      BY <1>4, <2>2, <3>2 DEF TryFallbacks, Call!Finish
    <3> QED
      BY <3>3, <3>4 DEF Call!GiveUp, Call!Next
  <2> QED
    BY <2>1, <2>2
<1>5. ASSUME NEW r \in Requests, NEW res \in {"ok", "rpcError"}, AnswerFinal(r, res)
      PROVE  Call!Answer(r, res)
  <2>1. phaseBar[r] = "busy" /\ phaseBar' = [phaseBar EXCEPT ![r] = "done"]
    BY <1>5, PhaseEnds DEF AnswerFinal
  <2> QED
    BY <1>5, <2>1 DEF AnswerFinal, Call!Answer, Call!Finish
<1>6. ASSUME NEW r \in Requests, AnswerRetryable(r) PROVE Call!Next \/ UNCHANGED Call!vars
  <2>1. CASE ~RetryEnabled
    <3>1. phaseBar[r] = "busy" /\ phaseBar' = [phaseBar EXCEPT ![r] = "done"]
      BY <1>6, <2>1, PhaseEnds DEF AnswerRetryable
    <3> QED
      BY <1>6, <2>1, <3>1 DEF AnswerRetryable, Call!AnswerAnyway, Call!Finish, Call!Next
  <2>2. CASE RetryEnabled
    <3>1. phaseBar[r] = "busy" /\ phaseBar' = phaseBar
      BY <1>6, <2>2, PhaseKept DEF AnswerRetryable, PCs, phaseBar
    <3>2. CASE batch[r]
      <4>1. lastResp' = [lastResp EXCEPT ![r] = FALSE]
        BY <1>6, <2>2, <3>2 DEF AnswerRetryable, CallInv
      <4>2. ~lastResp[r]
        BY <3>2 DEF CallInv
      <4>3. lastResp' = lastResp
        BY <4>1, <4>2 DEF CallInv
      <4> QED
        BY <1>6, <2>2, <3>1, <4>3 DEF AnswerRetryable, Call!vars
    <3>3. CASE ~batch[r]
      <4>1. lastResp' = [lastResp EXCEPT ![r] = TRUE]
        BY <1>6, <2>2, <3>3 DEF AnswerRetryable, CallInv
      <4> QED
        BY <1>6, <2>2, <3>1, <3>3, <4>1 DEF AnswerRetryable, Call!Keep, Call!Next
    <3> QED
      BY <3>2, <3>3
  <2> QED
    BY <2>1, <2>2, RetryAssumption
<1>7. ASSUME NEW r \in Requests, NextAttempt(r) PROVE Call!Next
  <2>1. CASE cancelled[r] \/ ~RetryEnabled \/ attempt'[r] = MaxAttempts
    <3>1. phaseBar[r] = "busy" /\ phaseBar' = [phaseBar EXCEPT ![r] = "done"]
      BY <1>7, <2>1, PhaseEnds DEF NextAttempt
    <3>2. /\ attempt[r] + 1 <= Call!Attempts
          /\ attempt' = [attempt EXCEPT ![r] = attempt[r] + 1]
      BY <1>7, RetryAssumption DEF NextAttempt, CallInv, Call!Attempts
    <3>3. \/ Call!Finish(r, IF lastResp[r] THEN "lastError" ELSE "unavailable")
          \/ Call!Finish(r, "cancelled")
      BY <1>7, <2>1, <3>1 DEF NextAttempt, Call!Finish
    <3> QED
      BY <3>2, <3>3 DEF Call!GiveUp, Call!Next
  <2>2. CASE ~(cancelled[r] \/ ~RetryEnabled \/ attempt'[r] = MaxAttempts)
    <3>1. phaseBar[r] = "busy" /\ phaseBar' = phaseBar
      BY <1>7, <2>2, PhaseKept DEF NextAttempt, PCs, phaseBar
    <3>2. attempt[r] + 1 < Call!Attempts
      BY <1>7, <2>2, RetryAssumption DEF NextAttempt, CallInv, Call!Attempts
    <3> QED
      BY <1>7, <2>2, <3>1, <3>2 DEF NextAttempt, Call!TryAgain, Call!Next
  <2> QED
    BY <2>1, <2>2
<1>8. ASSUME \/ \E r \in Requests : Cancel(r)
             \/ \E u \in Upstreams : SetHealthy(u)
             \/ UNCHANGED vars
      PROVE  UNCHANGED Call!vars
  BY <1>8 DEF Cancel, SetHealthy, vars, requestVars, phaseBar, Call!vars
<1> QED
  BY <1>1, <1>2, <1>3, <1>4, <1>5, <1>6, <1>7, <1>8
     DEF Next, RequestStep, AllDone, Call!Next

\* For every pool and any changes of health, a request comes to what UpstreamCall
\* says: bounded attempts, a kept error as the outcome for want of an answer, and
\* all the answers to a batch or none.
THEOREM CallRefinement == Spec => ImplementsCall
<1>1. Init => Call!Init
  BY DEF Init, Call!Init, phaseBar
<1> QED
  BY <1>1, CallStep, CallInvHolds, PTL DEF Spec, ImplementsCall, Call!Spec

-----------------------------------------------------------------------------
(* Typing, the numbers of the balancer included.                           *)

\* A list of candidates is no longer than the pool.
LEMMA ListProperty ==
    ASSUME NEW S \in SUBSET Upstreams
    PROVE  /\ IsFiniteSet(S) /\ Cardinality(S) \in Nat
           /\ Len(Order) \in Nat /\ Cardinality(S) <= Len(Order)
<1>1. Len(Order) \in Nat /\ DOMAIN Order = 1..Len(Order)
  BY PoolAssumption, LenProperties
<1> DEFINE f == [i \in 1..Len(Order) |-> Order[i]]
<1>2. f \in Surjection(1..Len(Order), Upstreams)
  BY DEF Surjection, Upstreams
<1>3. IsFiniteSet(1..Len(Order)) /\ Cardinality(1..Len(Order)) = Len(Order)
  <2>1. /\ IsFiniteSet(1..Len(Order))
        /\ Cardinality(1..Len(Order)) = IF 1 > Len(Order) THEN 0 ELSE Len(Order) - 1 + 1
    BY <1>1, FS_Interval
  <2> QED
    BY <1>1, <2>1
<1> HIDE DEF f
<1>4. IsFiniteSet(Upstreams) /\ Cardinality(Upstreams) <= Len(Order)
  BY <1>2, <1>3, FS_Surjection
<1>5. Cardinality(Upstreams) \in Nat /\ Cardinality(S) \in Nat /\ IsFiniteSet(S)
  BY <1>4, FS_CardinalityType, FS_Subset
<1>6. Cardinality(S) <= Cardinality(Upstreams)
  BY <1>4, FS_Subset
<1> QED
  BY <1>1, <1>4, <1>5, <1>6

\* The greatest weight of a list is one of its weights.
LEMMA MaxWeightProperty ==
    ASSUME NEW S \in SUBSET Upstreams, S # {}
    PROVE  maxWeight(S) \in Nat \ {0} /\ \A u \in S : Weight[u] <= maxWeight(S)
<1> DEFINE T == {Weight[u] : u \in S}
           f == [u \in S |-> Weight[u]]
<1>1. \A u \in S : Weight[u] \in Nat \ {0}
  BY WeightAssumption
<1>2. f \in Surjection(S, T)
  BY DEF Surjection
<1>3. IsFiniteSet(S)
  BY ListProperty
<1> HIDE DEF f
<1>4. IsFiniteSet(T)
  BY <1>2, <1>3, FS_Surjection
<1>5. T \in SUBSET Nat /\ T # {}
  BY <1>1
<1>6. PICK w \in T : \A x \in T : w >= x
  BY <1>4, <1>5, HasMaximum
<1>7. \A u \in S : Weight[u] <= w
  BY <1>1, <1>5, <1>6
<1>8. maxWeight(S) \in T /\ \A u \in S : Weight[u] <= maxWeight(S)
  BY <1>6, <1>7 DEF maxWeight
<1> QED
  BY <1>1, <1>8

\* The weights of a list have a greatest common divisor: 1 divides them all, and
\* none of their divisors is above the greatest weight.
LEMMA GcdProperty ==
    ASSUME NEW S \in SUBSET Upstreams, S # {}
    PROVE  gcdWeights(S) \in 1..maxWeight(S)
<1> DEFINE common == {d \in 1..maxWeight(S) : \A u \in S : Divides(d, Weight[u])}
<1>1. maxWeight(S) \in Nat \ {0}
  BY MaxWeightProperty
<1>2. common \in SUBSET Nat /\ IsFiniteSet(common)
  <2>1. IsFiniteSet(1..maxWeight(S))
    BY <1>1, FS_Interval
  <2> QED
    BY <1>1, <2>1, FS_Subset
<1>3. 1 \in common
  <2>1. ASSUME NEW u \in S PROVE Divides(1, Weight[u])
    <3>1. Weight[u] \in 1..Weight[u] /\ Weight[u] = 1 * Weight[u]
      BY WeightAssumption
    <3> QED
      BY <3>1 DEF Divides
  <2> QED
    BY <1>1, <2>1
<1> HIDE DEF common
<1>4. PICK d \in common : \A e \in common : d >= e
  BY <1>2, <1>3, HasMaximum
<1>5. \A e \in common : e <= d
  BY <1>2, <1>4
<1>6. gcdWeights(S) \in common
  BY <1>5 DEF gcdWeights, common
<1> QED
  BY <1>6 DEF common

\* What is left of TypeOK.
NumberTypes ==
    /\ attempt \in [Requests -> 0..MaxAttempts]
    /\ index \in [Requests -> 0..Len(Order)]
    /\ weight \in [Requests -> Nat]
    /\ flips \in 0..MaxFlips

\* A turn of the selection loop stays in the list and keeps a weight to reach.
LEMMA AdvanceNumbers ==
    ASSUME RequestTypes, NumberTypes, NEW r \in Requests, Advance(r)
    PROVE  index' \in [Requests -> 0..Len(Order)] /\ weight' \in [Requests -> Nat]
<1> DEFINE n == Cardinality(list[r])
<1>1. list[r] \in SUBSET Upstreams /\ n > 1
  BY DEF RequestTypes, Advance
<1>2. n \in Nat /\ Len(Order) \in Nat /\ n <= Len(Order)
  BY <1>1, ListProperty
<1>3. list[r] # {}
  BY <1>1, FS_EmptySet
<1> DEFINE i == (index[r] % n) + 1
           m == maxWeight(list[r])
           g == gcdWeights(list[r])
           w == CASE i # 1                   -> weight[r]
                  [] i = 1 /\ weight[r] > g  -> weight[r] - g
                  [] OTHER                   -> m
<1>4. index' = [index EXCEPT ![r] = i] /\ weight' = [weight EXCEPT ![r] = w]
  BY DEF Advance
<1>5. i \in 0..Len(Order)
  <2>1. index[r] \in Nat
    BY DEF NumberTypes
  <2>2. index[r] % n \in 0..n - 1
    BY <1>1, <1>2, <2>1
  <2> QED
    BY <1>2, <2>2
<1>6. w \in Nat
  <2>1. weight[r] \in Nat
    BY DEF NumberTypes
  <2>2. m \in Nat /\ g \in Nat
    BY <1>1, <1>3, MaxWeightProperty, GcdProperty
  <2> HIDE DEF m, g, i
  <2> QED
    BY <2>1, <2>2
<1> HIDE DEF i, w
<1> QED
  BY <1>4, <1>5, <1>6 DEF NumberTypes

\* Every step keeps the numbers in their ranges: an attempt that fails is counted
\* only while there are attempts left.
LEMMA NumbersKept == IndInv /\ CallInv /\ NumberTypes /\ [Next]_vars => NumberTypes'
<1> SUFFICES ASSUME IndInv, CallInv, NumberTypes, [Next]_vars PROVE NumberTypes'
  OBVIOUS
<1> USE DEF NumberTypes
<1>1. ASSUME NEW r \in Requests, NextAttempt(r) PROVE NumberTypes'
  <2>1. pc[r] = "failed" /\ attempt' = [attempt EXCEPT ![r] = attempt[r] + 1]
    BY <1>1 DEF NextAttempt
  <2>2. attempt[r] \in Nat /\ attempt[r] < MaxAttempts
    <3>1. attempt[r] \in Nat /\ MaxAttempts \in Nat \ {0}
      BY RetryAssumption DEF CallInv
    <3>2. attempt[r] < IF RetryEnabled THEN MaxAttempts ELSE 1
      BY <2>1 DEF CallInv
    <3> QED
      BY <3>1, <3>2
  <2>3. attempt[r] + 1 \in 0..MaxAttempts
    BY <2>2, RetryAssumption
  <2> QED
    BY <1>1, <2>1, <2>3 DEF NextAttempt, balancerVars, healthVars
<1>2. ASSUME NEW r \in Requests, Advance(r) PROVE NumberTypes'
  BY <1>2, AdvanceEffect, AdvanceNumbers DEF IndInv, healthVars
<1>3. ASSUME NEW u \in Upstreams, SetHealthy(u) PROVE NumberTypes'
  <2>1. flips' \in 0..MaxFlips
    BY <1>3, RetryAssumption DEF SetHealthy
  <2> QED
    BY <1>3, <2>1 DEF SetHealthy, requestVars, balancerVars
<1>4. ASSUME NEW r \in Requests,
             \/ \E b \in BOOLEAN : Start(r, b)
             \/ TryMains(r) \/ TryFallbacks(r) \/ TakeOnly(r) \/ Send(r)
             \/ AnswerFinal(r, "ok") \/ AnswerFinal(r, "rpcError")
             \/ AnswerRetryable(r) \/ Fails(r) \/ Cancel(r)
      PROVE  UNCHANGED <<attempt, index, weight, flips>>
  BY <1>4 DEF Start, TryMains, TryFallbacks, TakeOnly, Send, AnswerFinal, AnswerRetryable,
              Fails, Cancel, balancerVars, healthVars
<1>5. ASSUME UNCHANGED <<attempt, index, weight, flips>> PROVE NumberTypes'
  BY <1>5
<1>6. CASE UNCHANGED vars
  BY <1>5, <1>6 DEF vars, requestVars, balancerVars, healthVars
<1> QED
  BY <1>1, <1>2, <1>3, <1>4, <1>5, <1>6 DEF Next, RequestStep, AllDone

\* Whatever the weights and the health, the balancer's index stays within the
\* pool and its weight a number: the loop's subtraction never goes below zero.
THEOREM TypeCorrect == Spec => []TypeOK
<1>1. Init => NumberTypes
  <2>1. Len(Order) \in Nat
    BY ListProperty
  <2> QED
    BY <2>1, RetryAssumption DEF Init, NumberTypes
<1>2. IndInv /\ NumberTypes => TypeOK
  <2> SUFFICES ASSUME IndInv, NumberTypes PROVE TypeOK
    OBVIOUS
  <2> QED
    BY DEF IndInv, NumberTypes, RequestTypes, TypeOK
<1> QED
  BY <1>1, <1>2, NumbersKept, Invariance, CallInvHolds, PTL DEF Spec

=============================================================================
