----------------------------- MODULE UpstreamCall -----------------------------
(***************************************************************************)
(* What executing a request comes to for the handler that asks for it,     *)
(* without upstreams, balancers or health: some failed attempts, as many   *)
(* as allowed at most, and one outcome.  This is all ProxyCache takes the  *)
(* executor for.                                                           *)
(***************************************************************************)
EXTENDS Naturals

CONSTANTS Requests, RetryEnabled, MaxAttempts

VARIABLES
    phase,      \* "idle", "busy", "done"
    batch,      \* the request is a batch
    failed,     \* attempts that failed
    kept,       \* an error response was kept for want of a better answer
    outcome     \* "ok", "rpcError", "lastError", "unavailable", "cancelled"

vars == <<phase, batch, failed, kept, outcome>>

Attempts == IF RetryEnabled THEN MaxAttempts ELSE 1

Init ==
    /\ phase   = [r \in Requests |-> "idle"]
    /\ batch   = [r \in Requests |-> FALSE]
    /\ failed  = [r \in Requests |-> 0]
    /\ kept    = [r \in Requests |-> FALSE]
    /\ outcome = [r \in Requests |-> "none"]

Start(r, b) ==
    /\ phase[r] = "idle"
    /\ phase' = [phase EXCEPT ![r] = "busy"]
    /\ batch' = [batch EXCEPT ![r] = b]
    /\ UNCHANGED <<failed, kept, outcome>>

Finish(r, res) ==
    /\ phase[r] = "busy"
    /\ phase'   = [phase EXCEPT ![r] = "done"]
    /\ outcome' = [outcome EXCEPT ![r] = res]
    /\ UNCHANGED <<batch, kept>>

\* An answer: an error is one for a single request only.
Answer(r, res) ==
    /\ res = "ok" \/ ~batch[r]
    /\ Finish(r, res) /\ UNCHANGED failed

\* Without retries the answer counts, whatever it is.
AnswerAnyway(r) ==
    /\ ~RetryEnabled
    /\ Finish(r, "lastError") /\ UNCHANGED failed

\* With retries a single request keeps an error that another upstream may not
\* make; a batch keeps nothing.
Keep(r) ==
    /\ phase[r] = "busy" /\ RetryEnabled /\ ~batch[r]
    /\ kept' = [kept EXCEPT ![r] = TRUE]
    /\ UNCHANGED <<phase, batch, failed, outcome>>

\* An attempt has failed, and another one is allowed.
TryAgain(r) ==
    /\ phase[r] = "busy" /\ failed[r] + 1 < Attempts
    /\ failed' = [failed EXCEPT ![r] = @ + 1]
    /\ UNCHANGED <<phase, batch, kept, outcome>>

\* No attempt or no upstream is left, or the caller is: what was kept is the
\* outcome, unless nobody waits for it.
GiveUp(r) ==
    /\ \E n \in {failed[r], failed[r] + 1} :
          n <= Attempts /\ failed' = [failed EXCEPT ![r] = n]
    /\ \/ Finish(r, IF kept[r] THEN "lastError" ELSE "unavailable")
       \/ Finish(r, "cancelled")

Next ==
    \E r \in Requests :
        \/ \E b \in BOOLEAN : Start(r, b)
        \/ Answer(r, "ok") \/ Answer(r, "rpcError") \/ AnswerAnyway(r)
        \/ Keep(r) \/ TryAgain(r) \/ GiveUp(r)

Spec == Init /\ [][Next]_vars
=============================================================================
