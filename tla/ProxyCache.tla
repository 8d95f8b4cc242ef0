------------------------------ MODULE ProxyCache ------------------------------
(***************************************************************************)
(* The life of a JSON-RPC request between the client and the executor:     *)
(* executeWithCache and executeBatchWithCache of proxy/handler.go, the     *)
(* cache rules of cache/methods.go and the LRU cache with expiry of        *)
(* cache/memory.go, which all handlers share.  The executor and the        *)
(* upstream stand here as what they return: failed attempts and, at last,  *)
(* what the upstream sent, which nobody compares with what was asked: a    *)
(* batch may get answers in any order, too few, too many, or a null.       *)
(***************************************************************************)
EXTENDS Naturals, Sequences, FiniteSets, SequencesExt

CONSTANTS
    Handlers,       \* goroutines that serve a message each
    Groups,         \* groups of upstreams, which share the cache
    Requests,       \* pairs of a method and its parameters
    Rule,           \* methodCacheRules of the method
    BlockParams,    \* the block parameters given, in order
    Truth,          \* the right result in each state of the chain
    WsHandlers,     \* those of a WebSocket client; net/http calls the others
    RetryEnabled,
    MaxAttempts,
    Size,           \* capacity of the cache
    Messages,       \* bound: what a handler may be asked: group, requests, batch
    MaxExtra,       \* bound: answers beyond the number of requests
    MaxChain        \* bound: the changes of each chain

Rules  == {"never", "always", "blockNumber", "blockRange"}
Blocks == {"number", "tag"}

\* The block parameters a method takes, if its rule depends on them.
Arity(rule) == CASE rule = "blockNumber" -> 1 [] rule = "blockRange" -> 2 [] OTHER -> 0

ASSUME RequestAssumption ==
    /\ Rule \in [Requests -> Rules]
    /\ BlockParams \in [Requests -> Seq(Blocks)]
    /\ \A r \in Requests : Rule[r] \in {"blockNumber", "blockRange"} =>
          Len(BlockParams[r]) <= Arity(Rule[r])
    /\ Truth \in [Requests -> [0..MaxChain -> Nat]]
ASSUME HandlerAssumption ==
    /\ WsHandlers \subseteq Handlers /\ RetryEnabled \in BOOLEAN
    /\ \A h \in Handlers : \A m \in Messages[h] :
          /\ m[1] \in Groups /\ m[2] \in Seq(Requests) /\ m[3] \in BOOLEAN
          /\ m[2] # <<>> /\ (m[3] \/ Len(m[2]) = 1)
ASSUME BoundAssumption ==
    /\ MaxAttempts \in Nat \ {0} /\ Size \in Nat \ {0} /\ MaxChain \in Nat
    /\ MaxExtra \in Nat

VARIABLES
    pc,         \* where a handler is
    group,      \* the group its message is for
    batch,      \* its message is a batch
    reqs,       \* the requests it serves
    next,       \* the one its loop has come to
    missed,     \* uncachedIndices
    attempt,    \* attempts of the executor that failed
    lastResp,   \* the executor's lastResp
    answers,    \* upstreamResponses
    resp,       \* the responses so far
    cache,      \* the entries, the most recently used one last
    crashed,    \* a panic has ended the process
    chain,      \* the changes of each group's chain so far: blocks,
                \* reorganisations, transactions that become pending or mined
    since,      \* history: the chain when a handler's message came
    unanswered, \* history: requests the upstream sent no answer for
    misplaced   \* history: those it sent the answer to another one for

historyVars == <<unanswered, misplaced>>
messageVars == <<group, batch, reqs, since>>
handlerVars == <<pc, messageVars, next, missed, attempt, lastResp, answers, resp, historyVars>>
vars == <<handlerVars, cache, crashed, chain>>

PCs   == {"idle", "lookup", "expired", "exec", "store", "reply"}
Kinds == {"ok", "retryable", "final", "failed", "refused"}

-----------------------------------------------------------------------------
(* Responses.  The id of a request is its place in the batch.              *)

NoGroup == "none"

Queries == Groups \X Requests

NoQuery == <<>>

\* A response under the id of the request it is an answer to (0: null), with the
\* request in whose place it was put and the state of the chain it was given in.
Response == [id : Nat, kind : Kinds, at : Queries \cup {NoQuery}, given : Nat]

\* A nil pointer: a response still missing, or a null in an upstream's array.
NoResponse == [id |-> 0]

\* A response that refuses the whole message; its id may be null.
Refusal == [kind |-> "refused"]

\* What a handler's i-th request asks, and of whom.
Query(h, i) == <<group[h], reqs[h][i]>>

\* The answer is taken to be always the same (docs/caching.md): the method is said
\* to return immutable data, or all block parameters are given and none is a tag.
IsImmutable(r) ==
    \/ Rule[r] = "always"
    \/ /\ Rule[r] # "never" /\ Len(BlockParams[r]) = Arity(Rule[r])
       /\ "tag" \notin ToSet(BlockParams[r])

Service == INSTANCE RpcService WITH
    Immutable <- {r \in Requests : IsImmutable(r)},
    asked     <- [h \in Handlers |-> reqs[h]],
    reply     <- [h \in Handlers |-> IF pc[h] = "reply" THEN resp[h] ELSE <<>>]

Failure(h, i) ==
    [id |-> i, kind |-> "failed", at |-> Query(h, i), given |-> 0]

Entry == [key : Queries, response : Response, fresh : BOOLEAN]

-----------------------------------------------------------------------------
(* cache/methods.go and cache/memory.go.                                   *)

\* Faulty variant: only the first block parameter of a range is looked at.
IsCacheable_FromOnly(r) ==
    \/ Rule[r] = "always"
    \/ /\ Rule[r] \in {"blockNumber", "blockRange"} /\ Len(BlockParams[r]) >= 1
       /\ BlockParams[r][1] # "tag"

IsCacheable(r) ==
    \/ Rule[r] = "always"
    \/ /\ Rule[r] = "blockNumber" /\ Len(BlockParams[r]) >= 1
       /\ BlockParams[r][1] # "tag"
    \/ /\ Rule[r] = "blockRange" /\ Len(BlockParams[r]) >= 2
       /\ BlockParams[r][1] # "tag" /\ BlockParams[r][2] # "tag"

\* Faulty variant: the method and the parameters make the key.
GenerateCacheKey_NoGroup(g, r) == <<CHOOSE any \in Groups : TRUE, r>>

\* All groups share one cache, so the group is part of the key.
GenerateCacheKey(g, r) == <<g, r>>

Key(h, i) == GenerateCacheKey(group[h], reqs[h][i])

Cached(c, k) == \E i \in DOMAIN c : c[i].key = k

\* A key has one entry.
PlaceOf(c, k) == CHOOSE i \in DOMAIN c : c[i].key = k

EntryOf(c, k) == c[PlaceOf(c, k)]

Without(c, k) == IF Cached(c, k) THEN RemoveAt(c, PlaceOf(c, k)) ELSE c

\* lru.Get moves the entry it finds to the most recently used end.
Touch(c, k) == Append(Without(c, k), EntryOf(c, k))

\* Faulty variant: the capacity is checked before the entry is added.
Set_OneMore(c, k, response) ==
    LET d == Append(Without(c, k), [key |-> k, response |-> response, fresh |-> TRUE])
    IN  IF Len(c) > Size THEN Tail(d) ELSE d

\* lru.Add replaces or adds, and evicts the least recently used entry.
Set(c, k, response) ==
    LET d == Append(Without(c, k), [key |-> k, response |-> response, fresh |-> TRUE])
    IN  IF Len(d) > Size THEN Tail(d) ELSE d

Init ==
    /\ pc       = [h \in Handlers |-> "idle"]
    /\ group    = [h \in Handlers |-> NoGroup]
    /\ batch    = [h \in Handlers |-> FALSE]
    /\ reqs     = [h \in Handlers |-> <<>>]
    /\ next     = [h \in Handlers |-> 1]
    /\ missed   = [h \in Handlers |-> <<>>]
    /\ attempt  = [h \in Handlers |-> 0]
    /\ lastResp = [h \in Handlers |-> NoResponse]
    /\ answers  = [h \in Handlers |-> <<>>]
    /\ resp     = [h \in Handlers |-> <<>>]
    /\ cache    = <<>>
    /\ crashed  = FALSE
    /\ chain    = [g \in Groups |-> 0]
    /\ since    = [h \in Handlers |-> 0]
    /\ unanswered = [h \in Handlers |-> {}]
    /\ misplaced  = [h \in Handlers |-> {}]

\* The process is running and handler h has come to p.
At(h, p) == pc[h] = p /\ ~crashed

-----------------------------------------------------------------------------
(* A message comes in: ServeHTTP up to the execution of its requests.      *)

\* A message for a known group: one request, or a batch of them, all valid.
Receive(h, g, rs, b) ==
    /\ At(h, "idle") /\ <<g, rs, b>> \in Messages[h]
    /\ pc'    = [pc EXCEPT ![h] = "lookup"]
    /\ group' = [group EXCEPT ![h] = g]
    /\ batch' = [batch EXCEPT ![h] = b]
    /\ reqs'  = [reqs EXCEPT ![h] = rs]
    /\ since' = [since EXCEPT ![h] = chain[g]]
    /\ resp'  = [resp EXCEPT ![h] = [i \in 1..Len(rs) |-> NoResponse]]
    /\ UNCHANGED <<next, missed, attempt, lastResp, answers, cache, historyVars, crashed, chain>>

\* No such group, unreadable, too large, not JSON-RPC, or one of its requests is
\* invalid: the message gets one error, and nothing of it is executed.
Refuse(h) ==
    /\ At(h, "idle")
    /\ pc'   = [pc EXCEPT ![h] = "reply"]
    /\ resp' = [resp EXCEPT ![h] = <<Refusal>>]
    /\ UNCHANGED <<messageVars, next, missed, attempt, lastResp, answers, cache, historyVars, crashed, chain>>

-----------------------------------------------------------------------------
(* Looking each request up.                                                *)

\* The loop goes on with the next request, or ends with ms left to ask for.
AfterLookup(h, ms) ==
    IF next[h] < Len(reqs[h])
      THEN /\ next' = [next EXCEPT ![h] = @ + 1]
           /\ pc'   = [pc EXCEPT ![h] = "lookup"]
      ELSE /\ next' = [next EXCEPT ![h] = 1]
           /\ pc'   = [pc EXCEPT ![h] = IF ms = <<>> THEN "reply" ELSE "exec"]

\* Faulty variant: the id of the request that filled the cache is kept.
LookupHit_KeepsId(h) ==
    LET k == Key(h, next[h])
        e == EntryOf(cache, k)
    IN  /\ At(h, "lookup") /\ IsCacheable(reqs[h][next[h]])
        /\ Cached(cache, k) /\ e.fresh
        /\ resp'  = [resp EXCEPT ![h][next[h]] = e.response]
        /\ cache' = Touch(cache, k)
        /\ AfterLookup(h, missed[h])
        /\ UNCHANGED <<messageVars, missed, attempt, lastResp, answers, historyVars, crashed, chain>>

\* A fresh entry answers, under the id of this request.
LookupHit(h) ==
    LET k == Key(h, next[h])
        e == EntryOf(cache, k)
    IN  /\ At(h, "lookup") /\ IsCacheable(reqs[h][next[h]])
        /\ Cached(cache, k) /\ e.fresh
        /\ resp'  = [resp EXCEPT ![h][next[h]] = [e.response EXCEPT !.id = next[h]]]
        /\ cache' = Touch(cache, k)
        /\ AfterLookup(h, missed[h])
        /\ UNCHANGED <<messageVars, missed, attempt, lastResp, answers, historyVars, crashed, chain>>

\* An expired entry is seen under the read lock ...
LookupExpired(h) ==
    LET k == Key(h, next[h]) IN
    /\ At(h, "lookup") /\ IsCacheable(reqs[h][next[h]])
    /\ Cached(cache, k) /\ ~EntryOf(cache, k).fresh
    /\ cache' = Touch(cache, k)
    /\ pc'    = [pc EXCEPT ![h] = "expired"]
    /\ UNCHANGED <<messageVars, next, missed, attempt, lastResp, answers, resp, historyVars, crashed, chain>>

\* ... and what the key then holds is removed under the write lock.
RemoveSeen(h) ==
    /\ At(h, "expired")
    /\ cache'  = Without(cache, Key(h, next[h]))
    /\ missed' = [missed EXCEPT ![h] = Append(@, next[h])]
    /\ AfterLookup(h, missed'[h])
    /\ UNCHANGED <<messageVars, attempt, lastResp, answers, resp, historyVars, crashed, chain>>

LookupMiss(h) ==
    /\ At(h, "lookup")
    /\ IsCacheable(reqs[h][next[h]]) => ~Cached(cache, Key(h, next[h]))
    /\ missed' = [missed EXCEPT ![h] = Append(@, next[h])]
    /\ AfterLookup(h, missed'[h])
    /\ UNCHANGED <<messageVars, attempt, lastResp, answers, resp, cache, historyVars, crashed, chain>>

-----------------------------------------------------------------------------
(* The executor: ExecuteWithPool and ExecuteBatchWithPool, seen from here.  *)

Attempts == IF RetryEnabled THEN MaxAttempts ELSE 1

\* Its attempt and lastResp end with it.
Returns(h) ==
    /\ attempt'  = [attempt EXCEPT ![h] = 0]
    /\ lastResp' = [lastResp EXCEPT ![h] = NoResponse]

\* The executor is done without a final answer.  A single request returns the
\* error response it kept; otherwise every request asked for has failed.
GivesUp(h, kept) ==
    /\ pc'   = [pc EXCEPT ![h] = "reply"]
    /\ resp' = [resp EXCEPT ![h] =
                  IF ~batch[h] /\ kept # NoResponse THEN <<kept>>
                  ELSE [i \in DOMAIN @ |->
                          IF i \in ToSet(missed[h]) THEN Failure(h, i) ELSE @[i]]]
    /\ missed' = [missed EXCEPT ![h] = <<>>]
    /\ Returns(h)

\* The end of an attempt that is to be repeated, if there are attempts left.
AfterAttempt(h, kept) ==
    IF attempt[h] + 1 < Attempts
      THEN /\ attempt'  = [attempt EXCEPT ![h] = @ + 1]
           /\ lastResp' = [lastResp EXCEPT ![h] = kept]
           /\ UNCHANGED <<pc, resp, missed>>
      ELSE GivesUp(h, kept)

\* An answer to the i-th request, in the place of the j-th one asked for.  Of one
\* too many nobody but hasRetryable takes notice: an error stands for any.
Answer(h, j, i, kind) ==
    IF j \in DOMAIN missed[h]
      THEN [id |-> i, kind |-> kind, at |-> Query(h, missed[h][j]),
            given |-> IF kind = "ok" THEN chain[group[h]] ELSE 0]
      ELSE [id |-> 0, kind |-> IF kind = "ok" THEN "final" ELSE kind,
            at |-> NoQuery, given |-> 0]

\* What an upstream may send for a batch: an array of whatever length and order,
\* with nulls among the answers, or one error about no request in particular.
BatchAnswers(h) ==
    LET Pick       == ToSet(missed[h]) \X {"ok", "retryable", "final", "null"}
        Given(j, p) == IF p[2] = "null" THEN NoResponse ELSE Answer(h, j, p[1], p[2])
    IN  {[j \in DOMAIN picks |-> Given(j, picks[j])] :
            picks \in UNION {[1..n -> Pick] : n \in 0..Len(missed[h]) + MaxExtra}}
        \cup {<<Answer(h, 1, 0, k)>> : k \in {"retryable", "final"}}

\* A single request gets one answer.
UpstreamAnswers(h) ==
    IF pc[h] # "exec" THEN {}
    ELSE IF batch[h] THEN BatchAnswers(h)
    ELSE {<<Answer(h, 1, 1, k)>> : k \in {"ok", "retryable", "final"}}

\* hasRetryable: the loop over the answers meets a retryable error ...
IsRetryable(given) ==
    RetryEnabled /\ \E j \in DOMAIN given :
        /\ given[j] # NoResponse /\ given[j].kind = "retryable"
        /\ \A i \in 1..j - 1 : given[i] # NoResponse

\* ... or, before one, a nil pointer.
MeetsNil(given) ==
    RetryEnabled /\ ~IsRetryable(given) /\ NoResponse \in ToSet(given)

\* The loop that puts the responses in their places comes to answer j, or ends.
\* Requests there are no answers for keep a nil response.
AfterStore(h, j, given) ==
    IF j <= Len(given)
      THEN /\ pc'      = [pc EXCEPT ![h] = "store"]
           /\ next'    = [next EXCEPT ![h] = j]
           /\ answers' = [answers EXCEPT ![h] = given]
           /\ UNCHANGED missed
      ELSE /\ pc'      = [pc EXCEPT ![h] = "reply"]
           /\ next'    = [next EXCEPT ![h] = 1]
           /\ answers' = [answers EXCEPT ![h] = <<>>]
           /\ missed'  = [missed EXCEPT ![h] = <<>>]

\* The answers are final: without retries, or with no retryable error in them.
CallAnswers(h, given) ==
    /\ At(h, "exec") /\ ~IsRetryable(given) /\ ~MeetsNil(given)
    /\ unanswered' = [unanswered EXCEPT ![h] =
                        {missed[h][j] : j \in DOMAIN missed[h] \ DOMAIN given}]
    /\ misplaced' = [misplaced EXCEPT ![h] =
                       {missed[h][j] : j \in {i \in DOMAIN missed[h] \cap DOMAIN given :
                                                 given[i].id # missed[h][i]}}]
    /\ AfterStore(h, 1, given)
    /\ Returns(h)
    /\ UNCHANGED <<messageVars, resp, cache, crashed, chain>>

\* One retryable error: a single request keeps the answer, a batch drops all.
CallRetryable(h, given) ==
    /\ At(h, "exec") /\ IsRetryable(given)
    /\ AfterAttempt(h, IF batch[h] THEN NoResponse ELSE given[1])
    /\ UNCHANGED <<messageVars, next, answers, cache, historyVars, crashed, chain>>

\* No answer from the upstream asked.
CallFails(h) ==
    /\ At(h, "exec")
    /\ AfterAttempt(h, lastResp[h])
    /\ UNCHANGED <<messageVars, next, answers, cache, historyVars, crashed, chain>>

\* No upstream is left to ask, or the client's context is done.
CallEnds(h, kept) ==
    /\ At(h, "exec") /\ kept \in {lastResp[h], NoResponse}
    /\ GivesUp(h, kept)
    /\ UNCHANGED <<messageVars, next, answers, cache, historyVars, crashed, chain>>

-----------------------------------------------------------------------------
(* Responses are put in their places, successful ones cached.               *)

\* upstreamResponses[j] is taken for the answer to uncachedRequests[j].
Store(h) ==
    LET j   == next[h]
        i   == missed[h][j]
        ans == answers[h][j]
    IN  /\ At(h, "store") /\ j <= Len(missed[h]) /\ ans # NoResponse
        /\ resp'  = [resp EXCEPT ![h][i] = ans]
        /\ cache' = IF ans.kind = "ok" /\ IsCacheable(reqs[h][i])
                      THEN Set(cache, Key(h, i), ans) ELSE cache
        /\ AfterStore(h, j + 1, answers[h])
        /\ UNCHANGED <<messageVars, attempt, lastResp, historyVars, crashed, chain>>

\* The handler is done with its message.
Over(h) ==
    /\ pc'    = [pc EXCEPT ![h] = "idle"]
    /\ group' = [group EXCEPT ![h] = NoGroup]
    /\ batch' = [batch EXCEPT ![h] = FALSE]
    /\ reqs'  = [reqs EXCEPT ![h] = <<>>]
    /\ since' = [since EXCEPT ![h] = 0]
    /\ resp'  = [resp EXCEPT ![h] = <<>>]
    /\ unanswered' = [unanswered EXCEPT ![h] = {}]
    /\ misplaced'  = [misplaced EXCEPT ![h] = {}]
    /\ UNCHANGED cache

\* writeResponse, writeBatchResponse.
Reply(h) ==
    /\ At(h, "reply") /\ Over(h)
    /\ UNCHANGED <<next, missed, attempt, lastResp, answers, crashed, chain>>

\* net/http recovers a handler's panic and drops the connection, without a reply;
\* nothing recovers one of a WebSocket client's goroutine, and the process ends.
Panic(h) ==
    \/ /\ h \notin WsHandlers /\ Over(h)
       /\ next'    = [next EXCEPT ![h] = 1]
       /\ missed'  = [missed EXCEPT ![h] = <<>>]
       /\ answers' = [answers EXCEPT ![h] = <<>>]
       /\ Returns(h)
       /\ UNCHANGED <<crashed, chain>>
    \/ /\ h \in WsHandlers
       /\ crashed' = TRUE
       /\ UNCHANGED <<handlerVars, cache, chain>>

\* resp.HasError() of a nil pointer.
CallPanics(h, given) ==
    At(h, "exec") /\ MeetsNil(given) /\ Panic(h)

\* uncachedIndices[j] does not exist, or resp.IsSuccess() of a nil pointer.
StorePanics(h) ==
    /\ At(h, "store")
    /\ ~(next[h] <= Len(missed[h]) /\ answers[h][next[h]] # NoResponse)
    /\ Panic(h)

-----------------------------------------------------------------------------
(* Time: entries expire, cleanupLoop removes them, the chains change.       *)

Expire(k) ==
    /\ ~crashed /\ Cached(cache, k) /\ EntryOf(cache, k).fresh
    /\ cache' = [i \in DOMAIN cache |->
                   IF cache[i].key = k THEN [cache[i] EXCEPT !.fresh = FALSE] ELSE cache[i]]
    /\ UNCHANGED <<handlerVars, crashed, chain>>

\* The fresh entries stay, in their order.
removeExpired ==
    LET kept == {i \in DOMAIN cache : cache[i].fresh} IN
    /\ ~crashed /\ kept # DOMAIN cache
    /\ \E place \in [1..Cardinality(kept) -> kept] :
          /\ \A i, j \in DOMAIN place : i < j => place[i] < place[j]
          /\ cache' = [i \in DOMAIN place |-> cache[place[i]]]
    /\ UNCHANGED <<handlerVars, crashed, chain>>

ChainChanges(g) ==
    /\ ~crashed /\ chain[g] < MaxChain
    /\ chain' = [chain EXCEPT ![g] = @ + 1]
    /\ UNCHANGED <<handlerVars, cache, crashed>>

-----------------------------------------------------------------------------

ExecStep(h) ==
    \/ \E given \in UpstreamAnswers(h) :
          CallAnswers(h, given) \/ CallRetryable(h, given) \/ CallPanics(h, given)
    \/ CallFails(h)
    \/ CallEnds(h, lastResp[h]) \/ CallEnds(h, NoResponse)

HandlerStep(h) ==
    \/ \E m \in Messages[h] : Receive(h, m[1], m[2], m[3])
    \/ Refuse(h)
    \/ LookupHit(h) \/ LookupExpired(h) \/ RemoveSeen(h) \/ LookupMiss(h)
    \/ ExecStep(h) \/ Store(h) \/ StorePanics(h) \/ Reply(h)

Next ==
    \/ \E h \in Handlers : HandlerStep(h)
    \/ \E k \in Queries : Expire(k)
    \/ removeExpired
    \/ \E g \in Groups : ChainChanges(g)

Spec == Init /\ [][Next]_vars

-----------------------------------------------------------------------------
(* Properties.                                                             *)

TypeOK ==
    /\ pc \in [Handlers -> PCs]
    /\ group \in [Handlers -> Groups \cup {NoGroup}]
    /\ batch \in [Handlers -> BOOLEAN]
    /\ since \in [Handlers -> 0..MaxChain]
    /\ \A h \in Handlers :
          /\ reqs[h] \in Seq(Requests)
          /\ next[h] \in 1..Len(reqs[h]) + 1
          /\ missed[h] \in Seq(1..Len(reqs[h]))
          /\ attempt[h] \in 0..Attempts - 1
          /\ lastResp[h] \in Response \cup {NoResponse}
          /\ answers[h] \in Seq(Response \cup {NoResponse})
          /\ \/ resp[h] \in Seq(Response \cup {NoResponse}) /\ Len(resp[h]) = Len(reqs[h])
             \/ resp[h] = <<Refusal>> /\ reqs[h] = <<>>
          /\ unanswered[h] \cup misplaced[h] \subseteq 1..Len(reqs[h])
    /\ cache \in Seq(Entry) /\ Len(cache) <= Size
    /\ crashed \in BOOLEAN
    /\ chain \in [Groups -> 0..MaxChain]

\* Whichever requests of a message the cache held, an upstream answered or left
\* out, and whatever other handlers did to the cache meanwhile: a reply has a place
\* for every request.  It is empty if the upstream sent no answer for that request;
\* else it holds a failure or what an upstream of its group once put in the place
\* of this very request, under its own id unless the upstream, asked for this
\* message, put the answer to another request there.
RepliesAreOwn ==
    \A h \in Handlers : pc[h] = "reply" =>
        \A i \in 1..Len(reqs[h]) :
            IF i \in unanswered[h] THEN batch[h] /\ resp[h][i] = NoResponse
            ELSE /\ resp[h][i].at = Query(h, i)
                 /\ i \in misplaced[h] \/ resp[h][i].id = i

\* docs/caching.md:29: "These methods return immutable data that can always be
\* cached".  A result the cache holds for a request is the one an upstream would
\* give now, however far the chain went since.
CachedIsImmutable ==
    \A e \in ToSet(cache) :
        Truth[e.key[2]][e.response.given] = Truth[e.key[2]][chain[e.key[1]]]

\* The handlers implement RpcService: whatever comes out of the cache, and
\* whoever put it there, a reply holds errors and results that upstreams of the
\* request's own group gave for it, and none from before the message came unless
\* the request names immutable data, or a method that is said to return such.
ImplementsService == Service!Spec

=============================================================================
