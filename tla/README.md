# RPCGofer in TLA+

RPCGofer is a proxy for Ethereum JSON-RPC. It serves *groups* of upstream nodes:
ordinary requests go to one upstream at a time, with retries and a fallback
group; answers to immutable requests are cached; `eth_subscribe` subscriptions
of many clients share one upstream subscription per key; a health monitor
decides from block numbers which upstreams may be used. This directory models
the parts of it that keep state and checks the models with TLC. Every safety
property, action property and refinement the runs check is also proved with
TLAPS, for all values of the constants (section 4).

Paths below are relative to `src/internal/`. `PROJECT.json` maps every
definition to the lines it stands for, and lists runs, mutants, findings,
hazards and theorems.

## 1. The system

| Component | Code | State | Operations |
|---|---|---|---|
| Shared subscriptions | `subscription/shared.go` | `m.subscriptions` by key; per object its subscribers, `closed`, `upstreamSubs`; a connection and a reader goroutine per upstream | Subscribe, Unsubscribe, Close, read loop, reconnect, cleanup |
| Event fan-out | `subscription/shared.go`, `dedup.go`, `client.go` | LRU of event keys, `sendChan` of each subscriber | broadcastEvent, IsDuplicate, OnEvent with waitForMainBlock, sendToClient |
| Client sessions | `ws/client.go`, `subscription/manager.go`, `client.go` | connection, send queue, `Manager.sessions`, `ClientSession.subscriptions`, `closed` flags | handleMessage and handleBatch, subscribe, unsubscribe, send, writePump, sendToClient, Close by reader or writer, CloseAll |
| Health monitor | `upstream/health.go`, `types.go` | `Status.healthy`, `Status.currentBlock`, `maxBlock`, lag timers | Start, OnBlock, poll, updateMaxBlock, checkLagForBlock, Stop |
| Executor | `proxy/retry.go`, `balancer/balancer.go`, `upstream/pool.go` | per request: tried map, attempts, balancer; shared: upstream health | Execute, ExecuteBatch, Next |
| Handler and cache | `proxy/handler.go`, `proxy/router.go`, `cache/*.go` | LRU with expiry, shared by all requests of all groups | executeWithCache, executeBatchWithCache, Get, Set, removeExpired |
| Upstream WebSocket requests | `upstream/upstream.go` | connection, pending requests | ConnectWS, HandleWSMessage: called by nothing |
| Counters, JSON-RPC types, router, server, configuration | `upstream/types.go`, `jsonrpc`, `proxy/router.go`, `server`, `config` | counters; otherwise none after start-up | no operation with an interleaving of its own |

How they meet:

- a client's read goroutine (`ws/client.go`) calls either the handler or its
  `ClientSession`, which calls `SharedSubscriptionManager.Subscribe`;
- each shared subscription calls its subscribers (clients *and* the health
  monitor) from its reader goroutines, one after the other, without a lock;
- a client's `OnEvent` in turn reads the health and the block numbers the
  monitor derived from the same events (the fallback gate);
- the handler calls the executor, which reads the health through the pool.

What is hard about it, and what makes each part correct:

| Component | Hard behaviour | Correct means |
|---|---|---|
| Shared subscriptions | dialling under the manager's mutex; closing while a reader reconnects; an old object draining while its successor starts | one live object per key; Close reaches every reader; no connection without an owner; lost connections come back |
| Fan-out | two readers with one event; duplicates, eviction, reorganised blocks, full channels; a gate inside the reader goroutine | only copies are suppressed, and someone delivers what they are copies of; fallbacks do not overtake a main that keeps healthy; the main readers are never held up |
| Sessions | closing during subscribe; two closers and a server shutdown; the limit checked before the store; a bounded queue shared by responses and events; a client that dies silently | listed means served; nothing registered that nobody knows; no goroutine forgotten; the limit; every request answered; closing ends |
| Health | three variables in four separate steps; timers against handlers | the maximum is somebody's block; a laggard is marked; who caught up recovers |
| Executor | health flips between candidate list, choice and call; what failed attempts leave behind | one call per upstream; fallbacks last; no early surrender; one outcome, justified by the attempts |
| Handler and cache | hits and misses mixed in a batch; entries of another goroutine; groups that share the cache; expiry between two locks; upstreams that answer in another order or number | each place of a reply holds what an upstream of the group gave for it, since the message came unless the data are immutable; a wrong answer goes no further than the place an upstream put it in |

## 2. Modules

| Module | Role |
|---|---|
| `SubscriptionFeed` | what a client of the shared-subscription manager may rely on: a key is served or not, and by whom |
| `SharedSubscription` | the manager and the reader goroutines; implements `SubscriptionFeed` |
| `SharedSubscription_proofs` | its inductive invariant and seven theorems |
| `SubscriptionFeed_proofs` | that it implements `SubscriptionFeed` |
| `EventFanout` | one event's way from several upstreams to the clients |
| `EventFanout_proofs` | its inductive invariant and five theorems |
| `ClientSession` | one WebSocket connection: its messages, subscriptions and send queue |
| `ClientSession_proofs` | its inductive invariant and five theorems |
| `HealthMonitor` | block numbers, health and lag checks |
| `HealthMonitor_proofs` | its inductive invariant and three theorems |
| `UpstreamCall` | what executing a request comes to for the handler that asks for it |
| `Executor` | a request's way to an upstream; implements `UpstreamCall` |
| `Executor_proofs` | its inductive invariants and five theorems |
| `RpcService` | what a client of the proxy may rely on |
| `ProxyCache` | request handlers over the shared cache; implements `RpcService` |
| `ProxyCache_proofs` | its inductive invariant and three theorems |
| `FiniteNumbers` | a lemma on finite sets of numbers that two of the proofs use |
| `MC*` | the model values, symmetry sets and tables of the instances |

Each module that models code has a section "Faulty variants": copies of
actions with one plausible slip (a forgotten guard, an off-by-one, a missing
close). No specification uses them; they are the mutants of `PROJECT.json`,
and each of them makes TLC find its property violated.

### SharedSubscription

One key, because keys meet only at `m.mu` and at counters. Goroutines that hold
`m.mu` are the variable `mu` (what its holder is doing) with `rest`, the
upstreams its loop has not reached. A `SharedSubscription` object is a
*generation*; `pc[g][u]` is the reader of generation `g` and upstream `u`:

| `pc` | code |
|---|---|
| `head` | the selects at the top of `readUpstreamEventsWithReconnect` and `readUpstreamEvents` |
| `read` | `ReadMessage` |
| `wait` | the select on closeChan, context and reconnect interval |
| `dial`, `install` | `reconnectToUpstream`, then the map entry and `upSub` |
| `cleanup`, `delete` | `cleanupUpstreamSub`: connection and counter, then the map entry under `s.mu` |

- `badReads` counts failing reads of one connection, since gorilla/websocket
  panics at the 1000th (`ReadPanicLimit`).
- `upstreamSubs` is read and written without `s.mu` by the code under `m.mu`.
  The Go runtime may end the process when a reader writes it at that moment:
  `ConcurrentMapAccess` is that outcome, and otherwise map operations are
  atomic.
- `upSub.closeChan` is not a variable: only Close closes it, after `s.closeChan`.
- Messages only move a reader from `read` to `head` in one step (`ReadEvent`); their
  content is the subject of `EventFanout`. A fallback's reader that is held at the
  gate notices neither a lost connection nor a Close of the shared subscription
  before the client or a main lets it go on; `ClosedReadersReturn` and
  `LostIsReconnected` speak of readers that are not held there.

`ImplementsFeed` instantiates `SubscriptionFeed` with the registered object's
subscribers as the refinement mapping.

### EventFanout

Events of one registered object whose connections are up. An event is a place in
the history of the chain; `Number` and `Key` give the block number and the dedup
key in it. A block that replaces another has its number and a key of its own; 0
stands for a number or key that cannot be read (such an event is always new,
passes no gate and is ignored by the health monitor). Each upstream reports the
history in order and may skip some of it. `Contains` and `AddKey` are the two
halves of `IsDuplicate`, which says "new" in `FoundNew`; `Snapshot` copies the
subscribers; then the reader calls them one by one, in any order (Go's map
order).

`GateBlock` to `GateClosed` are the polling loop of `waitForMainBlock`. It asks the
pool two questions, and each answer is a loop over the mains in the order of the
pool's list (`MainOrder`, `look`): `GateBlock` loads the health of one main,
`GateLoad` the block of a healthy one, `GateHealthy` the health again for the second
question. Health may change between any two loads, since `p.mu` guards the list
only. With two mains that swap their health in the meantime the second loop sees
none healthy, although one was at every moment. `GateHolds` is what remains true:
past the gate, a main has the block, or *each* main was unhealthy at some moment
since the client's `OnEvent` began; a main that keeps healthy is not overtaken.

Besides feeds there may be *polled* upstreams, which have no WebSocket URL and no
reader: `Poll` and `PollFails` change their health and blocks at any time.
`LagCheck` over-approximates the health monitor: it may mark a lagging main upstream
at any time. `lapse`, `fresh` and `owed` are history variables for the properties.
Logs and pending transactions take the same path; they are events without a number,
whose keys tell them apart except for removed logs (section 5).

### ClientSession

One connection. Actors: its read goroutine (`rp`), the write goroutine
(`writer`), a forwarding goroutine per subscription (`sender`), the server's
`CloseAll`. Reader and writer close through `closeOnce`; the server closes only
the session, so the read goroutine may go on and obtain a *new* session. At most
three sessions can arise: one at first, one after `RemoveSession` and one after
`CloseAll`. Subscription ids are fresh; the shared manager is the set `shared` of
registered subscribers; the manager's own Close at the end of the server's Stop is
an action of `SharedSubscription` only.

`Read(n, p)` takes a message with `n` subscription requests (`left`) and perhaps
ordinary ones (`plain`). As `handleBatch` does, the subscription requests are
handled first, one after the other, each with a response of its own, then the
ordinary requests together (their way is `ProxyCache`). The read goroutine looks
at `closeChan` only between messages. `Enqueue` and `Drop` are the three branches
of the select in `send`, used by the read goroutine (`Respond`) and by the
forwarders (`SenderForwards`). `answer` follows one response, chosen at will, from
its request to the connection. `conn` is "dead" when the client is gone without a
word: reads then fail at their deadline and writes sooner or later.

### HealthMonitor

`pc[u]` is the handler of one block number of upstream `u`: `UpdateBlock`,
`MarkHealthy` (feeds only), `UpdateMax`, `ReadMax`, `Judge` are separate steps,
as they are separate accesses in the code. A fired timer looks at the upstreams
one at a time, and marking (`CheckMark`) comes a step after reading
(`CheckRead`). Every block may be repeated or old; `Reports` bounds the numbers an
upstream comes up with. A threshold of 0 is treated as the code treats it, as any
other; the documentation says otherwise (section 5).

One timing fact is used: `TimerFires(t)` waits until no handler is between
`ReadMax` and `Judge` with a maximum older than `t`. The timer was armed
`lagRecoveryTimeout` seconds before, while a handler needs microseconds for these
two instructions.

### Executor

`ExecuteWithPool` makes a new balancer for each request, so a request shares only
the health of the upstreams with others. `TryMains` and `TryFallbacks` are the
two halves of `getAvailable`; health may change between them, between choice and
call, and during the call. Each list the pool returns is read in one step. The
choice among the candidates is the weighted round-robin loop (`Advance`, one turn
each); `Rank` is a candidate's place in the list. `Send` to an upstream without an
HTTP URL sends nothing: the WebSocket of such an upstream is never connected.
`lapse` records which upstreams were unhealthy at some moment of the request.

`phaseBar` and three of the variables form the refinement mapping to
`UpstreamCall`, which has neither upstreams nor health: a request is busy through
a bounded number of failed attempts, may keep an error unless it is a batch, and
ends once. This is what `ProxyCache` takes the executor for.

### ProxyCache

A handler takes a message for a group, looks every request up, sends the misses
to the executor, stores what may be stored and replies; or it refuses the whole
message (unknown group, not JSON-RPC, one invalid request). A request is a model
value with a cache rule and block parameters; a cache key is the group and the
request, so parameters that normalise alike are one request and the truncated hash
is taken to tell requests apart. An id is a place in the batch, and a disabled
method, or a cache switched off, is the rule "never". `ws/client.go` repeats the
same two functions for requests over WebSocket.

The executor appears as its outcomes: failed attempts, then what the upstream
sent, or an error. Upstreams are not trusted (`BatchAnswers`): as
`ParseBatchResponse` accepts it, a batch may be answered by an array of any length
and order, with the answer to one request several times, with nulls, or by one
error object. The code looks at positions only, and the model has all that follows:

- a request gets the answer to another one, and a successful one is cached under
  the wrong key (`Store`);
- requests for which nothing came keep a nil response (`AfterStore`);
- a null answer is dereferenced, in `hasRetryable` (`CallPanics`) or when it is
  stored (`StorePanics`), and an answer too many runs past `uncachedIndices`
  (`StorePanics`). `net/http` recovers the panic of an HTTP handler and drops its
  connection; that of a WebSocket client's goroutine ends the process (`crashed`).

A response records the id of the request it is an answer to, the request `at` in
whose place it was put, and the state of the group's chain when it was `given`.
Whether its content is right the proxy cannot know, and the model does not say.
Each group's `chain` counts the changes of its chain, reorganisations and
transactions that become pending or mined included. Two things are taken for
granted of an upstream: each answer in an array is null or a JSON-RPC object that
carries the id of one of the requests, and a single request gets one answer under
its own id. `unanswered` and `misplaced` are history: what an upstream left out of
this handler's batch, or put in another one's place.

`RpcService` knows no cache, executor or retries. A message gets one reply with a
place for each request, and each place holds an error, or a result that upstreams
of its own group gave for that request between the message (`since`) and the reply;
an older result only if `docs/caching.md` says that the method returns immutable data,
or the request has all its block parameters and no tag among them. A place in a batch may be empty, and a batch may stay without a reply; a
single request never. The mapping shows a handler's responses once it replies.

## 3. Runs

Deadlock is checked in every run but `proxy_safety`, where a panic may end the
process and nothing happens any more; a module that may end has a stuttering step for
the states in which everything has ended, and no other state may lack a
successor.

| Run | Question | Bounds, and why they suffice |
|---|---|---|
| `shared_safety` | is there one live object, are connections owned, does Close reach a reconnecting reader, does the manager implement the feed? | 2 subscribers (last and not last), 2 upstreams (some dialled, some not), 2 generations (old drains, new starts), 1 lost connection. The proofs lift all invariants to any bounds |
| `shared_live` | do closed readers return, are lost connections re-dialled, does shutdown end? | 1 upstream, 2 losses, so a reader goes twice through its loop |
| `shared_retry` | violation: "waits and retries indefinitely" | 1 generation, read limit 3 in place of 1000: only the length of the counterexample depends on it |
| `health_safety` | maximum against blocks, laggards and recovery | a feed at block 3 and a poller that reports block 1 or 2, threshold 1: a lag as large as the threshold and a larger one both occur, with two lag checks in flight: 298 000 states |
| `health_lag` | violation: "healthy = (lag <= blockLagThreshold)" | 3 blocks and threshold 1 |
| `fanout_safety` | no event hidden by another or lost as a duplicate, gate, progress of main readers | a main and a fallback with feeds, a second main that is polled, so the two can swap their health while the gate's loops run; 1 client that comes and goes, a block, its replacement and one without a key, cache of 1 (evicts), channel of 1 (overflows): 547 000 states. Threshold 0, with which mains lapse soonest |
| `fanout_failover` | violation: fallback events pass when main upstreams are silent | blocks 2 and 4, threshold 1, so whoever misses one lags too far; the cache holds both, to show that eviction is not the cause |
| `executor_safety` | one call per upstream, fallbacks last, no early surrender, termination; does it implement `UpstreamCall`? | 2 main and 2 fallback upstreams in mixed order with weights 2, 1, 1, 3, one without HTTP; 3 attempts; 3 health changes, so lists shrink and grow between attempts |
| `session_safety` | listed is served, registered is known, the limit, no forwarder forgotten, closing ends, requests are answered | 2 ids, 1 at a time: the limit is reached and reached again; messages of up to 2 requests and a queue of 1, so a batch meets a full queue and a closed client in its middle: 554 000 states |
| `session_leak` | violation: "On disconnect: client removed from all SharedSubscriptions" | 1 id |
| `proxy_safety` | what is in each place of a reply; do the handlers implement `RpcService`? | 2 handlers, one of a WebSocket client, 2 groups with a chain each over a cache of 1: hits, misses, eviction and expiry between lookup and store; a request fixed by its block and one that names the head; batches of 2 answered by 0 to 3 answers (too few, as many, too many) in any order: 798 000 states |
| `proxy_null` | violation: "immutable data that can always be cached" | a receipt asked for before and after its transaction is mined |

### Fairness

Safety runs of `SharedSubscription` and `ProxyCache` and the violation of
`shared_retry`, `health_lag`, `session_leak` and `proxy_null` assume none.

- `SharedSubscription`: a goroutine that can run does run (weak fairness of
  every reader's own steps and of the manager's steps: dials have a deadline of
  10 s); `CloseManager` is strongly fair, because `sync.RWMutex` does not starve a
  waiting writer. Nothing is assumed of the peers: an upstream may refuse every
  reconnect, and connections are lost without fairness.
- `HealthMonitor`: handlers and fired timers run, the initial fetch ends (HTTP
  timeout), and of the polls of an upstream some succeed (strong fairness, used
  for `PolledRecovers` only).
- `EventFanout`: readers go on (`ReaderSpec`); for the violation `fanout_failover`
  lag checks do too, and a reader that finds a tick and a close again and again
  takes the close at last (`FairSpec`). No upstream has to report anything.
- `Executor`: a request's steps go on, as HTTP calls end by answer or timeout.
- `ClientSession`: the read and write goroutines and closers go on (dials and
  upstream calls end); a read fails once the connection is closed, or dead and
  past the read deadline, and a pending write ends by its deadline. Nothing is
  assumed of the forwarders, and clients need not send or leave.

## 4. Proofs

`tlapm` checks the proof modules to the last leaf, with SMT, Zenon and LS4. Each
of them follows one plan: an inductive invariant `IndInv` that contains the
properties and what the actors still know from earlier steps; one lemma per
group of actions that preserves it; the theorems as its consequences. TLC
checked every `IndInv` on the instances of the runs before it was proved.

| Module | Theorems |
|---|---|
| `SharedSubscription_proofs` | `TypeCorrect`, `RegisteredIsLiveHolds`, `OneLiveFeedHolds`, `NoLeakedConnectionHolds`, `MapMatchesReadersHolds`, `CloseReachesReadersHolds`, the action property `ClosedIsFinalHolds` |
| `SubscriptionFeed_proofs` | `FeedImplemented`: `SharedSubscription` implements `SubscriptionFeed` |
| `EventFanout_proofs` | `TypeCorrect`, `SuppressedKeys`, `SuppressedNew`, `SeenDelivered`, `GateIsHeld` |
| `ClientSession_proofs` | `TypeCorrect`, `ListedServed`, `RegisteredKnown`, `LimitHolds`, `ForwardersTold` |
| `HealthMonitor_proofs` | `TypeCorrect`, `MaxIsBest`, `LaggardsChecked` |
| `Executor_proofs` | `TypeCorrect`, `SentOnceHolds`, `FallbackIsLastResortHolds`, `GivesUpOnlyExhaustedHolds`, `CallRefinement`: `Executor` implements `UpstreamCall` |
| `ProxyCache_proofs` | `TypeCorrect`, `OwnReplies`, `ServiceImplemented`: `ProxyCache` implements `RpcService` |

Sets of upstreams, clients, subscribers, requests and handlers are arbitrary
(infinite too) unless an assumption below says otherwise. One theorem
has a hypothesis of its own, explained below: `SuppressedNew`.

### SharedSubscription_proofs and SubscriptionFeed_proofs

Assumptions: `GenAssumption`, `FaultAssumption` (the bounds are natural numbers),
`PanicAssumption` (gorilla lets at least one failing read pass),
`NoSubAssumption` (a model value that is no subscriber).

The inductive invariant has these parts:

- `TypeOK`;
- `ManagerInv`: what the holder of `m.mu` knows of `gen`, `cur`, `rest` and
  `closed`. Without it nothing says that a dial concerns the newest object;
- `RegisteredIsLive`, `OneLiveFeed`, `NoLeakedConnection`, `MapMatchesReaders`:
  the safety properties themselves, each of which the others need;
- `ReachedInv`: during Close's loop, an upstream of the closing object that is no
  longer in `rest` is closed or its reader is about to see `closed`. This is the
  invariant behind `CloseReachesReaders`: a reader that was dialling when Close
  passed it installs a new open connection *after* Close has finished, and only
  the select at the loop head catches it.

The refinement uses the same invariant. Of the readers the feed sees only which
have not returned: the return of the last reader of a retired object is a
`Drain`, every other step of a reader a stutter. The manager's steps act under
`m.mu`, and what its holder does in between (dialling, closing one upstream after
the other) goes unseen.

### EventFanout_proofs

Assumptions: `RoleAssumption` (no upstream is both main and fallback),
`OrderAssumption` (the pool's list holds every main), `HMAssumption`, `EventAssumption` (any numbers and any keys), `SizeAssumption`.

- `ReaderInv` says what a reader's locals are at each step; above all that only a
  fallback's reader stands in the gate;
- `CacheInv`: every cached key is that of an event found new, however often the
  cache evicted since. `SuppressedKeyWasSeen` follows for any keys: the two
  halves of `IsDuplicate` may interleave with everything. `SuppressedWasNew`
  speaks of the event instead of the key, so `SuppressedNew` assumes that equal
  nonzero keys mean equal events, as hashes of blocks and transactions do (a
  removed log breaks this, section 5);
- `GateInv(f)` follows a fallback's reader through the gate. `LapseIsNoted`: whatever
  is unhealthy at any moment of the call is in `lapse`. `AskedAreNoted`: so is every
  main that the second question's loop has passed, though it may have recovered
  since. At the end of the loop these are all mains, by `OrderAssumption`, which is
  `GateHolds`; nothing stronger is inductive, because no two loads are one step;
- `OutsiderOwedNothing` starts the account of a client that subscribes.

### ClientSession_proofs

Assumptions: `NoSubAssumption`, `MaxAssumption`: any number of subscriptions, any
limit, any capacity of the queue, any batch size.

A subscription passes from hand to hand under different locks or none.
`SubInv(x)` follows one of them: an id nobody was given is nowhere; what a
session lists is served and in nobody's hands; between its two critical sections
the subscribing reader is alone with it; it is closed before it is unregistered.
`ReaderInv` keeps the free place the reader found until it stores (only the reader
adds to a session, hence `WithinLimit`), `CloserInv` says that `closeOnce` lets
one goroutine through. `SessionBudget` shows that `Sessions == 1..3` is no
bound: each closer empties the manager's map once, and only an empty map makes
the reader create a session.

### HealthMonitor_proofs

Assumptions: `KindAssumption`, `NumberAssumption`, `LagAssumption`,
`NobodyAssumption`: any upstreams, block numbers and threshold, lag checks
switched on or off.

Handlers and lag checks share three variables without a common lock.
`HandlerInv(u)` is what a handler still knows: between `UpdateBlock` and
`updateMaxBlock` the upstream is ahead of `maxBlock` only by the number at hand;
only readers of feeds mark healthy without looking; and whoever is about to judge
by an old maximum does so before the check of the new one begins. The last part
is where the timing assumption on `TimerFires` enters, and
`LaggardIsBeingChecked` rests on it.

### Executor_proofs

Assumptions: `PoolAssumption` (the pool is a list of distinct upstreams),
`WeightAssumption` (weights are positive) and `RetryAssumption`. Any number of
requests, upstreams, attempts and health changes.

`RequestInv` says what a request still knows at each step: every call is in the
tried map (or there is only one attempt), a candidate is not, every upstream that
is down is recorded in `lapse`, and from the moment the main upstreams were
given up each of them was tried or lapsed. It is needed because the list is
some steps old when its member is called. Which member the balancer takes is
irrelevant for it (`AdvanceEffect`).

`CallInv` adds what the refinement needs: attempts fit their bound, and a batch
or an idle request keeps no response. `CallStep` maps every action to an action
of `UpstreamCall` or a stutter: choosing, sending and all health changes are
stutters, `NextAttempt` is `TryAgain` or `GiveUp`.

`TypeCorrect` needs the arithmetic of the selection loop: that the maximum and the
greatest common divisor of the weights of a finite list exist (`MaxWeightProperty`,
`GcdProperty`, both by `HasMaximum` of `FiniteNumbers`), and that a turn of the loop
leaves a natural number (`AdvanceNumbers`).

### ProxyCache_proofs

Assumptions: `RequestAssumption` (if the rule of a method depends on the block, its
requests have at most the block parameters the rule looks at), `HandlerAssumption` (messages are not empty, and only a
batch has more than one request), `BoundAssumption`: any handlers, groups, requests,
sizes of batch and cache, numbers of attempts. Nothing is assumed of the order,
number or content of an upstream's answers to a batch.

- `HandlerInv` follows the two loops: `missed` names places of the batch in
  increasing order, hence no place twice, and the loop over the answers stops at
  most one past `missed`, where the index is out of range;
- `OwnInv(h)` divides the places of a message into `Pending(h)` and those that are
  `Settled`: empty because the upstream sent nothing for them, or holding a response
  that `Fits`: it was put in the place of that request by that group, not too long
  ago, and has the right id unless it is in `misplaced`. `StoreInv` says the same of
  answers that are on their way to their places;
- `OwnEntries`: what the cache holds is a result that the group of the key gave in
  the place of the request of the key, and the request is cacheable. It makes the
  answers that *other* handlers stored fit. By `CacheableImmutable` a cacheable
  request may get old results. That the documentation is wrong about some of the
  methods, `trace_block` with a tag for one, is in section 5.

The refinement maps `Receive`, `Refuse` and the replies to actions of `RpcService`, a
panic of an HTTP handler to `Drop`, `ChainChanges` to itself, and lookups, attempts,
stores, expiry and the end of the process to stutters. It rests on `OwnInv`: when the
handler replies nothing is pending.

### Only model-checked

Liveness, since fairness and ENABLED are out of the prover's reach:
`ClosedReadersReturn`, `LostIsReconnected`, `ShutdownCompletes`,
`MainReadersReturn`, `LaggardIsMarked`, `PolledRecovers`, `RequestsEnd`,
`CloseCompletes`, `RequestsAreAnswered`.

## 5. Where the code and its documentation differ

Shown by a run:

- `shared_retry`: a failed reconnect returns to reading the closed connection;
  gorilla panics at the 1000th such read (`shared.go:396` against
  `docs/subscriptions.md:179`).
- `health_lag`: an event makes its upstream healthy however old its block is
  (`health.go:100` against `docs/health-monitoring.md:71`).
- `fanout_failover`: a fallback's reader waits in a client's `OnEvent` before it
  has told the health monitor of the block, so the silent main upstream stays
  healthy (`client.go:286` against `docs/subscriptions.md:331-333`).
- `session_leak`: a close between the two critical sections of Subscribe leaves the
  subscriber registered (`client.go:96` against `docs/subscriptions.md:423-426`).
- `proxy_null`: a null result of an "immutable" method is cached
  (`handler.go:135` against `docs/caching.md:29`).

Read in the code, without a run: the subscription counter drifts
(`shared.go:418`); each request starts a balancer of its own, so weights order
the retries but spread no load (`retry.go:296`); one retryable error costs a
batch all its answers (`retry.go:209`); two readers may both find an event new
(`dedup.go:36`); an upstream that cannot be dialled at creation is never
dialled again (`shared.go:176`); a log taken back by a reorganisation has the key
of the log itself and is suppressed (`dedup.go:82`); two clients can get events in
different orders (`shared.go:524`); one invalid request costs a batch all its
answers (`handler.go:82`); `trace_block` is cached for a tag as well
(`methods.go:40`); answers to requests by block number outlive a reorganisation in
the cache (`methods.go:44` against `docs/caching.md:3`); a lag threshold of 0, the
default, does not switch lag checks off but makes an upstream one block behind
unhealthy (`health.go:495` against `docs/health-monitoring.md:87`).

The answers of an upstream to a batch are matched by position, without a look at
their ids or their number (`handler.go:187`, `ws/client.go:274`, against
`docs/architecture.md:190`). `ProxyCache` contains what follows, wrong answers that
are cached, empty places and panics; its properties bound the damage, since a
property that excludes it would not hold.

## 6. Not modelled

- `ConnectWS`, `HandleWSMessage`, `DisconnectWS` of `upstream.go`: nothing calls
  them. `RoundRobin` and `Reset` of `balancer.go`, `RefreshAllHealth` of
  `health.go`, `Clear` of `dedup.go`: likewise.
- Request, event and method counters: atomic and only logged.
- JSON-RPC encoding, ids and error texts, and the configuration: no state after
  start-up. What parsing decides is a kind of message, request or answer.
- Which of two ready branches a select of the Go runtime takes, and map order,
  are nondeterministic; the time between steps does not exist, except for the
  assumption on lag timers.
- The order of the server's Stop: the parts it calls are actions of their
  components that may happen at any time, which allows more than the code does.
  Starting, the HTTP servers' own shutdown and the end of the cache's clean-up
  goroutine are left out.

## 7. Plan

Done, in this order: `SharedSubscription` with its proofs, `HealthMonitor`,
`EventFanout`, `Executor` with its proofs, `ClientSession`, `ProxyCache`; then the
groups of `ProxyCache` with `RpcService`, `UpstreamCall` with its refinement
proof, the sending side of `ClientSession`, and the keys of `EventFanout`.

Then the proofs of all other safety properties and of the two remaining
refinements.

Then upstreams that are not trusted in `ProxyCache` and `RpcService`, and the loops
over several mains in the gate of `EventFanout`, with their proofs.

Next, modelling: the reader goroutine as the meeting point of `EventFanout` and
`HealthMonitor`, in place of the over-approximated lag check; and `ProxyCache` over
`UpstreamCall`, so that the executor's outcomes are those its refinement leaves.
