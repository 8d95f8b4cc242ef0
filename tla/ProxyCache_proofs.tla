--------------------------- MODULE ProxyCache_proofs ---------------------------
(***************************************************************************)
(* What holds of ProxyCache for every set of handlers, groups and requests *)
(* and every size of cache and batch.                                      *)
(***************************************************************************)
EXTENDS ProxyCache, FiniteSetTheorems, SequenceTheorems, TLAPS

\* What the constants are.
Constants ==
    /\ MaxAttempts \in Nat \ {0} /\ Size \in Nat \ {0} /\ MaxChain \in Nat
    /\ MaxExtra \in Nat

\* The assumptions on the constants, as the proofs below use them.
LEMMA ConstantsOK == Constants
BY BoundAssumption DEF Constants

-----------------------------------------------------------------------------
(* The cache's operations keep its entries and its size.                   *)

\* Removing a key's entry leaves the others.
LEMMA WithoutProperty ==
  ASSUME NEW S, NEW c \in Seq(S), NEW k
  PROVE  /\ Without(c, k) \in Seq(S)
         /\ Len(Without(c, k)) <= Len(c)
         /\ Cached(c, k) => Len(Without(c, k)) = Len(c) - 1
<1>1. Len(c) \in Nat /\ DOMAIN c = 1..Len(c) /\ \A j \in 1..Len(c) : c[j] \in S
  BY LenProperties, ElementOfSeq
<1>2. ASSUME NEW i \in 1..Len(c)
      PROVE  RemoveAt(c, i) \in Seq(S) /\ Len(RemoveAt(c, i)) = Len(c) - 1
  <2> DEFINE before == SubSeq(c, 1, i - 1)
             after  == SubSeq(c, i + 1, Len(c))
  <2>1. before \in Seq(S) /\ Len(before) = i - 1
    BY <1>1, SubSeqProperties
  <2>2. after \in Seq(S) /\ Len(after) = Len(c) - i
    <3>1. Len(c) \in Nat /\ i + 1 \in Int /\ \A j \in i + 1..Len(c) : c[j] \in S
      BY <1>1
    <3>2. after \in Seq(S)
      BY <3>1, SubSeqProperties
    <3>3. Len(after) = IF i + 1 <= Len(c) THEN Len(c) - (i + 1) + 1 ELSE 0
      BY <3>1, SubSeqProperties
    <3>4. Len(after) = Len(c) - i
      BY <3>1, <3>3
    <3>5. QED
      BY <3>2, <3>4
  <2>3. RemoveAt(c, i) = before \o after
    BY DEF RemoveAt
  <2> HIDE DEF before, after
  <2>4. RemoveAt(c, i) \in Seq(S) /\ Len(RemoveAt(c, i)) = Len(before) + Len(after)
    BY <2>1, <2>2, <2>3, ConcatProperties
  <2>5. QED
    BY <1>1, <2>1, <2>2, <2>4
<1>3. CASE Cached(c, k)
  <2>1. PlaceOf(c, k) \in 1..Len(c)
    BY <1>1, <1>3 DEF Cached, PlaceOf
  <2>2. Without(c, k) \in Seq(S) /\ Len(Without(c, k)) = Len(c) - 1
    BY <1>2, <1>3, <2>1 DEF Without
  <2>3. QED
    BY <1>1, <2>2
<1>4. CASE ~Cached(c, k)
  <2>1. Without(c, k) = c
    BY <1>4 DEF Without
  <2>2. Without(c, k) \in Seq(S) /\ Len(Without(c, k)) <= Len(c)
    BY <1>1, <2>1
  <2>3. QED
    BY <1>4, <2>2
<1>5. QED
  BY <1>3, <1>4

\* The entry found is one of the cache, under the key looked up.
LEMMA EntryProperty ==
  ASSUME NEW S, NEW c \in Seq(S), NEW k, Cached(c, k)
  PROVE  EntryOf(c, k) \in S /\ EntryOf(c, k).key = k
<1>1. DOMAIN c = 1..Len(c)
  BY LenProperties
<1>2. PlaceOf(c, k) \in 1..Len(c) /\ c[PlaceOf(c, k)].key = k
  BY <1>1 DEF Cached, PlaceOf
<1>3. QED
  BY <1>2, ElementOfSeq DEF EntryOf

\* Get only reorders.
LEMMA TouchProperty ==
  ASSUME NEW S, NEW c \in Seq(S), NEW k, Cached(c, k)
  PROVE  Touch(c, k) \in Seq(S) /\ Len(Touch(c, k)) = Len(c)
<1>1. Without(c, k) \in Seq(S) /\ Len(Without(c, k)) = Len(c) - 1 /\ Len(c) \in Nat
  BY WithoutProperty, LenProperties
<1>2. EntryOf(c, k) \in S
  BY EntryProperty
<1>3. QED
  BY <1>1, <1>2 DEF Touch

\* Add brings in its entry and never exceeds the capacity.
LEMMA SetProperty ==
  ASSUME NEW S, NEW c \in Seq(S), Len(c) <= Size, NEW k, NEW response,
         [key |-> k, response |-> response, fresh |-> TRUE] \in S
  PROVE  Set(c, k, response) \in Seq(S) /\ Len(Set(c, k, response)) <= Size
<1> DEFINE d == Append(Without(c, k), [key |-> k, response |-> response, fresh |-> TRUE])
<1>1. /\ Without(c, k) \in Seq(S) /\ Len(Without(c, k)) <= Len(c)
      /\ Len(c) \in Nat /\ Len(Without(c, k)) \in Nat
  BY WithoutProperty, LenProperties
<1>2. d \in Seq(S) /\ Len(d) = Len(Without(c, k)) + 1
  BY <1>1
<1>3. Size \in Nat
  BY ConstantsOK DEF Constants
<1>4. Set(c, k, response) = IF Len(d) > Size THEN Tail(d) ELSE d
  BY DEF Set
<1>5. CASE Len(d) > Size
  <2>1. d # <<>>
    BY <1>1, <1>2, EmptySeq
  <2>2. Tail(d) \in Seq(S) /\ Len(Tail(d)) = Len(d) - 1
    BY <1>2, <2>1, HeadTailProperties
  <2>3. QED
    BY <1>1, <1>2, <1>3, <1>4, <1>5, <2>2
<1>6. CASE ~(Len(d) > Size)
  BY <1>1, <1>2, <1>3, <1>4, <1>6
<1>7. QED
  BY <1>5, <1>6

\* A selection of the places of a sequence.
LEMMA SelectionProperty ==
  ASSUME NEW S, NEW c \in Seq(S), NEW kept \in SUBSET (DOMAIN c),
         NEW place \in [1..Cardinality(kept) -> kept]
  PROVE  /\ [i \in DOMAIN place |-> c[place[i]]] \in Seq(S)
         /\ Len([i \in DOMAIN place |-> c[place[i]]]) <= Len(c)
<1> DEFINE n == Cardinality(kept)
           d == [i \in DOMAIN place |-> c[place[i]]]
<1>1. Len(c) \in Nat /\ DOMAIN c = 1..Len(c) /\ \A j \in 1..Len(c) : c[j] \in S
  BY LenProperties, ElementOfSeq
<1>2. IsFiniteSet(1..Len(c)) /\ Cardinality(1..Len(c)) = Len(c)
  <2>1. /\ IsFiniteSet(1..Len(c))
        /\ Cardinality(1..Len(c)) = IF 1 > Len(c) THEN 0 ELSE Len(c) - 1 + 1
    BY <1>1, FS_Interval
  <2>2. QED
    BY <1>1, <2>1
<1>3. n \in Nat /\ n <= Len(c)
  BY <1>1, <1>2, FS_Subset, FS_CardinalityType
<1>4. d \in [1..n -> S]
  BY <1>1
<1>5. d \in Seq(S) /\ Len(d) = n
  BY <1>3, <1>4, SeqDef, LenProperties
<1>6. QED
  BY <1>3, <1>5

-----------------------------------------------------------------------------
(* Typing, with the place a handler has come to.                           *)

\* Every variable is a function, or a sequence, of the right things.
Shape ==
    /\ pc \in [Handlers -> PCs]
    /\ group \in [Handlers -> Groups \cup {NoGroup}]
    /\ batch \in [Handlers -> BOOLEAN]
    /\ since \in [Handlers -> 0..MaxChain]
    /\ reqs \in [Handlers -> Seq(Requests)]
    /\ next \in [Handlers -> Nat \ {0}]
    /\ missed \in [Handlers -> Seq(Nat)]
    /\ attempt \in [Handlers -> 0..Attempts - 1]
    /\ lastResp \in [Handlers -> Response \cup {NoResponse}]
    /\ answers \in [Handlers -> Seq(Response \cup {NoResponse})]
    /\ resp \in [Handlers -> Seq(Response \cup {NoResponse, Refusal})]
    /\ unanswered \in [Handlers -> SUBSET Nat]
    /\ misplaced \in [Handlers -> SUBSET Nat]
    /\ cache \in Seq(Entry) /\ Len(cache) <= Size
    /\ crashed \in BOOLEAN
    /\ chain \in [Groups -> 0..MaxChain]

\* A handler that serves a message: the message is well-formed, and there is a
\* place for every response.
Serving(h) ==
    /\ group[h] \in Groups
    /\ reqs[h] # <<>>
    /\ ~batch[h] => Len(reqs[h]) = 1
    /\ resp[h] \in Seq(Response \cup {NoResponse}) /\ Len(resp[h]) = Len(reqs[h])

\* How far the loops over the requests and the answers have come.  No request is
\* asked for twice; of the answers there may be fewer or more than requests.
LoopInv(h) ==
    /\ \A j \in 1..Len(missed[h]) : missed[h][j] \in 1..Len(reqs[h])
    /\ \A j, k \in 1..Len(missed[h]) : j < k => missed[h][j] < missed[h][k]
    /\ pc[h] \in {"lookup", "expired"} =>
          /\ next[h] <= Len(reqs[h]) /\ Len(missed[h]) < next[h]
          /\ \A j \in 1..Len(missed[h]) : missed[h][j] < next[h]
    /\ pc[h] \in {"exec", "store"} =>
          missed[h] # <<>> /\ Len(missed[h]) <= Len(reqs[h])
    /\ pc[h] = "store" =>
          next[h] <= Len(answers[h]) /\ next[h] <= Len(missed[h]) + 1
    /\ pc[h] \in {"idle", "exec", "reply"} => next[h] = 1
    /\ pc[h] \in {"idle", "reply"} => missed[h] = <<>>

HandlerInv(h) ==
    /\ LoopInv(h)
    /\ unanswered[h] \cup misplaced[h] \subseteq 1..Len(reqs[h])
    /\ pc[h] = "idle" => reqs[h] = <<>> /\ resp[h] = <<>>
    /\ pc[h] \in {"lookup", "expired", "exec", "store"} => Serving(h)
    /\ pc[h] = "reply" => Serving(h) \/ (reqs[h] = <<>> /\ resp[h] = <<Refusal>>)

Row(h) == <<pc[h], group[h], batch[h], reqs[h], since[h], next[h], missed[h],
            attempt[h], lastResp[h], answers[h], resp[h], unanswered[h], misplaced[h]>>

TypeInv == Shape /\ \A h \in Handlers : HandlerInv(h)

\* TypeInv says more than TypeOK.
LEMMA TypeInvTypeOK == TypeInv => TypeOK
<1> SUFFICES ASSUME TypeInv PROVE TypeOK
  OBVIOUS
<1> USE ConstantsOK DEF Constants, TypeInv
<1>1. ASSUME NEW h \in Handlers
      PROVE  /\ reqs[h] \in Seq(Requests)
             /\ next[h] \in 1..Len(reqs[h]) + 1
             /\ missed[h] \in Seq(1..Len(reqs[h]))
             /\ unanswered[h] \cup misplaced[h] \subseteq 1..Len(reqs[h])
  <2>1. /\ HandlerInv(h) /\ reqs[h] \in Seq(Requests) /\ Len(reqs[h]) \in Nat
        /\ next[h] \in Nat \ {0} /\ missed[h] \in Seq(Nat) /\ pc[h] \in PCs
        /\ Len(missed[h]) \in Nat
    BY LenProperties DEF Shape
  <2>2. unanswered[h] \cup misplaced[h] \subseteq 1..Len(reqs[h])
    BY <2>1 DEF HandlerInv
  <2>3. next[h] \in 1..Len(reqs[h]) + 1
    BY <2>1 DEF HandlerInv, LoopInv, PCs
  <2>4. missed[h] \in Seq(1..Len(reqs[h]))
    <3>1. Len(missed[h]) \in Nat /\ missed[h] \in [1..Len(missed[h]) -> Nat]
      BY <2>1, LenProperties
    <3>2. missed[h] \in [1..Len(missed[h]) -> 1..Len(reqs[h])]
      BY <2>1, <3>1 DEF HandlerInv, LoopInv
    <3>3. QED
      BY <3>1, <3>2, SeqDef
  <2>5. QED
    BY <2>1, <2>2, <2>3, <2>4
<1>2. ASSUME NEW h \in Handlers
      PROVE  \/ resp[h] \in Seq(Response \cup {NoResponse}) /\ Len(resp[h]) = Len(reqs[h])
             \/ resp[h] = <<Refusal>> /\ reqs[h] = <<>>
  <2>1. HandlerInv(h) /\ pc[h] \in PCs
    BY DEF Shape
  <2>2. CASE pc[h] = "idle"
    BY <2>1, <2>2, EmptySeq DEF HandlerInv
  <2>3. CASE pc[h] # "idle"
    BY <2>1, <2>3 DEF HandlerInv, Serving, PCs
  <2>4. QED
    BY <2>2, <2>3
<1>3. QED
  BY <1>1, <1>2 DEF Shape, TypeOK

\* All handlers are idle at first, and the cache is empty.
LEMMA TypeInit == Init => TypeInv
<1> SUFFICES ASSUME Init PROVE TypeInv
  OBVIOUS
<1> USE ConstantsOK DEF Constants, Init
<1>1. Shape
  <2>1. 0 \in 0..Attempts - 1
    BY DEF Attempts
  <2>2. cache \in Seq(Entry) /\ Len(cache) <= Size
    BY EmptySeq
  <2>3. /\ unanswered \in [Handlers -> SUBSET Nat] /\ misplaced \in [Handlers -> SUBSET Nat]
        /\ batch \in [Handlers -> BOOLEAN] /\ crashed \in BOOLEAN
    OBVIOUS
  <2>4. /\ reqs \in [Handlers -> Seq(Requests)] /\ missed \in [Handlers -> Seq(Nat)]
        /\ answers \in [Handlers -> Seq(Response \cup {NoResponse})]
        /\ resp \in [Handlers -> Seq(Response \cup {NoResponse, Refusal})]
    BY EmptySeq
  <2>5. QED
    BY <2>1, <2>2, <2>3, <2>4 DEF Shape, PCs
<1>2. ASSUME NEW h \in Handlers PROVE HandlerInv(h)
  BY EmptySeq DEF HandlerInv, LoopInv, Serving
<1>3. QED
  BY <1>1, <1>2 DEF TypeInv

\* What the other handlers are doing is their own affair.
OnlyRowOf(h) == \A k \in Handlers : k # h => Row(k)' = Row(k)

\* When one handler moves, only what it knows has to be shown again.
LEMMA OneMoves ==
  ASSUME TypeInv, NEW h \in Handlers, OnlyRowOf(h), Shape', HandlerInv(h)'
  PROVE  TypeInv'
<1>1. ASSUME NEW k \in Handlers, k # h PROVE HandlerInv(k)'
  <2>1. HandlerInv(k) /\ Row(k)' = Row(k)
    BY <1>1 DEF TypeInv, OnlyRowOf
  <2>2. QED
    BY <2>1 DEF Row, HandlerInv, LoopInv, Serving
<1>2. QED
  BY <1>1 DEF TypeInv

\* A number above all in an increasing sequence may come last.
LEMMA AppendGrows ==
  ASSUME NEW s \in Seq(Nat), NEW i \in Nat, \A j \in 1..Len(s) : s[j] < i,
         \A j, k \in 1..Len(s) : j < k => s[j] < s[k]
  PROVE  /\ Append(s, i) \in Seq(Nat) /\ Len(Append(s, i)) = Len(s) + 1
         /\ \A j \in 1..Len(Append(s, i)) :
               Append(s, i)[j] = i \/ \E k \in 1..Len(s) : Append(s, i)[j] = s[k]
         /\ \A j, k \in 1..Len(Append(s, i)) : j < k => Append(s, i)[j] < Append(s, i)[k]
<1> DEFINE t == Append(s, i)
           n == Len(s)
<1>1. /\ t \in Seq(Nat) /\ Len(t) = n + 1 /\ t[n + 1] = i /\ n \in Nat
      /\ \A j \in 1..n : t[j] = s[j]
  OBVIOUS
<1> HIDE DEF t, n
<1>2. \A j \in 1..Len(t) : j = n + 1 \/ j \in 1..n
  BY <1>1
<1>3. \A j \in 1..Len(t) : t[j] = i \/ \E k \in 1..n : t[j] = s[k]
  BY <1>1, <1>2
<1>4. ASSUME NEW j \in 1..Len(t), NEW k \in 1..Len(t), j < k PROVE t[j] < t[k]
  <2>1. j \in 1..n
    BY <1>1, <1>4
  <2>2. CASE k = n + 1
    BY <1>1, <2>1, <2>2 DEF n
  <2>3. CASE k \in 1..n
    BY <1>1, <1>4, <2>1, <2>3 DEF n
  <2>4. QED
    BY <1>2, <2>2, <2>3
<1>5. QED
  BY <1>1, <1>3, <1>4 DEF t, n

\* The end of a round of the lookup loop, with ms left to ask for.
LEMMA LookupGoesOn ==
  ASSUME Shape, NEW h \in Handlers, LoopInv(h), Serving(h),
         pc[h] \in {"lookup", "expired"}, reqs' = reqs, answers' = answers,
         NEW ms \in Seq(Nat), missed'[h] = ms, Len(ms) <= next[h],
         \A j \in 1..Len(ms) : ms[j] \in 1..Len(reqs[h]) /\ ms[j] <= next[h],
         \A j, k \in 1..Len(ms) : j < k => ms[j] < ms[k],
         AfterLookup(h, ms)
  PROVE  /\ pc' \in [Handlers -> PCs] /\ next' \in [Handlers -> Nat \ {0}]
         /\ \A k \in Handlers : k # h => pc'[k] = pc[k] /\ next'[k] = next[k]
         /\ pc'[h] \in {"lookup", "exec", "reply"}
         /\ LoopInv(h)'
<1>1. next[h] \in Nat \ {0} /\ Len(reqs[h]) \in Nat /\ next[h] <= Len(reqs[h])
  BY DEF Shape, LoopInv
<1>2. CASE next[h] < Len(reqs[h])
  <2>1. /\ next' = [next EXCEPT ![h] = next[h] + 1]
        /\ pc' = [pc EXCEPT ![h] = "lookup"]
    BY <1>2 DEF AfterLookup
  <2>2. pc'[h] = "lookup" /\ next'[h] = next[h] + 1
    BY <2>1 DEF Shape
  <2>3. LoopInv(h)'
    <3>1. \A j \in 1..Len(ms) : ms[j] < next[h] + 1
      BY <1>1
    <3>2. Len(ms) < next[h] + 1 /\ next[h] + 1 <= Len(reqs[h])
      BY <1>1, <1>2, LenProperties
    <3>3. QED
      BY <2>2, <3>1, <3>2 DEF LoopInv
  <2>4. QED
    BY <1>1, <2>1, <2>2, <2>3 DEF Shape, PCs
<1>3. CASE ~(next[h] < Len(reqs[h]))
  <2>1. /\ next' = [next EXCEPT ![h] = 1]
        /\ pc' = [pc EXCEPT ![h] = IF ms = <<>> THEN "reply" ELSE "exec"]
    BY <1>3 DEF AfterLookup
  <2>2. pc'[h] = (IF ms = <<>> THEN "reply" ELSE "exec") /\ next'[h] = 1
    BY <2>1 DEF Shape
  <2>3. LoopInv(h)'
    <3>1. CASE ms = <<>>
      BY <2>2, <3>1 DEF LoopInv
    <3>2. CASE ms # <<>>
      BY <1>1, <2>2, <3>2 DEF LoopInv
    <3>3. QED
      BY <3>1, <3>2
  <2>4. QED
    BY <2>1, <2>2, <2>3 DEF Shape, PCs
<1>4. QED
  BY <1>2, <1>3

\* The end of a round of the loop that stores the answers, j being the next one.
LEMMA StoreGoesOn ==
  ASSUME Shape, NEW h \in Handlers, LoopInv(h), Serving(h), pc[h] \in {"exec", "store"},
         reqs' = reqs, NEW given \in Seq(Response \cup {NoResponse}),
         NEW j \in Nat \ {0}, j <= Len(missed[h]) + 1, AfterStore(h, j, given)
  PROVE  /\ pc' \in [Handlers -> PCs] /\ next' \in [Handlers -> Nat \ {0}]
         /\ missed' \in [Handlers -> Seq(Nat)]
         /\ answers' \in [Handlers -> Seq(Response \cup {NoResponse})]
         /\ \A k \in Handlers : k # h => /\ pc'[k] = pc[k] /\ next'[k] = next[k]
                                       /\ missed'[k] = missed[k] /\ answers'[k] = answers[k]
         /\ IF j <= Len(given)
              THEN pc'[h] = "store" /\ next'[h] = j /\ answers'[h] = given /\ missed' = missed
              ELSE pc'[h] = "reply" /\ next'[h] = 1 /\ answers'[h] = <<>> /\ missed'[h] = <<>>
         /\ LoopInv(h)'
<1>1. CASE j <= Len(given)
  <2>1. /\ pc' = [pc EXCEPT ![h] = "store"] /\ next' = [next EXCEPT ![h] = j]
        /\ answers' = [answers EXCEPT ![h] = given] /\ missed' = missed
    BY <1>1 DEF AfterStore
  <2>2. pc'[h] = "store" /\ next'[h] = j /\ answers'[h] = given
    BY <2>1 DEF Shape
  <2>3. LoopInv(h)'
    BY <1>1, <2>1, <2>2 DEF LoopInv
  <2>4. QED
    BY <1>1, <2>1, <2>2, <2>3 DEF Shape, PCs
<1>2. CASE ~(j <= Len(given))
  <2>1. /\ pc' = [pc EXCEPT ![h] = "reply"] /\ next' = [next EXCEPT ![h] = 1]
        /\ answers' = [answers EXCEPT ![h] = <<>>] /\ missed' = [missed EXCEPT ![h] = <<>>]
    BY <1>2 DEF AfterStore
  <2>2. pc'[h] = "reply" /\ next'[h] = 1 /\ answers'[h] = <<>> /\ missed'[h] = <<>>
    BY <2>1 DEF Shape
  <2>3. LoopInv(h)'
    BY <2>2 DEF LoopInv
  <2>4. /\ pc' \in [Handlers -> PCs] /\ next' \in [Handlers -> Nat \ {0}]
        /\ missed' \in [Handlers -> Seq(Nat)]
        /\ answers' \in [Handlers -> Seq(Response \cup {NoResponse})]
    <3>1. pc' \in [Handlers -> PCs] /\ next' \in [Handlers -> Nat \ {0}]
      BY <2>1 DEF Shape, PCs
    <3>2. missed' \in [Handlers -> Seq(Nat)]
      BY <2>1, EmptySeq DEF Shape
    <3>3. answers' \in [Handlers -> Seq(Response \cup {NoResponse})]
      BY <2>1, EmptySeq DEF Shape
    <3>4. QED
      BY <3>1, <3>2, <3>3
  <2>5. \A k \in Handlers : k # h => /\ pc'[k] = pc[k] /\ next'[k] = next[k]
                                  /\ missed'[k] = missed[k] /\ answers'[k] = answers[k]
    BY <2>1 DEF Shape
  <2>6. IF j <= Len(given)
          THEN pc'[h] = "store" /\ next'[h] = j /\ answers'[h] = given /\ missed' = missed
          ELSE pc'[h] = "reply" /\ next'[h] = 1 /\ answers'[h] = <<>> /\ missed'[h] = <<>>
    BY <1>2, <2>2
  <2>7. QED
    BY <2>3, <2>4, <2>5, <2>6, Zenon
<1>3. QED
  BY <1>1, <1>2, Zenon

\* A response is no nil pointer.
LEMMA ResponseIsThere == \A a \in Response : a # NoResponse
<1> SUFFICES ASSUME NEW a \in Response PROVE a # NoResponse
  OBVIOUS
<1>1. DOMAIN a = {"id", "kind", "at", "given"} /\ DOMAIN NoResponse = {"id"}
  BY DEF Response, NoResponse
<1>2. "kind" \in DOMAIN a /\ "kind" \notin DOMAIN NoResponse
  BY <1>1
<1>3. QED
  BY <1>2

\* An answer, wherever it stands in an upstream's array.
LEMMA AnswerProperty ==
  ASSUME Shape, NEW h \in Handlers, LoopInv(h), Serving(h), NEW j \in Nat \ {0},
         NEW i \in Nat, NEW kind \in {"ok", "retryable", "final"}
  PROVE  /\ Answer(h, j, i, kind) \in Response
         /\ j \in 1..Len(missed[h]) =>
               /\ Answer(h, j, i, kind).id = i
               /\ Answer(h, j, i, kind).at = Query(h, missed[h][j])
               /\ Answer(h, j, i, kind).kind = "ok" =>
                    Answer(h, j, i, kind).given = chain[group[h]]
<1>1. DOMAIN missed[h] = 1..Len(missed[h]) /\ chain[group[h]] \in Nat /\ group[h] \in Groups
  BY LenProperties DEF Shape, Serving
<1>2. CASE j \in 1..Len(missed[h])
  <2>1. missed[h][j] \in 1..Len(reqs[h])
    BY <1>2 DEF LoopInv
  <2>2. reqs[h][missed[h][j]] \in Requests
    BY <2>1, ElementOfSeq DEF Shape
  <2>3. Query(h, missed[h][j]) \in Queries
    BY <1>1, <2>2 DEF Query, Queries
  <2>4. Answer(h, j, i, kind) =
          [id |-> i, kind |-> kind, at |-> Query(h, missed[h][j]),
           given |-> IF kind = "ok" THEN chain[group[h]] ELSE 0]
    BY <1>1, <1>2 DEF Answer
  <2>5. QED
    BY <1>1, <2>3, <2>4 DEF Response, Kinds
<1>3. CASE j \notin 1..Len(missed[h])
  BY <1>1, <1>3 DEF Answer, Response, Kinds
<1>4. QED
  BY <1>2, <1>3

\* What an upstream sends: for a single request one answer; for a batch any number
\* of answers and nil pointers.  Whatever stands in the place of a request is taken
\* for its answer, and a result is given now.
LEMMA AnswersProperty ==
  ASSUME Shape, NEW h \in Handlers, LoopInv(h), Serving(h), pc[h] = "exec",
         NEW given \in UpstreamAnswers(h)
  PROVE  /\ given \in Seq(Response \cup {NoResponse})
         /\ ~batch[h] => Len(given) = 1 /\ given[1] \in Response /\ given[1].id = 1
         /\ \A j \in 1..Len(given) : given[j] # NoResponse =>
               /\ given[j] \in Response
               /\ j \in 1..Len(missed[h]) =>
                     /\ given[j].at = Query(h, missed[h][j])
                     /\ given[j].kind = "ok" => given[j].given = chain[group[h]]
<1> DEFINE R == Response \cup {NoResponse}
           Good(j, a) ==
             a # NoResponse =>
               /\ a \in Response
               /\ j \in 1..Len(missed[h]) =>
                     /\ a.at = Query(h, missed[h][j])
                     /\ a.kind = "ok" => a.given = chain[group[h]]
<1>1. /\ missed[h] \in Seq(Nat) /\ missed[h] # <<>> /\ Len(missed[h]) \in Nat
      /\ Len(missed[h]) >= 1 /\ MaxExtra \in Nat
  <2>1. missed[h] \in Seq(Nat) /\ missed[h] # <<>>
    BY DEF Shape, LoopInv
  <2>2. Len(missed[h]) \in Nat /\ Len(missed[h]) >= 1
    BY <2>1, EmptySeq
  <2>3. QED
    BY <2>1, <2>2, ConstantsOK DEF Constants
<1>2. ASSUME NEW j \in Nat \ {0}, NEW i \in Nat, NEW k \in {"ok", "retryable", "final"}
      PROVE  Good(j, Answer(h, j, i, k)) /\ Answer(h, j, i, k) \in Response
  BY AnswerProperty
<1>3. ASSUME NEW a \in Response, Good(1, a), given = <<a>>
      PROVE  /\ given \in Seq(R) /\ Len(given) = 1 /\ given[1] = a
             /\ \A j \in 1..Len(given) : Good(j, given[j])
  <2>1. given \in Seq(R) /\ Len(given) = 1 /\ given[1] = a
    BY <1>3
  <2>2. ASSUME NEW j \in 1..Len(given) PROVE Good(j, given[j])
    <3>1. j = 1
      BY <2>1
    <3>2. QED
      BY <1>3, <2>1, <3>1
  <2>3. QED
    BY <2>1, <2>2
<1>4. CASE ~batch[h]
  <2>1. PICK k \in {"ok", "retryable", "final"} : given = <<Answer(h, 1, 1, k)>>
    BY <1>4 DEF UpstreamAnswers
  <2>2. Answer(h, 1, 1, k).id = 1
    BY <1>1, AnswerProperty
  <2>3. Good(1, Answer(h, 1, 1, k)) /\ Answer(h, 1, 1, k) \in Response
    BY <1>2
  <2> HIDE DEF Good
  <2>4. /\ given \in Seq(R) /\ Len(given) = 1 /\ given[1] = Answer(h, 1, 1, k)
        /\ \A j \in 1..Len(given) : Good(j, given[j])
    BY <1>3, <2>1, <2>3
  <2>5. QED
    BY <2>2, <2>3, <2>4 DEF Good
<1>5. CASE batch[h]
  <2> DEFINE Pick == ToSet(missed[h]) \X {"ok", "retryable", "final", "null"}
             G(j, p) == IF p[2] = "null" THEN NoResponse ELSE Answer(h, j, p[1], p[2])
             Arrays == UNION {[1..n -> Pick] : n \in 0..Len(missed[h]) + MaxExtra}
  <2>1. \/ given \in {[j \in DOMAIN picks |-> G(j, picks[j])] : picks \in Arrays}
        \/ \E k \in {"retryable", "final"} : given = <<Answer(h, 1, 0, k)>>
    <3>1. given \in BatchAnswers(h)
      BY <1>5 DEF UpstreamAnswers
    <3>2. BatchAnswers(h) = {[j \in DOMAIN picks |-> G(j, picks[j])] : picks \in Arrays}
                               \cup {<<Answer(h, 1, 0, k)>> : k \in {"retryable", "final"}}
      BY DEF BatchAnswers
    <3> HIDE DEF Arrays, G
    <3>3. QED
      BY <3>1, <3>2
  <2>2. ASSUME NEW k \in {"retryable", "final"}, given = <<Answer(h, 1, 0, k)>>
        PROVE  given \in Seq(R) /\ \A j \in 1..Len(given) : Good(j, given[j])
    <3>1. Good(1, Answer(h, 1, 0, k)) /\ Answer(h, 1, 0, k) \in Response
      BY <1>2
    <3> HIDE DEF Good
    <3>2. QED
      BY <1>3, <2>2, <3>1
  <2>3. ASSUME NEW picks \in Arrays, given = [j \in DOMAIN picks |-> G(j, picks[j])]
        PROVE  given \in Seq(R) /\ \A j \in 1..Len(given) : Good(j, given[j])
    <3>1. PICK n \in Nat : picks \in [1..n -> Pick]
      BY <1>1
    <3>2. ASSUME NEW p \in Pick, NEW j \in Nat \ {0} PROVE G(j, p) \in R /\ Good(j, G(j, p))
      <4>1. /\ p[1] \in ToSet(missed[h]) /\ p[2] \in {"ok", "retryable", "final", "null"}
        OBVIOUS
      <4>2. p[1] \in Nat
        BY <1>1, <4>1, ElementOfSeq, LenProperties DEF ToSet
      <4>3. CASE p[2] = "null"
        BY <4>3
      <4>4. CASE p[2] # "null"
        <5>1. p[2] \in {"ok", "retryable", "final"} /\ G(j, p) = Answer(h, j, p[1], p[2])
          BY <4>1, <4>4
        <5>2. Good(j, Answer(h, j, p[1], p[2])) /\ Answer(h, j, p[1], p[2]) \in Response
          BY <1>2, <4>2, <5>1
        <5> HIDE DEF Good
        <5>3. QED
          BY <5>1, <5>2
      <4>5. QED
        BY <4>3, <4>4
    <3> HIDE DEF Good, G, Pick, Arrays
    <3>3. DOMAIN picks = 1..n /\ \A j \in 1..n : picks[j] \in Pick
      BY <3>1
    <3>4. given = [j \in 1..n |-> G(j, picks[j])]
      BY <2>3, <3>3
    <3>5. \A j \in 1..n : G(j, picks[j]) \in R /\ Good(j, G(j, picks[j]))
      BY <3>2, <3>3
    <3>6. given \in [1..n -> R]
      BY <3>4, <3>5
    <3>7. given \in Seq(R) /\ Len(given) = n
      <4>1. given \in Seq(R)
        BY <3>6, SeqDef
      <4>2. QED
        BY <3>4, <4>1
    <3>8. QED
      BY <3>4, <3>5, <3>7
  <2> HIDE DEF Good
  <2>4. given \in Seq(R) /\ \A j \in 1..Len(given) : Good(j, given[j])
    BY <2>1, <2>2, <2>3
  <2>5. QED
    BY <1>5, <2>4 DEF Good
<1>6. QED
  BY <1>4, <1>5

\* The error response for a request that no upstream answered.
LEMMA FailureProperty ==
  ASSUME Shape, NEW h \in Handlers, Serving(h), NEW i \in 1..Len(reqs[h])
  PROVE  /\ Failure(h, i) \in Response
         /\ Failure(h, i).id = i /\ Failure(h, i).at = Query(h, i)
         /\ Failure(h, i).kind = "failed"
<1>1. reqs[h][i] \in Requests /\ group[h] \in Groups /\ i \in Nat \ {0}
  BY ElementOfSeq DEF Shape, Serving
<1>2. QED
  BY <1>1 DEF Failure, Response, Query, Queries, Kinds

\* Without a final answer every place is filled: with the answer kept, or with
\* a failure for each request asked for.
LEMMA GivesUpProperty ==
  ASSUME Shape, NEW h \in Handlers, LoopInv(h), Serving(h), pc[h] = "exec",
         NEW kept \in Response \cup {NoResponse}, GivesUp(h, kept)
  PROVE  /\ pc'[h] = "reply" /\ missed'[h] = <<>>
         /\ \/ ~batch[h] /\ kept # NoResponse /\ resp'[h] = <<kept>>
            \/ resp'[h] = [i \in 1..Len(reqs[h]) |->
                              IF i \in ToSet(missed[h]) THEN Failure(h, i) ELSE resp[h][i]]
         /\ resp'[h] \in Seq(Response \cup {NoResponse}) /\ Len(resp'[h]) = Len(reqs[h])
<1>1. /\ Len(reqs[h]) \in Nat /\ resp[h] \in [1..Len(reqs[h]) -> Response \cup {NoResponse}]
      /\ DOMAIN resp[h] = 1..Len(reqs[h])
  BY LenProperties DEF Shape, Serving
<1>2. pc'[h] = "reply" /\ missed'[h] = <<>>
  BY DEF GivesUp, Shape
<1>3. CASE ~batch[h] /\ kept # NoResponse
  <2>1. resp' = [resp EXCEPT ![h] = <<kept>>]
    BY <1>3 DEF GivesUp
  <2>2. resp'[h] = <<kept>>
    BY <2>1 DEF Shape
  <2>3. resp'[h] \in Seq(Response \cup {NoResponse}) /\ Len(resp'[h]) = 1
    BY <2>2
  <2>4. QED
    BY <1>2, <1>3, <2>2, <2>3 DEF Serving
<1>4. CASE ~(~batch[h] /\ kept # NoResponse)
  <2> DEFINE filled == [i \in 1..Len(reqs[h]) |->
                          IF i \in ToSet(missed[h]) THEN Failure(h, i) ELSE resp[h][i]]
  <2>1. resp' = [resp EXCEPT ![h] = filled]
    BY <1>1, <1>4 DEF GivesUp
  <2>2. resp'[h] = filled
    BY <2>1 DEF Shape
  <2>3. ASSUME NEW i \in 1..Len(reqs[h]) PROVE Failure(h, i) \in Response
    BY FailureProperty
  <2>4. filled \in [1..Len(reqs[h]) -> Response \cup {NoResponse}]
    BY <1>1, <2>3
  <2>5. filled \in Seq(Response \cup {NoResponse}) /\ Len(filled) = Len(reqs[h])
    BY <1>1, <2>4, SeqDef, LenProperties
  <2>6. QED
    BY <1>2, <2>2, <2>5
<1>5. QED
  BY <1>3, <1>4

\* A handler that is done with its message has nothing left of it.
LEMMA OverTyped ==
  ASSUME Shape, NEW h \in Handlers, Over(h)
  PROVE  /\ pc' \in [Handlers -> PCs] /\ group' \in [Handlers -> Groups \cup {NoGroup}]
         /\ batch' \in [Handlers -> BOOLEAN] /\ since' \in [Handlers -> 0..MaxChain]
         /\ reqs' \in [Handlers -> Seq(Requests)]
         /\ resp' \in [Handlers -> Seq(Response \cup {NoResponse, Refusal})]
         /\ unanswered' \in [Handlers -> SUBSET Nat] /\ misplaced' \in [Handlers -> SUBSET Nat]
         /\ pc'[h] = "idle" /\ group'[h] = NoGroup /\ batch'[h] = FALSE /\ reqs'[h] = <<>>
         /\ since'[h] = 0 /\ resp'[h] = <<>> /\ unanswered'[h] = {} /\ misplaced'[h] = {}
         /\ \A k \in Handlers : k # h =>
               /\ pc'[k] = pc[k] /\ group'[k] = group[k] /\ batch'[k] = batch[k]
               /\ reqs'[k] = reqs[k] /\ since'[k] = since[k] /\ resp'[k] = resp[k]
               /\ unanswered'[k] = unanswered[k] /\ misplaced'[k] = misplaced[k]
<1>1. 0 \in 0..MaxChain
  BY ConstantsOK DEF Constants
<1>2. /\ pc' \in [Handlers -> PCs] /\ group' \in [Handlers -> Groups \cup {NoGroup}]
      /\ since' \in [Handlers -> 0..MaxChain]
  BY <1>1 DEF Over, Shape, PCs
<1>3. batch' \in [Handlers -> BOOLEAN]
  BY Zenon DEF Over, Shape
<1>4. reqs' \in [Handlers -> Seq(Requests)]
  BY EmptySeq DEF Over, Shape
<1>5. resp' \in [Handlers -> Seq(Response \cup {NoResponse, Refusal})]
  BY EmptySeq DEF Over, Shape
<1>6. unanswered' \in [Handlers -> SUBSET Nat] /\ misplaced' \in [Handlers -> SUBSET Nat]
  BY DEF Over, Shape
<1>7. /\ pc'[h] = "idle" /\ group'[h] = NoGroup /\ batch'[h] = FALSE /\ reqs'[h] = <<>>
      /\ since'[h] = 0 /\ resp'[h] = <<>> /\ unanswered'[h] = {} /\ misplaced'[h] = {}
  BY DEF Over, Shape
<1>8. ASSUME NEW k \in Handlers, k # h
      PROVE  /\ pc'[k] = pc[k] /\ group'[k] = group[k] /\ batch'[k] = batch[k]
             /\ reqs'[k] = reqs[k] /\ since'[k] = since[k] /\ resp'[k] = resp[k]
             /\ unanswered'[k] = unanswered[k] /\ misplaced'[k] = misplaced[k]
  BY <1>8 DEF Over, Shape
<1>9. QED
  BY <1>2, <1>3, <1>4, <1>5, <1>6, <1>7, <1>8

\* An idle handler has no message.
LEMMA IdleTyped ==
  ASSUME NEW h \in Handlers, pc'[h] = "idle", reqs'[h] = <<>>, resp'[h] = <<>>,
         unanswered'[h] = {}, misplaced'[h] = {}, next'[h] = 1, missed'[h] = <<>>
  PROVE  HandlerInv(h)'
<1>1. LoopInv(h)'
  BY EmptySeq DEF LoopInv
<1>2. QED
  BY <1>1 DEF HandlerInv

\* A message comes in, is refused, or is answered.
LEMMA MessageTyped ==
  ASSUME TypeInv, NEW h \in Handlers,
         \/ \E m \in Messages[h] : Receive(h, m[1], m[2], m[3])
         \/ Refuse(h) \/ Reply(h)
  PROVE  OnlyRowOf(h) /\ Shape' /\ HandlerInv(h)'
<1> USE DEF messageVars, historyVars
<1>0. Shape /\ HandlerInv(h)
  BY DEF TypeInv
<1>1. ASSUME NEW m \in Messages[h], Receive(h, m[1], m[2], m[3])
      PROVE  OnlyRowOf(h) /\ Shape' /\ HandlerInv(h)'
  <2> DEFINE g == m[1]
             rs == m[2]
             b == m[3]
             blank == [i \in 1..Len(rs) |-> NoResponse]
  <2>1. g \in Groups /\ rs \in Seq(Requests) /\ b \in BOOLEAN /\ rs # <<>> /\ (b \/ Len(rs) = 1)
    BY HandlerAssumption
  <2>2. /\ pc'    = [pc EXCEPT ![h] = "lookup"] /\ group' = [group EXCEPT ![h] = g]
        /\ batch' = [batch EXCEPT ![h] = b]     /\ reqs'  = [reqs EXCEPT ![h] = rs]
        /\ since' = [since EXCEPT ![h] = chain[g]] /\ resp' = [resp EXCEPT ![h] = blank]
        /\ pc[h] = "idle"
        /\ UNCHANGED <<next, missed, attempt, lastResp, answers, cache, historyVars, crashed, chain>>
    BY <1>1 DEF Receive, At
  <2> HIDE DEF g, rs, b
  <2>3. Len(rs) \in Nat /\ Len(rs) >= 1
    BY <2>1, EmptySeq
  <2>4. blank \in [1..Len(rs) -> {NoResponse}]
    OBVIOUS
  <2>5. blank \in Seq({NoResponse}) /\ Len(blank) = Len(rs)
    BY <2>3, <2>4, SeqDef
  <2>6. blank \in Seq(Response \cup {NoResponse})
        /\ blank \in Seq(Response \cup {NoResponse, Refusal})
    BY <2>5, SeqMonotonic
  <2> HIDE DEF blank
  <2>7. chain[g] \in 0..MaxChain
    BY <1>0, <2>1 DEF Shape
  <2>8. Shape'
    <3>1. batch' \in [Handlers -> BOOLEAN]
      BY <1>0, <2>1, <2>2, Zenon DEF Shape
    <3>2. reqs' \in [Handlers -> Seq(Requests)] /\ pc' \in [Handlers -> PCs]
      BY <1>0, <2>1, <2>2 DEF Shape, PCs
    <3>3. resp' \in [Handlers -> Seq(Response \cup {NoResponse, Refusal})]
      BY <1>0, <2>2, <2>6 DEF Shape
    <3>4. /\ group' \in [Handlers -> Groups \cup {NoGroup}]
          /\ since' \in [Handlers -> 0..MaxChain]
      BY <1>0, <2>1, <2>2, <2>7 DEF Shape
    <3>5. UNCHANGED <<next, missed, attempt, lastResp, answers, cache, unanswered, misplaced,
                      crashed, chain>>
      BY <2>2
    <3>6. QED
      BY <1>0, <3>1, <3>2, <3>3, <3>4, <3>5 DEF Shape
  <2>9. OnlyRowOf(h)
    BY <1>0, <2>2 DEF Shape, OnlyRowOf, Row
  <2>10. HandlerInv(h)'
    <3>1. /\ pc'[h] = "lookup" /\ group'[h] = g /\ batch'[h] = b /\ reqs'[h] = rs
          /\ resp'[h] = blank /\ next'[h] = 1 /\ missed'[h] = <<>>
      BY <1>0, <2>2 DEF Shape, HandlerInv, LoopInv
    <3>2. unanswered'[h] \cup misplaced'[h] = {}
      <4>1. reqs[h] = <<>> /\ unanswered[h] \cup misplaced[h] \subseteq 1..Len(reqs[h])
        BY <1>0, <2>2 DEF HandlerInv
      <4>2. 1..Len(reqs[h]) = {}
        BY <4>1
      <4>3. QED
        BY <2>2, <4>1, <4>2
    <3>3. Serving(h)'
      BY <2>1, <2>5, <2>6, <3>1 DEF Serving
    <3>4. LoopInv(h)'
      BY <2>3, <3>1 DEF LoopInv
    <3>5. QED
      BY <3>1, <3>2, <3>3, <3>4 DEF HandlerInv
  <2>11. QED
    BY <2>8, <2>9, <2>10
<1>2. CASE Refuse(h)
  <2>1. Shape'
    <3>1. <<Refusal>> \in Seq(Response \cup {NoResponse, Refusal})
      OBVIOUS
    <3>2. resp' \in [Handlers -> Seq(Response \cup {NoResponse, Refusal})]
      BY <1>0, <1>2, <3>1 DEF Shape, Refuse
    <3>3. QED
      BY <1>0, <1>2, <3>2 DEF Shape, Refuse, PCs
  <2>2. OnlyRowOf(h)
    BY <1>0, <1>2 DEF Shape, OnlyRowOf, Row, Refuse
  <2>3. HandlerInv(h)'
    BY <1>0, <1>2 DEF Shape, Refuse, At, HandlerInv, LoopInv
  <2>4. QED
    BY <2>1, <2>2, <2>3
<1>3. CASE Reply(h)
  <2>1. /\ Over(h) /\ cache' = cache /\ pc[h] = "reply"
        /\ UNCHANGED <<next, missed, attempt, lastResp, answers, crashed, chain>>
    BY <1>3 DEF Reply, Over, At
  <2>2. Shape'
    BY <1>0, <2>1, OverTyped DEF Shape
  <2>3. OnlyRowOf(h)
    BY <1>0, <2>1, OverTyped DEF OnlyRowOf, Row
  <2>4. next'[h] = 1 /\ missed'[h] = <<>>
    BY <1>0, <2>1 DEF HandlerInv, LoopInv
  <2>5. HandlerInv(h)'
    <3>1. /\ pc'[h] = "idle" /\ reqs'[h] = <<>> /\ resp'[h] = <<>>
          /\ unanswered'[h] = {} /\ misplaced'[h] = {}
      BY <1>0, <2>1, OverTyped
    <3>2. QED
      BY <2>4, <3>1, IdleTyped
  <2>6. QED
    BY <2>2, <2>3, <2>5
<1>4. QED
  BY <1>1, <1>2, <1>3

\* A panic ends the handler's message, or the process.
LEMMA PanicTyped ==
  ASSUME TypeInv, NEW h \in Handlers, Panic(h)
  PROVE  OnlyRowOf(h) /\ Shape' /\ HandlerInv(h)'
<1>0. Shape /\ HandlerInv(h)
  BY DEF TypeInv
<1>1. CASE h \notin WsHandlers
  <2>1. /\ Over(h) /\ cache' = cache
        /\ next' = [next EXCEPT ![h] = 1] /\ missed' = [missed EXCEPT ![h] = <<>>]
        /\ answers' = [answers EXCEPT ![h] = <<>>] /\ attempt' = [attempt EXCEPT ![h] = 0]
        /\ lastResp' = [lastResp EXCEPT ![h] = NoResponse] /\ UNCHANGED <<crashed, chain>>
    BY <1>1 DEF Panic, Over, Returns
  <2>2. /\ next' \in [Handlers -> Nat \ {0}] /\ attempt' \in [Handlers -> 0..Attempts - 1]
        /\ lastResp' \in [Handlers -> Response \cup {NoResponse}]
    BY <1>0, <2>1, ConstantsOK DEF Shape, Constants, Attempts
  <2>3. missed' \in [Handlers -> Seq(Nat)]
    BY <1>0, <2>1, EmptySeq DEF Shape
  <2>4. answers' \in [Handlers -> Seq(Response \cup {NoResponse})]
    BY <1>0, <2>1, EmptySeq DEF Shape
  <2>5. Shape'
    BY <1>0, <2>1, <2>2, <2>3, <2>4, OverTyped DEF Shape
  <2>6. ASSUME NEW k \in Handlers, k # h
        PROVE  /\ next'[k] = next[k] /\ missed'[k] = missed[k] /\ answers'[k] = answers[k]
               /\ attempt'[k] = attempt[k] /\ lastResp'[k] = lastResp[k]
    BY <1>0, <2>1, <2>6 DEF Shape
  <2>7. OnlyRowOf(h)
    <3>1. ASSUME NEW k \in Handlers, k # h
          PROVE  /\ pc'[k] = pc[k] /\ group'[k] = group[k] /\ batch'[k] = batch[k]
                 /\ reqs'[k] = reqs[k] /\ since'[k] = since[k] /\ resp'[k] = resp[k]
                 /\ unanswered'[k] = unanswered[k] /\ misplaced'[k] = misplaced[k]
      BY <1>0, <2>1, <3>1, OverTyped
    <3>2. QED
      BY <2>6, <3>1 DEF OnlyRowOf, Row
  <2>8. next'[h] = 1 /\ missed'[h] = <<>>
    BY <1>0, <2>1 DEF Shape
  <2>9. HandlerInv(h)'
    <3>1. /\ pc'[h] = "idle" /\ reqs'[h] = <<>> /\ resp'[h] = <<>>
          /\ unanswered'[h] = {} /\ misplaced'[h] = {}
      BY <1>0, <2>1, OverTyped
    <3>2. QED
      BY <2>8, <3>1, IdleTyped
  <2>10. QED
    BY <2>5, <2>7, <2>9
<1>2. CASE h \in WsHandlers
  <2>1. crashed' \in BOOLEAN /\ UNCHANGED <<handlerVars, cache, chain>>
    BY <1>2 DEF Panic
  <2>2. QED
    BY <1>0, <2>1 DEF Shape, HandlerInv, LoopInv, Serving, OnlyRowOf, Row,
                      handlerVars, messageVars, historyVars
<1>3. QED
  BY <1>1, <1>2

\* A request is looked up: found, or added to those to ask for.
LEMMA LookupTyped ==
  ASSUME TypeInv, NEW h \in Handlers,
         LookupHit(h) \/ LookupExpired(h) \/ RemoveSeen(h) \/ LookupMiss(h)
  PROVE  OnlyRowOf(h) /\ Shape' /\ HandlerInv(h)'
<1> USE DEF messageVars, historyVars
<1> DEFINE i == next[h]
           R == Response \cup {NoResponse}
           More(ms) == /\ Len(ms) <= i
                       /\ \A j \in 1..Len(ms) : ms[j] \in 1..Len(reqs[h]) /\ ms[j] <= i
                       /\ \A j, k \in 1..Len(ms) : j < k => ms[j] < ms[k]
<1>0. Shape /\ HandlerInv(h) /\ LoopInv(h) /\ pc[h] \in {"lookup", "expired"} /\ Serving(h)
  <2>1. Shape /\ HandlerInv(h)
    BY DEF TypeInv
  <2>2. pc[h] \in {"lookup", "expired"}
    BY DEF LookupHit, LookupExpired, RemoveSeen, LookupMiss, At
  <2>3. QED
    BY <2>1, <2>2 DEF HandlerInv
<1>1. /\ i \in 1..Len(reqs[h]) /\ Len(missed[h]) < i /\ missed[h] \in Seq(Nat)
      /\ Len(missed[h]) \in Nat /\ i \in Nat /\ Len(resp[h]) = Len(reqs[h])
      /\ resp[h] \in Seq(R) /\ Len(reqs[h]) \in Nat
  BY <1>0, LenProperties DEF Shape, LoopInv, Serving
\* What the end of a round leaves to show.
<1>2. ASSUME NEW ms \in Seq(Nat), AfterLookup(h, ms), More(ms),
             missed' = [missed EXCEPT ![h] = ms],
             NEW rs \in Seq(R), resp' = [resp EXCEPT ![h] = rs], Len(rs) = Len(resp[h]),
             UNCHANGED <<messageVars, attempt, lastResp, answers, historyVars, crashed, chain>>,
             cache' \in Seq(Entry), Len(cache') <= Size
      PROVE  OnlyRowOf(h) /\ Shape' /\ HandlerInv(h)'
  <2>1. missed'[h] = ms /\ resp'[h] = rs
    BY <1>0, <1>2 DEF Shape
  <2>2. /\ pc' \in [Handlers -> PCs] /\ next' \in [Handlers -> Nat \ {0}]
        /\ \A k \in Handlers : k # h => pc'[k] = pc[k] /\ next'[k] = next[k]
        /\ pc'[h] \in {"lookup", "exec", "reply"}
        /\ LoopInv(h)'
    BY <1>0, <1>2, <2>1, LookupGoesOn
  <2>3. resp' \in [Handlers -> Seq(Response \cup {NoResponse, Refusal})]
    <3>1. rs \in Seq(Response \cup {NoResponse, Refusal})
      BY <1>2, SeqMonotonic
    <3>2. QED
      BY <1>0, <1>2, <3>1 DEF Shape
  <2>4. Shape'
    <3>1. missed' \in [Handlers -> Seq(Nat)]
      BY <1>0, <1>2 DEF Shape
    <3>2. UNCHANGED <<group, batch, reqs, since, attempt, lastResp, answers, unanswered,
                      misplaced, crashed, chain>>
      BY <1>2
    <3>3. QED
      BY <1>0, <1>2, <2>2, <2>3, <3>1, <3>2 DEF Shape
  <2>5. OnlyRowOf(h)
    BY <1>0, <1>2, <2>2 DEF Shape, OnlyRowOf, Row
  <2>6. Serving(h)'
    BY <1>0, <1>2, <2>1 DEF Serving
  <2>7. unanswered'[h] \cup misplaced'[h] \subseteq 1..Len(reqs'[h])
    BY <1>0, <1>2 DEF HandlerInv
  <2>8. HandlerInv(h)'
    BY <2>2, <2>6, <2>7 DEF HandlerInv
  <2>9. QED
    BY <2>4, <2>5, <2>8
<1>3. missed = [missed EXCEPT ![h] = missed[h]] /\ resp = [resp EXCEPT ![h] = resp[h]]
  BY <1>0 DEF Shape
<1>4. Append(missed[h], i) \in Seq(Nat) /\ More(Append(missed[h], i))
  <2>1. /\ \A j \in 1..Len(missed[h]) : missed[h][j] \in 1..Len(reqs[h]) /\ missed[h][j] < i
        /\ \A j, k \in 1..Len(missed[h]) : j < k => missed[h][j] < missed[h][k]
    BY <1>0 DEF LoopInv
  <2> DEFINE ms == Append(missed[h], i)
  <2>2. /\ ms \in Seq(Nat) /\ Len(ms) = Len(missed[h]) + 1
        /\ \A j \in 1..Len(ms) : ms[j] = i \/ \E k \in 1..Len(missed[h]) : ms[j] = missed[h][k]
        /\ \A j, k \in 1..Len(ms) : j < k => ms[j] < ms[k]
    BY <1>1, <2>1, AppendGrows
  <2> HIDE DEF ms
  <2>3. ASSUME NEW j \in 1..Len(ms) PROVE ms[j] \in 1..Len(reqs[h]) /\ ms[j] <= i
    <3>1. CASE ms[j] = i
      BY <1>1, <3>1
    <3>2. ASSUME NEW k \in 1..Len(missed[h]), ms[j] = missed[h][k]
          PROVE  ms[j] \in 1..Len(reqs[h]) /\ ms[j] <= i
      <4>1. missed[h][k] \in 1..Len(reqs[h]) /\ missed[h][k] < i
        BY <2>1
      <4>2. QED
        BY <1>1, <3>2, <4>1
    <3>3. QED
      BY <2>2, <3>1, <3>2
  <2>4. Len(ms) <= i
    BY <1>1, <2>2
  <2>5. QED
    BY <2>2, <2>3, <2>4 DEF ms
<1>5. cache \in Seq(Entry) /\ Len(cache) <= Size
  BY <1>0 DEF Shape
<1>6. CASE LookupHit(h)
  <2> DEFINE e == EntryOf(cache, Key(h, i))
             r == [e.response EXCEPT !.id = i]
             rs == [resp[h] EXCEPT ![i] = r]
  <2>1. /\ resp' = [resp EXCEPT ![h] = rs] /\ cache' = Touch(cache, Key(h, i))
        /\ Cached(cache, Key(h, i)) /\ missed' = missed /\ AfterLookup(h, missed[h])
        /\ UNCHANGED <<messageVars, attempt, lastResp, answers, historyVars, crashed, chain>>
    BY <1>0, <1>6 DEF LookupHit, Shape
  <2>2. e \in Entry
    BY <1>5, <2>1, EntryProperty
  <2>3. r \in Response
    BY <1>1, <2>2 DEF Entry, Response
  <2> HIDE DEF r
  <2>4. rs \in Seq(R) /\ Len(rs) = Len(resp[h])
    BY <1>1, <2>3, ExceptSeq
  <2>5. cache' \in Seq(Entry) /\ Len(cache') <= Size
    BY <1>5, <2>1, TouchProperty
  <2> HIDE DEF rs
  <2>6. missed' = [missed EXCEPT ![h] = missed[h]]
    BY <1>3, <2>1
  <2>7. More(missed[h])
    <3>1. /\ \A j \in 1..Len(missed[h]) :
                missed[h][j] \in 1..Len(reqs[h]) /\ missed[h][j] < i
          /\ \A j, k \in 1..Len(missed[h]) : j < k => missed[h][j] < missed[h][k]
      BY <1>0 DEF LoopInv
    <3>2. \A j \in 1..Len(missed[h]) : missed[h][j] <= i
      BY <1>1, <3>1
    <3>3. Len(missed[h]) <= i
      BY <1>1
    <3>4. QED
      BY <3>1, <3>2, <3>3
  <2> HIDE DEF More
  <2>8. QED
    BY <1>1, <1>2, <2>1, <2>4, <2>5, <2>6, <2>7
<1>7. CASE LookupExpired(h)
  <2>1. cache' \in Seq(Entry) /\ Len(cache') <= Size
    BY <1>5, <1>7, TouchProperty DEF LookupExpired
  <2>2. /\ pc' = [pc EXCEPT ![h] = "expired"] /\ pc[h] = "lookup"
        /\ UNCHANGED <<messageVars, next, missed, attempt, lastResp, answers, resp, historyVars,
                       crashed, chain>>
    BY <1>7 DEF LookupExpired, At
  <2>3. Shape'
    BY <1>0, <2>1, <2>2 DEF Shape, PCs
  <2>4. OnlyRowOf(h)
    BY <1>0, <2>2 DEF Shape, OnlyRowOf, Row
  <2>5. HandlerInv(h)'
    BY <1>0, <2>2 DEF Shape, HandlerInv, LoopInv, Serving
  <2>6. QED
    BY <2>3, <2>4, <2>5
<1>8. CASE RemoveSeen(h)
  <2>1. /\ missed' = [missed EXCEPT ![h] = Append(missed[h], i)]
        /\ missed'[h] = Append(missed[h], i) /\ AfterLookup(h, missed'[h])
        /\ cache' = Without(cache, Key(h, i))
        /\ UNCHANGED <<messageVars, attempt, lastResp, answers, resp, historyVars, crashed, chain>>
    BY <1>0, <1>8 DEF RemoveSeen, Shape
  <2>2. cache' \in Seq(Entry) /\ Len(cache') <= Size
    <3>1. cache' \in Seq(Entry) /\ Len(cache') <= Len(cache)
      BY <1>5, <2>1, WithoutProperty
    <3>2. Len(cache') \in Nat /\ Len(cache) \in Nat /\ Size \in Nat
      BY <1>5, <3>1, ConstantsOK, LenProperties DEF Constants
    <3>3. QED
      BY <1>5, <3>1, <3>2
  <2> HIDE DEF More
  <2>3. QED
    BY <1>1, <1>2, <1>3, <1>4, <2>1, <2>2
<1>9. CASE LookupMiss(h)
  <2>1. /\ missed' = [missed EXCEPT ![h] = Append(missed[h], i)]
        /\ missed'[h] = Append(missed[h], i) /\ AfterLookup(h, missed'[h])
        /\ UNCHANGED <<messageVars, attempt, lastResp, answers, resp, cache, historyVars,
                       crashed, chain>>
    BY <1>0, <1>9 DEF LookupMiss, Shape
  <2> HIDE DEF More
  <2>2. QED
    BY <1>1, <1>2, <1>3, <1>4, <1>5, <2>1
<1>10. QED
  BY <1>6, <1>7, <1>8, <1>9

\* The executor answers, tries again or gives up.
LEMMA ExecTyped ==
  ASSUME TypeInv, NEW h \in Handlers, ExecStep(h)
  PROVE  OnlyRowOf(h) /\ Shape' /\ HandlerInv(h)'
<1> USE DEF messageVars, historyVars
<1> DEFINE R == Response \cup {NoResponse}
<1>0. Shape /\ HandlerInv(h) /\ LoopInv(h) /\ pc[h] = "exec" /\ Serving(h)
  <2>1. Shape /\ HandlerInv(h)
    BY DEF TypeInv
  <2>2. pc[h] = "exec"
    BY DEF ExecStep, CallAnswers, CallRetryable, CallPanics, CallFails, CallEnds, At
  <2>3. QED
    BY <2>1, <2>2 DEF HandlerInv
<1>1. 0 \in 0..Attempts - 1 /\ lastResp[h] \in R /\ NoResponse \in R
  BY <1>0, ConstantsOK DEF Constants, Attempts, Shape
<1>2. ASSUME NEW kept \in R, GivesUp(h, kept),
             UNCHANGED <<messageVars, next, answers, cache, historyVars, crashed, chain>>
      PROVE  OnlyRowOf(h) /\ Shape' /\ HandlerInv(h)'
  <2>1. /\ pc'[h] = "reply" /\ missed'[h] = <<>>
        /\ resp'[h] \in Seq(R) /\ Len(resp'[h]) = Len(reqs[h])
    BY <1>0, <1>2, GivesUpProperty
  <2>2. PICK rs : resp' = [resp EXCEPT ![h] = rs]
    BY <1>2 DEF GivesUp
  <2>3. /\ pc' = [pc EXCEPT ![h] = "reply"] /\ missed' = [missed EXCEPT ![h] = <<>>]
        /\ attempt' = [attempt EXCEPT ![h] = 0]
        /\ lastResp' = [lastResp EXCEPT ![h] = NoResponse]
    BY <1>2 DEF GivesUp, Returns
  <2>4. resp' \in [Handlers -> Seq(Response \cup {NoResponse, Refusal})]
    <3>1. resp'[h] = rs
      BY <1>0, <2>2 DEF Shape
    <3>2. rs \in Seq(Response \cup {NoResponse, Refusal})
      BY <2>1, <3>1, SeqMonotonic
    <3>3. QED
      BY <1>0, <2>2, <3>2 DEF Shape
  <2>5. Shape'
    <3>1. missed' \in [Handlers -> Seq(Nat)]
      BY <1>0, <2>3, EmptySeq DEF Shape
    <3>2. /\ pc' \in [Handlers -> PCs] /\ attempt' \in [Handlers -> 0..Attempts - 1]
          /\ lastResp' \in [Handlers -> Response \cup {NoResponse}]
      BY <1>0, <1>1, <2>3 DEF Shape, PCs
    <3>3. QED
      BY <1>0, <1>2, <2>4, <3>1, <3>2 DEF Shape
  <2>6. OnlyRowOf(h)
    BY <1>0, <1>2, <2>2, <2>3 DEF Shape, OnlyRowOf, Row
  <2>7. Serving(h)'
    BY <1>0, <1>2, <2>1 DEF Serving
  <2>8. LoopInv(h)'
    BY <1>0, <1>2, <2>1 DEF LoopInv
  <2>9. unanswered'[h] \cup misplaced'[h] \subseteq 1..Len(reqs'[h])
    BY <1>0, <1>2 DEF HandlerInv
  <2>10. QED
    BY <2>1, <2>5, <2>6, <2>7, <2>8, <2>9 DEF HandlerInv
<1>3. ASSUME NEW kept \in R, AfterAttempt(h, kept),
             UNCHANGED <<messageVars, next, answers, cache, historyVars, crashed, chain>>
      PROVE  OnlyRowOf(h) /\ Shape' /\ HandlerInv(h)'
  <2>1. CASE attempt[h] + 1 < Attempts
    <3>1. /\ attempt' = [attempt EXCEPT ![h] = attempt[h] + 1]
          /\ lastResp' = [lastResp EXCEPT ![h] = kept]
          /\ UNCHANGED <<pc, resp, missed>>
      BY <1>3, <2>1 DEF AfterAttempt
    <3>2. attempt[h] + 1 \in 0..Attempts - 1
      BY <1>0, <2>1, ConstantsOK DEF Shape, Constants, Attempts
    <3>3. Shape'
      BY <1>0, <1>3, <3>1, <3>2 DEF Shape
    <3>4. OnlyRowOf(h)
      BY <1>0, <1>3, <3>1 DEF Shape, OnlyRowOf, Row
    <3>5. HandlerInv(h)'
      BY <1>0, <1>3, <3>1 DEF HandlerInv, LoopInv, Serving
    <3>6. QED
      BY <3>3, <3>4, <3>5
  <2>2. CASE ~(attempt[h] + 1 < Attempts)
    BY <1>2, <1>3, <2>2 DEF AfterAttempt
  <2>3. QED
    BY <2>1, <2>2
<1>4. ASSUME NEW given \in UpstreamAnswers(h), CallAnswers(h, given)
      PROVE  OnlyRowOf(h) /\ Shape' /\ HandlerInv(h)'
  <2> DEFINE M == {missed[h][j] : j \in DOMAIN missed[h]}
             un == {missed[h][j] : j \in DOMAIN missed[h] \ DOMAIN given}
             mis == {missed[h][j] : j \in {i \in DOMAIN missed[h] \cap DOMAIN given :
                                                given[i].id # missed[h][i]}}
  <2>1. given \in Seq(R)
    BY <1>0, AnswersProperty
  <2>2. /\ unanswered' = [unanswered EXCEPT ![h] = un]
        /\ misplaced' = [misplaced EXCEPT ![h] = mis]
        /\ AfterStore(h, 1, given)
        /\ attempt' = [attempt EXCEPT ![h] = 0]
        /\ lastResp' = [lastResp EXCEPT ![h] = NoResponse]
        /\ UNCHANGED <<messageVars, resp, cache, crashed, chain>>
    BY <1>4 DEF CallAnswers, Returns
  <2>3. un \subseteq M /\ mis \subseteq M
    OBVIOUS
  <2>4. M \subseteq 1..Len(reqs[h]) /\ 1..Len(reqs[h]) \subseteq Nat
    <3>1. DOMAIN missed[h] = 1..Len(missed[h])
      BY <1>0, LenProperties DEF Shape
    <3>2. QED
      BY <1>0, <3>1 DEF LoopInv
  <2> HIDE DEF M, un, mis
  <2>5. /\ pc' \in [Handlers -> PCs] /\ next' \in [Handlers -> Nat \ {0}]
        /\ missed' \in [Handlers -> Seq(Nat)]
        /\ answers' \in [Handlers -> Seq(Response \cup {NoResponse})]
        /\ \A k \in Handlers : k # h => /\ pc'[k] = pc[k] /\ next'[k] = next[k]
                                      /\ missed'[k] = missed[k] /\ answers'[k] = answers[k]
        /\ pc'[h] \in {"store", "reply"}
        /\ LoopInv(h)'
    <3>1. 1 <= Len(missed[h]) + 1
      BY <1>0, LenProperties DEF Shape
    <3>2. QED
      BY <1>0, <2>1, <2>2, <3>1, StoreGoesOn
  <2>6. /\ unanswered' \in [Handlers -> SUBSET Nat] /\ misplaced' \in [Handlers -> SUBSET Nat]
        /\ unanswered'[h] \cup misplaced'[h] \subseteq 1..Len(reqs'[h])
    BY <1>0, <2>2, <2>3, <2>4 DEF Shape
  <2>7. /\ attempt' \in [Handlers -> 0..Attempts - 1]
        /\ lastResp' \in [Handlers -> Response \cup {NoResponse}]
    BY <1>0, <1>1, <2>2 DEF Shape
  <2>8. Shape'
    <3>1. UNCHANGED <<group, batch, reqs, since, resp, cache, crashed, chain>>
      BY <2>2
    <3>2. QED
      BY <1>0, <2>5, <2>6, <2>7, <3>1 DEF Shape
  <2>9. OnlyRowOf(h)
    BY <1>0, <2>2, <2>5 DEF Shape, OnlyRowOf, Row
  <2>10. Serving(h)'
    BY <1>0, <2>2 DEF Serving
  <2>11. QED
    BY <2>5, <2>6, <2>8, <2>9, <2>10 DEF HandlerInv
<1>5. ASSUME NEW given \in UpstreamAnswers(h), CallRetryable(h, given)
      PROVE  OnlyRowOf(h) /\ Shape' /\ HandlerInv(h)'
  <2>1. ~batch[h] => given[1] \in R
    BY <1>0, AnswersProperty
  <2>2. PICK kept \in R : AfterAttempt(h, kept)
    BY <1>5, <2>1 DEF CallRetryable
  <2>3. QED
    BY <1>3, <1>5, <2>2 DEF CallRetryable
<1>6. ASSUME NEW given, CallPanics(h, given)
      PROVE  OnlyRowOf(h) /\ Shape' /\ HandlerInv(h)'
  BY <1>6, PanicTyped DEF CallPanics
<1>7. CASE CallFails(h)
  BY <1>1, <1>3, <1>7 DEF CallFails
<1>8. ASSUME NEW kept, CallEnds(h, kept)
      PROVE  OnlyRowOf(h) /\ Shape' /\ HandlerInv(h)'
  BY <1>1, <1>2, <1>8 DEF CallEnds
<1>9. QED
  BY <1>4, <1>5, <1>6, <1>7, <1>8 DEF ExecStep

\* A response is put in its place, and may go to the cache.
LEMMA StoreTyped ==
  ASSUME TypeInv, NEW h \in Handlers, Store(h)
  PROVE  OnlyRowOf(h) /\ Shape' /\ HandlerInv(h)'
<1> USE DEF messageVars, historyVars
<1> DEFINE j == next[h]
           i == missed[h][j]
           ans == answers[h][j]
           R == Response \cup {NoResponse}
           rs == [resp[h] EXCEPT ![i] = ans]
<1>0. Shape /\ HandlerInv(h) /\ LoopInv(h) /\ pc[h] = "store" /\ Serving(h)
  BY DEF TypeInv, Store, At, HandlerInv
<1>1. /\ Len(missed[h]) \in Nat /\ j \in Nat \ {0} /\ Len(answers[h]) \in Nat
      /\ j \in 1..Len(missed[h]) /\ j \in 1..Len(answers[h])
      /\ resp[h] \in Seq(R) /\ Len(resp[h]) = Len(reqs[h])
  <2>1. j <= Len(missed[h]) /\ j <= Len(answers[h])
    BY <1>0 DEF Store, LoopInv
  <2>2. QED
    BY <1>0, <2>1, LenProperties DEF Shape, Serving
<1>2. i \in 1..Len(reqs[h])
  BY <1>0, <1>1 DEF LoopInv
<1>3. ans \in Response /\ answers[h] \in Seq(R)
  <2>1. answers[h] \in Seq(R) /\ ans # NoResponse
    BY <1>0 DEF Shape, Store
  <2>2. ans \in R
    BY <1>1, <2>1, ElementOfSeq
  <2>3. QED
    BY <2>1, <2>2
<1>4. rs \in Seq(R) /\ Len(rs) = Len(reqs[h])
  BY <1>1, <1>2, <1>3, ExceptSeq
<1>5. cache' \in Seq(Entry) /\ Len(cache') <= Size
  <2>1. cache \in Seq(Entry) /\ Len(cache) <= Size
    BY <1>0 DEF Shape
  <2>2. Key(h, i) \in Queries
    BY <1>0, <1>2, ElementOfSeq DEF Key, GenerateCacheKey, Queries, Serving, Shape
  <2>3. [key |-> Key(h, i), response |-> ans, fresh |-> TRUE] \in Entry
    BY <1>3, <2>2 DEF Entry
  <2>4. cache' = cache \/ cache' = Set(cache, Key(h, i), ans)
    BY DEF Store
  <2> HIDE DEF ans, i
  <2>5. QED
    BY <2>1, <2>3, <2>4, SetProperty
<1>6. resp' = [resp EXCEPT ![h] = rs]
  BY <1>0 DEF Store, Shape
<1>7. /\ AfterStore(h, j + 1, answers[h])
      /\ UNCHANGED <<messageVars, attempt, lastResp, historyVars, crashed, chain>>
  BY DEF Store
<1> HIDE DEF rs
<1>8. resp' \in [Handlers -> Seq(Response \cup {NoResponse, Refusal})] /\ resp'[h] = rs
  <2>1. rs \in Seq(Response \cup {NoResponse, Refusal})
    BY <1>4, SeqMonotonic
  <2>2. QED
    BY <1>0, <1>6, <2>1 DEF Shape
<1>9. Serving(h)'
  BY <1>0, <1>4, <1>7, <1>8 DEF Serving
<1>10. /\ pc' \in [Handlers -> PCs] /\ next' \in [Handlers -> Nat \ {0}]
       /\ missed' \in [Handlers -> Seq(Nat)]
       /\ answers' \in [Handlers -> Seq(Response \cup {NoResponse})]
       /\ \A k \in Handlers : k # h => /\ pc'[k] = pc[k] /\ next'[k] = next[k]
                                     /\ missed'[k] = missed[k] /\ answers'[k] = answers[k]
       /\ pc'[h] \in {"store", "reply"}
       /\ LoopInv(h)'
  <2>1. j + 1 \in Nat \ {0} /\ j + 1 <= Len(missed[h]) + 1
    BY <1>1
  <2> HIDE DEF j
  <2>2. QED
    BY <1>0, <1>3, <1>7, <2>1, StoreGoesOn
<1>11. Shape'
  <2>1. UNCHANGED <<group, batch, reqs, since, attempt, lastResp, unanswered, misplaced,
                    crashed, chain>>
    BY <1>7
  <2>2. QED
    BY <1>0, <1>5, <1>8, <1>10, <2>1 DEF Shape
<1>12. OnlyRowOf(h)
  BY <1>0, <1>6, <1>7, <1>10 DEF Shape, OnlyRowOf, Row
<1>13. unanswered'[h] \cup misplaced'[h] \subseteq 1..Len(reqs'[h])
  BY <1>0, <1>7 DEF HandlerInv
<1>14. QED
  BY <1>9, <1>10, <1>11, <1>12, <1>13 DEF HandlerInv

\* Whatever a handler does, it does to itself and the cache.
LEMMA HandlerTyped ==
  ASSUME TypeInv, NEW h \in Handlers, HandlerStep(h)
  PROVE  OnlyRowOf(h) /\ Shape' /\ HandlerInv(h)'
<1>1. StorePanics(h) => Panic(h)
  BY DEF StorePanics
<1>2. QED
  BY <1>1, MessageTyped, LookupTyped, ExecTyped, StoreTyped, PanicTyped DEF HandlerStep

\* Time: entries expire and are swept, the chains grow.
LEMMA TimeTyped ==
  ASSUME TypeInv,
         \/ \E k \in Queries : Expire(k)
         \/ removeExpired
         \/ \E g \in Groups : ChainChanges(g)
  PROVE  TypeInv'
<1>0. Shape
  BY DEF TypeInv
<1> USE DEF handlerVars, messageVars, historyVars
<1>1. UNCHANGED <<handlerVars, crashed>>
  BY DEF Expire, removeExpired, ChainChanges
<1>2. \A h \in Handlers : HandlerInv(h)'
  BY <1>1 DEF TypeInv, HandlerInv, LoopInv, Serving
<1>3. ASSUME cache' \in Seq(Entry), Len(cache') <= Size, chain' = chain
      PROVE  TypeInv'
  BY <1>0, <1>1, <1>2, <1>3 DEF TypeInv, Shape
<1>4. cache \in Seq(Entry) /\ Len(cache) <= Size /\ Len(cache) \in Nat /\ Size \in Nat
  BY <1>0, ConstantsOK, LenProperties DEF Shape, Constants
<1>5. ASSUME NEW k \in Queries, Expire(k) PROVE TypeInv'
  <2> DEFINE aged(i) == IF cache[i].key = k THEN [cache[i] EXCEPT !.fresh = FALSE] ELSE cache[i]
  <2>1. DOMAIN cache = 1..Len(cache) /\ \A i \in 1..Len(cache) : cache[i] \in Entry
    BY <1>4, LenProperties, ElementOfSeq
  <2>2. \A i \in 1..Len(cache) : aged(i) \in Entry
    BY <2>1 DEF Entry
  <2>3. cache' = [i \in 1..Len(cache) |-> aged(i)] /\ chain' = chain
    BY <1>5, <2>1 DEF Expire
  <2> HIDE DEF aged
  <2>4. cache' \in [1..Len(cache) -> Entry]
    BY <2>2, <2>3
  <2>5. cache' \in Seq(Entry) /\ Len(cache') = Len(cache)
    <3>1. cache' \in Seq(Entry)
      BY <1>4, <2>4, SeqDef
    <3>2. QED
      BY <1>4, <2>3, <3>1
  <2>6. QED
    BY <1>3, <1>4, <2>3, <2>5
<1>6. CASE removeExpired
  <2> DEFINE kept == {i \in DOMAIN cache : cache[i].fresh}
  <2>1. PICK place \in [1..Cardinality(kept) -> kept] :
          cache' = [i \in DOMAIN place |-> cache[place[i]]]
    BY <1>6 DEF removeExpired
  <2>2. kept \in SUBSET (DOMAIN cache)
    OBVIOUS
  <2> HIDE DEF kept
  <2>3. cache' \in Seq(Entry) /\ Len(cache') <= Len(cache)
    BY <1>4, <2>1, <2>2, SelectionProperty
  <2>4. Len(cache') <= Size
    BY <1>4, <2>3, LenProperties
  <2>5. chain' = chain
    BY <1>6 DEF removeExpired
  <2>6. QED
    BY <1>3, <2>3, <2>4, <2>5
<1>7. ASSUME NEW g \in Groups, ChainChanges(g) PROVE TypeInv'
  <2>1. chain' = [chain EXCEPT ![g] = chain[g] + 1] /\ chain[g] < MaxChain /\ cache' = cache
    BY <1>7 DEF ChainChanges
  <2>2. chain' \in [Groups -> 0..MaxChain]
    <3>1. chain[g] + 1 \in 0..MaxChain
      BY <1>0, <2>1, ConstantsOK DEF Shape, Constants
    <3>2. QED
      BY <1>0, <2>1, <3>1 DEF Shape
  <2>3. QED
    BY <1>0, <1>1, <1>2, <2>1, <2>2 DEF TypeInv, Shape
<1>8. QED
  BY <1>5, <1>6, <1>7

\* Every step keeps the types and the places of the handlers.
LEMMA TypeStep == TypeInv /\ [Next]_vars => TypeInv'
<1> SUFFICES ASSUME TypeInv, [Next]_vars PROVE TypeInv'
  OBVIOUS
<1>1. ASSUME NEW h \in Handlers, HandlerStep(h) PROVE TypeInv'
  BY <1>1, HandlerTyped, OneMoves
<1>2. CASE UNCHANGED vars
  BY <1>2 DEF TypeInv, Shape, HandlerInv, LoopInv, Serving,
              vars, handlerVars, messageVars, historyVars
<1>3. QED
  BY <1>1, <1>2, TimeTyped DEF Next

\* ... so they always hold, whatever upstreams send.
LEMMA TypeInvariance == Spec => []TypeInv
BY TypeInit, TypeStep, PTL DEF Spec

\* The handlers, the cache and the chains never leave their state space: the
\* cache never exceeds its capacity, and every response has a place.
THEOREM TypeCorrect == Spec => []TypeOK
BY TypeInvariance, TypeInvTypeOK, PTL

-----------------------------------------------------------------------------
(* Whose answers the responses and the cache's entries are.                *)

\* Response a is an error, or a result of a time that may be given, that was put
\* in the place of the i-th request.
Right(h, i, a) ==
    /\ a # NoResponse /\ a.at = Query(h, i)
    /\ a.kind = "ok" => a.given \in Service!Moments(h, reqs[h][i])

\* Response a may be given to the i-th request.
Fits(h, i, a) == Right(h, i, a) /\ (i \in misplaced[h] \/ a.id = i)

\* The requests whose response is still to come.
Pending(h) ==
    CASE pc[h] \in {"lookup", "expired"} -> next[h]..Len(reqs[h]) \cup ToSet(missed[h])
      [] pc[h] = "exec"  -> ToSet(missed[h])
      [] pc[h] = "store" -> {missed[h][j] : j \in next[h]..Len(missed[h])}
      [] OTHER           -> {}

\* What a place holds once nothing more is to come.
Settled(h, i) ==
    IF i \in unanswered[h] THEN batch[h] /\ resp[h][i] = NoResponse
    ELSE Fits(h, i, resp[h][i])

\* Where the upstream's answers go: those that are there fit, and the requests
\* they do not reach are noted.  A single request has its answer.
StoreInv(h) ==
    /\ \A j \in 1..Len(answers[h]) :
          j <= Len(missed[h]) /\ answers[h][j] # NoResponse
              => Fits(h, missed[h][j], answers[h][j])
    /\ unanswered[h] = {missed[h][j] : j \in Len(answers[h]) + 1..Len(missed[h])}
    /\ unanswered[h] # {} => batch[h]
    /\ ~batch[h] => Len(answers[h]) = 1 /\ answers[h][1] # NoResponse

OwnInv(h) ==
    /\ \A i \in 1..Len(reqs[h]) :
          IF i \in Pending(h) THEN resp[h][i] = NoResponse ELSE Settled(h, i)
    /\ pc[h] = "store" => StoreInv(h)
    /\ pc[h] \in {"idle", "lookup", "expired", "exec"} =>
          unanswered[h] = {} /\ misplaced[h] = {}
    /\ lastResp[h] # NoResponse =>
          pc[h] = "exec" /\ ~batch[h] /\ Fits(h, 1, lastResp[h])
    /\ group[h] \in Groups => since[h] <= chain[group[h]]

\* Results the group that the key names gave in the place of the request that the
\* key names, which is one that may get them later.
OwnEntries ==
    {e \in Entry : /\ IsCacheable(e.key[2])
                   /\ e.response.kind = "ok" /\ e.response.at = e.key
                   /\ e.response.given <= chain[e.key[1]]}

IndInv == TypeInv /\ cache \in Seq(OwnEntries) /\ \A h \in Handlers : OwnInv(h)

\* Only what is taken to be immutable is cached: a rule that depends on the block
\* looks at every block parameter the method has.
LEMMA CacheableImmutable ==
  ASSUME NEW r \in Requests, IsCacheable(r)
  PROVE  IsImmutable(r)
<1> DEFINE given == BlockParams[r]
           n == Len(given)
<1>1. /\ n \in Nat /\ DOMAIN given = 1..n
      /\ Rule[r] \in {"blockNumber", "blockRange"} => n <= Arity(Rule[r])
  BY RequestAssumption, LenProperties
<1>2. CASE Rule[r] = "always"
  BY <1>2 DEF IsImmutable
<1>3. CASE Rule[r] = "blockNumber"
  <2>1. n >= 1 /\ given[1] # "tag"
    BY <1>3 DEF IsCacheable
  <2>2. Arity(Rule[r]) = 1
    BY <1>3 DEF Arity
  <2> HIDE DEF n, given
  <2>3. n <= 1
    BY <1>1, <1>3, <2>2
  <2>4. n = 1
    BY <1>1, <2>1, <2>3
  <2>5. \A j \in DOMAIN given : given[j] # "tag"
    <3>1. \A j \in DOMAIN given : j = 1
      BY <1>1, <2>4
    <3>2. QED
      BY <2>1, <3>1
  <2>6. QED
    BY <1>3, <2>2, <2>4, <2>5 DEF IsImmutable, ToSet, n, given
<1>4. CASE Rule[r] = "blockRange"
  <2>1. n >= 2 /\ given[1] # "tag" /\ given[2] # "tag"
    BY <1>4 DEF IsCacheable
  <2>2. Arity(Rule[r]) = 2
    BY <1>4 DEF Arity
  <2> HIDE DEF n, given
  <2>3. n <= 2
    BY <1>1, <1>4, <2>2
  <2>4. n = 2
    BY <1>1, <2>1, <2>3
  <2>5. \A j \in DOMAIN given : given[j] # "tag"
    <3>1. \A j \in DOMAIN given : j = 1 \/ j = 2
      BY <1>1, <2>4
    <3>2. QED
      BY <2>1, <3>1
  <2>6. QED
    BY <1>4, <2>2, <2>4, <2>5 DEF IsImmutable, ToSet, n, given
<1>5. QED
  BY <1>2, <1>3, <1>4 DEF IsCacheable

\* What may be given stays so while the message is served.
LEMMA RightStays ==
  ASSUME Shape, Shape', NEW h \in Handlers, group[h] \in Groups,
         reqs'[h] = reqs[h], group'[h] = group[h], since'[h] = since[h],
         chain'[group[h]] >= chain[group[h]]
  PROVE  \A i, a : Right(h, i, a) => Right(h, i, a)'
<1> SUFFICES ASSUME NEW i, NEW a, Right(h, i, a) PROVE Right(h, i, a)'
  OBVIOUS
<1>1. since[h] \in Nat /\ chain[group[h]] \in Nat /\ chain'[group[h]] \in Nat
  BY DEF Shape
<1>2. Service!Moments(h, reqs[h][i]) \subseteq Service!Moments(h, reqs[h][i])'
  BY <1>1 DEF Service!Moments, IsImmutable
<1>3. QED
  BY <1>2 DEF Right, Query

\* The same of what fits.
LEMMA FitsStays ==
  ASSUME Shape, Shape', NEW h \in Handlers, group[h] \in Groups,
         reqs'[h] = reqs[h], group'[h] = group[h], since'[h] = since[h],
         chain'[group[h]] >= chain[group[h]], misplaced[h] \subseteq misplaced'[h]
  PROVE  \A i, a : Fits(h, i, a) => Fits(h, i, a)'
<1>1. \A i, a : Right(h, i, a) => Right(h, i, a)'
  BY RightStays
<1>2. QED
  BY <1>1 DEF Fits

\* A result of now, or an error, may be given.
LEMMA RightNow ==
  ASSUME Shape, NEW h \in Handlers, group[h] \in Groups, since[h] <= chain[group[h]],
         NEW i, NEW a, a # NoResponse, a.at = Query(h, i),
         a.kind = "ok" => a.given = chain[group[h]]
  PROVE  Right(h, i, a)
<1>1. since[h] \in Nat /\ chain[group[h]] \in Nat
  BY DEF Shape
<1>2. chain[group[h]] \in Service!Moments(h, reqs[h][i])
  BY <1>1 DEF Service!Moments
<1>3. QED
  BY <1>2 DEF Right

\* Nothing is cached or answered at first.
LEMMA OwnInit == Init => IndInv
<1> SUFFICES ASSUME Init PROVE IndInv
  OBVIOUS
<1>1. TypeInv
  BY TypeInit
<1>2. cache \in Seq(OwnEntries)
  BY EmptySeq DEF Init
<1>3. ASSUME NEW h \in Handlers PROVE OwnInv(h)
  <2>1. group[h] \in Groups => since[h] <= chain[group[h]]
    BY DEF Init
  <2>2. Len(reqs[h]) = 0
    BY DEF Init
  <2>3. QED
    BY <2>1, <2>2 DEF Init, OwnInv
<1>4. QED
  BY <1>1, <1>2, <1>3 DEF IndInv

\* Other handlers' responses are not touched.
LEMMA OneAnswers ==
  ASSUME IndInv, NEW h \in Handlers, OnlyRowOf(h), chain' = chain, TypeInv', OwnInv(h)',
         cache' \in Seq(OwnEntries)
  PROVE  IndInv'
<1>1. ASSUME NEW k \in Handlers, k # h PROVE OwnInv(k)'
  <2>1. OwnInv(k) /\ Row(k)' = Row(k)
    BY <1>1 DEF IndInv, OnlyRowOf
  <2>2. Pending(k)' = Pending(k)
    BY <2>1 DEF Row, Pending
  <2>3. \A i, a : Fits(k, i, a) => Fits(k, i, a)'
    BY <2>1 DEF Row, Fits, Right, Query, Service!Moments
  <2>4. StoreInv(k) => StoreInv(k)'
    BY <2>1, <2>3 DEF Row, StoreInv
  <2>5. \A i : Settled(k, i) => Settled(k, i)'
    BY <2>1, <2>3 DEF Row, Settled
  <2>6. QED
    BY <2>1, <2>2, <2>3, <2>4, <2>5 DEF Row, OwnInv
<1>2. QED
  BY <1>1 DEF IndInv, OwnEntries

\* An idle handler has nothing to answer.
LEMMA IdleOwn ==
  ASSUME Shape', NEW h \in Handlers, pc'[h] = "idle", reqs'[h] = <<>>, group'[h] = NoGroup,
         since'[h] = 0, lastResp'[h] = NoResponse, unanswered'[h] = {}, misplaced'[h] = {}
  PROVE  OwnInv(h)'
<1>1. Len(reqs'[h]) = 0
  OBVIOUS
<1>2. group'[h] \in Groups => since'[h] <= chain'[group'[h]]
  BY DEF Shape
<1>3. QED
  BY <1>1, <1>2 DEF OwnInv

\* A message comes in, is refused, or is answered.
LEMMA MessageOwn ==
  ASSUME IndInv, TypeInv', NEW h \in Handlers,
         \/ \E m \in Messages[h] : Receive(h, m[1], m[2], m[3])
         \/ Refuse(h) \/ Reply(h)
  PROVE  chain' = chain /\ OwnInv(h)' /\ cache' \in Seq(OwnEntries)
<1> USE DEF messageVars, historyVars
<1>0. Shape /\ Shape' /\ HandlerInv(h) /\ OwnInv(h) /\ cache \in Seq(OwnEntries)
  BY DEF IndInv, TypeInv
<1>1. ASSUME NEW m \in Messages[h], Receive(h, m[1], m[2], m[3])
      PROVE  chain' = chain /\ OwnInv(h)' /\ cache' \in Seq(OwnEntries)
  <2> DEFINE g == m[1]
             rs == m[2]
  <2>1. /\ pc'[h] = "lookup" /\ group'[h] = g /\ reqs'[h] = rs /\ since'[h] = chain[g]
        /\ resp'[h] = [i \in 1..Len(rs) |-> NoResponse]
        /\ pc[h] = "idle" /\ UNCHANGED <<next, missed, lastResp, historyVars>>
        /\ chain' = chain /\ cache' = cache
    BY <1>0, <1>1 DEF Receive, At, Shape
  <2>2. g \in Groups
    BY HandlerAssumption
  <2> HIDE DEF g, rs
  <2>3. next'[h] = 1 /\ lastResp'[h] = NoResponse /\ unanswered'[h] = {} /\ misplaced'[h] = {}
    BY <1>0, <2>1 DEF HandlerInv, LoopInv, OwnInv
  <2>4. 1..Len(reqs'[h]) \subseteq Pending(h)'
    BY <2>1, <2>3 DEF Pending
  <2>5. \A i \in 1..Len(reqs'[h]) : resp'[h][i] = NoResponse
    BY <2>1
  <2>6. since'[h] <= chain'[g]
    BY <1>0, <2>1, <2>2 DEF Shape
  <2>7. QED
    BY <1>0, <2>1, <2>3, <2>4, <2>5, <2>6 DEF OwnInv
<1>2. CASE Refuse(h)
  <2>1. /\ pc'[h] = "reply" /\ reqs'[h] = <<>> /\ group' = group /\ since' = since
        /\ pc[h] = "idle" /\ lastResp' = lastResp /\ chain' = chain /\ cache' = cache
    BY <1>0, <1>2 DEF Refuse, At, Shape, HandlerInv
  <2>2. Len(reqs'[h]) = 0
    BY <2>1
  <2>3. QED
    BY <1>0, <2>1, <2>2 DEF OwnInv
<1>3. CASE Reply(h)
  <2>1. Over(h) /\ pc[h] = "reply" /\ lastResp' = lastResp /\ chain' = chain /\ cache' = cache
    BY <1>3 DEF Reply, Over, At
  <2>2. lastResp'[h] = NoResponse
    BY <1>0, <2>1 DEF OwnInv
  <2>3. /\ pc'[h] = "idle" /\ reqs'[h] = <<>> /\ group'[h] = NoGroup /\ since'[h] = 0
        /\ unanswered'[h] = {} /\ misplaced'[h] = {}
    BY <1>0, <2>1, OverTyped
  <2>4. QED
    BY <1>0, <2>1, <2>2, <2>3, IdleOwn
<1>4. QED
  BY <1>1, <1>2, <1>3

\* A handler that panics is idle again, or was the last to do anything.
LEMMA PanicOwn ==
  ASSUME IndInv, TypeInv', NEW h \in Handlers, Panic(h)
  PROVE  chain' = chain /\ OwnInv(h)' /\ cache' \in Seq(OwnEntries)
<1>0. Shape /\ Shape' /\ OwnInv(h) /\ cache \in Seq(OwnEntries)
  BY DEF IndInv, TypeInv
<1>1. CASE h \notin WsHandlers
  <2>1. /\ Over(h) /\ chain' = chain /\ cache' = cache
        /\ lastResp' = [lastResp EXCEPT ![h] = NoResponse]
    BY <1>1 DEF Panic, Over, Returns
  <2>2. lastResp'[h] = NoResponse
    BY <1>0, <2>1 DEF Shape
  <2>3. /\ pc'[h] = "idle" /\ reqs'[h] = <<>> /\ group'[h] = NoGroup /\ since'[h] = 0
        /\ unanswered'[h] = {} /\ misplaced'[h] = {}
    BY <1>0, <2>1, OverTyped
  <2>4. QED
    BY <1>0, <2>1, <2>2, <2>3, IdleOwn
<1>2. CASE h \in WsHandlers
  <2>1. UNCHANGED <<handlerVars, cache, chain>>
    BY <1>2 DEF Panic
  <2>2. QED
    BY <1>0, <2>1 DEF OwnInv, Pending, Settled, StoreInv, Fits, Right, Query,
                      Service!Moments, handlerVars, messageVars, historyVars
<1>3. QED
  BY <1>1, <1>2

\* After a round of the lookup loop, the request looked up waits for its response
\* if it is to be asked for, and the others as before.
LEMMA PendingAfterLookup ==
  ASSUME Shape, NEW h \in Handlers, LoopInv(h), pc[h] \in {"lookup", "expired"},
         reqs' = reqs, NEW ms \in Seq(Nat), missed'[h] = ms, AfterLookup(h, ms),
         \A x : x # next[h] => (x \in ToSet(ms) <=> x \in ToSet(missed[h]))
  PROVE  /\ pc'[h] \in {"lookup", "exec", "reply"}
         /\ \A x : x # next[h] => (x \in Pending(h)' <=> x \in Pending(h))
         /\ next[h] \in Pending(h)' <=> next[h] \in ToSet(ms)
<1>1. next[h] \in Nat /\ Len(reqs[h]) \in Nat /\ next[h] <= Len(reqs[h])
  BY DEF Shape, LoopInv
<1>2. Pending(h) = (next[h]..Len(reqs[h])) \cup ToSet(missed[h])
  BY DEF Pending
<1>3. CASE next[h] < Len(reqs[h])
  <2>1. pc'[h] = "lookup" /\ next'[h] = next[h] + 1
    BY <1>3 DEF AfterLookup, Shape
  <2>2. Pending(h)' = (next[h] + 1..Len(reqs[h])) \cup ToSet(ms)
    BY <2>1 DEF Pending
  <2>3. /\ \A x : x # next[h] =>
              (x \in next[h]..Len(reqs[h]) <=> x \in next[h] + 1..Len(reqs[h]))
        /\ next[h] \notin next[h] + 1..Len(reqs[h])
    BY <1>1
  <2>4. QED
    BY <1>2, <2>1, <2>2, <2>3
<1>4. CASE ~(next[h] < Len(reqs[h]))
  <2>1. pc'[h] = IF ms = <<>> THEN "reply" ELSE "exec"
    BY <1>4 DEF AfterLookup, Shape
  <2>2. \A x : x \in next[h]..Len(reqs[h]) => x = next[h]
    BY <1>1, <1>4
  <2>3. CASE ms = <<>>
    <3>1. ToSet(ms) = {}
      BY <2>3 DEF ToSet
    <3>2. pc'[h] = "reply" /\ Pending(h)' = {}
      BY <2>1, <2>3 DEF Pending
    <3>3. QED
      BY <1>2, <2>2, <3>1, <3>2
  <2>4. CASE ms # <<>>
    <3>1. pc'[h] = "exec" /\ Pending(h)' = ToSet(ms)
      BY <2>1, <2>4 DEF Pending
    <3>2. QED
      BY <1>2, <2>2, <3>1
  <2>5. QED
    BY <2>3, <2>4
<1>5. QED
  BY <1>3, <1>4

\* Looking up: an entry found answers the request in its group, under its id.
LEMMA LookupOwn ==
  ASSUME IndInv, TypeInv', NEW h \in Handlers,
         LookupHit(h) \/ LookupExpired(h) \/ RemoveSeen(h) \/ LookupMiss(h)
  PROVE  chain' = chain /\ OwnInv(h)' /\ cache' \in Seq(OwnEntries)
<1> USE DEF messageVars, historyVars
<1> DEFINE i == next[h]
<1>0. /\ Shape /\ Shape' /\ LoopInv(h) /\ OwnInv(h) /\ cache \in Seq(OwnEntries)
      /\ pc[h] \in {"lookup", "expired"} /\ Serving(h)
  <2>1. Shape /\ HandlerInv(h) /\ Shape' /\ OwnInv(h) /\ cache \in Seq(OwnEntries)
    BY DEF IndInv, TypeInv
  <2>2. pc[h] \in {"lookup", "expired"}
    BY DEF LookupHit, LookupExpired, RemoveSeen, LookupMiss, At
  <2>3. QED
    BY <2>1, <2>2 DEF HandlerInv
<1>1. /\ i \in 1..Len(reqs[h]) /\ missed[h] \in Seq(Nat) /\ group[h] \in Groups
      /\ Len(resp[h]) = Len(reqs[h]) /\ DOMAIN resp[h] = 1..Len(reqs[h])
      /\ DOMAIN missed[h] = 1..Len(missed[h]) /\ Len(missed[h]) \in Nat
  BY <1>0, LenProperties DEF Shape, LoopInv, Serving
<1>2. UNCHANGED <<messageVars, lastResp, answers, historyVars, chain>>
  BY DEF LookupHit, LookupExpired, RemoveSeen, LookupMiss
<1>3. \A x, a : Fits(h, x, a) => Fits(h, x, a)'
  <2>1. chain'[group[h]] >= chain[group[h]]
    BY <1>0, <1>1, <1>2 DEF Shape
  <2>2. QED
    BY <1>0, <1>1, <1>2, <2>1, FitsStays
<1>4. /\ unanswered[h] = {} /\ misplaced[h] = {} /\ lastResp[h] = NoResponse
      /\ since[h] <= chain[group[h]] /\ i \in Pending(h)
  <2>1. i \in Pending(h)
    BY <1>0, <1>1 DEF Pending
  <2>2. QED
    BY <1>0, <1>1, <2>1 DEF OwnInv
\* Nothing but a new response in place i, or its request still to be asked for.
<1>5. ASSUME pc'[h] \in {"lookup", "expired", "exec", "reply"},
             \A x : x # i => (x \in Pending(h)' <=> x \in Pending(h)),
             \A x \in 1..Len(reqs[h]) : x # i => resp'[h][x] = resp[h][x],
             IF i \in Pending(h)' THEN resp'[h][i] = resp[h][i] ELSE Fits(h, i, resp'[h][i])
      PROVE  OwnInv(h)'
  <2>1. ASSUME NEW x \in 1..Len(reqs[h]), x \in Pending(h)'
        PROVE  resp'[h][x] = NoResponse
    BY <1>0, <1>1, <1>4, <1>5, <2>1 DEF OwnInv
  <2>2. ASSUME NEW x \in 1..Len(reqs[h]), x \notin Pending(h)'
        PROVE  Fits(h, x, resp[h][x])'
    <3>1. CASE x = i
      BY <1>3, <1>5, <2>2, <3>1
    <3>2. CASE x # i
      <4>1. Fits(h, x, resp[h][x])
        BY <1>0, <1>4, <1>5, <2>2, <3>2 DEF OwnInv, Settled
      <4>2. resp'[h][x] = resp[h][x]
        BY <1>5, <3>2
      <4>3. QED
        BY <1>3, <4>1, <4>2
    <3>3. QED
      BY <3>1, <3>2
  <2>3. /\ reqs' = reqs /\ group' = group /\ since' = since /\ chain' = chain
        /\ lastResp'[h] = NoResponse /\ unanswered'[h] = {} /\ misplaced'[h] = {}
    BY <1>2, <1>4
  <2>4. ASSUME NEW x \in 1..Len(reqs'[h])
        PROVE  IF x \in Pending(h)' THEN resp'[h][x] = NoResponse ELSE Settled(h, x)'
    BY <2>1, <2>2, <2>3 DEF Settled
  <2>5. QED
    BY <1>1, <1>4, <1>5, <2>3, <2>4 DEF OwnInv
<1>6. CASE LookupHit(h)
  <2> DEFINE e == EntryOf(cache, Key(h, i))
             r == [e.response EXCEPT !.id = i]
  <2>1. /\ resp' = [resp EXCEPT ![h] = [resp[h] EXCEPT ![i] = r]]
        /\ cache' = Touch(cache, Key(h, i)) /\ Cached(cache, Key(h, i))
        /\ missed' = missed /\ AfterLookup(h, missed[h]) /\ IsCacheable(reqs[h][i])
    BY <1>0, <1>6 DEF LookupHit, Shape
  <2>2. e \in OwnEntries /\ e.key = Query(h, i)
    BY <1>0, <2>1, EntryProperty DEF Key, GenerateCacheKey, Query
  <2>3. /\ r.id = i /\ r.at = Query(h, i) /\ r.given = e.response.given
        /\ r \in Response /\ r.given \in Nat
    BY <1>1, <2>2 DEF OwnEntries, Entry, Response
  <2>4. r.given <= chain[group[h]]
    BY <2>2, <2>3 DEF OwnEntries, Query
  <2> HIDE DEF r
  <2>5. Fits(h, i, r)
    <3>1. reqs[h][i] \in Requests
      BY <1>0, <1>1, ElementOfSeq DEF Shape
    <3>2. Service!Moments(h, reqs[h][i]) = 0..chain[group[h]]
      BY <2>1, <3>1, CacheableImmutable DEF Service!Moments
    <3>3. chain[group[h]] \in Nat
      BY <1>0, <1>1 DEF Shape
    <3>4. r.given \in Service!Moments(h, reqs[h][i])
      BY <2>3, <2>4, <3>2, <3>3
    <3>5. QED
      BY <2>3, <3>4, ResponseIsThere DEF Fits, Right
  <2>6. resp'[h] = [resp[h] EXCEPT ![i] = r]
    BY <1>0, <2>1 DEF Shape
  <2>7. Fits(h, i, resp'[h][i])
    BY <1>1, <2>5, <2>6
  <2>8. /\ pc'[h] \in {"lookup", "exec", "reply"}
        /\ \A x : x # i => (x \in Pending(h)' <=> x \in Pending(h))
        /\ i \in Pending(h)' <=> i \in ToSet(missed[h])
    <3>1. missed'[h] = missed[h] /\ reqs' = reqs
      BY <1>2, <2>1
    <3>2. QED
      BY <1>0, <1>1, <2>1, <3>1, PendingAfterLookup
  <2>9. i \notin ToSet(missed[h])
    <3>1. \A x \in 1..Len(missed[h]) : missed[h][x] \in Nat /\ missed[h][x] < i
      BY <1>0, <1>1, ElementOfSeq DEF LoopInv
    <3>2. QED
      BY <1>1, <3>1 DEF ToSet
  <2>10. cache' \in Seq(OwnEntries)
    BY <1>0, <2>1, TouchProperty
  <2>11. \A x \in 1..Len(reqs[h]) : x # i => resp'[h][x] = resp[h][x]
    BY <1>1, <2>6
  <2>12. OwnInv(h)'
    BY <1>5, <2>7, <2>8, <2>9, <2>11
  <2>13. QED
    BY <1>2, <2>10, <2>12
<1>7. CASE LookupExpired(h)
  <2>1. /\ pc'[h] = "expired" /\ resp' = resp /\ missed' = missed /\ next' = next
        /\ cache' = Touch(cache, Key(h, i)) /\ Cached(cache, Key(h, i))
    BY <1>0, <1>7 DEF LookupExpired, Shape
  <2>2. Pending(h)' = Pending(h)
    BY <1>0, <1>2, <2>1 DEF Pending
  <2>3. OwnInv(h)'
    BY <1>4, <1>5, <2>1, <2>2
  <2>4. QED
    BY <1>0, <1>2, <2>1, <2>3, TouchProperty
<1>8. ASSUME missed' = [missed EXCEPT ![h] = Append(missed[h], i)],
             AfterLookup(h, missed'[h]), resp' = resp
      PROVE  OwnInv(h)'
  <2> DEFINE ms == Append(missed[h], i)
  <2>1. missed'[h] = ms /\ ms \in Seq(Nat) /\ reqs' = reqs
    BY <1>0, <1>1, <1>2, <1>8 DEF Shape
  <2>2. ToSet(ms) = ToSet(missed[h]) \cup {i}
    <3>1. /\ DOMAIN ms = 1..Len(missed[h]) + 1
          /\ \A j \in 1..Len(missed[h]) : ms[j] = missed[h][j]
          /\ ms[Len(missed[h]) + 1] = i
      BY <1>1, <2>1, LenProperties
    <3>2. \A j \in DOMAIN ms : j = Len(missed[h]) + 1 \/ j \in 1..Len(missed[h])
      BY <1>1, <3>1
    <3>3. 1..Len(missed[h]) \subseteq DOMAIN ms /\ Len(missed[h]) + 1 \in DOMAIN ms
      BY <1>1, <3>1
    <3> HIDE DEF ms
    <3>4. ToSet(ms) \subseteq ToSet(missed[h]) \cup {i}
      BY <1>1, <3>1, <3>2 DEF ToSet
    <3>5. ToSet(missed[h]) \cup {i} \subseteq ToSet(ms)
      BY <1>1, <3>1, <3>3 DEF ToSet
    <3>6. QED
      BY <3>4, <3>5
  <2> HIDE DEF ms
  <2>3. AfterLookup(h, ms)
    BY <1>8, <2>1
  <2>4. /\ pc'[h] \in {"lookup", "exec", "reply"}
        /\ \A x : x # i => (x \in Pending(h)' <=> x \in Pending(h))
        /\ i \in Pending(h)'
    BY <1>0, <2>1, <2>2, <2>3, PendingAfterLookup
  <2>5. QED
    BY <1>5, <1>8, <2>4
<1>9. CASE RemoveSeen(h)
  <2>1. OwnInv(h)'
    BY <1>8, <1>9 DEF RemoveSeen
  <2>2. cache' \in Seq(OwnEntries)
    BY <1>0, <1>9, WithoutProperty DEF RemoveSeen
  <2>3. QED
    BY <1>2, <2>1, <2>2
<1>10. CASE LookupMiss(h)
  <2>1. OwnInv(h)'
    BY <1>8, <1>10 DEF LookupMiss
  <2>2. QED
    BY <1>0, <1>2, <1>10, <2>1 DEF LookupMiss
<1>11. QED
  BY <1>6, <1>7, <1>9, <1>10

\* What the executor returns: the answers as the upstream sent them, the one kept,
\* or failures.
LEMMA ExecOwn ==
  ASSUME IndInv, TypeInv', NEW h \in Handlers, ExecStep(h)
  PROVE  chain' = chain /\ OwnInv(h)' /\ cache' \in Seq(OwnEntries)
<1> USE DEF messageVars, historyVars
<1> DEFINE R == Response \cup {NoResponse}
           Mine == chain' = chain /\ OwnInv(h)' /\ cache' \in Seq(OwnEntries)
<1>0. /\ Shape /\ Shape' /\ LoopInv(h) /\ OwnInv(h) /\ cache \in Seq(OwnEntries)
      /\ pc[h] = "exec" /\ Serving(h)
  <2>1. Shape /\ HandlerInv(h) /\ Shape' /\ OwnInv(h) /\ cache \in Seq(OwnEntries)
    BY DEF IndInv, TypeInv
  <2>2. pc[h] = "exec"
    BY DEF ExecStep, CallAnswers, CallRetryable, CallPanics, CallFails, CallEnds, At
  <2>3. QED
    BY <2>1, <2>2 DEF HandlerInv
<1>1. /\ group[h] \in Groups /\ since[h] <= chain[group[h]] /\ lastResp[h] \in R
      /\ NoResponse \in R /\ Pending(h) = ToSet(missed[h])
      /\ unanswered[h] = {} /\ misplaced[h] = {} /\ DOMAIN missed[h] = 1..Len(missed[h])
      /\ Len(missed[h]) \in Nat /\ Len(missed[h]) >= 1
  <2>1. group[h] \in Groups /\ since[h] <= chain[group[h]]
    BY <1>0 DEF Serving, OwnInv
  <2>2. lastResp[h] \in R /\ NoResponse \in R /\ Pending(h) = ToSet(missed[h])
    BY <1>0 DEF Shape, Pending
  <2>3. unanswered[h] = {} /\ misplaced[h] = {}
    BY <1>0 DEF OwnInv
  <2>4. missed[h] \in Seq(Nat) /\ missed[h] # <<>>
    BY <1>0 DEF Shape, LoopInv
  <2>5. Len(missed[h]) \in Nat /\ Len(missed[h]) >= 1 /\ DOMAIN missed[h] = 1..Len(missed[h])
    BY <2>4, EmptySeq, LenProperties
  <2>6. QED
    BY <2>1, <2>2, <2>3, <2>5
<1>2. /\ \A x \in 1..Len(reqs[h]) : x \in ToSet(missed[h]) => resp[h][x] = NoResponse
      /\ \A x \in 1..Len(reqs[h]) : x \notin ToSet(missed[h]) => Fits(h, x, resp[h][x])
  BY <1>0, <1>1 DEF OwnInv, Settled
<1>3. ASSUME UNCHANGED <<messageVars, chain>>
      PROVE  \A x, a : Right(h, x, a) => Right(h, x, a)'
  <2>1. chain'[group[h]] >= chain[group[h]]
    BY <1>0, <1>1, <1>3 DEF Shape
  <2>2. QED
    BY <1>0, <1>1, <1>3, <2>1, RightStays
\* Responses that may be given to a single request.
<1>4. DEFINE Kept(kept) == kept = NoResponse \/ (~batch[h] /\ Fits(h, 1, kept))
<1>5. Kept(lastResp[h]) /\ Kept(NoResponse)
  BY <1>0 DEF OwnInv
<1>6. ASSUME NEW kept \in R, Kept(kept), GivesUp(h, kept),
             UNCHANGED <<messageVars, cache, historyVars, chain>>
      PROVE  Mine
  <2>1. /\ pc'[h] = "reply" /\ missed'[h] = <<>>
        /\ \/ ~batch[h] /\ kept # NoResponse /\ resp'[h] = <<kept>>
           \/ resp'[h] = [x \in 1..Len(reqs[h]) |->
                             IF x \in ToSet(missed[h]) THEN Failure(h, x) ELSE resp[h][x]]
    BY <1>0, <1>6, GivesUpProperty
  <2>2. lastResp'[h] = NoResponse
    BY <1>0, <1>6 DEF GivesUp, Returns, Shape
  <2>3. ASSUME NEW x \in 1..Len(reqs[h]) PROVE Fits(h, x, resp'[h][x])
    <3>1. CASE ~batch[h] /\ kept # NoResponse /\ resp'[h] = <<kept>>
      <4>1. Len(reqs[h]) = 1
        BY <1>0, <3>1 DEF Serving
      <4>2. x = 1
        BY <4>1
      <4>3. QED
        BY <1>6, <3>1, <4>2
    <3>2. CASE resp'[h] = [y \in 1..Len(reqs[h]) |->
                             IF y \in ToSet(missed[h]) THEN Failure(h, y) ELSE resp[h][y]]
      <4>1. CASE x \in ToSet(missed[h])
        <5>1. resp'[h][x] = Failure(h, x)
          BY <3>2, <4>1
        <5>2. /\ Failure(h, x).id = x /\ Failure(h, x).at = Query(h, x)
              /\ Failure(h, x).kind = "failed" /\ Failure(h, x) # NoResponse
          BY <1>0, FailureProperty, ResponseIsThere
        <5>3. Right(h, x, Failure(h, x))
          BY <1>0, <1>1, <5>2, RightNow
        <5>4. QED
          BY <5>1, <5>2, <5>3 DEF Fits
      <4>2. CASE x \notin ToSet(missed[h])
        <5>1. resp'[h][x] = resp[h][x]
          BY <3>2, <4>2
        <5>2. QED
          BY <1>2, <4>2, <5>1
      <4>3. QED
        BY <4>1, <4>2
    <3>3. QED
      BY <2>1, <3>1, <3>2
  <2>4. ASSUME NEW x \in 1..Len(reqs'[h]) PROVE Settled(h, x)'
    <3>1. Fits(h, x, resp[h][x])'
      BY <1>3, <1>6, <2>3 DEF Fits
    <3>2. unanswered'[h] = {}
      BY <1>1, <1>6
    <3>3. QED
      BY <3>1, <3>2 DEF Settled
  <2>5. Pending(h)' = {}
    BY <2>1 DEF Pending
  <2>6. group'[h] \in Groups => since'[h] <= chain'[group'[h]]
    BY <1>1, <1>6
  <2>7. OwnInv(h)'
    BY <2>1, <2>2, <2>4, <2>5, <2>6 DEF OwnInv
  <2>8. QED
    BY <1>0, <1>6, <2>7
<1>7. ASSUME NEW kept \in R, Kept(kept), AfterAttempt(h, kept),
             UNCHANGED <<messageVars, cache, historyVars, chain>>
      PROVE  Mine
  <2>1. CASE attempt[h] + 1 < Attempts
    <3>1. lastResp'[h] = kept /\ UNCHANGED <<pc, resp, missed>>
      BY <1>0, <1>7, <2>1 DEF AfterAttempt, Shape
    <3>2. Pending(h)' = Pending(h)
      BY <1>0, <1>1, <3>1 DEF Pending
    <3>3. ASSUME NEW x \in 1..Len(reqs'[h])
          PROVE  IF x \in Pending(h)' THEN resp'[h][x] = NoResponse ELSE Settled(h, x)'
      <4>1. CASE x \in Pending(h)
        BY <1>1, <1>2, <1>7, <3>1, <3>2, <4>1
      <4>2. CASE x \notin Pending(h)
        <5>1. Fits(h, x, resp[h][x])'
          BY <1>1, <1>2, <1>3, <1>7, <3>1, <4>2 DEF Fits
        <5>2. unanswered'[h] = {}
          BY <1>1, <1>7
        <5>3. QED
          BY <3>2, <4>2, <5>1, <5>2 DEF Settled
      <4>3. QED
        BY <4>1, <4>2
    <3>4. lastResp'[h] # NoResponse => ~batch'[h] /\ Fits(h, 1, lastResp[h])'
      BY <1>3, <1>7, <3>1 DEF Fits
    <3>5. /\ pc'[h] = "exec" /\ unanswered'[h] = {} /\ misplaced'[h] = {}
          /\ group'[h] \in Groups => since'[h] <= chain'[group'[h]]
      BY <1>0, <1>1, <1>7, <3>1
    <3>6. OwnInv(h)'
      BY <3>3, <3>4, <3>5 DEF OwnInv
    <3>7. QED
      BY <1>0, <1>7, <3>6
  <2>2. CASE ~(attempt[h] + 1 < Attempts)
    BY <1>6, <1>7, <2>2 DEF AfterAttempt
  <2>3. QED
    BY <2>1, <2>2
<1>8. ASSUME NEW given \in UpstreamAnswers(h)
      PROVE  /\ given \in Seq(R) /\ Len(given) \in Nat /\ DOMAIN given = 1..Len(given)
             /\ ~batch[h] => Len(given) = 1 /\ given[1] \in Response /\ given[1].id = 1
             /\ \A j \in 1..Len(given) : j \in 1..Len(missed[h]) /\ given[j] # NoResponse
                   => Right(h, missed[h][j], given[j])
  <2>1. /\ given \in Seq(R)
        /\ ~batch[h] => Len(given) = 1 /\ given[1] \in Response /\ given[1].id = 1
        /\ \A j \in 1..Len(given) : given[j] # NoResponse =>
              /\ given[j] \in Response
              /\ j \in 1..Len(missed[h]) =>
                    /\ given[j].at = Query(h, missed[h][j])
                    /\ given[j].kind = "ok" => given[j].given = chain[group[h]]
    BY <1>0, AnswersProperty
  <2>2. ASSUME NEW j \in 1..Len(given), j \in 1..Len(missed[h]), given[j] # NoResponse
        PROVE  Right(h, missed[h][j], given[j])
    <3>1. /\ given[j].at = Query(h, missed[h][j])
          /\ given[j].kind = "ok" => given[j].given = chain[group[h]]
      BY <2>1, <2>2
    <3>2. QED
      BY <1>0, <1>1, <2>2, <3>1, RightNow
  <2>3. QED
    BY <2>1, <2>2, LenProperties
<1> HIDE DEF Kept
<1>9. ASSUME NEW given \in UpstreamAnswers(h), CallAnswers(h, given) PROVE Mine
  <2> DEFINE un == {missed[h][j] : j \in DOMAIN missed[h] \ DOMAIN given}
             mis == {missed[h][j] : j \in {i \in DOMAIN missed[h] \cap DOMAIN given :
                                                given[i].id # missed[h][i]}}
  <2>1. /\ unanswered'[h] = un /\ misplaced'[h] = mis
        /\ AfterStore(h, 1, given) /\ lastResp'[h] = NoResponse
        /\ UNCHANGED <<messageVars, resp, cache, chain>>
    BY <1>0, <1>9 DEF CallAnswers, Returns, Shape
  <2>2. IF 1 <= Len(given)
          THEN pc'[h] = "store" /\ next'[h] = 1 /\ answers'[h] = given /\ missed' = missed
          ELSE pc'[h] = "reply"
    <3>1. 1 <= Len(missed[h]) + 1 /\ 1 \in Nat \ {0}
      BY <1>1
    <3>2. reqs' = reqs /\ given \in Seq(R)
      BY <1>8, <2>1
    <3>3. QED
      BY <1>0, <2>1, <3>1, <3>2, StoreGoesOn
  <2>3. /\ un \subseteq ToSet(missed[h])
        /\ un = {missed[h][j] : j \in Len(given) + 1..Len(missed[h])}
    <3>1. DOMAIN missed[h] \ DOMAIN given = Len(given) + 1..Len(missed[h])
      BY <1>1, <1>8
    <3>2. QED
      BY <3>1 DEF ToSet
  <2>4. un # {} => batch[h]
    <3> SUFFICES ASSUME ~batch[h] PROVE un = {}
      OBVIOUS
    <3>1. Len(given) = 1 /\ Len(missed[h]) <= 1
      BY <1>0, <1>8 DEF LoopInv, Serving
    <3>2. Len(given) + 1..Len(missed[h]) = {}
      BY <1>1, <3>1
    <3>3. QED
      BY <2>3, <3>2
  <2>5. \A j \in 1..Len(given) : j \in 1..Len(missed[h]) =>
           missed[h][j] \in mis \/ given[j].id = missed[h][j]
    BY <1>1, <1>8
  <2> HIDE DEF un, mis
  <2>6. \A x, a : Fits(h, x, a) => Fits(h, x, a)'
    BY <1>1, <1>3, <2>1 DEF Fits
  <2>7. group'[h] \in Groups => since'[h] <= chain'[group'[h]]
    BY <1>1, <2>1
  <2>8. CASE 1 <= Len(given)
    <3>1. /\ pc'[h] = "store" /\ next'[h] = 1 /\ answers'[h] = given /\ missed' = missed
          /\ resp' = resp /\ reqs' = reqs /\ batch' = batch
      BY <2>1, <2>2, <2>8
    <3>2. Pending(h)' = ToSet(missed[h])
      <4>1. Pending(h)' = {missed[h][j] : j \in 1..Len(missed[h])}
        BY <3>1 DEF Pending
      <4>2. QED
        BY <1>1, <4>1 DEF ToSet
    <3>3. ASSUME NEW x \in 1..Len(reqs'[h])
          PROVE  IF x \in Pending(h)' THEN resp'[h][x] = NoResponse ELSE Settled(h, x)'
      BY <1>2, <2>1, <2>3, <2>6, <3>1, <3>2 DEF Settled
    <3>4. StoreInv(h)'
      <4>1. ASSUME NEW j \in 1..Len(given), j <= Len(missed[h]), given[j] # NoResponse
            PROVE  Fits(h, missed[h][j], given[j])'
        <5>1. j \in 1..Len(missed[h])
          BY <1>1, <1>8, <4>1
        <5>2. Right(h, missed[h][j], given[j])
          BY <1>8, <4>1, <5>1
        <5>3. \A x, a : Right(h, x, a) => Right(h, x, a)'
          BY <1>3, <2>1
        <5>4. Right(h, missed[h][j], given[j])'
          <6> DEFINE x == missed[h][j]
                     a == given[j]
          <6>1. x' = x
            BY <3>1
          <6> HIDE DEF x
          <6>2. Right(h, x, a)'
            BY <5>2, <5>3, <6>1 DEF x
          <6>3. QED
            BY <6>2 DEF x
        <5>5. QED
          BY <2>1, <2>5, <3>1, <5>1, <5>4 DEF Fits
      <4>2. ~batch[h] => Len(given) = 1 /\ given[1] # NoResponse
        BY <1>8, ResponseIsThere
      <4>3. QED
        BY <2>1, <2>3, <2>4, <3>1, <4>1, <4>2 DEF StoreInv
    <3>5. OwnInv(h)'
      BY <2>1, <2>7, <3>1, <3>3, <3>4 DEF OwnInv
    <3>6. QED
      BY <1>0, <2>1, <3>5
  <2>9. CASE ~(1 <= Len(given))
    <3>1. pc'[h] = "reply" /\ resp' = resp /\ reqs' = reqs /\ batch' = batch
      BY <2>1, <2>2, <2>9
    <3>2. Pending(h)' = {}
      BY <3>1 DEF Pending
    <3>3. un = ToSet(missed[h])
      <4>1. Len(given) + 1 = 1
        BY <1>8, <2>9
      <4>2. QED
        BY <1>1, <2>3, <4>1 DEF ToSet
    <3>4. ASSUME NEW x \in 1..Len(reqs'[h]) PROVE Settled(h, x)'
      BY <1>2, <2>1, <2>4, <2>6, <3>1, <3>3 DEF Settled
    <3>5. OwnInv(h)'
      BY <2>1, <2>7, <3>1, <3>2, <3>4 DEF OwnInv
    <3>6. QED
      BY <1>0, <2>1, <3>5
  <2>10. QED
    BY <2>8, <2>9
<1>10. ASSUME NEW given \in UpstreamAnswers(h), CallRetryable(h, given) PROVE Mine
  <2>1. /\ AfterAttempt(h, IF batch[h] THEN NoResponse ELSE given[1])
        /\ UNCHANGED <<messageVars, cache, historyVars, chain>>
    BY <1>10 DEF CallRetryable
  <2>2. CASE batch[h]
    BY <1>1, <1>5, <1>7, <2>1, <2>2
  <2>3. CASE ~batch[h]
    <3>1. missed[h][1] = 1
      <4>1. Len(reqs[h]) = 1
        BY <1>0, <2>3 DEF Serving
      <4>2. missed[h][1] \in 1..Len(reqs[h])
        BY <1>0, <1>1 DEF LoopInv
      <4>3. QED
        BY <4>1, <4>2
    <3>2. /\ given[1] \in Response /\ given[1] # NoResponse /\ given[1].id = 1
          /\ Len(given) = 1
      BY <1>8, <1>10, <2>3, ResponseIsThere
    <3>3. Right(h, 1, given[1])
      <4>1. 1 \in 1..Len(given) /\ 1 \in 1..Len(missed[h])
        BY <1>1, <3>2
      <4>2. QED
        BY <1>8, <1>10, <3>1, <3>2, <4>1
    <3>4. Kept(given[1]) /\ given[1] \in R
      BY <2>3, <3>2, <3>3 DEF Kept, Fits
    <3>5. QED
      BY <1>7, <2>1, <2>3, <3>4
  <2>4. QED
    BY <2>2, <2>3
<1>11. ASSUME NEW given, CallPanics(h, given) PROVE Mine
  BY <1>11, PanicOwn DEF CallPanics
<1>12. ASSUME CallFails(h) PROVE Mine
  BY <1>1, <1>5, <1>7, <1>12 DEF CallFails
<1>13. ASSUME NEW kept, CallEnds(h, kept) PROVE Mine
  BY <1>1, <1>5, <1>6, <1>13 DEF CallEnds
<1>14. QED
  BY <1>9, <1>10, <1>11, <1>12, <1>13 DEF ExecStep

\* A response goes where the loop has come to, and a successful one of a cacheable
\* request under that request's key.
LEMMA StoreOwn ==
  ASSUME IndInv, TypeInv', NEW h \in Handlers, Store(h)
  PROVE  chain' = chain /\ OwnInv(h)' /\ cache' \in Seq(OwnEntries)
<1> USE DEF messageVars, historyVars
<1> DEFINE j == next[h]
           i == missed[h][j]
           ans == answers[h][j]
<1>0. /\ Shape /\ Shape' /\ LoopInv(h) /\ OwnInv(h) /\ cache \in Seq(OwnEntries)
      /\ pc[h] = "store" /\ Serving(h) /\ StoreInv(h)
  BY DEF IndInv, TypeInv, Store, At, HandlerInv, OwnInv
<1>1. /\ Len(missed[h]) \in Nat /\ Len(answers[h]) \in Nat /\ j \in Nat \ {0}
      /\ j \in 1..Len(missed[h]) /\ j \in 1..Len(answers[h]) /\ ans # NoResponse
      /\ Len(resp[h]) = Len(reqs[h]) /\ DOMAIN resp[h] = 1..Len(reqs[h])
  <2>1. j <= Len(missed[h]) /\ j <= Len(answers[h]) /\ ans # NoResponse
    BY <1>0 DEF Store, LoopInv
  <2>2. QED
    BY <1>0, <2>1, LenProperties DEF Shape, Serving
<1>2. /\ i \in 1..Len(reqs[h]) /\ group[h] \in Groups /\ since[h] <= chain[group[h]]
      /\ lastResp[h] = NoResponse
  BY <1>0, <1>1 DEF LoopInv, Serving, OwnInv
\* No other request asked for has the same place.
<1>3. \A x \in 1..Len(missed[h]) : missed[h][x] = i => x = j
  <2>1. \A x \in 1..Len(missed[h]) : missed[h][x] \in Nat
    BY <1>0 DEF LoopInv
  <2>2. \A x, y \in 1..Len(missed[h]) : x < y => missed[h][x] < missed[h][y]
    BY <1>0 DEF LoopInv
  <2>3. ASSUME NEW x \in 1..Len(missed[h]), missed[h][x] = i, x # j PROVE FALSE
    <3>1. x < j \/ j < x
      BY <1>1, <2>3
    <3>2. missed[h][x] < missed[h][j] \/ missed[h][j] < missed[h][x]
      BY <1>1, <2>2, <3>1
    <3>3. QED
      BY <1>1, <2>1, <2>3, <3>2
  <2>4. QED
    BY <2>3
<1>4. Fits(h, i, ans) /\ ans \in Response
  <2>1. answers[h] \in Seq(Response \cup {NoResponse})
    BY <1>0 DEF Shape
  <2>2. ans \in Response
    BY <1>1, <2>1, ElementOfSeq
  <2>3. QED
    BY <1>0, <1>1, <2>2 DEF StoreInv
<1>5. UNCHANGED <<messageVars, lastResp, historyVars, chain>>
  BY DEF Store
<1>6. \A x, a : Fits(h, x, a) => Fits(h, x, a)'
  <2>1. chain'[group[h]] >= chain[group[h]]
    BY <1>0, <1>2, <1>5 DEF Shape
  <2>2. QED
    BY <1>0, <1>2, <1>5, <2>1, FitsStays
<1>7. cache' \in Seq(OwnEntries)
  <2> DEFINE new == [key |-> Key(h, i), response |-> ans, fresh |-> TRUE]
  <2>1. cache \in Seq(Entry) /\ Len(cache) <= Size
    BY <1>0 DEF Shape
  <2>2. ASSUME ans.kind = "ok", IsCacheable(reqs[h][i]) PROVE new \in OwnEntries
    <3>1. Key(h, i) = Query(h, i) /\ Query(h, i) = <<group[h], reqs[h][i]>>
      BY DEF Key, GenerateCacheKey, Query
    <3>2. reqs[h][i] \in Requests /\ chain[group[h]] \in Nat /\ since[h] \in Nat
      <4>1. reqs[h] \in Seq(Requests) /\ chain[group[h]] \in Nat /\ since[h] \in Nat
        BY <1>0, <1>2 DEF Shape
      <4> HIDE DEF i
      <4>2. QED
        BY <1>2, <4>1, ElementOfSeq
    <3>3. new \in Entry
      BY <1>2, <1>4, <3>1, <3>2 DEF Entry, Queries
    <3>4. ans.at = Query(h, i) /\ ans.given \in Service!Moments(h, reqs[h][i])
      BY <1>4, <2>2 DEF Fits, Right
    <3>5. ans.given <= chain[group[h]]
      BY <3>2, <3>4 DEF Service!Moments
    <3>6. new.key = Query(h, i) /\ new.response = ans /\ new.key[2] = reqs[h][i]
          /\ new.key[1] = group[h]
      BY <3>1
    <3> HIDE DEF new, ans
    <3>7. QED
      BY <2>2, <3>3, <3>4, <3>5, <3>6 DEF OwnEntries
  <2>3. cache' = IF ans.kind = "ok" /\ IsCacheable(reqs[h][i])
                   THEN Set(cache, Key(h, i), ans) ELSE cache
    BY DEF Store
  <2> HIDE DEF ans, i
  <2>4. CASE ans.kind = "ok" /\ IsCacheable(reqs[h][i])
    BY <1>0, <2>1, <2>2, <2>3, <2>4, SetProperty
  <2>5. CASE ~(ans.kind = "ok" /\ IsCacheable(reqs[h][i]))
    BY <1>0, <2>3, <2>5
  <2>6. QED
    BY <2>4, <2>5
<1>8. resp'[h] = [resp[h] EXCEPT ![i] = ans]
  BY <1>0 DEF Store, Shape
<1>9. IF j + 1 <= Len(answers[h])
        THEN /\ pc'[h] = "store" /\ next'[h] = j + 1
             /\ answers'[h] = answers[h] /\ missed' = missed
        ELSE pc'[h] = "reply"
  BY <1>0 DEF Store, AfterStore, Shape
<1>10. Pending(h) = {missed[h][x] : x \in j..Len(missed[h])}
  BY <1>0 DEF Pending
\* What was settled stays settled, and the place of the response is.
<1>11. ASSUME NEW x \in 1..Len(reqs[h]), x = i \/ x \notin Pending(h) PROVE Settled(h, x)'
  <2>1. CASE x = i
    <3>1. x \notin unanswered'[h]
      <4>1. \A y \in Len(answers[h]) + 1..Len(missed[h]) : y \in 1..Len(missed[h]) /\ y # j
        BY <1>1
      <4>2. unanswered'[h] = {missed[h][y] : y \in Len(answers[h]) + 1..Len(missed[h])}
        BY <1>0, <1>5 DEF StoreInv
      <4> HIDE DEF i, j
      <4>3. QED
        BY <1>3, <2>1, <4>1, <4>2
    <3>2. resp'[h][x] = ans
      BY <1>1, <1>8, <2>1
    <3>3. Fits(h, x, resp[h][x])'
      BY <1>4, <1>6, <2>1, <3>2
    <3>4. QED
      BY <3>1, <3>3 DEF Settled
  <2>2. CASE x # i
    <3>1. Settled(h, x)
      BY <1>0, <1>11, <2>2 DEF OwnInv
    <3>2. resp'[h][x] = resp[h][x]
      BY <1>1, <1>8, <2>2
    <3>3. QED
      BY <1>5, <1>6, <3>1, <3>2 DEF Settled
  <2>3. QED
    BY <2>1, <2>2
<1>12. ASSUME NEW x \in 1..Len(reqs[h]), x # i, x \in Pending(h)
       PROVE  resp'[h][x] = NoResponse /\ x \in {missed[h][y] : y \in j + 1..Len(missed[h])}
  <2>1. resp'[h][x] = resp[h][x] /\ resp[h][x] = NoResponse
    BY <1>0, <1>1, <1>8, <1>12 DEF OwnInv
  <2>2. \A y \in j..Len(missed[h]) : y = j \/ y \in j + 1..Len(missed[h])
    BY <1>1
  <2>3. QED
    BY <1>10, <1>12, <2>1, <2>2
<1>13. /\ reqs' = reqs /\ group' = group /\ since' = since /\ chain' = chain /\ batch' = batch
       /\ lastResp' = lastResp /\ unanswered' = unanswered
  BY <1>5
<1>14. CASE j + 1 <= Len(answers[h])
  <2>1. /\ pc'[h] = "store" /\ next'[h] = j + 1
        /\ answers'[h] = answers[h] /\ missed' = missed
    BY <1>9, <1>14
  <2>2. Pending(h)' = {missed[h][x] : x \in j + 1..Len(missed[h])}
    BY <2>1 DEF Pending
  <2>3. i \notin Pending(h)' /\ Pending(h)' \subseteq Pending(h)
    <3>1. \A y \in j + 1..Len(missed[h]) :
             y \in 1..Len(missed[h]) /\ y # j /\ y \in j..Len(missed[h])
      BY <1>1
    <3> HIDE DEF i, j
    <3>2. QED
      BY <1>3, <1>10, <2>2, <3>1
  <2>4. ASSUME NEW x \in 1..Len(reqs'[h])
        PROVE  IF x \in Pending(h)' THEN resp'[h][x] = NoResponse ELSE Settled(h, x)'
    <3> HIDE DEF i, j, ans
    <3>1. CASE x \in Pending(h)'
      BY <1>12, <1>13, <2>3, <3>1
    <3>2. CASE x \notin Pending(h)'
      BY <1>11, <1>12, <1>13, <2>2, <3>2
    <3>3. QED
      BY <3>1, <3>2
  <2>5. StoreInv(h)'
    BY <1>0, <1>6, <1>13, <2>1 DEF StoreInv
  <2>6. OwnInv(h)'
    BY <1>2, <1>13, <2>1, <2>4, <2>5 DEF OwnInv
  <2>7. QED
    BY <1>7, <1>13, <2>6
<1>15. CASE ~(j + 1 <= Len(answers[h]))
  <2>1. pc'[h] = "reply"
    BY <1>9, <1>15
  <2>2. Pending(h)' = {}
    BY <2>1 DEF Pending
  <2>3. /\ unanswered[h] = {missed[h][x] : x \in j + 1..Len(missed[h])}
        /\ unanswered[h] # {} => batch[h]
    <3>1. j = Len(answers[h])
      BY <1>1, <1>15
    <3>2. QED
      BY <1>0, <3>1 DEF StoreInv
  <2>4. ASSUME NEW x \in 1..Len(reqs'[h]) PROVE Settled(h, x)'
    <3> HIDE DEF i, j, ans
    <3>1. CASE x = i \/ x \notin Pending(h)
      BY <1>11, <1>13, <3>1
    <3>2. CASE x # i /\ x \in Pending(h)
      <4>1. resp'[h][x] = NoResponse /\ x \in unanswered[h]
        BY <1>12, <1>13, <2>3, <3>2
      <4>2. QED
        BY <1>13, <2>3, <4>1 DEF Settled
    <3>3. QED
      BY <3>1, <3>2
  <2>5. OwnInv(h)'
    BY <1>2, <1>13, <2>1, <2>2, <2>4 DEF OwnInv
  <2>6. QED
    BY <1>7, <1>13, <2>5
<1>16. QED
  BY <1>14, <1>15

\* Time changes neither whose answers the responses and the entries are, nor
\* that they were true while the message was served.
LEMMA TimeOwn ==
  ASSUME IndInv, TypeInv',
         \/ \E k \in Queries : Expire(k)
         \/ removeExpired
         \/ \E g \in Groups : ChainChanges(g)
  PROVE  IndInv'
<1>0. Shape /\ Shape' /\ cache \in Seq(OwnEntries) /\ Len(cache) \in Nat
  BY LenProperties DEF IndInv, TypeInv
<1> USE DEF handlerVars, messageVars, historyVars
<1>1. UNCHANGED handlerVars
  BY DEF Expire, removeExpired, ChainChanges
<1>2. ASSUME NEW h \in Handlers, group[h] \in Groups => chain'[group[h]] >= chain[group[h]]
      PROVE  OwnInv(h)'
  <2>1. OwnInv(h) /\ HandlerInv(h) /\ pc[h] \in PCs
    BY <1>0 DEF IndInv, TypeInv, Shape
  <2>2. Pending(h)' = Pending(h)
    BY <1>1 DEF Pending
  <2>3. CASE group[h] \in Groups
    <3>1. \A i, a : Fits(h, i, a) => Fits(h, i, a)'
      BY <1>0, <1>1, <1>2, <2>3, FitsStays
    <3>2. since'[h] <= chain'[group[h]]
      BY <1>0, <1>1, <1>2, <2>1, <2>3 DEF OwnInv, Shape
    <3>3. StoreInv(h) => StoreInv(h)'
      BY <1>1, <3>1 DEF StoreInv
    <3>4. \A i : Settled(h, i) => Settled(h, i)'
      BY <1>1, <3>1 DEF Settled
    <3>5. QED
      BY <1>1, <2>1, <2>2, <3>1, <3>2, <3>3, <3>4 DEF OwnInv
  <2>4. CASE group[h] \notin Groups
    <3>1. pc[h] \in {"idle", "reply"} /\ reqs[h] = <<>>
      BY <2>1, <2>4 DEF HandlerInv, Serving, PCs
    <3>2. Len(reqs[h]) = 0 /\ lastResp[h] = NoResponse
      BY <2>1, <3>1 DEF OwnInv
    <3>3. QED
      BY <1>1, <2>1, <2>4, <3>1, <3>2 DEF OwnInv
  <2>5. QED
    BY <2>3, <2>4
<1>3. ASSUME cache' \in Seq(OwnEntries), \A g \in Groups : chain'[g] >= chain[g]
      PROVE  IndInv'
  <2>1. OwnEntries \subseteq OwnEntries'
    <3> SUFFICES ASSUME NEW e \in OwnEntries PROVE e \in OwnEntries'
      OBVIOUS
    <3>1. e \in Entry /\ e.key[1] \in Groups /\ e.response.given \in Nat
      BY DEF OwnEntries, Entry, Queries, Response
    <3>2. chain[e.key[1]] \in Nat /\ chain'[e.key[1]] \in Nat
      BY <1>0, <3>1 DEF Shape
    <3>3. e.response.given <= chain'[e.key[1]]
      BY <1>3, <3>1, <3>2 DEF OwnEntries
    <3>4. QED
      BY <3>1, <3>3 DEF OwnEntries
  <2>2. cache' \in Seq(OwnEntries')
    BY <1>3, <2>1, SeqMonotonic
  <2>3. QED
    BY <1>2, <1>3, <2>2 DEF IndInv
<1>4. ASSUME chain' = chain PROVE \A g \in Groups : chain'[g] >= chain[g]
  <2>1. \A g \in Groups : chain[g] \in Nat
    BY <1>0 DEF Shape
  <2>2. QED
    BY <1>4, <2>1
<1>5. ASSUME NEW k \in Queries, Expire(k) PROVE IndInv'
  <2> DEFINE aged(i) == IF cache[i].key = k THEN [cache[i] EXCEPT !.fresh = FALSE] ELSE cache[i]
  <2>1. DOMAIN cache = 1..Len(cache) /\ \A i \in 1..Len(cache) : cache[i] \in OwnEntries
    BY <1>0, LenProperties, ElementOfSeq
  <2>2. ASSUME NEW e \in OwnEntries PROVE [e EXCEPT !.fresh = FALSE] \in OwnEntries
    BY DEF OwnEntries, Entry
  <2>3. \A i \in 1..Len(cache) : aged(i) \in OwnEntries
    BY <2>1, <2>2
  <2>4. cache' = [i \in 1..Len(cache) |-> aged(i)] /\ chain' = chain
    BY <1>5, <2>1 DEF Expire
  <2> HIDE DEF aged
  <2>5. cache' \in [1..Len(cache) -> OwnEntries]
    BY <2>3, <2>4
  <2>6. cache' \in Seq(OwnEntries)
    BY <1>0, <2>5, SeqDef
  <2>7. QED
    BY <1>3, <1>4, <2>4, <2>6
<1>6. CASE removeExpired
  <2> DEFINE kept == {i \in DOMAIN cache : cache[i].fresh}
  <2>1. PICK place \in [1..Cardinality(kept) -> kept] :
          cache' = [i \in DOMAIN place |-> cache[place[i]]]
    BY <1>6 DEF removeExpired
  <2>2. kept \in SUBSET (DOMAIN cache)
    OBVIOUS
  <2> HIDE DEF kept
  <2>3. cache' \in Seq(OwnEntries)
    BY <1>0, <2>1, <2>2, SelectionProperty
  <2>4. chain' = chain
    BY <1>6 DEF removeExpired
  <2>5. QED
    BY <1>3, <1>4, <2>3, <2>4
<1>7. ASSUME NEW g \in Groups, ChainChanges(g) PROVE IndInv'
  <2>1. chain' = [chain EXCEPT ![g] = chain[g] + 1] /\ cache' = cache
    BY <1>7 DEF ChainChanges
  <2>2. ASSUME NEW x \in Groups PROVE chain'[x] >= chain[x]
    <3>1. chain[x] \in Nat /\ chain'[x] = IF x = g THEN chain[x] + 1 ELSE chain[x]
      BY <1>0, <2>1 DEF Shape
    <3>2. QED
      BY <3>1
  <2>3. QED
    BY <1>0, <1>3, <2>1, <2>2
<1>8. QED
  BY <1>5, <1>6, <1>7

\* One step of a handler keeps its own and leaves the others'.
LEMMA HandlerOwn ==
  ASSUME IndInv, TypeInv', NEW h \in Handlers, HandlerStep(h)
  PROVE  OnlyRowOf(h) /\ chain' = chain /\ IndInv'
<1>1. OnlyRowOf(h)
  BY HandlerTyped DEF IndInv
<1>2. StorePanics(h) => Panic(h)
  BY DEF StorePanics
<1>3. chain' = chain /\ OwnInv(h)' /\ cache' \in Seq(OwnEntries)
  BY <1>2, MessageOwn, LookupOwn, ExecOwn, StoreOwn, PanicOwn DEF HandlerStep
<1>4. QED
  BY <1>1, <1>3, OneAnswers

\* Every step keeps the inductive invariant.
LEMMA IndStep == IndInv /\ [Next]_vars => IndInv'
<1> SUFFICES ASSUME IndInv, [Next]_vars PROVE IndInv'
  OBVIOUS
<1>1. TypeInv'
  BY TypeStep DEF IndInv
<1>2. CASE UNCHANGED vars
  <2>1. chain' = chain /\ cache' = cache /\ UNCHANGED handlerVars
    BY <1>2 DEF vars
  <2>2. ASSUME NEW h \in Handlers PROVE OwnInv(h)'
    <3>1. OwnInv(h)
      BY DEF IndInv
    <3>2. QED
      BY <2>1, <3>1 DEF OwnInv, Pending, Settled, StoreInv, Fits, Right, Query,
                        Service!Moments, handlerVars, messageVars, historyVars
  <2>3. QED
    BY <1>1, <2>1, <2>2 DEF IndInv, OwnEntries
<1>3. QED
  BY <1>1, <1>2, HandlerOwn, TimeOwn DEF Next

\* The inductive invariant holds throughout.
LEMMA Invariance == Spec => []IndInv
<1>1. IndInv /\ [Next]_vars => IndInv'
  BY IndStep
<1>2. QED
  BY <1>1, OwnInit, PTL DEF Spec

\* Whatever an upstream sends, in whatever order and number: a place of a reply is
\* empty only if no answer came for its request, which was one of a batch; else it
\* holds a response that was put in the place of the same request, by the same
\* group, and has its id unless the upstream put an answer to another one there.
THEOREM OwnReplies == Spec => []RepliesAreOwn
<1>1. IndInv => RepliesAreOwn
  <2> SUFFICES ASSUME IndInv, NEW h \in Handlers, pc[h] = "reply", NEW i \in 1..Len(reqs[h])
               PROVE  IF i \in unanswered[h] THEN batch[h] /\ resp[h][i] = NoResponse
                      ELSE /\ resp[h][i].at = Query(h, i)
                           /\ i \in misplaced[h] \/ resp[h][i].id = i
    BY DEF RepliesAreOwn
  <2>1. Settled(h, i)
    BY DEF IndInv, OwnInv, Pending
  <2>2. QED
    BY <2>1 DEF Settled, Fits, Right
<1>2. QED
  BY <1>1, Invariance, PTL

-----------------------------------------------------------------------------
(* The handlers implement RpcService.                                       *)

\* A step of one handler is nobody else's business.
LEMMA OneServes ==
  ASSUME NEW h \in Handlers, OnlyRowOf(h)
  PROVE  Service!Others(h)
BY DEF OnlyRowOf, Row, Service!Others

\* A message that comes in is asked, refused or, once answered, done with.
LEMMA MessageServed ==
  ASSUME IndInv, NEW h \in Handlers
  PROVE  /\ (\E m \in Messages[h] : Receive(h, m[1], m[2], m[3])) => Service!Ask(h)
         /\ Refuse(h) => Service!Refuse(h)
         /\ Reply(h)  => Service!Done(h)
<1> USE DEF At
<1>1. Shape /\ HandlerInv(h)
  BY DEF IndInv, TypeInv
<1>2. ASSUME NEW m \in Messages[h], Receive(h, m[1], m[2], m[3]) PROVE Service!Ask(h)
  <2>1. /\ pc[h] = "idle" /\ pc'[h] = "lookup" /\ group'[h] = m[1] /\ reqs'[h] = m[2]
        /\ batch'[h] = m[3] /\ since'[h] = chain[m[1]] /\ reqs[h] = <<>>
    BY <1>1, <1>2 DEF Receive, Shape, HandlerInv
  <2>2. m[1] \in Groups /\ m[2] # <<>> /\ (m[3] \/ Len(m[2]) = 1)
    BY HandlerAssumption
  <2>3. QED
    BY <2>1, <2>2 DEF Service!Ask
<1>3. ASSUME Refuse(h) PROVE Service!Refuse(h)
  <2>1. /\ pc[h] = "idle" /\ pc'[h] = "reply" /\ reqs[h] = <<>> /\ reqs'[h] = <<>>
        /\ resp'[h] = <<Refusal>>
    BY <1>1, <1>3 DEF Refuse, Shape, HandlerInv, messageVars
  <2>2. Len(resp'[h]) = 1 /\ resp'[h][1].kind = "refused"
    BY <2>1 DEF Refusal
  <2>3. QED
    BY <2>1, <2>2 DEF Service!Refuse
<1>4. ASSUME Reply(h) PROVE Service!Done(h)
  <2>1. pc[h] = "reply" /\ pc'[h] = "idle" /\ reqs'[h] = <<>>
    BY <1>1, <1>4, OverTyped DEF Reply
  <2>2. resp[h] # <<>>
    <3>1. CASE Serving(h)
      <4>1. reqs[h] \in Seq(Requests) /\ reqs[h] # <<>>
        BY <1>1, <3>1 DEF Shape, Serving
      <4>2. Len(reqs[h]) # 0 /\ Len(resp[h]) = Len(reqs[h])
        BY <3>1, <4>1, EmptySeq DEF Serving
      <4>3. QED
        BY <4>2
    <3>2. CASE resp[h] = <<Refusal>>
      BY <3>2
    <3>3. QED
      BY <1>1, <2>1, <3>1, <3>2 DEF HandlerInv
  <2>3. QED
    BY <2>1, <2>2 DEF Service!Done
<1>5. QED
  BY <1>2, <1>3, <1>4

\* While a message is being served nothing is seen of it, until every place has
\* what may be given.
LEMMA WorkServed ==
  ASSUME IndInv, IndInv', NEW h \in Handlers, OnlyRowOf(h), chain' = chain,
         pc[h] \in {"lookup", "expired", "exec", "store"}, UNCHANGED messageVars
  PROVE  Service!Reply(h) \/ UNCHANGED Service!vars
<1>1. Serving(h) /\ reqs[h] # <<>>
  BY DEF IndInv, TypeInv, HandlerInv, Serving
<1>2. CASE pc'[h] = "reply"
  <2>1. HandlerInv(h)' /\ OwnInv(h)'
    BY DEF IndInv, TypeInv
  <2>2. Len(resp'[h]) = Len(reqs[h])
    BY <1>1, <1>2, <2>1 DEF HandlerInv, Serving, messageVars
  <2>3. ASSUME NEW i \in 1..Len(reqs[h])
        PROVE  Service!Answers(h, i, resp'[h][i])
    <3>1. Settled(h, i)'
      BY <1>2, <2>1 DEF OwnInv, Pending, messageVars
    <3>2. CASE i \in unanswered'[h]
      BY <3>1, <3>2 DEF Settled, messageVars, NoResponse, Service!Answers, Service!Nothing
    <3>3. CASE i \notin unanswered'[h]
      <4>1. Right(h, i, resp[h][i])'
        BY <3>1, <3>3 DEF Settled, Fits
      <4>2. Right(h, i, resp'[h][i])
        BY <4>1 DEF Right, Query, Service!Moments, messageVars
      <4>3. QED
        BY <4>2 DEF Right, Query, NoResponse, Service!Answers, Service!Nothing, Service!Moments
    <3>4. QED
      BY <3>2, <3>3
  <2>4. QED
    BY <1>1, <1>2, <2>2, <2>3 DEF Service!Reply, messageVars
<1>3. CASE pc'[h] # "reply"
  <2>1. ASSUME NEW k \in Handlers
        PROVE  (IF pc[k] = "reply" THEN resp[k] ELSE <<>>)'
                  = IF pc[k] = "reply" THEN resp[k] ELSE <<>>
    <3>1. CASE k = h
      BY <1>3, <3>1
    <3>2. CASE k # h
      BY <3>2 DEF OnlyRowOf, Row
    <3>3. QED
      BY <3>1, <3>2
  <2>2. UNCHANGED Service!vars
    BY <2>1 DEF Service!vars, messageVars
  <2>3. QED
    BY <2>2
<1>4. QED
  BY <1>2, <1>3

\* A single request cannot make its handler panic.
LEMMA PanicIsOfBatch ==
  ASSUME IndInv, NEW h \in Handlers,
         \/ \E given \in UpstreamAnswers(h) : CallPanics(h, given)
         \/ StorePanics(h)
  PROVE  batch[h] /\ reqs[h] # <<>> /\ pc[h] # "reply"
<1>1. Shape /\ HandlerInv(h) /\ OwnInv(h)
  BY DEF IndInv, TypeInv
<1>2. ASSUME NEW given \in UpstreamAnswers(h), CallPanics(h, given)
      PROVE  batch[h] /\ reqs[h] # <<>> /\ pc[h] # "reply"
  <2>1. pc[h] = "exec" /\ NoResponse \in ToSet(given)
    BY <1>2 DEF CallPanics, MeetsNil, At
  <2>2. Serving(h) /\ LoopInv(h)
    BY <1>1, <2>1 DEF HandlerInv
  <2>3. ASSUME ~batch[h] PROVE FALSE
    <3>1. /\ given \in Seq(Response \cup {NoResponse}) /\ Len(given) = 1
          /\ given[1] \in Response
      BY <1>1, <2>1, <2>2, <2>3, AnswersProperty
    <3>2. PICK j \in 1..Len(given) : given[j] = NoResponse
      BY <2>1, <3>1, LenProperties DEF ToSet
    <3>3. j = 1
      BY <3>1
    <3>4. QED
      BY <3>1, <3>2, <3>3, ResponseIsThere
  <2>4. QED
    BY <2>1, <2>2, <2>3 DEF Serving
<1>3. ASSUME StorePanics(h) PROVE batch[h] /\ reqs[h] # <<>> /\ pc[h] # "reply"
  <2>1. pc[h] = "store" /\ ~(next[h] <= Len(missed[h]) /\ answers[h][next[h]] # NoResponse)
    BY <1>3 DEF StorePanics, At
  <2>2. Serving(h) /\ LoopInv(h) /\ StoreInv(h)
    BY <1>1, <2>1 DEF HandlerInv, OwnInv
  <2>3. ASSUME ~batch[h] PROVE FALSE
    <3>1. Len(answers[h]) = 1 /\ answers[h][1] # NoResponse
      BY <2>2, <2>3 DEF StoreInv
    <3>2. next[h] = 1
      BY <1>1, <2>1, <2>2, <3>1 DEF LoopInv, Shape
    <3>3. missed[h] \in Seq(Nat) /\ missed[h] # <<>>
      BY <1>1, <2>1, <2>2 DEF LoopInv, Shape
    <3>4. Len(missed[h]) >= 1
      BY <3>3, EmptySeq
    <3>5. QED
      BY <2>1, <3>1, <3>2, <3>4
  <2>4. QED
    BY <2>1, <2>2, <2>3 DEF Serving
<1>4. QED
  BY <1>2, <1>3

\* A panic drops the batch, or stops everything.
LEMMA PanicServed ==
  ASSUME IndInv, NEW h \in Handlers, Panic(h), batch[h], reqs[h] # <<>>, pc[h] # "reply"
  PROVE  Service!Drop(h) \/ UNCHANGED Service!vars
<1>1. CASE h \notin WsHandlers
  <2>1. Shape /\ Over(h)
    BY <1>1 DEF Panic, IndInv, TypeInv
  <2>2. pc'[h] = "idle" /\ reqs'[h] = <<>>
    BY <2>1, OverTyped
  <2>3. QED
    BY <2>2 DEF Service!Drop
<1>2. CASE h \in WsHandlers
  BY <1>2 DEF Panic, handlerVars, messageVars, Service!vars
<1>3. QED
  BY <1>1, <1>2

\* Each step of a handler is one of the service's, or nothing to it.
LEMMA HandlerServed ==
  ASSUME IndInv, IndInv', NEW h \in Handlers, OnlyRowOf(h), chain' = chain, HandlerStep(h)
  PROVE  \/ Service!Ask(h) \/ Service!Reply(h) \/ Service!Drop(h) \/ Service!Refuse(h)
         \/ Service!Done(h) \/ UNCHANGED Service!vars
<1>1. ASSUME LookupHit(h) \/ LookupExpired(h) \/ RemoveSeen(h) \/ LookupMiss(h) \/ Store(h)
      PROVE  Service!Reply(h) \/ UNCHANGED Service!vars
  <2>1. pc[h] \in {"lookup", "expired", "exec", "store"} /\ UNCHANGED messageVars
    BY <1>1 DEF LookupHit, LookupExpired, RemoveSeen, LookupMiss, Store, At
  <2>2. QED
    BY <2>1, WorkServed
<1>2. ASSUME \/ \E given \in UpstreamAnswers(h) : CallAnswers(h, given) \/ CallRetryable(h, given)
             \/ CallFails(h) \/ CallEnds(h, lastResp[h]) \/ CallEnds(h, NoResponse)
      PROVE  Service!Reply(h) \/ UNCHANGED Service!vars
  <2>1. pc[h] \in {"lookup", "expired", "exec", "store"} /\ UNCHANGED messageVars
    BY <1>2 DEF CallAnswers, CallRetryable, CallFails, CallEnds, At
  <2>2. QED
    BY <2>1, WorkServed
<1>3. ASSUME \/ \E given \in UpstreamAnswers(h) : CallPanics(h, given)
             \/ StorePanics(h)
      PROVE  Service!Drop(h) \/ UNCHANGED Service!vars
  <2>1. Panic(h)
    BY <1>3 DEF CallPanics, StorePanics
  <2>2. batch[h] /\ reqs[h] # <<>> /\ pc[h] # "reply"
    BY <1>3, PanicIsOfBatch
  <2>3. QED
    BY <2>1, <2>2, PanicServed
<1>4. QED
  BY <1>1, <1>2, <1>3, MessageServed DEF HandlerStep, ExecStep

\* Time changes the chains; what it does to the cache nobody sees.
LEMMA TimeServed ==
  ASSUME \/ \E k \in Queries : Expire(k)
         \/ removeExpired
         \/ \E g \in Groups : ChainChanges(g)
  PROVE  [Service!Next]_(Service!vars)
<1>1. UNCHANGED handlerVars
  BY DEF Expire, removeExpired, ChainChanges
<1>2. ASSUME NEW g \in Groups, ChainChanges(g) PROVE Service!ChainChanges(g)
  BY <1>1, <1>2 DEF ChainChanges, Service!ChainChanges, handlerVars, messageVars
<1>3. ASSUME chain' = chain PROVE UNCHANGED Service!vars
  BY <1>1, <1>3 DEF Service!vars, handlerVars, messageVars
<1>4. QED
  BY <1>2, <1>3 DEF Expire, removeExpired, Service!Next

\* Every step is a step of the service or leaves it alone.
LEMMA ServiceSimulated == IndInv /\ [Next]_vars => [Service!Next]_(Service!vars)
<1> SUFFICES ASSUME IndInv, [Next]_vars
             PROVE  [Service!Next]_(Service!vars)
  OBVIOUS
<1>1. IndInv' /\ TypeInv'
  BY IndStep DEF IndInv
<1>2. ASSUME NEW h \in Handlers, HandlerStep(h)
      PROVE  [Service!Next]_(Service!vars)
  <2>1. OnlyRowOf(h) /\ chain' = chain
    BY <1>1, <1>2, HandlerOwn
  <2>2. Service!Others(h)
    BY <2>1, OneServes
  <2>3. \/ Service!Ask(h) \/ Service!Reply(h) \/ Service!Drop(h) \/ Service!Refuse(h)
        \/ Service!Done(h) \/ UNCHANGED Service!vars
    BY <1>1, <1>2, <2>1, HandlerServed
  <2>4. QED
    BY <2>1, <2>2, <2>3 DEF Service!Next
<1>3. CASE UNCHANGED vars
  BY <1>3 DEF vars, handlerVars, messageVars, Service!vars
<1>4. QED
  BY <1>2, <1>3, TimeServed DEF Next

\* Whatever the cache held and whoever put it there, and whatever upstreams send:
\* a reply holds errors and results that upstreams of the request's group gave in
\* its place, and a result from before the message came only if the request names
\* immutable data, or a method said to return such; only a batch may get empty
\* places or no reply.  The handlers and their cache implement RpcService.
THEOREM ServiceImplemented == Spec => ImplementsService
<1>1. Init => Service!Init
  BY DEF Init, Service!Init, NoGroup, Service!NoGroup
<1>2. IndInv /\ [Next]_vars => [Service!Next]_(Service!vars)
  BY ServiceSimulated
<1>3. QED
  BY <1>1, <1>2, Invariance, PTL DEF Spec, ImplementsService, Service!Spec

=============================================================================
