------------------------------ MODULE RpcService ------------------------------
(***************************************************************************)
(* What a client of the proxy relies on, whatever caches, retries and      *)
(* batches lie behind it: each request of a message gets an error or a     *)
(* result that an upstream of its own group gave for it, at some moment    *)
(* between the message and the reply unless the request names immutable    *)
(* data; or the whole message is refused with one error.  Upstreams are    *)
(* not trusted: the service passes on what they send.  What they leave out *)
(* of a batch stays empty, and a batch may remain without a reply.         *)
(***************************************************************************)
EXTENDS Naturals, Sequences

CONSTANTS
    Handlers,   \* goroutines that serve a message each
    Groups,     \* groups of upstreams, each of them a chain of its own
    Requests,   \* pairs of a method and its parameters
    Immutable   \* requests that may get a result of any time ago

VARIABLES
    group,      \* the group a handler's message is for
    batch,      \* its message is a batch
    asked,      \* the requests of the message, <<>>: the handler is idle
    since,      \* the group's chain when the message came
    reply,      \* the reply, <<>>: not yet
    chain       \* the changes of each chain so far

vars == <<group, batch, asked, since, reply, chain>>

NoGroup == "none"

Nothing == [id |-> 0]

\* When the results a reply has for request r may have been given.
Moments(h, r) == (IF r \in Immutable THEN 0 ELSE since[h])..chain[group[h]]

\* What a handler's message may get for its i-th request.
Answers(h, i, a) ==
    \/ batch[h] /\ a = Nothing
    \/ /\ a # Nothing /\ a.at = <<group[h], asked[h][i]>>
       /\ a.kind = "ok" => a.given \in Moments(h, asked[h][i])

Init ==
    /\ group = [h \in Handlers |-> NoGroup]
    /\ batch = [h \in Handlers |-> FALSE]
    /\ asked = [h \in Handlers |-> <<>>]
    /\ since = [h \in Handlers |-> 0]
    /\ reply = [h \in Handlers |-> <<>>]
    /\ chain = [g \in Groups |-> 0]

\* A message comes in.
Ask(h) ==
    /\ asked[h] = <<>> /\ reply[h] = <<>>
    /\ asked'[h] # <<>> /\ group'[h] \in Groups /\ since'[h] = chain[group'[h]]
    /\ batch'[h] \/ Len(asked'[h]) = 1
    /\ reply'[h] = <<>>

\* It gets a reply with a place for each of its requests ...
Reply(h) ==
    /\ asked[h] # <<>> /\ reply[h] = <<>>
    /\ Len(reply'[h]) = Len(asked[h])
    /\ \A i \in 1..Len(asked[h]) : Answers(h, i, reply'[h][i])
    /\ asked'[h] = asked[h] /\ group'[h] = group[h] /\ batch'[h] = batch[h]
    /\ since'[h] = since[h]

\* ... or, if it is a batch, perhaps none ...
Drop(h) ==
    /\ asked[h] # <<>> /\ batch[h] /\ reply[h] = <<>>
    /\ asked'[h] = <<>> /\ reply'[h] = <<>>

\* ... or it is not taken at all.
Refuse(h) ==
    /\ asked[h] = <<>> /\ reply[h] = <<>>
    /\ asked'[h] = <<>>
    /\ Len(reply'[h]) = 1 /\ reply'[h][1].kind = "refused"

\* The reply is out.
Done(h) ==
    /\ reply[h] # <<>> /\ reply'[h] = <<>> /\ asked'[h] = <<>>

Others(h) ==
    \A k \in Handlers \ {h} :
        <<group'[k], batch'[k], asked'[k], since'[k], reply'[k]>>
            = <<group[k], batch[k], asked[k], since[k], reply[k]>>

ChainChanges(g) ==
    /\ chain' = [chain EXCEPT ![g] = @ + 1]
    /\ UNCHANGED <<group, batch, asked, since, reply>>

Next ==
    \/ \E h \in Handlers :
          /\ Ask(h) \/ Reply(h) \/ Drop(h) \/ Refuse(h) \/ Done(h)
          /\ Others(h) /\ UNCHANGED chain
    \/ \E g \in Groups : ChainChanges(g)

Spec == Init /\ [][Next]_vars
=============================================================================
