\* Two subscriptions, one at a time; batches of two; a queue of one message.
CONSTANTS
    x1 = x1
    x2 = x2
    Subs = {x1, x2}
    MaxSubs = 1
    QueueCap = 1
    MaxBatch = 2
    NoSub = NoSub
SPECIFICATION FairSpec
INVARIANTS
    TypeOK
    ListedIsServed
    RegisteredIsKnown
    WithinLimit
    ForwardersAreTold
PROPERTIES
    CloseCompletes
    RequestsAreAnswered
