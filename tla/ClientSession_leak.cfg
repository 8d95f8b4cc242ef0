\* One subscription, a connection that closes.
CONSTANTS
    x1 = x1
    x2 = x2
    Subs = {x1}
    MaxSubs = 1
    QueueCap = 1
    MaxBatch = 1
    NoSub = NoSub
SPECIFICATION Spec
INVARIANTS
    DisconnectUnregisters
