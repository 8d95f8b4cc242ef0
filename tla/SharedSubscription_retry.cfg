\* An upstream that refuses every reconnect.
CONSTANTS
    c1 = c1
    c2 = c2
    u1 = u1
    u2 = u2
    NoSub = NoSub
    Subscribers = {c1}
    Upstreams = {u1, u2}
    MaxGen = 1
    MaxFaults = 1
    ReadPanicLimit = 3
SPECIFICATION Spec
INVARIANTS
    RetriesIndefinitely
