\* One upstream, two objects: every reader's life, with fairness.
CONSTANTS
    c1 = c1
    c2 = c2
    u1 = u1
    u2 = u2
    NoSub = NoSub
    Subscribers = {c1, c2}
    Upstreams = {u1}
    MaxGen = 2
    MaxFaults = 2
    ReadPanicLimit = 3
SPECIFICATION FairSpec
PROPERTIES
    ClosedReadersReturn
    LostIsReconnected
    ShutdownCompletes
