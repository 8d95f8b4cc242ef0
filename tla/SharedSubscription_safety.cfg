\* Two objects, two upstreams: an old generation drains while a new one works.
CONSTANTS
    c1 = c1
    c2 = c2
    u1 = u1
    u2 = u2
    NoSub = NoSub
    Subscribers = {c1, c2}
    Upstreams = {u1, u2}
    MaxGen = 2
    MaxFaults = 1
    ReadPanicLimit = 3
SPECIFICATION Spec
SYMMETRY Symmetric
INVARIANTS
    TypeOK
    RegisteredIsLive
    OneLiveFeed
    NoLeakedConnection
    CloseReachesReaders
    MapMatchesReaders
PROPERTIES
    ClosedIsFinal
    ImplementsFeed
