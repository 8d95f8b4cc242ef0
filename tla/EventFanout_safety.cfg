\* A main with a feed, a polled main and a fallback; a client comes and goes, and the cache evicts.
CONSTANTS
    m1 = m1
    m2 = m2
    f1 = f1
    c1 = c1
    HM = HM
    Mains = {m1, m2}
    Fallbacks = {f1}
    MainOrder <- MCTwoMains
    Polled = {m2}
    PollEvents = {1}
    Clients = {c1}
    Number <- MCNumber
    Key <- MCKey
    DedupSize = 1
    ChanCap = 1
    Threshold = 0
SPECIFICATION ReaderSpec
INVARIANTS
    TypeOK
    SuppressedWasNew
    SeenIsDelivered
    GateHolds
PROPERTIES
    MainReadersReturn
