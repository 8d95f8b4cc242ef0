\* A request, single or batch; two main upstreams and two fallbacks, one of
\* them without an HTTP URL; the health changes three times.
CONSTANTS
    r1 = r1
    a = a
    b = b
    f = f
    g = g
    Requests = {r1}
    Order <- FourUpstreams
    Mains = {a, b}
    Rpc = {a, b, g}
    Weight <- FourUpstreamsWeights
    RetryEnabled = TRUE
    MaxAttempts = 3
    MaxFlips = 3
SPECIFICATION FairSpec
INVARIANTS
    TypeOK
    SentOnce
    FallbackIsLastResort
    GivesUpOnlyExhausted
PROPERTIES
    RequestsEnd
    ImplementsCall
