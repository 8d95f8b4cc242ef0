\* A feed and a poller, a lag as large as the threshold and a larger one.
CONSTANTS
    w = w
    p = p
    b = b
    Nobody = Nobody
    Upstreams = {b, p}
    WsUpstreams = {b}
    RpcUpstreams = {b, p}
    MaxBlock = 3
    Reports <- FeedAhead
    Threshold = 1
    LagChecks = TRUE
SPECIFICATION FairSpec
INVARIANTS
    TypeOK
    MaxIsBestBlock
    LaggardIsBeingChecked
PROPERTIES
    LaggardIsMarked
    PolledRecovers
