\* An upstream whose feed delivers an old block.
CONSTANTS
    w = w
    p = p
    b = b
    Nobody = Nobody
    Upstreams = {b, p}
    WsUpstreams = {b}
    RpcUpstreams = {b, p}
    MaxBlock = 3
    Reports <- AnyBlock
    Threshold = 1
    LagChecks = TRUE
SPECIFICATION Spec
INVARIANTS
    LaggingIsUnhealthy
