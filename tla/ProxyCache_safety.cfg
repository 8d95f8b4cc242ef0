\* An HTTP handler with batches of two, a WebSocket one, two groups, a cache of one entry.
CONSTANTS
    h1 = h1
    h2 = h2
    g1 = g1
    g2 = g2
    balance = balance
    latestLogs = latestLogs
    receipt = receipt
    Handlers = {h1, h2}
    Groups = {g1, g2}
    Requests = {balance, latestLogs}
    Rule <- RuleOf
    BlockParams <- BlocksOf
    Truth <- TruthOf
    WsHandlers = {h2}
    RetryEnabled = TRUE
    MaxAttempts = 2
    Size = 1
    Messages <- Traffic
    MaxExtra = 1
    MaxChain = 1
SPECIFICATION Spec
\* A crash ends the process.
CHECK_DEADLOCK FALSE
INVARIANTS
    TypeOK
    RepliesAreOwn

    
