\* Clients that ask for the receipt of a transaction until it is mined.
CONSTANTS
    h1 = h1
    h2 = h2
    g1 = g1
    g2 = g2
    balance = balance
    latestLogs = latestLogs
    receipt = receipt
    Handlers = {h1, h2}
    Groups = {g1}
    Requests = {receipt}
    Rule <- RuleOf
    BlockParams <- BlocksOf
    Truth <- TruthOf
    WsHandlers = {h2}
    RetryEnabled = TRUE
    MaxAttempts = 2
    Size = 1
    Messages <- Receipts
    MaxExtra = 0
    MaxChain = 1
SPECIFICATION Spec
INVARIANTS
    CachedIsImmutable
