----------------------------- MODULE MCProxyCache -----------------------------
(* ProxyCache on small instances.                                          *)
EXTENDS ProxyCache

CONSTANTS h1, h2, g1, g2,
    balance,        \* eth_getBalance at a block number
    latestLogs,     \* eth_getLogs from a block number to latest
    receipt         \* eth_getTransactionReceipt of a transaction not yet mined

RuleOf == [r \in Requests |->
    CASE r = receipt    -> "always"
      [] r = balance    -> "blockNumber"
      [] r = latestLogs -> "blockRange"]

BlocksOf == [r \in Requests |->
    CASE r = balance    -> <<"number">>
      [] r = latestLogs -> <<"number", "tag">>
      [] OTHER          -> <<>>]

\* Null until the transaction is mined; the logs up to the latest block.
TruthOf == [r \in Requests |-> [b \in 0..MaxChain |->
    CASE r = receipt    -> IF b = 0 THEN 0 ELSE 1
      [] r = balance    -> 1
      [] r = latestLogs -> b]]

\* Batches with the same request twice, and with one that is not cached, against
\* single requests of both groups and a batch of one over a WebSocket.
Traffic == [h \in Handlers |->
    IF h = h1 THEN {<<g1, <<balance, balance>>, TRUE>>, <<g1, <<latestLogs, balance>>, TRUE>>}
    ELSE {<<g1, <<balance>>, TRUE>>, <<g2, <<balance>>, FALSE>>, <<g1, <<latestLogs>>, FALSE>>}]

\* One request or a batch of two.
Receipts == [h \in Handlers |->
    {<<g1, <<receipt>>, FALSE>>, <<g1, <<receipt, receipt>>, TRUE>>}]
=============================================================================
