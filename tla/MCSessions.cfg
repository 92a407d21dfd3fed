SPECIFICATION FairSpec
CONSTANTS
    Requests <- MCRequests
    Scenarios <- MCScenarios
    OpOf <- MCOpOf
    Peer <- MCPeer
    QueueSize = 1
    SubscriberSize = 1
    MaxOutputs <- MCMaxOutputs
INVARIANT ExecutedInTurn
INVARIANT StreamFaithful
INVARIANT DrainedFirst
PROPERTY SessionsSettle
CHECK_DEADLOCK FALSE
