\* Two slots, two connections, one queued job, one completion waiting.
CONSTANTS
    MaxClients = 2
    MaxConns = 2
    MaxTx = 2
    MaxUnits = 2
    OutCapacity = 1
    JobCapacity = 1
    CompletionCapacity = 1
    GenModulus = 6
SPECIFICATION Spec
INVARIANTS
    ResultReachesItsClient
    AtMostOneResult
    OnlyEvictedLeaveBytes
PROPERTY QueuedPacketAnswered
