\* Two drains of one service, requests that fail, leases that run out.
SPECIFICATION FairSpec
CONSTANTS
    j1 = j1
    j2 = j2
    Jobs = {j1, j2}
    Consumers = {"stage", "drain"}
    BatchSize = 2
    ChunkSize = 1
    MaxRetries = 2
    Budgets = {1, 3}
    MaxTries = 0
CHECK_DEADLOCK FALSE
INVARIANTS
    TypeOK
    GoneMeansDone
PROPERTIES
    DrainsEnd
