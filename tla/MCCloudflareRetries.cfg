\* One job that keeps failing.
SPECIFICATION FairSpec
CONSTANTS
    j1 = j1
    j2 = j2
    Jobs = {j1}
    Consumers = {"stage"}
    BatchSize = 2
    ChunkSize = 1
    MaxRetries = 2
    Budgets = {1}
    MaxTries = 3
CHECK_DEADLOCK FALSE
INVARIANTS
    RetriesBounded
