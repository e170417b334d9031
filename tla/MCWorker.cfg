\* Timer, manual triggers, a submitted job, a DISCOVER cycle, shutdown.
SPECIFICATION FairSpec
CONSTANTS
    Callers = {"timer", "manual", "nested"}
    Drains = {"d1"}
    Capacity = 2
    MaxAttempts = 2
    Concurrency = 2
    DrainBudget = 2
    MaxBatch = 1
    MaxSubmissions = 1
    MayStop = TRUE
CHECK_DEADLOCK FALSE
INVARIANTS
    TypeOK
    OneScheduledCycle
    LoopAlive
PROPERTIES
    RefreshGoesOn
