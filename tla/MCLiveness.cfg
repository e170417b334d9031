\* Liveness: two endpoints and a slice of one, faults that come to an end.
SPECIFICATION FairSpec
CONSTANTS
    main = main
    Cycles = {main}
    NoCycle = NoCycle
    p1 = p1
    p2 = p2
    Proxies = {p1, p2}
    Scores = {0}
    MinPoolScore = 0
    MinServiceScore = 0
    MaxConsecutiveFailures = 2
    PoolTtl = 0
    RecheckAfter = 0
    ServiceRecheckAfter = 0
    Verdicts = {}
    NewLimit = 1
    QuarantineLimit = 1
    RecheckLimit = 1
    MaxPerCycle = 1
    ServiceBudget = 0
    MaxActive = 1
    JobsMayBeLost = FALSE
    MaxFaults = 2
INVARIANTS
    HealthyKeptOutOfBacklog
PROPERTIES
    ClaimsResolved
    BacklogDrains
