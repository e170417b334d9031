\* A job for one proxy beside the cycle.
SPECIFICATION JobsSpec
CONSTANTS
    main = main
    Cycles = {main}
    NoCycle = NoCycle
    p1 = p1
    Proxies = {p1}
    Scores = {0}
    MinPoolScore = 0
    MinServiceScore = 0
    MaxConsecutiveFailures = 1
    PoolTtl = 0
    RecheckAfter = 0
    ServiceRecheckAfter = 0
    Verdicts = {"passed", "blocked"}
    NewLimit = 1
    QuarantineLimit = 1
    RecheckLimit = 1
    MaxPerCycle = 2
    ServiceBudget = 1
    MaxActive = 1
    JobsMayBeLost = FALSE
    MaxFaults = 1
    Handlers = {h1}
    JobTypes = {"SERVICE_CHECK"}
    h1 = h1
INVARIANTS
    SettledButForJobs
