\* One cycle at a time, every stage: lost jobs, database errors, crashes.
SPECIFICATION Spec
CONSTANTS
    main = main
    Cycles = {main}
    NoCycle = NoCycle
    p1 = p1
    p2 = p2
    Proxies = {p1, p2}
    Scores = {0, 1}
    MinPoolScore = 1
    MinServiceScore = 1
    MaxConsecutiveFailures = 1
    PoolTtl = 0
    RecheckAfter = 0
    ServiceRecheckAfter = 0
    Verdicts = {"passed", "blocked"}
    NewLimit = 1
    QuarantineLimit = 1
    RecheckLimit = 1
    MaxPerCycle = 2
    ServiceBudget = 1
    MaxActive = 1
    JobsMayBeLost = TRUE
    MaxFaults = 1
SYMMETRY ProxySymmetry
INVARIANTS
    TypeOK
    SettledPool
    MembersVouched
PROPERTIES
    DemotesOnlyOverflow
    ImplementsLifecycle
