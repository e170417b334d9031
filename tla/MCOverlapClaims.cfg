\* A second cycle started by a DISCOVER job while the first validates.
SPECIFICATION Spec
CONSTANTS
    main = main
    external = external
    Cycles = {main, external}
    NoCycle = NoCycle
    p1 = p1
    Proxies = {p1}
    Scores = {0, 1}
    MinPoolScore = 1
    MinServiceScore = 1
    MaxConsecutiveFailures = 2
    PoolTtl = 0
    RecheckAfter = 0
    ServiceRecheckAfter = 0
    Verdicts = {}
    NewLimit = 1
    QuarantineLimit = 1
    RecheckLimit = 1
    MaxPerCycle = 1
    ServiceBudget = 0
    MaxActive = 1
    JobsMayBeLost = FALSE
    MaxFaults = 0
SYMMETRY ProxySymmetry
PROPERTIES
    LiveClaimsKept
