\* The service stage of a cycle and a job beside it.
SPECIFICATION FairSpec
CONSTANTS
    Probers = {"cycle", "job"}
    MaxChecks = 2
    Burst = 3
    TicksPerToken = 2
    MinSpacing = 1
    CrawlDelays = {0, 3}
    RobotsTtl = 2
    Threshold = 3
    OpenTicks = 3
    Backoffs = {0, 1, 3}
    MaxBackoff = 2
INVARIANTS
    TypeOK
    BoundedOvershoot
PROPERTIES
    AloneIsPolite
    BreakerHolds
    ChecksEnd
