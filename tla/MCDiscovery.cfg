\* Four sources, two at a time, two attempts each; a crawl delay of up to two.
SPECIFICATION FairSpec
CONSTANTS
    Source <- FourSources
    Origins = {"o1", "o2"}
    Us = "us"
    Files <- SomeFiles
    Served <- SomeServed
    Replies <- SomeReplies
    Concurrency = 2
    Retries = 2
    Cap = 4
    Backoff = 1
    Ttl = 2
    MaxDelay = 2
INVARIANTS
    TypeOK
    RobotsObeyed
PROPERTIES
    TurnsSpaced
    HarvestDelivered
CHECK_DEADLOCK FALSE
