\* Two attempts, one redirect, a body of two units at most.
SPECIFICATION FairSpec
CONSTANTS
    Timeout = 2
    ConnectTimeout = 2
    Grace = 1
    MaxBytes = 1
    MaxPieces = 1
    Attempts = 2
    MaxRedirects = 1
    RequireEcho = TRUE
    AllowPrivate = FALSE
    Statuses = {204, 200, 302, 407}
    Accepted = {204, 200}
    Jobs <- AllJobs
INVARIANTS
    TypeOK
    OnlyApprovedDialled
    ReachableMeansAnswered
    AnsweredSocketsClosed
    SilenceBounded
PROPERTIES
    ChecksEnd
CHECK_DEADLOCK FALSE
