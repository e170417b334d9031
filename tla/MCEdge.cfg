\* Two calls of one client, a window of two seconds, a slow origin.
SPECIFICATION FairSpec
CONSTANTS
    Clients = {"client"}
    Keys = {"pool", "random"}
    Ttl <- Lifetimes
    Calls = {"r1", "r2"}
    MaxRequests = 1
    Window = 2
    Timeout = 1
INVARIANTS
    TypeOK
    BoundedStaleness
    NoFalseRefusal
    LimitExact
PROPERTIES
    Answered
