\* Two drains of a queue too small for the jobs, any handler outcome, closed at any time.
SPECIFICATION FairSpec
CONSTANTS
    j1 = j1
    j2 = j2
    j3 = j3
    Jobs = {j1, j2, j3}
    a = a
    b = b
    Consumers = {a, b}
    Capacity = 2
    MaxAttempts = 2
    Limits = {2}
    Budgets = {1, 3}
CHECK_DEADLOCK FALSE
INVARIANTS
    TypeOK
    NothingLostSilently
PROPERTIES
    NoOvertaking
    JobsResolved
