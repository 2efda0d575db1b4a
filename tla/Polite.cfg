CONSTANTS
    Threads = {1, 2}
    Rate = 1
    Cost = 3
    Capacity = 4
    MinInterval = 2
    MaxAttempts = 3
    Backoff = {2}
    Redirects = TRUE
    Horizon = 6
SPECIFICATION FairSpec
INVARIANTS
    TypeOK
    IntervalKept
    RateKept
PROPERTY
    SomeoneProceeds
