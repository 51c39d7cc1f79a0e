SPECIFICATION FairSpec
CONSTANTS
    Workers = {v1, v2}
    None = None
    Limit = 5
    Quota = 8
    Low = 1
    High = 3
    Slow = FALSE
    Headers = {{}, {"remaining"}, {"remaining", "reset"}}
    MaxLost = 1
    MaxLate = 1
    MaxFailures = 1
INVARIANTS
    TypeOK
    LimitReached
PROPERTY
    Recovers
