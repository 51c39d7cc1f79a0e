SPECIFICATION FairSpec
CONSTANTS
    Workers = {v1, v2}
    None = None
    Limit = 5
    Quota = 5
    Low = 1
    High = 3
    Slow = FALSE
    Headers = {{"remaining"}}
    MaxLost = 0
    MaxLate = 0
    MaxFailures = 1
PROPERTY
    ResetEveryHour
