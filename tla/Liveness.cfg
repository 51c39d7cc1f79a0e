SPECIFICATION FairSpec
CONSTANTS
    Works = {w1, w2}
    Tracked = {w1, w2}
    Rakes = {k1}
    Jobs = {j1}
    BatchSize = 1
    MaxFailedQueries = 1
    Obsolete = FALSE
    Configured = TRUE
    Tasks = {"stale"}
    Events = {"activate", "inactivate"}
    RaiseAt <- MCRunning
    SlowStaleness = FALSE
    MaxGen = 1
    MaxInserts = 1
    MaxAlerts = 2
    MaxRequeues = 1
    MaxCrashes = 0
PROPERTY MarksAreCleared
PROPERTY StaleReachesJob
