SPECIFICATION Spec
CONSTANTS
    Works = {w1, w2}
    Tracked = {w1, w2}
    Rakes = {k1}
    Jobs = {j1, j2}
    BatchSize = 1
    MaxFailedQueries = 1
    Obsolete = FALSE
    Configured = TRUE
    Tasks = {"stale"}
    Events = {"install", "activate"}
    RaiseAt <- MCCleanUpWorks
    SlowStaleness = TRUE
    MaxGen = 1
    MaxInserts = 1
    MaxAlerts = 2
    MaxRequeues = 0
    MaxCrashes = 1
SYMMETRY MCSymmetry
INVARIANT OneJobPerRow
