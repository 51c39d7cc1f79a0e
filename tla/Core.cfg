SPECIFICATION Spec
CONSTANTS
    Works = {w1}
    Tracked = {w1}
    Rakes = {k1}
    Jobs = {j1, j2}
    BatchSize = 1
    MaxFailedQueries = 1
    Obsolete = FALSE
    Configured = TRUE
    Tasks = {"stale", "all", "one", "reset"}
    Events = {"install", "uninstall", "activate", "inactivate"}
    RaiseAt <- MCRunning
    SlowStaleness = FALSE
    MaxGen = 2
    MaxInserts = 1
    MaxAlerts = 0
    MaxRequeues = 0
    MaxCrashes = 1
SYMMETRY MCSymmetry
INVARIANT TypeOK
INVARIANT MarkHasJob
PROPERTY RestsUntilAdmin
PROPERTY ImplementsQueue
