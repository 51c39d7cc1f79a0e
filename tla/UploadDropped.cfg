SPECIFICATION Spec
CONSTANTS
    Jobs = {j1, j2}
    PagesPerJob = 2
    StartPage = 1
    StopPage = 9
    Small = {}
    MaxPages = 3
    MaxRefusals = 0
    MaxRequeues = 0
    MaxCrashes = 0
INVARIANT UploadsWhenFinished
CHECK_DEADLOCK FALSE
