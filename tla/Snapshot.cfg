SPECIFICATION Spec
CONSTANTS
    Jobs = {j1, j2, j3}
    PagesPerJob = 2
    StartPage = 1
    StopPage = 9
    Small = {2}
    MaxPages = 3
    MaxRefusals = 1
    MaxRequeues = 2
    MaxCrashes = 1
SYMMETRY MCSymmetry
INVARIANTS TypeOK NothingSkipped InOrder WholeWhenFinished
PROPERTY NotPublishedAgain
CHECK_DEADLOCK FALSE
