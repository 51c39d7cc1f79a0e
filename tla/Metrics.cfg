SPECIFICATION Spec
CONSTANTS
    Jobs = {j1, j2}
    DaysPerMonth = 2
    Window = 2
    MaxDay = 4
    MaxTotal = 2
    MaxRuns = 3
SYMMETRY MCSymmetry
INVARIANTS TypeOK TotalIsReported RecordsPerPeriod
CHECK_DEADLOCK FALSE
