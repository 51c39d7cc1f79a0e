SPECIFICATION Spec
CONSTANTS
    Jobs = {j1}
    DaysPerMonth = 2
    Window = 2
    MaxDay = 4
    MaxTotal = 1
    MaxRuns = 3
PROPERTY MonthCountsEvents
CHECK_DEADLOCK FALSE
