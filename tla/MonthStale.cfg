SPECIFICATION Spec
CONSTANTS
    Jobs = {j1, j2}
    DaysPerMonth = 2
    Window = 2
    MaxDay = 4
    MaxTotal = 2
    MaxRuns = 3
PROPERTY MonthIsUpdated
CHECK_DEADLOCK FALSE
