SPECIFICATION Spec
CONSTANTS
    A = A
    B = B
    Articles = {A, B}
    Jobs = {j1, j2}
    Sources = {s1}
    Reports <- MCReports
    Known <- MCKnown
    MaxRuns = 3
    MaxDeletes = 1
    MaxDeaths = 1
SYMMETRY MCSymmetry
INVARIANTS TypeOK UniqueIds RightWork InverseRelation RelationsPerPair Collected
CHECK_DEADLOCK FALSE
