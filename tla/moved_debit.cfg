SPECIFICATION Spec
CONSTANTS
    Requests = {r1, r2}
    Jobs = {j1, j2}
    Other = other
    None = none
    MaxRuns = 2
    ReportsRun = TRUE
    Events = {"link", "stale"}
SYMMETRY Rows
PROPERTY DebitedStaysLinked
