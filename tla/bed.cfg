SPECIFICATION Spec
CONSTANTS
    Requests = {r1}
    Jobs = {j1, j2}
    Other = other
    None = none
    MaxRuns = 2
    ReportsRun = TRUE
    Events = {"pause", "restart", "loss"}
SYMMETRY Rows
INVARIANTS
    ForgeInv
    RunBilledOnce
PROPERTY NothingRevives
