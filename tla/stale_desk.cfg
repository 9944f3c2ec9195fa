SPECIFICATION Spec
CONSTANTS
    Requests = {r1}
    Jobs = {j1}
    Other = other
    None = none
    MaxRuns = 1
    ReportsRun = FALSE
    Events = {"sweep", "loss", "restart", "crash", "link", "stale", "pause"}
SYMMETRY Rows
INVARIANTS
    CoinsFollowPrints
