SPECIFICATION LiveSpec
CONSTANTS
    Requests = {r1}
    Jobs = {j1, j2}
    Other = other
    None = none
    MaxRuns = 2
    ReportsRun = TRUE
    Events = {"sweep", "loss", "restart"}
PROPERTY VanishedPrintEnds
