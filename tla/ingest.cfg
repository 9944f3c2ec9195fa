\* Two fields, four changes, a queue of two, two outages.
SPECIFICATION IngestFairSpec
CONSTANTS
    Fields <- TwoFields
    Values = {0, 1}
    Start <- Zeros
    Capacity = 2
    Slow = FALSE
    MaxChanges = 4
    MaxOutages = 2
    Nothing = Nothing
CHECK_DEADLOCK FALSE
INVARIANTS IngestInv
PROPERTIES CatchesUp
