\* A report that takes longer than stop() waits for it.
SPECIFICATION IngestSpec
CONSTANTS
    Fields <- TwoFields
    Values = {0, 1}
    Start <- Zeros
    Capacity = 2
    Slow = TRUE
    MaxChanges = 3
    MaxOutages = 1
    Nothing = Nothing
CHECK_DEADLOCK FALSE
INVARIANTS SettledIsTrue
