\* A full report that waits in the queue while the connection is made again.
SPECIFICATION IngestSpec
CONSTANTS
    Fields <- TwoFields
    Values = {0, 1}
    Start <- Zeros
    Capacity = 2
    Slow = FALSE
    MaxChanges = 1
    MaxOutages = 1
    Nothing = Nothing
CHECK_DEADLOCK FALSE
INVARIANTS SeededByThisConnection
