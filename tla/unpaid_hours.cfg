\* The Sunday run and the next weeks, one timer.
SPECIFICATION FairSpec
CONSTANTS
    Entries = {e1}
    Voids = {}
    Projects = {p1}
    LastWeek = 1
    Durations = {2}
    Bonus = 0
    Exchanges = {}
    Amounts = {}
    MaxRows = 1
    MaxSide = 0
    Target = 3
    None = None
CHECK_DEADLOCK FALSE
PROPERTY EveryHourIsPaid
