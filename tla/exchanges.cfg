\* One week on one project: two exchanges beside adjustments and a payout.
SPECIFICATION Spec
CONSTANTS
    Entries = {e1}
    Voids = {v1}
    Projects = {p1}
    LastWeek = 1
    Durations = {2}
    Bonus = 1
    Exchanges = {x1, x2}
    Amounts = {1, 2}
    MaxRows = 1
    MaxSide = 2
    Target = 3
    None = None
SYMMETRY Symmetry
CHECK_DEADLOCK FALSE
PROPERTY ExchangeCovered
