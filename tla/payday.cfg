\* One week on two projects: two timers, a void and an exchange in flight.
SPECIFICATION Spec
CONSTANTS
    Entries = {e1, e2}
    Voids = {v1}
    Projects = {p1, p2}
    LastWeek = 1
    Durations = {2}
    Bonus = 1
    Exchanges = {x1}
    Amounts = {1}
    MaxRows = 1
    MaxSide = 0
    Target = 3
    None = None
SYMMETRY Symmetry
CHECK_DEADLOCK FALSE
INVARIANTS PayInv
PROPERTIES ExchangeCovered GoalOnRealBalance NeverReopened
