SPECIFICATION GSpec
CONSTANTS
    Entries = {e1, e2}
    Voids = {}
    Projects = {p1}
    LastWeek = 2
    Durations = {2}
    Bonus = 0
    Exchanges = {}
    Amounts = {1}
    MaxRows = 2
    MaxSide = 0
    Target = 9
    None = None
    d1 = d1
    d2 = d2
    r1 = r1
    k1 = k1
    k2 = k2
    CsvRows <- CsvDef
    Details <- DetailsDef
SYMMETRY Symmetry
CHECK_DEADLOCK FALSE
INVARIANTS StatementAgrees RepeatsPayOnce
PROPERTIES MatchKeepsPayment KeepsPromise
