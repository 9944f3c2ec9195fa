\* Two processes, two codes, two faults of every kind but a cleared code.
SPECIFICATION FairSpec
CONSTANTS
    Owners = {a, b}
    Codes <- TwoCodes
    Code = "old"
    Ttl = 3
    Rebuild = 1
    MaxFaults = 2
    Events = {"crash", "stop", "pause", "drop", "hang", "edit", "switch", "rotate"}
    None = None
CHECK_DEADLOCK FALSE
INVARIANTS ListenerInv
PROPERTIES TwoBecomeOne StreamReturns OffIsLeftAlone
