\* One process; what the code belongs to is taken away and given back.
SPECIFICATION FairSpec
CONSTANTS
    Owners = {a}
    Codes <- TwoCodes
    Code = "old"
    Ttl = 3
    Rebuild = 1
    MaxFaults = 3
    Events = {"hang", "clear", "edit"}
    None = None
CHECK_DEADLOCK FALSE
PROPERTIES StreamReturns
