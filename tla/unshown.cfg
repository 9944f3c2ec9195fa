\* One process and a code that the printer does not take.
SPECIFICATION FairSpec
CONSTANTS
    Owners = {a}
    Codes <- TwoCodes
    Code = "old"
    Ttl = 3
    Rebuild = 1
    MaxFaults = 1
    Events = {"rotate"}
    None = None
CHECK_DEADLOCK FALSE
PROPERTIES RefusalIsShown
