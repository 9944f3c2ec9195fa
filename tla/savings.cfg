\* One accepted goal and two new ones, three cents.
SPECIFICATION Spec
CONSTANTS
    Goals = {1, 2, 3}
    Legacy = {1}
    LegacyTarget <- LegacyTargetDef
    Targets = {1, 3}
    Moves <- MovesDef
    MaxBalance = 3
    None = None
CHECK_DEADLOCK FALSE
INVARIANTS SavingsInv NoCentPaidTwice EveryNewCentPaid OnlyFailuresWait
