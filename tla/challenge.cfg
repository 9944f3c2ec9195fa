\* Two versions of a promise with one day each, three facts, one retry.
SPECIFICATION FairSpec
CONSTANTS
    Goals <- MCGoals
    Opens <- MCOpens
    Target <- MCTarget
    Window = 1
    Enough = 2
    LegacyDays = {0}
    LastDay = 2
    MaxFacts = 3
    MaxRetries = 1
    None = None
CHECK_DEADLOCK FALSE
INVARIANTS ChallengeInv PaysOnce TaskPaysItsDay
PROPERTIES EveryFactSettles
