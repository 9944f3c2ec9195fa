\* A campaign that was paid is written as expired.
SPECIFICATION CampaignSpec
CONSTANTS
    Children = {abby}
    Quests = {1, 2}
    CampaignTarget = 1
    Climb = 1
    Decay = 1
    Cap = 0
    MaxDue = 1
    MaxProgress = 3
    Nothing = Nothing
CHECK_DEADLOCK FALSE
INVARIANTS OneTimePaidOnce
