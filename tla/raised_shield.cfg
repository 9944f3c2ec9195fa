\* The night after a day with progress.
SPECIFICATION CampaignSpec
CONSTANTS
    Children = {abby}
    Quests = {1}
    CampaignTarget = 3
    Climb = 1
    Decay = 1
    Cap = 2
    MaxDue = 1
    MaxProgress = 3
    Nothing = Nothing
CHECK_DEADLOCK FALSE
PROPERTIES ActiveDayNeverRaises
