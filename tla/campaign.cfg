\* Two children, two campaigns, a shield of at most one.
SPECIFICATION CampaignFairSpec
CONSTANTS
    Children = {abby, ben}
    Quests = {1, 2}
    CampaignTarget = 2
    Climb = 1
    Decay = 1
    Cap = 1
    MaxDue = 1
    MaxProgress = 3
    Nothing = Nothing
CHECK_DEADLOCK FALSE
INVARIANTS CampaignInv LateWorkStays
PROPERTIES PaidTogether EveryCampaignEnds
