\* Liveness: every kind of request over one child, one offer and one key.
SPECIFICATION FairSpec
CONSTANTS
    Children = {c1}
    Rewards = {r1}
    Ids = {i1, i2}
    Workers = {w1, w2}
    OfferForms <- GiftOnly
    LegacyRows <- NoRows
    Coins <- OneCoin
    Adjustments <- NoChanges
    MaxCoins = 1
    None = None
    Unlimited = Unlimited
PROPERTY EveryRequestEnds
