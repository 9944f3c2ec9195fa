\* Two REST deductions, or a deduction and a purchase, at the same time.
SPECIFICATION Spec
CONSTANTS
    Children = {c1}
    Rewards = {r1}
    Ids = {i1}
    Workers = {w1, w2}
    OfferForms <- BundleOnly
    LegacyRows <- NoRows
    Coins <- OneCoin
    Adjustments <- ClawBacks
    MaxCoins = 1
    None = None
    Unlimited = Unlimited
INVARIANT NeverOverdrawn
