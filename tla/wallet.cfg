\* One child, spends, adjustments and awards, digital promises and legacy rows.
SPECIFICATION Spec
CONSTANTS
    Children = {c1}
    Rewards = {r1}
    Ids = {i1, i2}
    Workers = {w1, w2}
    OfferForms <- WalletForms
    LegacyRows <- Misconfigured
    Coins <- OneCoin
    Adjustments <- GrantsOnly
    MaxCoins = 2
    None = None
    Unlimited = Unlimited
SYMMETRY Symmetry
INVARIANTS ShopInv NeverOverdrawn NoLockCycle
PROPERTY KeepsPromise
