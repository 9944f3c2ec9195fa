\* Two children, two parents that edit one offer, purchases and refunds.
SPECIFICATION WishSpec
CONSTANTS
    Wishers = {c1, c2}
    Editors = {e1, e2}
    MaxStock = 1
    MaxHeld = 2
    NoEdit = NoEdit
    Uncounted = Uncounted
SYMMETRY Symmetry
INVARIANTS BellInv
PROPERTY ClearedOnlyOnRestock
