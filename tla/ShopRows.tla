------------------------------ MODULE ShopRows ------------------------------
(***************************************************************************)
(* The rows of the reward shop and the pure rules that apply to them       *)
(* (apps/rewards/models.py, availability.py, services.py).  ShopPromise    *)
(* says what the shop owes a family, RewardShop how the web workers do it; *)
(* both are written over this module.                                      *)
(*                                                                         *)
(* One household: every child and every offer belongs to the same family,  *)
(* so the family comparisons of the code are always satisfied here.        *)
(***************************************************************************)
EXTENDS Integers, FiniteSets

CONSTANTS
    Children,    \* users that hold a coin wallet
    Rewards,     \* primary keys of Reward rows
    Ids,         \* primary keys available to RewardRedemption rows
    OfferForms,  \* offers a parent may author: the initial rows and the edits
    LegacyRows,  \* redemptions saved before requests had to name an item
    Coins,       \* amounts that the rest of the system awards or spends
    None,        \* no row, no lock holder, no argument
    Unlimited    \* Reward.stock IS NULL

Kinds == {"real_world", "digital_item", "both"}

Statuses == {"pending", "approved", "denied", "fulfilled"}

\* item: the linked ItemDefinition exists and is supported by the catalogue.
Offer == [cost : Nat, stock : Nat \cup {Unlimited}, kind : Kinds,
          item : BOOLEAN, approval : BOOLEAN, active : BOOLEAN]

\* The request freezes cost, kind, item and whether a unit of stock was taken.
Redemption == [user : Children, offer : Rewards, cost : Nat, kind : Kinds,
               item : BOOLEAN, reserved : BOOLEAN, status : Statuses]

ASSUME RowConstants ==
    /\ None \notin Children \cup Rewards \cup Ids
    /\ None \notin Redemption \cup Offer
    /\ Unlimited \notin Int
    /\ OfferForms \subseteq Offer
    /\ Coins \subseteq Nat \ {0}
    /\ IsFiniteSet(Ids)

-----------------------------------------------------------------------------
\* reward_is_available: a digital promise needs an item the app can credit.
IsAvailable(o) == o.kind = "real_world" \/ o.item

\* The refusals of request_redemption that depend on the offer alone.
Eligible(o) ==
    /\ IsAvailable(o)
    /\ o.active
    /\ ~(o.stock # Unlimited /\ o.stock <= 0)

\* _approved_status
ApprovedStatus(kind) == IF kind = "digital_item" THEN "fulfilled" ELSE "approved"

\* The row request_redemption saves, after the automatic approval if any.
NewRedemption(u, r, o) ==
    [user |-> u, offer |-> r, cost |-> o.cost, kind |-> o.kind,
     item |-> o.kind # "real_world" /\ o.item,
     reserved |-> o.stock # Unlimited,
     status |-> IF o.approval THEN "pending" ELSE ApprovedStatus(o.kind)]

\* _maybe_credit_digital_item: it raises for a digital promise with no item,
\* and otherwise credits one item unless the promise is real-world only.
Creditable(row) == row.kind = "real_world" \/ row.item

ItemsOwed(row) == IF row.kind = "real_world" THEN 0 ELSE 1

ASSUME LegacyConstants ==
    /\ LegacyRows \subseteq Redemption
    /\ \A row \in LegacyRows : row.status = "pending" /\ ~Creditable(row)

\* deliver: only an approved promise with a real-world half can be handed over.
HandOver(row) == row.status = "approved" /\ row.kind \in {"real_world", "both"}

\* stock = F("stock") - 1 at the request, F("stock") + 1 at a rejection.
TakeOne(o) == IF o.stock = Unlimited THEN o ELSE [o EXCEPT !.stock = @ - 1]

PutBack(o, row) ==
    IF row.reserved /\ o.stock # Unlimited THEN [o EXCEPT !.stock = @ + 1] ELSE o
=============================================================================
