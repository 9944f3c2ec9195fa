---------------------------- MODULE ShopPromise ----------------------------
(***************************************************************************)
(* What the reward shop owes a family, with every request taking effect in *)
(* one instant: a purchase holds exactly the coins it can pay for and at   *)
(* most one unit of stock, and each promise is settled once, by delivery   *)
(* of what it named or by a refund of what it held.                        *)
(*                                                                         *)
(* No worker, lock or stale copy appears here; RewardShop is shown to      *)
(* implement this module.                                                  *)
(***************************************************************************)
EXTENDS ShopRows

VARIABLES
    balance,     \* balance[u]: SUM(amount) of u's CoinLedger rows
    offer,       \* offer[r]: the Reward row
    redemption,  \* redemption[i]: the RewardRedemption row, or None
    charged,     \* charged[i]: coins the ledger has taken for i, refunds deducted
    granted      \* granted[i]: items credited to the inventory for i

shopVars == <<balance, offer, redemption, charged, granted>>

PromiseInit ==
    /\ balance = [u \in Children |-> 0]
    /\ offer \in [Rewards -> OfferForms]
    /\ redemption \in [Ids -> LegacyRows \cup {None}]
    /\ charged = [i \in Ids |-> IF redemption[i] = None THEN 0 ELSE redemption[i].cost]
    /\ granted = [i \in Ids |-> 0]

-----------------------------------------------------------------------------
\* Every other writer of the coin ledger: awards and parents' adjustments.
Credit(u, a) ==
    /\ balance' = [balance EXCEPT ![u] = @ + a]
    /\ UNCHANGED <<offer, redemption, charged, granted>>

\* spend_coins for anything but a redemption.
Debit(u, a) ==
    /\ a <= balance[u]
    /\ balance' = [balance EXCEPT ![u] = @ - a]
    /\ UNCHANGED <<offer, redemption, charged, granted>>

Redeem(u, r, i) ==
    LET row == NewRedemption(u, r, offer[r]) IN
    /\ redemption[i] = None
    /\ Eligible(offer[r])
    /\ row.cost <= balance[u]
    /\ redemption' = [redemption EXCEPT ![i] = row]
    /\ charged' = [charged EXCEPT ![i] = row.cost]
    /\ balance' = [balance EXCEPT ![u] = @ - row.cost]
    /\ offer' = [offer EXCEPT ![r] = TakeOne(@)]
    /\ granted' = [granted EXCEPT ![i] = IF row.status = "pending" THEN 0 ELSE ItemsOwed(row)]

Approve(i) ==
    /\ redemption[i] # None
    /\ redemption[i].status = "pending"
    /\ Creditable(redemption[i])
    /\ redemption' = [redemption EXCEPT ![i].status = ApprovedStatus(redemption[i].kind)]
    /\ granted' = [granted EXCEPT ![i] = ItemsOwed(redemption[i])]
    /\ UNCHANGED <<balance, offer, charged>>

Deliver(i) ==
    /\ redemption[i] # None
    /\ HandOver(redemption[i])
    /\ redemption' = [redemption EXCEPT ![i].status = "fulfilled"]
    /\ UNCHANGED <<balance, offer, charged, granted>>

Reject(i) ==
    LET row == redemption[i] IN
    /\ row # None
    /\ row.status = "pending"
    /\ redemption' = [redemption EXCEPT ![i].status = "denied"]
    /\ charged' = [charged EXCEPT ![i] = 0]
    /\ balance' = [balance EXCEPT ![row.user] = @ + row.cost]
    /\ offer' = [offer EXCEPT ![row.offer] = PutBack(@, row)]
    /\ UNCHANGED granted

Edit(r, form) ==
    /\ offer' = [offer EXCEPT ![r] = form]
    /\ UNCHANGED <<balance, redemption, charged, granted>>

PromiseNext ==
    \/ \E u \in Children, a \in Coins : Credit(u, a) \/ Debit(u, a)
    \/ \E u \in Children, r \in Rewards, i \in Ids : Redeem(u, r, i)
    \/ \E i \in Ids : Approve(i) \/ Deliver(i) \/ Reject(i)
    \/ \E r \in Rewards, form \in OfferForms : Edit(r, form)

PromiseSpec == PromiseInit /\ [][PromiseNext]_shopVars
=============================================================================
