---------------------------- MODULE MCRewardShop ----------------------------
(* Small instances of RewardShop for TLC.                                  *)
EXTENDS RewardShop, TLC

\* A last treat that needs a parent, an automatic digital item, and a treat
\* that comes with an item.
Treat == [cost |-> 1, stock |-> 1, kind |-> "real_world", item |-> FALSE,
          approval |-> TRUE, active |-> TRUE]
Digital == [Treat EXCEPT !.kind = "digital_item", !.item = TRUE, !.approval = FALSE]
Bundle == [Treat EXCEPT !.kind = "both", !.item = TRUE]

WalletForms == {Digital, Bundle}
BundleOnly == {Bundle}
GiftOnly == {[Digital EXCEPT !.approval = TRUE]}
NoRows == {}
NoChanges == {}

\* A digital promise of one child, saved before requests had to name an item.
Misconfigured ==
    {[user |-> u, offer |-> r, cost |-> 1, kind |-> "digital_item", item |-> FALSE,
      reserved |-> FALSE, status |-> "pending"] : u \in Children, r \in Rewards}

GrantsOnly == {1}
ClawBacks == {-1}
OneCoin == {1}

Symmetry == Permutations(Workers) \cup Permutations(Ids) \cup Permutations(Children)
=============================================================================
