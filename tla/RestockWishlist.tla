-------------------------- MODULE RestockWishlist --------------------------
(***************************************************************************)
(* The "Notify me" bookmarks of one offer (apps/rewards/offer_services.py, *)
(* the wishlist action of views.py).  A parent's edit that brings a sold   *)
(* out offer back reads the bookmarks, tells each child, deletes the       *)
(* bookmarks and commits; it holds the offer, but bookmarks need no lock   *)
(* (the edit locks FOR NO KEY UPDATE, which lets rows that refer to the    *)
(* offer be inserted), so children add and remove them at any moment.      *)
(*                                                                         *)
(* In-app notices are rows and are seen at the commit; e-mails are gone    *)
(* when they are sent.  Every child has an address here.                   *)
(***************************************************************************)
EXTENDS Integers, FiniteSets

CONSTANTS
    Wishers,    \* children who use the shop
    Editors,    \* concurrent parent edits of the offer
    MaxStock,   \* bound of the model: the largest stock a parent enters
    MaxHeld,    \* bound of the model: units in pending requests
    NoEdit,
    Uncounted   \* Reward.stock IS NULL

ASSUME WishlistConstants ==
    /\ NoEdit \notin Editors
    /\ MaxStock \in Nat \ {0}
    /\ MaxHeld \in Nat
    /\ Uncounted \notin Int

VARIABLES
    stock,      \* Reward.stock
    onSale,     \* is_active and reward_is_available
    held,       \* units that pending requests have reserved
    wish,       \* children with a RewardWishlist row
    editLock,   \* the edit that holds the Reward row, or NoEdit
    at,         \* at[e]: the next step of edit e
    form,       \* form[e]: the offer as e saves it, or NoEdit
    audience,   \* audience[e]: children that e read and has not told yet
    told,       \* told[e]: bookmarks whose notice e has inserted
    cleared,    \* cleared[e]: bookmarks that e has deleted
    bells,      \* history: notices committed for the child's bookmark
    mails       \* history: e-mails sent for the child's bookmark; 2 is many

shelf == <<stock, onSale, held>>
edits == <<editLock, at, form, audience, told, cleared>>
wishVars == <<shelf, wish, edits, bells, mails>>

Stocks == 0 .. MaxStock \cup {Uncounted}

Form == [stock : Stocks, onSale : BOOLEAN]

WishInit ==
    /\ stock \in Stocks
    /\ onSale \in BOOLEAN
    /\ held = 0
    /\ wish = {}
    /\ editLock = NoEdit
    /\ at = [e \in Editors |-> "idle"]
    /\ form = [e \in Editors |-> NoEdit]
    /\ audience = [e \in Editors |-> {}]
    /\ told = [e \in Editors |-> {}]
    /\ cleared = [e \in Editors |-> {}]
    /\ bells = [u \in Wishers |-> 0]
    /\ mails = [u \in Wishers |-> 0]

-----------------------------------------------------------------------------
(* Children.                                                               *)

\* POST wishlist: get_or_create, so a bookmark that is there is kept, and one
\* that an edit has deleted but not committed is still there.
Wish(u) ==
    /\ onSale
    /\ u \notin wish
    /\ wish' = wish \cup {u}
    /\ bells' = [bells EXCEPT ![u] = 0]
    /\ mails' = [mails EXCEPT ![u] = 0]
    /\ told' = [e \in Editors |-> told[e] \ {u}]
    /\ UNCHANGED <<shelf, editLock, at, form, audience, cleared>>

\* DELETE wishlist: it waits for an edit that has deleted the row.
Unwish(u) ==
    /\ u \in wish
    /\ \A e \in Editors : u \notin cleared[e]
    /\ wish' = wish \ {u}
    /\ UNCHANGED <<shelf, edits, bells, mails>>

\* request_redemption, a transaction under the offer lock.
Buy(u) ==
    /\ editLock = NoEdit
    /\ onSale
    /\ stock # 0
    /\ \/ stock = Uncounted /\ UNCHANGED <<stock, held>>
       \/ stock # Uncounted /\ held < MaxHeld /\ stock' = stock - 1 /\ held' = held + 1
    /\ UNCHANGED <<onSale, wish, edits, bells, mails>>

\* A parent rejects a request that had reserved a unit.
Refund ==
    /\ editLock = NoEdit
    /\ held > 0
    /\ held' = held - 1
    /\ stock' = IF stock = Uncounted THEN stock ELSE stock + 1
    /\ UNCHANGED <<onSale, wish, edits, bells, mails>>

\* A parent approves one: its unit is gone for good.
Settle ==
    /\ held > 0
    /\ held' = held - 1
    /\ UNCHANGED <<stock, onSale, wish, edits, bells, mails>>

-----------------------------------------------------------------------------
(* update_reward_offer and notify_wishlist_on_restock.                     *)

Restocks(f) == stock = 0 /\ f.stock # Uncounted /\ f.stock >= 1

\* Mutant of OpenEdit: the previous stock is read before the lock is taken.
OpenEditUnlocked(e, f) ==
    /\ at[e] = "idle"
    /\ at' = [at EXCEPT ![e] = IF Restocks(f) /\ f.onSale THEN "read" ELSE "save"]
    /\ form' = [form EXCEPT ![e] = f]
    /\ UNCHANGED <<shelf, wish, editLock, audience, told, cleared, bells, mails>>

\* Lock the offer and save the form; the bookmarks matter only if a counted
\* offer was sold out and is back on sale.
OpenEdit(e, f) ==
    /\ at[e] = "idle"
    /\ editLock = NoEdit
    /\ editLock' = e
    /\ at' = [at EXCEPT ![e] = IF Restocks(f) /\ f.onSale THEN "read" ELSE "save"]
    /\ form' = [form EXCEPT ![e] = f]
    /\ UNCHANGED <<shelf, wish, audience, told, cleared, bells, mails>>

ReadAudience(e) ==
    /\ at[e] = "read"
    /\ audience' = [audience EXCEPT ![e] = wish]
    /\ at' = [at EXCEPT ![e] = "tell"]
    /\ UNCHANGED <<shelf, wish, editLock, form, told, cleared, bells, mails>>

Tell(e, u) ==
    /\ at[e] = "tell"
    /\ u \in audience[e]
    /\ audience' = [audience EXCEPT ![e] = @ \ {u}]
    /\ told' = [told EXCEPT ![e] = @ \cup {u}]
    /\ mails' = [mails EXCEPT ![u] = IF @ < 2 THEN @ + 1 ELSE @]
    /\ UNCHANGED <<shelf, wish, editLock, at, form, cleared, bells>>

\* Mutant of ClearBookmarks: the bookmarks are left for the next restock.
ClearNothing(e) ==
    /\ at[e] = "tell"
    /\ audience[e] = {}
    /\ at' = [at EXCEPT ![e] = "save"]
    /\ UNCHANGED <<shelf, wish, editLock, form, audience, told, cleared, bells, mails>>

\* One DELETE of every bookmark the offer has now.
ClearBookmarks(e) ==
    /\ at[e] = "tell"
    /\ audience[e] = {}
    /\ cleared' = [cleared EXCEPT ![e] = wish]
    /\ at' = [at EXCEPT ![e] = "save"]
    /\ UNCHANGED <<shelf, wish, editLock, form, audience, told, bells, mails>>

EndEdit(e) ==
    /\ at' = [at EXCEPT ![e] = "idle"]
    /\ form' = [form EXCEPT ![e] = NoEdit]
    /\ audience' = [audience EXCEPT ![e] = {}]
    /\ told' = [told EXCEPT ![e] = {}]
    /\ cleared' = [cleared EXCEPT ![e] = {}]
    /\ editLock' = IF editLock = e THEN NoEdit ELSE editLock

SaveEdit(e) ==
    /\ at[e] = "save"
    /\ stock' = form[e].stock
    /\ onSale' = form[e].onSale
    /\ wish' = wish \ cleared[e]
    /\ bells' = [u \in Wishers |-> IF u \in told[e] THEN bells[u] + 1 ELSE bells[u]]
    /\ EndEdit(e)
    /\ UNCHANGED <<held, mails>>

\* The worker is killed, or a statement fails, before the commit.
Rollback(e) ==
    /\ at[e] # "idle"
    /\ EndEdit(e)
    /\ UNCHANGED <<shelf, wish, bells, mails>>

WishNext ==
    \/ \E u \in Wishers : Wish(u) \/ Unwish(u) \/ Buy(u)
    \/ Refund \/ Settle
    \/ \E e \in Editors :
          \/ \E f \in Form : OpenEdit(e, f)
          \/ ReadAudience(e) \/ ClearBookmarks(e)
          \/ \E u \in Wishers : Tell(e, u)
          \/ SaveEdit(e) \/ Rollback(e)

WishSpec == WishInit /\ [][WishNext]_wishVars

-----------------------------------------------------------------------------
(* Properties.                                                             *)

WishTypeOK ==
    /\ stock \in Nat \cup {Uncounted}
    /\ onSale \in BOOLEAN
    /\ held \in Nat
    /\ wish \subseteq Wishers
    /\ editLock \in Editors \cup {NoEdit}
    /\ at \in [Editors -> {"idle", "read", "tell", "save"}]
    /\ form \in [Editors -> Form \cup {NoEdit}]
    /\ audience \in [Editors -> SUBSET Wishers]
    /\ told \in [Editors -> SUBSET Wishers]
    /\ cleared \in [Editors -> SUBSET Wishers]
    /\ bells \in [Wishers -> Nat]
    /\ mails \in [Wishers -> Nat]

\* One bookmark rings one bell: whatever two parents, refunds, purchases and
\* new bookmarks interleave, no notice repeats and none is left to repeat.
OneBellPerBookmark ==
    \A u \in Wishers : bells[u] <= (IF u \in wish THEN 0 ELSE 1)

\* What an edit under way stands on: it holds the offer, which is still as it
\* found it; whom it tells has heard nothing for this bookmark; and when it
\* saves, every bookmark it has told of and that is still there is deleted.
EditsHold ==
    \A e \in Editors :
        /\ IF at[e] = "idle" THEN audience[e] = {} /\ told[e] = {}
                             ELSE editLock = e /\ form[e] \in Form
        /\ at[e] \in {"read", "tell"} \/ cleared[e] # {} => Restocks(form[e]) /\ form[e].onSale
        /\ \A u \in audience[e] \cup told[e] : bells[u] = 0
        /\ at[e] # "save" => cleared[e] = {}
        /\ at[e] = "save" => told[e] \cap wish \subseteq cleared[e]

\* The rows keep their types, and one bookmark rings one bell.
BellInv == WishTypeOK /\ EditsHold /\ OneBellPerBookmark

\* A bookmark goes away because its child removed it, or because the offer came
\* back from sold out to a counted stock that can be bought.
ClearedOnlyOnRestock ==
    [][\A u \in wish \ wish' :
          \/ Unwish(u)
          \/ stock = 0 /\ stock' # Uncounted /\ stock' >= 1 /\ onSale']_wishVars

\* Claimed: who loses a bookmark to a restock is told ("notify every wishlist
\* user once and wipe their wishlist rows").
NoBookmarkLost ==
    [][\A u \in wish \ wish' : Unwish(u) \/ bells'[u] > bells[u]]_wishVars

\* Claimed: bookmarked children are nudged when stock returns.
NudgedWhenStockReturns ==
    [][stock = 0 /\ stock' # 0 /\ onSale' => \A u \in wish : bells'[u] > bells[u]]_wishVars

\* Claimed: a bookmark is cleared when its child redeems the offer.
RedeemClearsBookmark == [][\A u \in Wishers : Buy(u) => u \notin wish']_wishVars

\* Claimed: each saved bookmark is notified once; here, by e-mail.
OneMailPerBookmark == \A u \in Wishers : mails[u] <= 1
=============================================================================
