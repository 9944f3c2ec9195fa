----------------------------- MODULE RewardShop -----------------------------
(***************************************************************************)
(* The reward shop as web workers run it (apps/rewards/services.py).       *)
(*                                                                         *)
(* A request loads its rows with no lock, then opens one transaction that  *)
(* locks the child, then the redemption, then the offer, reads each again  *)
(* once it is locked, and writes when every check has passed.  Under READ  *)
(* COMMITTED nothing it writes is seen before its commit, so the writes    *)
(* are the last step of the request, and everything between two steps may  *)
(* be the work of others: awards, which take no lock, included.            *)
(*                                                                         *)
(* A worker may stop anywhere: the transaction rolls back, the locks go.   *)
(***************************************************************************)
EXTENDS ShopRows

CONSTANTS
    Workers,      \* concurrent requests
    Adjustments,  \* amounts a parent enters in the REST adjustment form
    MaxCoins      \* bound of the model: no award starts that would pass it

ASSUME WorkerConstants ==
    /\ None \notin Workers
    /\ Adjustments \subseteq Coins \cup {-a : a \in Coins}
    /\ MaxCoins \in Nat

VARIABLES
    balance, offer, redemption, charged, granted,  \* as in ShopPromise
    supplied,    \* history: units offered at the last edit, live holds included
    userLock,    \* userLock[u]: the worker that holds the User row, or None
    rowLock,     \* rowLock[i]: the worker that holds the RewardRedemption row
    offerLock,   \* offerLock[r]: the worker that holds the Reward row
    pc,          \* pc[w]: the next step of the request that w serves
    task,        \* task[w]: the request, or None
    seenRow,     \* seenRow[w]: the redemption instance in w's memory
    seenOffer    \* seenOffer[w]: the offer instance in w's memory

shop  == <<balance, offer, redemption, charged, granted, supplied>>
locks == <<userLock, rowLock, offerLock>>
local == <<pc, task, seenRow, seenOffer>>
vars  == <<shop, locks, local>>

Promise == INSTANCE ShopPromise

Ops == {"redeem", "approve", "deliver", "reject", "edit", "spend", "adjust"}

Decisions == {"approve", "deliver", "reject"}

Steps == {"idle", "user", "decision", "decide", "offer", "eligible", "hold", "post"}

Task == [op : Ops, user : Children \cup {None}, offer : Rewards \cup {None},
         id : Ids \cup {None}, amount : Int]

ASSUME TaskConstants == None \notin Task

\* Redemptions whose reserved unit of r has not been put back.
LiveHolds(r) ==
    {i \in Ids : /\ redemption[i] # None
                 /\ redemption[i].offer = r
                 /\ redemption[i].reserved
                 /\ redemption[i].status # "denied"}

Init ==
    /\ Promise!PromiseInit
    /\ supplied = [r \in Rewards |-> IF offer[r].stock = Unlimited THEN 0
                                     ELSE offer[r].stock + Cardinality(LiveHolds(r))]
    /\ userLock = [u \in Children |-> None]
    /\ rowLock = [i \in Ids |-> None]
    /\ offerLock = [r \in Rewards |-> None]
    /\ pc = [w \in Workers |-> "idle"]
    /\ task = [w \in Workers |-> None]
    /\ seenRow = [w \in Workers |-> None]
    /\ seenOffer = [w \in Workers |-> None]

-----------------------------------------------------------------------------
(* A request arrives, and ends.                                            *)

\* Mutant of After: a purchase locks the offer before the child.
AfterOfferFirst(op, step) ==
    CASE step = "idle" /\ op \in {"edit", "redeem"} -> "offer"
      [] step = "idle" /\ op = "adjust" -> "post"
      [] step = "idle" -> "user"
      [] step = "offer" /\ op = "redeem" -> "user"
      [] step = "user" /\ op = "redeem" -> "eligible"
      [] step = "user" /\ op = "spend" -> "hold"
      [] step = "user" -> "decision"
      [] step = "decision" -> "decide"
      [] step = "eligible" -> "hold"
      [] OTHER -> "post"

\* Mutant of After: a spend sums the wallet without locking the child.
AfterUnlockedSpend(op, step) ==
    CASE step = "idle" /\ op = "edit" -> "offer"
      [] step = "idle" /\ op = "adjust" -> "post"
      [] step = "idle" /\ op = "spend" -> "hold"
      [] step = "idle" -> "user"
      [] step = "user" /\ op = "redeem" -> "offer"
      [] step = "user" -> "decision"
      [] step = "decision" -> "decide"
      [] step = "offer" /\ op = "redeem" -> "eligible"
      [] step = "eligible" -> "hold"
      [] OTHER -> "post"

\* The order in which a request locks and checks: the child, then the decision
\* or the offer; a rejection locks the offer last.
After(op, step) ==
    CASE step = "idle" /\ op = "edit" -> "offer"
      [] step = "idle" /\ op = "adjust" -> "post"
      [] step = "idle" /\ op \notin {"edit", "adjust"} -> "user"
      [] step = "user" /\ op = "redeem" -> "offer"
      [] step = "user" /\ op = "spend" -> "hold"
      [] step = "user" /\ op \notin {"redeem", "spend"} -> "decision"
      [] step = "decision" -> "decide"
      [] step = "offer" /\ op = "redeem" -> "eligible"
      [] step = "eligible" -> "hold"
      [] OTHER -> "post"

Advance(w) == pc' = [pc EXCEPT ![w] = After(task[w].op, pc[w])]

Start(w, t) ==
    /\ pc[w] = "idle"
    /\ pc' = [pc EXCEPT ![w] = After(t.op, "idle")]
    /\ task' = [task EXCEPT ![w] = t]

Freed(lock, w) == [x \in DOMAIN lock |-> IF lock[x] = w THEN None ELSE lock[x]]

\* The transaction of w ends, by commit or by rollback.
Finish(w) ==
    /\ pc' = [pc EXCEPT ![w] = "idle"]
    /\ task' = [task EXCEPT ![w] = None]
    /\ seenRow' = [seenRow EXCEPT ![w] = None]
    /\ seenOffer' = [seenOffer EXCEPT ![w] = None]
    /\ userLock' = Freed(userLock, w)
    /\ rowLock' = Freed(rowLock, w)
    /\ offerLock' = Freed(offerLock, w)

\* Bound of the model: a purchase starts only if a key is left for its row.
KeysLeft ==
    Cardinality({w \in Workers : task[w] # None /\ task[w].op = "redeem"})
        < Cardinality({i \in Ids : redemption[i] = None})

\* RewardViewSet.redeem: the request names the child and the offer.
BeginRedeem(w, u, r) ==
    /\ KeysLeft
    /\ Start(w, [op |-> "redeem", user |-> u, offer |-> r, id |-> None, amount |-> 0])
    /\ UNCHANGED <<shop, locks, seenRow, seenOffer>>

\* RewardRedemptionViewSet: get_object reads the row before any lock.
BeginDecision(w, i, op) ==
    /\ redemption[i] # None
    /\ Start(w, [op |-> op, user |-> redemption[i].user, offer |-> redemption[i].offer,
                 id |-> i, amount |-> 0])
    /\ seenRow' = [seenRow EXCEPT ![w] = redemption[i]]
    /\ UNCHANGED <<shop, locks, seenOffer>>

BeginEdit(w, r) ==
    /\ Start(w, [op |-> "edit", user |-> None, offer |-> r, id |-> None, amount |-> 0])
    /\ UNCHANGED <<shop, locks, seenRow, seenOffer>>

\* spend_coins for a print exchange or an MCP adjustment.
BeginSpend(w, u, a) ==
    /\ Start(w, [op |-> "spend", user |-> u, offer |-> None, id |-> None, amount |-> a])
    /\ UNCHANGED <<shop, locks, seenRow, seenOffer>>

\* CoinAdjustmentView: a deduction is checked against a balance read with no
\* lock and outside any transaction; the row is inserted afterwards.
BeginAdjust(w, u, a) ==
    /\ a < 0 => balance[u] + a >= 0
    /\ balance[u] + a <= MaxCoins
    /\ Start(w, [op |-> "adjust", user |-> u, offer |-> None, id |-> None, amount |-> a])
    /\ UNCHANGED <<shop, locks, seenRow, seenOffer>>

-----------------------------------------------------------------------------
(* Locks and the checks made under them.                                   *)

LockUser(w) ==
    /\ pc[w] = "user"
    /\ userLock[task[w].user] = None
    /\ userLock' = [userLock EXCEPT ![task[w].user] = w]
    /\ Advance(w)
    /\ UNCHANGED <<shop, rowLock, offerLock, task, seenRow, seenOffer>>

\* _lock_decision: lock the redemption and refresh the caller's instance.
LockDecision(w) ==
    /\ pc[w] = "decision"
    /\ rowLock[task[w].id] = None
    /\ rowLock' = [rowLock EXCEPT ![task[w].id] = w]
    /\ seenRow' = [seenRow EXCEPT ![w] = redemption[task[w].id]]
    /\ Advance(w)
    /\ UNCHANGED <<shop, userLock, offerLock, task, seenOffer>>

\* Mutant of LockOffer: the offer is read without a lock.
LockOfferUnlocked(w) ==
    /\ \/ pc[w] = "offer"
       \/ pc[w] = "decide" /\ task[w].op = "reject" /\ seenRow[w].status = "pending"
    /\ seenOffer' = [seenOffer EXCEPT ![w] = offer[task[w].offer]]
    /\ Advance(w)
    /\ UNCHANGED <<shop, locks, task, seenRow>>

\* The offer is locked by a request, an edit, and a rejection that restocks it.
LockOffer(w) ==
    /\ \/ pc[w] = "offer"
       \/ pc[w] = "decide" /\ task[w].op = "reject" /\ seenRow[w].status = "pending"
    /\ offerLock[task[w].offer] = None
    /\ offerLock' = [offerLock EXCEPT ![task[w].offer] = w]
    /\ seenOffer' = [seenOffer EXCEPT ![w] = offer[task[w].offer]]
    /\ Advance(w)
    /\ UNCHANGED <<shop, userLock, rowLock, task, seenRow>>

\* request_redemption: the offer as locked, and a first look at the wallet.
CheckOffer(w) ==
    /\ pc[w] = "eligible"
    /\ Eligible(seenOffer[w])
    /\ seenOffer[w].cost <= balance[task[w].user]
    /\ Advance(w)
    /\ UNCHANGED <<shop, locks, task, seenRow, seenOffer>>

Price(w) == IF task[w].op = "redeem" THEN seenOffer[w].cost ELSE task[w].amount

\* spend_coins: nothing to do for a free offer, else SUM the wallet under the
\* user lock; the INSERT follows.
CanPay(w) == Price(w) = 0 \/ Price(w) <= balance[task[w].user]

CheckWallet(w) ==
    /\ pc[w] = "hold"
    /\ CanPay(w)
    /\ Advance(w)
    /\ UNCHANGED <<shop, locks, task, seenRow, seenOffer>>

-----------------------------------------------------------------------------
(* Commits: everything the request writes.                                 *)

CommitRedeem(w, i) ==
    LET t == task[w]
        row == NewRedemption(t.user, t.offer, seenOffer[w])
    IN  /\ pc[w] = "post" /\ t.op = "redeem"
        /\ redemption[i] = None
        /\ redemption' = [redemption EXCEPT ![i] = row]
        /\ charged' = [charged EXCEPT ![i] = row.cost]
        /\ balance' = [balance EXCEPT ![t.user] = @ - row.cost]
        /\ offer' = [offer EXCEPT ![t.offer] = TakeOne(@)]
        /\ granted' = [granted EXCEPT ![i] = @ + (IF row.status = "pending" THEN 0 ELSE ItemsOwed(row))]
        /\ Finish(w)
        /\ UNCHANGED supplied

\* Mutant of CommitApprove: a second approval is not refused.
CommitApproveAgain(w) ==
    LET i == task[w].id  row == seenRow[w] IN
    /\ pc[w] = "decide" /\ task[w].op = "approve"
    /\ row.status # "denied"
    /\ Creditable(row)
    /\ redemption' = [redemption EXCEPT ![i].status = ApprovedStatus(row.kind)]
    /\ granted' = [granted EXCEPT ![i] = @ + ItemsOwed(row)]
    /\ Finish(w)
    /\ UNCHANGED <<balance, offer, charged, supplied>>

CommitApprove(w) ==
    LET i == task[w].id  row == seenRow[w] IN
    /\ pc[w] = "decide" /\ task[w].op = "approve"
    /\ row.status = "pending"
    /\ Creditable(row)
    /\ redemption' = [redemption EXCEPT ![i].status = ApprovedStatus(row.kind)]
    /\ granted' = [granted EXCEPT ![i] = @ + ItemsOwed(row)]
    /\ Finish(w)
    /\ UNCHANGED <<balance, offer, charged, supplied>>

CommitDeliver(w) ==
    /\ pc[w] = "decide" /\ task[w].op = "deliver"
    /\ HandOver(seenRow[w])
    /\ redemption' = [redemption EXCEPT ![task[w].id].status = "fulfilled"]
    /\ Finish(w)
    /\ UNCHANGED <<balance, offer, charged, granted, supplied>>

CommitReject(w) ==
    LET i == task[w].id  row == seenRow[w] IN
    /\ pc[w] = "post" /\ task[w].op = "reject"
    /\ redemption' = [redemption EXCEPT ![i].status = "denied"]
    /\ charged' = [charged EXCEPT ![i] = @ - row.cost]
    /\ balance' = [balance EXCEPT ![row.user] = @ + row.cost]
    /\ offer' = [offer EXCEPT ![row.offer] = PutBack(@, row)]
    /\ Finish(w)
    /\ UNCHANGED <<granted, supplied>>

\* update_reward_offer: the form is absolute, stock included.
CommitEdit(w, form) ==
    LET r == task[w].offer IN
    /\ pc[w] = "post" /\ task[w].op = "edit"
    /\ offer' = [offer EXCEPT ![r] = form]
    /\ supplied' = [supplied EXCEPT ![r] = IF form.stock = Unlimited THEN 0
                                           ELSE form.stock + Cardinality(LiveHolds(r))]
    /\ Finish(w)
    /\ UNCHANGED <<balance, redemption, charged, granted>>

\* The INSERT of spend_coins, or that of the REST adjustment.
CommitPost(w) ==
    LET t == task[w] IN
    /\ pc[w] = "post" /\ t.op \in {"spend", "adjust"}
    /\ balance' = [balance EXCEPT ![t.user] =
                      IF t.op = "spend" THEN @ - t.amount ELSE @ + t.amount]
    /\ Finish(w)
    /\ UNCHANGED <<offer, redemption, charged, granted, supplied>>

\* award_coins from any other service: one INSERT, no lock.
Award(u, a) ==
    /\ balance[u] + a <= MaxCoins
    /\ balance' = [balance EXCEPT ![u] = @ + a]
    /\ UNCHANGED <<offer, redemption, charged, granted, supplied, locks, local>>

-----------------------------------------------------------------------------
(* Requests that write nothing.                                            *)

\* A check fails: an exception that rolls back, or an early return.
Refuse(w) ==
    /\ \/ pc[w] = "eligible" /\ ~(/\ Eligible(seenOffer[w])
                                  /\ seenOffer[w].cost <= balance[task[w].user])
       \/ pc[w] = "hold" /\ ~CanPay(w)
       \/ pc[w] = "decide" /\ task[w].op = "approve"
          /\ (seenRow[w].status # "pending" \/ ~Creditable(seenRow[w]))
       \/ pc[w] = "decide" /\ task[w].op = "reject" /\ seenRow[w].status # "pending"
       \/ pc[w] = "decide" /\ task[w].op = "deliver" /\ ~HandOver(seenRow[w])
    /\ Finish(w)
    /\ UNCHANGED shop

\* The worker dies or loses its connection before the commit.
Crash(w) ==
    /\ pc[w] # "idle"
    /\ Finish(w)
    /\ UNCHANGED shop

-----------------------------------------------------------------------------
Begin(w) ==
    \/ \E u \in Children, r \in Rewards : BeginRedeem(w, u, r)
    \/ \E i \in Ids, op \in Decisions : BeginDecision(w, i, op)
    \/ \E r \in Rewards : BeginEdit(w, r)
    \/ \E u \in Children, a \in Coins : BeginSpend(w, u, a)
    \/ \E u \in Children, a \in Adjustments : BeginAdjust(w, u, a)

Lock(w) == LockUser(w) \/ LockDecision(w) \/ LockOffer(w)

Proceed(w) ==
    \/ CheckOffer(w) \/ CheckWallet(w)
    \/ \E i \in Ids : CommitRedeem(w, i)
    \/ CommitApprove(w) \/ CommitDeliver(w) \/ CommitReject(w)
    \/ \E form \in OfferForms : CommitEdit(w, form)
    \/ CommitPost(w)
    \/ Refuse(w)

Next ==
    \/ \E w \in Workers : Begin(w) \/ Lock(w) \/ Proceed(w) \/ Crash(w)
    \/ \E u \in Children, a \in Coins : Award(u, a)

Spec == Init /\ [][Next]_vars

\* A worker that may move does, and PostgreSQL queues those that wait for a
\* row lock, so no waiter is passed over for ever.  Requests, awards and
\* crashes happen or not.
Fairness ==
    \A w \in Workers :
        /\ WF_vars(Proceed(w))
        /\ SF_vars(LockUser(w)) /\ SF_vars(LockDecision(w)) /\ SF_vars(LockOffer(w))

FairSpec == Spec /\ Fairness

-----------------------------------------------------------------------------
(* Properties.                                                             *)

Instance(Row) == Row \cup {None}

\* The types of the rows, locks and worker memory.  Stock is never negative
\* (Reward.stock is a PositiveIntegerField: PostgreSQL would refuse the row).
TypeOK ==
    /\ balance \in [Children -> Int]
    /\ offer \in [Rewards -> Offer]
    /\ redemption \in [Ids -> Instance(Redemption)]
    /\ charged \in [Ids -> Int]
    /\ granted \in [Ids -> Nat]
    /\ supplied \in [Rewards -> Nat]
    /\ userLock \in [Children -> Instance(Workers)]
    /\ rowLock \in [Ids -> Instance(Workers)]
    /\ offerLock \in [Rewards -> Instance(Workers)]
    /\ pc \in [Workers -> Steps]
    /\ task \in [Workers -> Instance(Task)]
    /\ seenRow \in [Workers -> Instance(Redemption)]
    /\ seenOffer \in [Workers -> Instance(Offer)]

\* Every amount a parent enters in the REST form is a grant.
NoDeductions == \A a \in Adjustments : a > 0

\* No purchase takes a wallet below zero, however requests, awards and
\* refunds interleave.
NeverOverdrawn == \A u \in Children : balance[u] >= 0

\* Each promise is settled once: it holds its frozen price until a parent
\* denies it, and nothing after; and the item it named is credited exactly
\* when it leaves the parent's queue, never twice, whatever two parents do.
SettledOnce ==
    \A i \in Ids :
        LET row == redemption[i] IN
        /\ charged[i] = IF row = None \/ row.status = "denied" THEN 0 ELSE row.cost
        /\ granted[i] = IF row = None \/ row.status \in {"pending", "denied"} THEN 0
                        ELSE ItemsOwed(row)

\* While an offer is counted, the units on the shelf and the units held by
\* live promises are the units the parent last supplied: none is sold twice
\* and none is put back that was never taken.
StockAccounted ==
    \A r \in Rewards :
        offer[r].stock # Unlimited =>
            offer[r].stock + Cardinality(LiveHolds(r)) = supplied[r]

\* The locks that the request of w holds between two of its steps.
HoldsUser(w) == pc[w] \notin {"idle", "user"} /\ task[w].op \notin {"edit", "adjust"}

HoldsRow(w) == pc[w] \in {"decide", "post"} /\ task[w].op \in Decisions

HoldsOffer(w) ==
    \/ pc[w] \in {"eligible", "hold", "post"} /\ task[w].op = "redeem"
    \/ pc[w] = "post" /\ task[w].op \in {"edit", "reject"}

\* What a worker read under its locks is still what the database holds when it
\* writes: the offer it priced is on sale as priced, the decision is undecided
\* as read, and a rejection is never posted for a promise already settled.
ChecksStillHold ==
    \A w \in Workers :
        /\ HoldsOffer(w) => seenOffer[w] = offer[task[w].offer]
        /\ HoldsRow(w) => seenRow[w] = redemption[task[w].id]
        /\ pc[w] \in {"hold", "post"} /\ task[w].op = "redeem" => Eligible(seenOffer[w])
        /\ pc[w] = "post" /\ task[w].op = "reject" => seenRow[w].status = "pending"

\* A wallet that was found to cover a price covers it until the row is posted,
\* awards and refunds landing in between included.
WalletStillCovers ==
    \A w \in Workers :
        pc[w] = "post" /\ task[w].op \in {"redeem", "spend"} => CanPay(w)

\* Every request is answered: the locks are taken in one order, so no set of
\* workers waits on itself.
EveryRequestEnds == \A w \in Workers : pc[w] # "idle" ~> pc[w] = "idle"

\* The same as a safety property: among any workers that wait there is one who
\* waits for none of them, so PostgreSQL never has a deadlock to break.
WaitsFor(w, v) ==
    \/ pc[w] = "user" /\ userLock[task[w].user] = v
    \/ pc[w] = "decision" /\ rowLock[task[w].id] = v
    \/ /\ pc[w] = "offer" \/ (pc[w] = "decide" /\ task[w].op = "reject")
       /\ offerLock[task[w].offer] = v
NoLockCycle ==
    \A waiting \in (SUBSET Workers) \ {{}} :
        \E w \in waiting : \A v \in waiting : ~WaitsFor(w, v)

\* The rest of the inductive invariant.  Every lock that a request should hold
\* it holds.
LocksHeld ==
    \A w \in Workers :
        /\ HoldsUser(w) => userLock[task[w].user] = w
        /\ HoldsRow(w) => rowLock[task[w].id] = w
        /\ HoldsOffer(w) => offerLock[task[w].offer] = w

\* And every lock that is taken belongs to a request that should hold it: none
\* outlives its transaction.
LocksOwned ==
    /\ \A u \in Children : userLock[u] # None =>
          HoldsUser(userLock[u]) /\ task[userLock[u]].user = u
    /\ \A i \in Ids : rowLock[i] # None =>
          HoldsRow(rowLock[i]) /\ task[rowLock[i]].id = i
    /\ \A r \in Rewards : offerLock[r] # None =>
          HoldsOffer(offerLock[r]) /\ task[offerLock[r]].offer = r

StepsOf(op) ==
    CASE op = "redeem" -> {"user", "offer", "eligible", "hold", "post"}
      [] op = "spend" -> {"user", "hold", "post"}
      [] op = "edit" -> {"offer", "post"}
      [] op = "adjust" -> {"post"}
      [] op = "reject" -> {"user", "decision", "decide", "post"}
      [] OTHER -> {"user", "decision", "decide"}

\* A worker's request names rows that exist, and its step is one of its route.
TasksWellFormed ==
    \A w \in Workers :
        LET t == task[w] IN
        IF pc[w] = "idle" THEN t = None /\ seenRow[w] = None /\ seenOffer[w] = None
        ELSE /\ t # None
             /\ pc[w] \in StepsOf(t.op)
             /\ t.op # "edit" => t.user \in Children
             /\ t.op \notin {"spend", "adjust"} => t.offer \in Rewards
             /\ t.op = "spend" => t.amount \in Coins
             /\ t.op = "adjust" => t.amount \in Adjustments
             /\ IF t.op \in Decisions
                THEN /\ t.id \in Ids
                     /\ redemption[t.id] # None
                     /\ redemption[t.id].user = t.user
                     /\ redemption[t.id].offer = t.offer
                     /\ seenRow[w] # None
                ELSE seenRow[w] = None
             /\ HoldsOffer(w) <=> seenOffer[w] # None

ShopInv ==
    /\ TypeOK /\ TasksWellFormed /\ LocksHeld /\ LocksOwned /\ ChecksStillHold
    /\ SettledOnce /\ StockAccounted

\* The workers implement the shop's promise (see ShopPromise).
KeepsPromise == Promise!PromiseSpec
=============================================================================
