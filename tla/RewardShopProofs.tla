-------------------------- MODULE RewardShopProofs --------------------------
(***************************************************************************)
(* Proofs about RewardShop, for every household, shelf and set of workers: *)
(* the inductive invariant ShopInv, and, when no parent takes coins back   *)
(* through the REST form, that no wallet is overdrawn and that the workers *)
(* implement ShopPromise.  The last part is about RestockWishlist, for all *)
(* children, edits and stocks: one bookmark rings one bell, and it goes    *)
(* only by its child or by a restock.                                      *)
(***************************************************************************)
EXTENDS RewardShop, RestockWishlist, FiniteSetTheorems, TLAPS

\* The part of ShopInv about workers: each lemma CoreX shows that action X
\* preserves it.
Core == TypeOK /\ TasksWellFormed /\ LocksHeld /\ ChecksStillHold

\* What Core says of one worker that serves a request.
LEMMA TaskFacts ==
  ASSUME NEW w \in Workers, Core, pc[w] # "idle"
  PROVE  /\ task[w] \in Task
         /\ pc[w] \in StepsOf(task[w].op)
         /\ task[w].op # "edit" => task[w].user \in Children
         /\ task[w].op \notin {"spend", "adjust"} => task[w].offer \in Rewards
         /\ task[w].op \in Decisions =>
               /\ task[w].id \in Ids
               /\ redemption[task[w].id] \in Redemption
               /\ redemption[task[w].id].user = task[w].user
               /\ redemption[task[w].id].offer = task[w].offer
               /\ seenRow[w] \in Redemption
         /\ HoldsOffer(w) => seenOffer[w] \in Offer
BY DEF Core, TypeOK, TasksWellFormed, Instance

\* Units held by live promises are at most the keys in use.
LEMMA LiveHoldsFinite ==
  ASSUME NEW r \in Rewards
  PROVE  IsFiniteSet(LiveHolds(r)) /\ Cardinality(LiveHolds(r)) \in Nat
BY RowConstants, FS_Subset, FS_CardinalityType DEF LiveHolds

LEMMA CoreInit == Init => Core
<1> SUFFICES ASSUME Init PROVE Core
  OBVIOUS
<1>1. supplied \in [Rewards -> Nat]
  <2> SUFFICES ASSUME NEW r \in Rewards PROVE supplied[r] \in Nat
    BY DEF Init
  <2>1. offer[r] \in Offer
    BY RowConstants DEF Init, Promise!PromiseInit
  <2> QED BY <2>1, LiveHoldsFinite DEF Init, Offer
<1>2. redemption \in [Ids -> Instance(Redemption)] /\ charged \in [Ids -> Int]
  BY RowConstants, LegacyConstants DEF Init, Promise!PromiseInit, Instance, Redemption
<1>3. TypeOK
  BY <1>1, <1>2, RowConstants DEF Init, Promise!PromiseInit, TypeOK, Instance, Steps
<1>4. TasksWellFormed /\ LocksHeld /\ ChecksStillHold
  BY DEF Init, TasksWellFormed, LocksHeld, ChecksStillHold, HoldsUser, HoldsRow, HoldsOffer
<1> QED BY <1>3, <1>4 DEF Core

-----------------------------------------------------------------------------
(* Requests arrive.                                                       *)

LEMMA CoreBeginRedeem ==
  ASSUME NEW w \in Workers, NEW u \in Children, NEW r \in Rewards, Core, BeginRedeem(w, u, r)
  PROVE  Core'
<1> USE RowConstants, WorkerConstants, TaskConstants DEF Core, BeginRedeem, KeysLeft, Start, After, Advance, shop, locks
<1>1. TypeOK'
  BY DEF TypeOK, Instance, Steps, Task, Ops, Decisions, TasksWellFormed, StepsOf
<1>2. TasksWellFormed'
  BY DEF TypeOK, Steps, Decisions, Task, Ops, Instance, TasksWellFormed, StepsOf, HoldsOffer
<1>3. LocksHeld'
  BY DEF TypeOK, Steps, Decisions, Task, Ops, Instance, TasksWellFormed, LocksHeld, HoldsUser, HoldsRow, HoldsOffer
<1>4. ChecksStillHold'
  BY DEF TypeOK, Steps, Decisions, Task, Ops, Instance, TasksWellFormed, LocksHeld, ChecksStillHold, HoldsRow, HoldsOffer
<1> QED BY <1>1, <1>2, <1>3, <1>4

LEMMA CoreBeginDecision ==
  ASSUME NEW w \in Workers, NEW i \in Ids, NEW op \in Decisions, Core, BeginDecision(w, i, op)
  PROVE  Core'
<1> DEFINE t == [op |-> op, user |-> redemption[i].user, offer |-> redemption[i].offer,
                 id |-> i, amount |-> 0]
<1>1. redemption[i] \in Redemption
  BY DEF BeginDecision, Core, TypeOK, Instance
<1>2. t \in Task /\ t # None
  BY <1>1, TaskConstants DEF Task, Ops, Decisions, Redemption
<1>3. pc[w] = "idle" /\ pc' = [pc EXCEPT ![w] = "user"] /\ task' = [task EXCEPT ![w] = t]
  BY DEF BeginDecision, Start, After, Decisions
<1> USE RowConstants DEF Core, BeginDecision, shop, locks, TypeOK, Steps, Instance
<1>4. TypeOK'
  BY <1>1, <1>2, <1>3
<1>5. TasksWellFormed'
  <2> SUFFICES ASSUME NEW v \in Workers
               PROVE  TasksWellFormed!(v)'
    BY DEF TasksWellFormed
  <2>1. CASE v = w
    BY <1>1, <1>2, <1>3, <2>1 DEF TasksWellFormed, HoldsOffer, Redemption, StepsOf, Decisions
  <2>2. CASE v # w
    BY <1>3, <2>2 DEF TasksWellFormed, HoldsOffer
  <2> QED BY <2>1, <2>2
<1>6. LocksHeld' /\ ChecksStillHold'
  BY <1>3 DEF LocksHeld, ChecksStillHold, HoldsUser, HoldsRow, HoldsOffer
<1> QED BY <1>4, <1>5, <1>6

LEMMA CoreBeginEdit ==
  ASSUME NEW w \in Workers, NEW r \in Rewards, Core, BeginEdit(w, r)
  PROVE  Core'
<1> USE RowConstants, WorkerConstants, TaskConstants DEF Core, BeginEdit, Start, After, Advance, shop, locks
<1>1. TypeOK'
  BY DEF TypeOK, Instance, Steps, Task, Ops, Decisions, TasksWellFormed, StepsOf
<1>2. TasksWellFormed'
  BY DEF TypeOK, Steps, Decisions, Task, Ops, Instance, TasksWellFormed, StepsOf, HoldsOffer
<1>3. LocksHeld'
  BY DEF TypeOK, Steps, Decisions, Task, Ops, Instance, TasksWellFormed, LocksHeld, HoldsUser, HoldsRow, HoldsOffer
<1>4. ChecksStillHold'
  BY DEF TypeOK, Steps, Decisions, Task, Ops, Instance, TasksWellFormed, LocksHeld, ChecksStillHold, HoldsRow, HoldsOffer
<1> QED BY <1>1, <1>2, <1>3, <1>4

LEMMA CoreBeginSpend ==
  ASSUME NEW w \in Workers, NEW u \in Children, NEW a \in Coins, Core, BeginSpend(w, u, a)
  PROVE  Core'
<1> USE RowConstants, WorkerConstants, TaskConstants DEF Core, BeginSpend, Start, After, Advance, shop, locks
<1>1. TypeOK'
  BY DEF TypeOK, Instance, Steps, Task, Ops, Decisions, TasksWellFormed, StepsOf
<1>2. TasksWellFormed'
  BY DEF TypeOK, Steps, Decisions, Task, Ops, Instance, TasksWellFormed, StepsOf, HoldsOffer
<1>3. LocksHeld'
  BY DEF TypeOK, Steps, Decisions, Task, Ops, Instance, TasksWellFormed, LocksHeld, HoldsUser, HoldsRow, HoldsOffer
<1>4. ChecksStillHold'
  BY DEF TypeOK, Steps, Decisions, Task, Ops, Instance, TasksWellFormed, LocksHeld, ChecksStillHold, HoldsRow, HoldsOffer
<1> QED BY <1>1, <1>2, <1>3, <1>4

LEMMA CoreBeginAdjust ==
  ASSUME NEW w \in Workers, NEW u \in Children, NEW a \in Adjustments, Core, BeginAdjust(w, u, a)
  PROVE  Core'
<1> USE RowConstants, WorkerConstants, TaskConstants DEF Core, BeginAdjust, Start, After, Advance, shop, locks
<1>1. TypeOK'
  BY DEF TypeOK, Instance, Steps, Task, Ops, Decisions, TasksWellFormed, StepsOf
<1>2. TasksWellFormed'
  BY DEF TypeOK, Steps, Decisions, Task, Ops, Instance, TasksWellFormed, StepsOf, HoldsOffer
<1>3. LocksHeld'
  BY DEF TypeOK, Steps, Decisions, Task, Ops, Instance, TasksWellFormed, LocksHeld, HoldsUser, HoldsRow, HoldsOffer
<1>4. ChecksStillHold'
  BY DEF TypeOK, Steps, Decisions, Task, Ops, Instance, TasksWellFormed, LocksHeld, ChecksStillHold, HoldsRow, HoldsOffer
<1> QED BY <1>1, <1>2, <1>3, <1>4

-----------------------------------------------------------------------------
(* Locks and checks.                                                       *)

LEMMA CoreLockUser ==
  ASSUME NEW w \in Workers, Core, LockUser(w)
  PROVE  Core'
<1> USE RowConstants, WorkerConstants, TaskConstants DEF Core, LockUser, After, Advance, shop, locks
<1>1. TypeOK'
  BY DEF TypeOK, Instance, Steps, Task, Ops, Decisions, TasksWellFormed, StepsOf
<1>2. TasksWellFormed'
  BY DEF TypeOK, Steps, Decisions, Task, Ops, Instance, TasksWellFormed, StepsOf, HoldsOffer
<1>3. LocksHeld'
  BY DEF TypeOK, Steps, Decisions, Task, Ops, Instance, TasksWellFormed, LocksHeld, HoldsUser, HoldsRow, HoldsOffer
<1>4. ChecksStillHold'
  BY DEF TypeOK, Steps, Decisions, Task, Ops, Instance, TasksWellFormed, LocksHeld, ChecksStillHold, HoldsRow, HoldsOffer
<1> QED BY <1>1, <1>2, <1>3, <1>4

LEMMA CoreLockDecision ==
  ASSUME NEW w \in Workers, Core, LockDecision(w)
  PROVE  Core'
<1> USE RowConstants, WorkerConstants, TaskConstants DEF Core, LockDecision, After, Advance, shop, locks
<1>1. TypeOK'
  BY DEF TypeOK, Instance, Steps, Task, Ops, Decisions, TasksWellFormed, StepsOf
<1>2. TasksWellFormed'
  BY DEF TypeOK, Steps, Decisions, Task, Ops, Instance, TasksWellFormed, StepsOf, HoldsOffer
<1>3. LocksHeld'
  BY DEF TypeOK, Steps, Decisions, Task, Ops, Instance, TasksWellFormed, LocksHeld, HoldsUser, HoldsRow, HoldsOffer
<1>4. ChecksStillHold'
  BY DEF TypeOK, Steps, Decisions, Task, Ops, Instance, TasksWellFormed, LocksHeld, ChecksStillHold, HoldsRow, HoldsOffer
<1> QED BY <1>1, <1>2, <1>3, <1>4

LEMMA CoreLockOffer ==
  ASSUME NEW w \in Workers, Core, LockOffer(w)
  PROVE  Core'
<1> USE RowConstants, WorkerConstants DEF Core, LockOffer, Advance, shop
<1>1. /\ task[w].op \in {"redeem", "edit", "reject"}
      /\ task[w].offer \in Rewards
      /\ ~HoldsOffer(w)
  BY TaskFacts DEF TypeOK, Steps, StepsOf, HoldsOffer, Task, Ops
<1>2. pc' = [pc EXCEPT ![w] = IF task[w].op = "redeem" THEN "eligible" ELSE "post"]
  BY <1>1, TaskFacts DEF After, StepsOf
<1>3. offerLock[task[w].offer] = None /\ offerLock' = [offerLock EXCEPT ![task[w].offer] = w]
  OBVIOUS
<1>4. TypeOK'
  BY <1>1, <1>2 DEF TypeOK, Steps, Instance
<1>5. TasksWellFormed'
  BY <1>1, <1>2, TaskFacts DEF TypeOK, TasksWellFormed, HoldsOffer, StepsOf, Decisions, Instance
<1>6. LocksHeld'
  <2>1. ASSUME NEW v \in Workers, HoldsOffer(v)'
        PROVE  offerLock'[task'[v].offer] = v
    <3>1. CASE v = w
      BY <1>1, <3>1 DEF TypeOK
    <3>2. CASE v # w
      <4>1. HoldsOffer(v)
        BY <2>1, <3>2 DEF HoldsOffer, TypeOK
      <4> QED BY <4>1, <3>2, <1>1 DEF LocksHeld, TypeOK
    <3> QED BY <3>1, <3>2
  <2>2. ASSUME NEW v \in Workers
        PROVE  /\ HoldsUser(v)' => userLock'[task'[v].user] = v
               /\ HoldsRow(v)' => rowLock'[task'[v].id] = v
    BY <1>1, <1>2, TaskFacts DEF LocksHeld, HoldsUser, HoldsRow, TypeOK, StepsOf, Decisions
  <2> QED BY <2>1, <2>2 DEF LocksHeld
<1>7. ChecksStillHold'
  <2> SUFFICES ASSUME NEW v \in Workers
               PROVE  ChecksStillHold!(v)'
    BY DEF ChecksStillHold
  <2>1. CASE v = w
    BY <1>1, <1>2, <2>1, TaskFacts DEF ChecksStillHold, HoldsOffer, HoldsRow, TypeOK, StepsOf, Decisions
  <2>2. CASE v # w
    BY <1>2, <2>2 DEF ChecksStillHold, HoldsOffer, HoldsRow, TypeOK
  <2> QED BY <2>1, <2>2
<1> QED BY <1>4, <1>5, <1>6, <1>7

LEMMA CoreCheckOffer ==
  ASSUME NEW w \in Workers, Core, CheckOffer(w)
  PROVE  Core'
<1> USE RowConstants, WorkerConstants, TaskConstants DEF Core, CheckOffer, After, Advance, shop, locks
<1>1. TypeOK'
  BY DEF TypeOK, Instance, Steps, Task, Ops, Decisions, TasksWellFormed, StepsOf
<1>2. TasksWellFormed'
  BY DEF TypeOK, Steps, Decisions, Task, Ops, Instance, TasksWellFormed, StepsOf, HoldsOffer
<1>3. LocksHeld'
  BY DEF TypeOK, Steps, Decisions, Task, Ops, Instance, TasksWellFormed, LocksHeld, HoldsUser, HoldsRow, HoldsOffer
<1>4. ChecksStillHold'
  BY DEF TypeOK, Steps, Decisions, Task, Ops, Instance, TasksWellFormed, LocksHeld, ChecksStillHold, HoldsRow, HoldsOffer
<1> QED BY <1>1, <1>2, <1>3, <1>4

LEMMA CoreCheckWallet ==
  ASSUME NEW w \in Workers, Core, CheckWallet(w)
  PROVE  Core'
<1> USE DEF Core, CheckWallet, Advance, shop, locks
<1>1. task[w].op \in {"redeem", "spend"} /\ pc[w] = "hold"
  BY TaskFacts DEF StepsOf, Task, Ops
<1>2. pc' = [pc EXCEPT ![w] = "post"]
  BY <1>1 DEF After
<1>3. TypeOK'
  BY <1>2 DEF TypeOK, Steps
<1>4. TasksWellFormed'
  BY <1>1, <1>2 DEF TypeOK, TasksWellFormed, HoldsOffer, StepsOf
<1>5. LocksHeld'
  <2> SUFFICES ASSUME NEW v \in Workers
               PROVE  LocksHeld!(v)'
    BY DEF LocksHeld
  <2>1. CASE v = w
    BY <1>1, <1>2, <2>1 DEF LocksHeld, HoldsUser, HoldsRow, HoldsOffer, TypeOK, Decisions
  <2>2. CASE v # w
    BY <1>2, <2>2 DEF LocksHeld, HoldsUser, HoldsRow, HoldsOffer, TypeOK
  <2> QED BY <2>1, <2>2
<1>6. ChecksStillHold'
  <2> SUFFICES ASSUME NEW v \in Workers
               PROVE  ChecksStillHold!(v)'
    BY DEF ChecksStillHold
  <2>1. CASE v = w
    BY <1>1, <1>2, <2>1 DEF ChecksStillHold, HoldsRow, HoldsOffer, TypeOK, Decisions
  <2>2. CASE v # w
    BY <1>2, <2>2 DEF ChecksStillHold, HoldsRow, HoldsOffer, TypeOK
  <2> QED BY <2>1, <2>2
<1> QED BY <1>3, <1>4, <1>5, <1>6

-----------------------------------------------------------------------------
(* Commits.                                                                *)

\* A transaction that ends frees its own locks and nobody else's.
LEMMA FinishKeepsLocks ==
  ASSUME NEW w \in Workers, Core, Finish(w)
  PROVE  LocksHeld'
<1> SUFFICES ASSUME NEW v \in Workers
             PROVE  LocksHeld!(v)'
  BY DEF LocksHeld
<1> USE DEF Core, Finish
<1>1. CASE v = w
  BY <1>1 DEF TypeOK, HoldsUser, HoldsRow, HoldsOffer
<1>2. CASE v # w
  <2>1. pc'[v] = pc[v] /\ task'[v] = task[v]
    BY <1>2 DEF TypeOK
  <2>2. HoldsUser(v)' => userLock'[task'[v].user] = v
    BY <1>2, <2>1, TaskFacts DEF LocksHeld, HoldsUser, TypeOK, Freed
  <2>3. HoldsRow(v)' => rowLock'[task'[v].id] = v
    BY <1>2, <2>1, TaskFacts DEF LocksHeld, HoldsRow, TypeOK, Freed
  <2>4. HoldsOffer(v)' => offerLock'[task'[v].offer] = v
    BY <1>2, <2>1, TaskFacts DEF LocksHeld, HoldsOffer, TypeOK, Freed
  <2> QED BY <2>2, <2>3, <2>4
<1> QED BY <1>1, <1>2

LEMMA NewRedemptionType ==
  ASSUME NEW u \in Children, NEW r \in Rewards, NEW o \in Offer
  PROVE  NewRedemption(u, r, o) \in Redemption
BY DEF NewRedemption, Redemption, Offer, Kinds, Statuses, ApprovedStatus

LEMMA CommitRedeemType ==
  ASSUME NEW w \in Workers, NEW i \in Ids, Core, CommitRedeem(w, i)
  PROVE  TypeOK'
<1> DEFINE t == task[w]
           row == NewRedemption(t.user, t.offer, seenOffer[w])
<1> USE DEF Core, CommitRedeem
<1>1. HoldsOffer(w) /\ t.user \in Children /\ t.offer \in Rewards /\ seenOffer[w] \in Offer
  BY TaskFacts DEF HoldsOffer
<1>2. row \in Redemption /\ row.cost \in Nat
  BY <1>1, NewRedemptionType DEF Redemption
<1>3. offer[t.offer] = seenOffer[w] /\ Eligible(offer[t.offer])
  BY <1>1 DEF ChecksStillHold
<1>4. TakeOne(offer[t.offer]) \in Offer
  BY <1>1, <1>3 DEF TakeOne, Eligible, Offer
<1>5. offer' \in [Rewards -> Offer] /\ balance' \in [Children -> Int]
  BY <1>1, <1>2, <1>4 DEF TypeOK
<1>6. granted' \in [Ids -> Nat]
  BY DEF TypeOK, ItemsOwed
<1>7. redemption' \in [Ids -> Instance(Redemption)] /\ charged' \in [Ids -> Int]
  BY <1>2 DEF TypeOK, Instance
<1>8. supplied' = supplied /\ Finish(w)
  OBVIOUS
<1> QED BY <1>5, <1>6, <1>7, <1>8 DEF TypeOK, Finish, Freed, Steps, Instance

LEMMA CoreCommitRedeem ==
  ASSUME NEW w \in Workers, NEW i \in Ids, Core, CommitRedeem(w, i)
  PROVE  Core'
<1> USE RowConstants, WorkerConstants, TaskConstants DEF Core, CommitRedeem, Finish, Freed, NewRedemption, TakeOne, Eligible, ApprovedStatus, ItemsOwed, Kinds, Statuses, Offer, Redemption, After, Advance, shop, locks
<1>1. TypeOK'
  BY CommitRedeemType
<1>2. TasksWellFormed'
  BY DEF TypeOK, Steps, Decisions, Task, Ops, Instance, TasksWellFormed, StepsOf, HoldsOffer
<1>3. LocksHeld'
  BY DEF TypeOK, Steps, Decisions, Task, Ops, Instance, TasksWellFormed, LocksHeld, HoldsUser, HoldsRow, HoldsOffer
<1>4. ChecksStillHold'
  BY DEF TypeOK, Steps, Decisions, Task, Ops, Instance, TasksWellFormed, LocksHeld, ChecksStillHold, HoldsRow, HoldsOffer
<1> QED BY <1>1, <1>2, <1>3, <1>4

LEMMA CoreCommitApprove ==
  ASSUME NEW w \in Workers, Core, CommitApprove(w)
  PROVE  Core'
<1> USE RowConstants, WorkerConstants, TaskConstants DEF Core, CommitApprove, Finish, Freed, ApprovedStatus, ItemsOwed, Redemption, Statuses, Kinds, After, Advance, shop, locks
<1>1. TypeOK'
  BY DEF TypeOK, Instance, Steps, Task, Ops, Decisions, TasksWellFormed, StepsOf
<1>2. TasksWellFormed'
  BY DEF TypeOK, Steps, Decisions, Task, Ops, Instance, TasksWellFormed, StepsOf, HoldsOffer
<1>3. LocksHeld'
  BY DEF TypeOK, Steps, Decisions, Task, Ops, Instance, TasksWellFormed, LocksHeld, HoldsUser, HoldsRow, HoldsOffer
<1>4. ChecksStillHold'
  BY DEF TypeOK, Steps, Decisions, Task, Ops, Instance, TasksWellFormed, LocksHeld, ChecksStillHold, HoldsRow, HoldsOffer
<1> QED BY <1>1, <1>2, <1>3, <1>4

LEMMA CoreCommitDeliver ==
  ASSUME NEW w \in Workers, Core, CommitDeliver(w)
  PROVE  Core'
<1> USE RowConstants, WorkerConstants, TaskConstants DEF Core, CommitDeliver, Finish, Freed, HandOver, Redemption, Statuses, Kinds, After, Advance, shop, locks
<1>1. TypeOK'
  BY DEF TypeOK, Instance, Steps, Task, Ops, Decisions, TasksWellFormed, StepsOf
<1>2. TasksWellFormed'
  BY DEF TypeOK, Steps, Decisions, Task, Ops, Instance, TasksWellFormed, StepsOf, HoldsOffer
<1>3. LocksHeld'
  BY DEF TypeOK, Steps, Decisions, Task, Ops, Instance, TasksWellFormed, LocksHeld, HoldsUser, HoldsRow, HoldsOffer
<1>4. ChecksStillHold'
  BY DEF TypeOK, Steps, Decisions, Task, Ops, Instance, TasksWellFormed, LocksHeld, ChecksStillHold, HoldsRow, HoldsOffer
<1> QED BY <1>1, <1>2, <1>3, <1>4

LEMMA CoreCommitReject ==
  ASSUME NEW w \in Workers, Core, CommitReject(w)
  PROVE  Core'
<1> DEFINE i == task[w].id
           row == seenRow[w]
<1> USE DEF Core, CommitReject
<1>1. HoldsRow(w) /\ HoldsOffer(w)
  BY DEF HoldsRow, HoldsOffer, Decisions
<1>2. /\ i \in Ids /\ row \in Redemption /\ row = redemption[i] /\ redemption[i] # None
      /\ row.user \in Children /\ row.offer \in Rewards /\ row.cost \in Nat
  BY <1>1, TaskFacts, RowConstants DEF ChecksStillHold, Decisions, Redemption
<1>3. [row EXCEPT !.status = "denied"] \in Redemption
  BY <1>2 DEF Redemption, Statuses
<1>4. PutBack(offer[row.offer], row) \in Offer
  <2>1. offer[row.offer] \in Offer
    BY <1>2 DEF TypeOK
  <2> QED BY <2>1 DEF PutBack, Offer
<1>5. redemption' \in [Ids -> Instance(Redemption)]
  BY <1>2, <1>3 DEF TypeOK, Instance
<1>6. TypeOK'
  BY <1>2, <1>4, <1>5 DEF TypeOK, Instance, Steps, Finish, Freed
<1>7. TasksWellFormed'
  <2> SUFFICES ASSUME NEW v \in Workers
               PROVE  TasksWellFormed!(v)'
    BY DEF TasksWellFormed
  <2>1. CASE v = w
    BY <2>1 DEF TypeOK, TasksWellFormed, Finish
  <2>2. CASE v # w
    <3>1. ASSUME NEW k \in Ids, redemption[k] # None
          PROVE  /\ redemption'[k] # None
                 /\ redemption'[k].user = redemption[k].user
                 /\ redemption'[k].offer = redemption[k].offer
      BY <1>2, <1>3, <3>1, RowConstants DEF TypeOK, Redemption
    <3> QED BY <2>2, <3>1 DEF TypeOK, TasksWellFormed, Finish, HoldsOffer
  <2> QED BY <2>1, <2>2
<1>8. LocksHeld'
  BY FinishKeepsLocks
<1>9. ChecksStillHold'
  BY <1>1, <1>2, TaskFacts DEF TypeOK, TasksWellFormed, LocksHeld, ChecksStillHold, HoldsRow, HoldsOffer, Finish, Decisions
<1> QED BY <1>6, <1>7, <1>8, <1>9

LEMMA CommitEditType ==
  ASSUME NEW w \in Workers, NEW new \in OfferForms, Core, CommitEdit(w, new)
  PROVE  TypeOK'
<1> USE DEF Core, CommitEdit
<1>1. task[w].offer \in Rewards /\ new \in Offer
  BY TaskFacts, RowConstants
<1>2. supplied' \in [Rewards -> Nat]
  BY <1>1, LiveHoldsFinite DEF TypeOK, Offer
<1> QED BY <1>1, <1>2 DEF TypeOK, Instance, Steps, Finish, Freed

LEMMA CoreCommitEdit ==
  ASSUME NEW w \in Workers, NEW new \in OfferForms, Core, CommitEdit(w, new)
  PROVE  Core'
<1> USE RowConstants, WorkerConstants, TaskConstants DEF Core, CommitEdit, Finish, Freed, After, Advance, shop, locks
<1>1. TypeOK'
  BY CommitEditType
<1>2. TasksWellFormed'
  BY DEF TypeOK, Steps, Decisions, Task, Ops, Instance, TasksWellFormed, StepsOf, HoldsOffer
<1>3. LocksHeld'
  BY DEF TypeOK, Steps, Decisions, Task, Ops, Instance, TasksWellFormed, LocksHeld, HoldsUser, HoldsRow, HoldsOffer
<1>4. ChecksStillHold'
  BY DEF TypeOK, Steps, Decisions, Task, Ops, Instance, TasksWellFormed, LocksHeld, ChecksStillHold, HoldsRow, HoldsOffer
<1> QED BY <1>1, <1>2, <1>3, <1>4

LEMMA CoreCommitPost ==
  ASSUME NEW w \in Workers, Core, CommitPost(w)
  PROVE  Core'
<1> USE RowConstants, WorkerConstants, TaskConstants DEF Core, CommitPost, Finish, Freed, After, Advance, shop, locks
<1>1. TypeOK'
  BY DEF TypeOK, Instance, Steps, Task, Ops, Decisions, TasksWellFormed, StepsOf
<1>2. TasksWellFormed'
  BY DEF TypeOK, Steps, Decisions, Task, Ops, Instance, TasksWellFormed, StepsOf, HoldsOffer
<1>3. LocksHeld'
  BY DEF TypeOK, Steps, Decisions, Task, Ops, Instance, TasksWellFormed, LocksHeld, HoldsUser, HoldsRow, HoldsOffer
<1>4. ChecksStillHold'
  BY DEF TypeOK, Steps, Decisions, Task, Ops, Instance, TasksWellFormed, LocksHeld, ChecksStillHold, HoldsRow, HoldsOffer
<1> QED BY <1>1, <1>2, <1>3, <1>4

LEMMA CoreRefuse ==
  ASSUME NEW w \in Workers, Core, Refuse(w)
  PROVE  Core'
<1> USE RowConstants, WorkerConstants, TaskConstants DEF Core, Refuse, Finish, Freed, After, Advance, shop, locks
<1>1. TypeOK'
  BY DEF TypeOK, Instance, Steps, Task, Ops, Decisions, TasksWellFormed, StepsOf
<1>2. TasksWellFormed'
  BY DEF TypeOK, Steps, Decisions, Task, Ops, Instance, TasksWellFormed, StepsOf, HoldsOffer
<1>3. LocksHeld'
  BY DEF TypeOK, Steps, Decisions, Task, Ops, Instance, TasksWellFormed, LocksHeld, HoldsUser, HoldsRow, HoldsOffer
<1>4. ChecksStillHold'
  BY DEF TypeOK, Steps, Decisions, Task, Ops, Instance, TasksWellFormed, LocksHeld, ChecksStillHold, HoldsRow, HoldsOffer
<1> QED BY <1>1, <1>2, <1>3, <1>4

LEMMA CoreCrash ==
  ASSUME NEW w \in Workers, Core, Crash(w)
  PROVE  Core'
<1> USE RowConstants, WorkerConstants, TaskConstants DEF Core, Crash, Finish, Freed, After, Advance, shop, locks
<1>1. TypeOK'
  BY DEF TypeOK, Instance, Steps, Task, Ops, Decisions, TasksWellFormed, StepsOf
<1>2. TasksWellFormed'
  BY DEF TypeOK, Steps, Decisions, Task, Ops, Instance, TasksWellFormed, StepsOf, HoldsOffer
<1>3. LocksHeld'
  BY DEF TypeOK, Steps, Decisions, Task, Ops, Instance, TasksWellFormed, LocksHeld, HoldsUser, HoldsRow, HoldsOffer
<1>4. ChecksStillHold'
  BY DEF TypeOK, Steps, Decisions, Task, Ops, Instance, TasksWellFormed, LocksHeld, ChecksStillHold, HoldsRow, HoldsOffer
<1> QED BY <1>1, <1>2, <1>3, <1>4

LEMMA CoreAward ==
  ASSUME NEW u \in Children, NEW a \in Coins, Core, Award(u, a)
  PROVE  Core'
BY RowConstants DEF Core, Award, TypeOK, TasksWellFormed, LocksHeld, ChecksStillHold, HoldsUser, HoldsRow, HoldsOffer, locks, local

LEMMA CoreStep == Core /\ [Next]_vars => Core'
<1> SUFFICES ASSUME Core, [Next]_vars PROVE Core'
  OBVIOUS
<1>1. ASSUME NEW w \in Workers, Begin(w) PROVE Core'
  BY <1>1, CoreBeginRedeem, CoreBeginDecision, CoreBeginEdit, CoreBeginSpend, CoreBeginAdjust DEF Begin
<1>2. ASSUME NEW w \in Workers, Lock(w) PROVE Core'
  BY <1>2, CoreLockUser, CoreLockDecision, CoreLockOffer DEF Lock
<1>3. ASSUME NEW w \in Workers, Proceed(w) PROVE Core'
  BY <1>3, CoreCheckOffer, CoreCheckWallet, CoreCommitRedeem, CoreCommitApprove,
     CoreCommitDeliver, CoreCommitReject, CoreCommitEdit, CoreCommitPost, CoreRefuse DEF Proceed
<1>4. CASE UNCHANGED vars
  BY <1>4 DEF vars, shop, locks, local, Core, TypeOK, TasksWellFormed, LocksHeld,
              ChecksStillHold, HoldsUser, HoldsRow, HoldsOffer
<1> QED BY <1>1, <1>2, <1>3, <1>4, CoreCrash, CoreAward DEF Next

-----------------------------------------------------------------------------
(* Each promise is settled once.                                           *)

\* What a parent's request knows once it holds the row: the row as it is.
LEMMA DecisionFacts ==
  ASSUME NEW w \in Workers, Core, HoldsRow(w)
  PROVE  /\ task[w].op \in Decisions /\ task[w].id \in Ids
         /\ seenRow[w] = redemption[task[w].id]
         /\ seenRow[w] \in Redemption /\ seenRow[w] # None
         /\ seenRow[w].offer = task[w].offer /\ seenRow[w].offer \in Rewards
         /\ seenRow[w].user = task[w].user /\ seenRow[w].user \in Children
         /\ pc[w] = "post" /\ task[w].op = "reject" => seenRow[w].status = "pending"
<1>1. pc[w] # "idle" /\ task[w].op \in Decisions
  BY DEF HoldsRow
<1>2. task[w].op \notin {"edit", "spend", "adjust"}
  BY <1>1 DEF Decisions
<1> QED BY <1>1, <1>2, TaskFacts, RowConstants DEF Core, ChecksStillHold

\* A decision changes the status of a row and nothing else of it.
LEMMA DecidedRow ==
  ASSUME NEW row \in Redemption, NEW s \in Statuses
  PROVE  /\ [row EXCEPT !.status = s] \in Redemption
         /\ [row EXCEPT !.status = s] # None
         /\ [row EXCEPT !.status = s].status = s
         /\ [row EXCEPT !.status = s].user = row.user
         /\ [row EXCEPT !.status = s].offer = row.offer
         /\ [row EXCEPT !.status = s].cost = row.cost
         /\ [row EXCEPT !.status = s].kind = row.kind
         /\ [row EXCEPT !.status = s].reserved = row.reserved
BY RowConstants DEF Redemption

LEMMA SettledInit == Init => SettledOnce
BY RowConstants, LegacyConstants DEF Init, Promise!PromiseInit, SettledOnce

\* Only commits change rows, and each changes one row it holds the lock of.
LEMMA SettledStep == Core /\ SettledOnce /\ [Next]_vars => SettledOnce'
<1> SUFFICES ASSUME Core, SettledOnce, [Next]_vars PROVE SettledOnce'
  OBVIOUS
<1> USE RowConstants DEF SettledOnce
<1>1. ASSUME NEW w \in Workers, NEW i \in Ids, CommitRedeem(w, i) PROVE SettledOnce'
  <2> DEFINE row == NewRedemption(task[w].user, task[w].offer, seenOffer[w])
  <2>1. row \in Redemption /\ row.status # "denied"
    BY <1>1, TaskFacts, NewRedemptionType
       DEF CommitRedeem, HoldsOffer, NewRedemption, ApprovedStatus
  <2>2. row.cost \in Nat /\ row # None /\ (row.status # "pending" => row.status \in {"approved", "fulfilled"})
    BY <2>1 DEF Redemption, Statuses
  <2>3. /\ redemption' = [redemption EXCEPT ![i] = row]
        /\ charged' = [charged EXCEPT ![i] = row.cost]
        /\ granted' = [granted EXCEPT ![i] = @ + (IF row.status = "pending" THEN 0 ELSE ItemsOwed(row))]
        /\ redemption[i] = None
    BY <1>1 DEF CommitRedeem
  <2> HIDE DEF row
  <2> QED BY <2>1, <2>2, <2>3 DEF Core, TypeOK, ItemsOwed
<1>2. ASSUME NEW w \in Workers, CommitApprove(w) PROVE SettledOnce'
  <2>0. HoldsRow(w)
    BY <1>2 DEF CommitApprove, HoldsRow, Decisions
  <2>1. /\ task[w].id \in Ids /\ seenRow[w] = redemption[task[w].id]
        /\ seenRow[w] \in Redemption /\ seenRow[w] # None
    BY <2>0, DecisionFacts
  <2> DEFINE i == task[w].id
             new == [redemption[i] EXCEPT !.status = ApprovedStatus(redemption[i].kind)]
  <2>2. /\ new # None /\ new.cost = redemption[i].cost /\ ItemsOwed(new) = ItemsOwed(redemption[i])
        /\ new.status \in {"approved", "fulfilled"}
    BY <2>1, DecidedRow DEF ApprovedStatus, ItemsOwed, Redemption, Statuses
  <2>3. /\ redemption' = [redemption EXCEPT ![i] = new] /\ UNCHANGED charged
        /\ granted' = [granted EXCEPT ![i] = @ + ItemsOwed(redemption[i])]
        /\ redemption[i].status = "pending"
    BY <1>2, <2>1 DEF CommitApprove
  <2>4. ItemsOwed(redemption[i]) \in Nat
    BY DEF ItemsOwed
  <2> HIDE DEF i, new
  <2> QED BY <2>1, <2>2, <2>3, <2>4 DEF Core, TypeOK, i
<1>3. ASSUME NEW w \in Workers, CommitDeliver(w) PROVE SettledOnce'
  <2>0. HoldsRow(w)
    BY <1>3 DEF CommitDeliver, HoldsRow, Decisions
  <2>1. /\ task[w].id \in Ids /\ seenRow[w] = redemption[task[w].id]
        /\ seenRow[w] \in Redemption /\ seenRow[w] # None
    BY <2>0, DecisionFacts
  <2> DEFINE i == task[w].id
             new == [redemption[i] EXCEPT !.status = "fulfilled"]
  <2>2. /\ new # None /\ new.cost = redemption[i].cost /\ ItemsOwed(new) = ItemsOwed(redemption[i])
        /\ new.status = "fulfilled"
    BY <2>1, DecidedRow DEF ItemsOwed, Redemption, Statuses
  <2>3. /\ redemption' = [redemption EXCEPT ![i] = new] /\ UNCHANGED <<charged, granted>>
        /\ redemption[i].status = "approved"
    BY <1>3, <2>1 DEF CommitDeliver, HandOver
  <2> HIDE DEF i, new
  <2> QED BY <2>1, <2>2, <2>3 DEF Core, TypeOK, i
<1>4. ASSUME NEW w \in Workers, CommitReject(w) PROVE SettledOnce'
  <2>1. /\ task[w].id \in Ids /\ seenRow[w] = redemption[task[w].id]
        /\ seenRow[w] \in Redemption /\ seenRow[w] # None /\ seenRow[w].status = "pending"
    BY <1>4, DecisionFacts DEF CommitReject, HoldsRow, Decisions
  <2> QED BY <1>4, <2>1 DEF CommitReject, Core, TypeOK, Redemption, Instance
<1>5. CASE UNCHANGED <<redemption, charged, granted>>
  BY <1>5
<1> QED BY <1>1, <1>2, <1>3, <1>4, <1>5
        DEF Next, Begin, Lock, Proceed, BeginRedeem, BeginDecision, BeginEdit, BeginSpend, BeginAdjust,
            LockUser, LockDecision, LockOffer, CheckOffer, CheckWallet, CommitEdit, CommitPost,
            Refuse, Crash, Award, shop, vars
-----------------------------------------------------------------------------
(* No unit of stock is sold twice or put back twice.                       *)

LEMMA StockInit == Init => StockAccounted
<1> SUFFICES ASSUME Init, NEW r \in Rewards, offer[r].stock # Unlimited
             PROVE  offer[r].stock + Cardinality(LiveHolds(r)) = supplied[r]
  BY DEF StockAccounted
<1> QED BY DEF Init

\* A decision that does not deny keeps every hold.
LEMMA HoldsKept ==
  ASSUME Core, NEW i \in Ids, redemption[i] # None, NEW s \in Statuses,
         redemption[i].status # "denied", s # "denied",
         redemption' = [redemption EXCEPT ![i].status = s]
  PROVE  \A r \in Rewards : LiveHolds(r)' = LiveHolds(r)
<1> DEFINE new == [redemption[i] EXCEPT !.status = s]
<1>1. redemption[i] \in Redemption /\ redemption' = [redemption EXCEPT ![i] = new]
  BY DEF Core, TypeOK, Instance
<1>2. /\ new # None /\ new.offer = redemption[i].offer
      /\ new.reserved = redemption[i].reserved /\ new.status = s
  BY <1>1, DecidedRow
<1> HIDE DEF new
<1> QED BY <1>1, <1>2 DEF LiveHolds, Core, TypeOK

LEMMA StockRedeem ==
  ASSUME Core, StockAccounted, NEW w \in Workers, NEW i \in Ids, CommitRedeem(w, i)
  PROVE  StockAccounted'
<1> DEFINE o == task[w].offer
           row == NewRedemption(task[w].user, o, seenOffer[w])
<1>1. pc[w] = "post" /\ task[w].op = "redeem"
  BY DEF CommitRedeem
<1>2. /\ o \in Rewards /\ offer[o] \in Offer /\ seenOffer[w] = offer[o]
  BY <1>1, TaskFacts DEF Core, TypeOK, ChecksStillHold, HoldsOffer
<1>3. /\ row # None /\ row.offer = o /\ row.status # "denied"
      /\ row.reserved = (offer[o].stock # Unlimited)
  <2>1. row \in Redemption
    BY <1>1, <1>2, TaskFacts, NewRedemptionType
  <2> QED BY <1>2, <2>1, RowConstants DEF NewRedemption, ApprovedStatus
<1>4. /\ redemption[i] = None /\ redemption' = [redemption EXCEPT ![i] = row]
      /\ offer' = [offer EXCEPT ![o] = TakeOne(offer[o])] /\ supplied' = supplied
  BY DEF CommitRedeem
<1> HIDE DEF o, row
<1> SUFFICES ASSUME NEW r \in Rewards, offer'[r].stock # Unlimited
             PROVE  offer'[r].stock + Cardinality(LiveHolds(r)') = supplied'[r]
  BY DEF StockAccounted
<1>5. CASE r # o
  <2>1. LiveHolds(r)' = LiveHolds(r)
    BY <1>3, <1>4, <1>5 DEF LiveHolds, Core, TypeOK
  <2> QED BY <1>4, <1>5, <2>1 DEF StockAccounted, Core, TypeOK
<1>6. CASE r = o
  <2>1. offer[r].stock \in Nat /\ offer'[r].stock = offer[r].stock - 1 /\ row.reserved
    BY <1>2, <1>3, <1>4, <1>6, RowConstants DEF TakeOne, Offer, Core, TypeOK
  <2>2. LiveHolds(r)' = LiveHolds(r) \cup {i} /\ i \notin LiveHolds(r)
    BY <1>3, <1>4, <1>6, <2>1 DEF LiveHolds, Core, TypeOK
  <2>3. Cardinality(LiveHolds(r)') = Cardinality(LiveHolds(r)) + 1
    BY <2>2, LiveHoldsFinite, FS_AddElement
  <2>4. offer[r].stock + Cardinality(LiveHolds(r)) = supplied[r]
    BY <2>1, RowConstants DEF StockAccounted
  <2> QED BY <1>4, <2>1, <2>3, <2>4, LiveHoldsFinite
<1> QED BY <1>5, <1>6

LEMMA StockReject ==
  ASSUME Core, StockAccounted, NEW w \in Workers, CommitReject(w)
  PROVE  StockAccounted'
<1> DEFINE i == task[w].id
           row == redemption[i]
           new == [row EXCEPT !.status = "denied"]
<1>1. HoldsRow(w) /\ pc[w] = "post" /\ task[w].op = "reject"
  BY DEF CommitReject, HoldsRow, Decisions
<1>2. /\ i \in Ids /\ row \in Redemption /\ row # None /\ row.status = "pending"
      /\ row.offer \in Rewards /\ seenRow[w] = row
  BY <1>1, DecisionFacts
<1>3. new # None /\ new.status = "denied"
  BY <1>2, DecidedRow DEF Statuses
<1>4. /\ redemption' = [redemption EXCEPT ![i] = new]
      /\ offer' = [offer EXCEPT ![row.offer] = PutBack(offer[row.offer], row)]
      /\ supplied' = supplied
  BY <1>2 DEF CommitReject
<1>5. row.reserved \in BOOLEAN
  BY <1>2 DEF Redemption
<1>6. row = redemption[i]
  OBVIOUS
<1> HIDE DEF i, row, new
<1> SUFFICES ASSUME NEW r \in Rewards, offer'[r].stock # Unlimited
             PROVE  offer'[r].stock + Cardinality(LiveHolds(r)') = supplied'[r]
  BY DEF StockAccounted
<1>7. CASE r # row.offer \/ ~row.reserved
  <2>1. LiveHolds(r)' = LiveHolds(r)
    BY <1>2, <1>3, <1>4, <1>6, <1>7 DEF LiveHolds, Core, TypeOK
  <2>2. offer'[r] = offer[r]
    BY <1>2, <1>4, <1>7 DEF PutBack, Core, TypeOK
  <2> QED BY <1>4, <2>1, <2>2 DEF StockAccounted
<1>8. CASE r = row.offer /\ row.reserved
  <2>1. offer[r].stock \in Nat /\ offer'[r].stock = offer[r].stock + 1
    BY <1>2, <1>4, <1>8, RowConstants DEF PutBack, Offer, Core, TypeOK
  <2>2. LiveHolds(r)' = LiveHolds(r) \ {i} /\ i \in LiveHolds(r)
    BY <1>2, <1>3, <1>4, <1>6, <1>8 DEF LiveHolds, Core, TypeOK
  <2>3. Cardinality(LiveHolds(r)') = Cardinality(LiveHolds(r)) - 1
    BY <2>2, LiveHoldsFinite, FS_RemoveElement
  <2>4. offer[r].stock + Cardinality(LiveHolds(r)) = supplied[r]
    BY <2>1, RowConstants DEF StockAccounted
  <2> QED BY <1>4, <2>1, <2>3, <2>4, LiveHoldsFinite
<1> QED BY <1>5, <1>7, <1>8

LEMMA StockEdit ==
  ASSUME Core, StockAccounted, NEW w \in Workers, NEW new \in OfferForms, CommitEdit(w, new)
  PROVE  StockAccounted'
<1>1. \A r \in Rewards : LiveHolds(r)' = LiveHolds(r)
  BY DEF CommitEdit, LiveHolds
<1>2. task[w].offer \in Rewards
  BY TaskFacts DEF CommitEdit
<1> SUFFICES ASSUME NEW r \in Rewards, offer'[r].stock # Unlimited
             PROVE  offer'[r].stock + Cardinality(LiveHolds(r)') = supplied'[r]
  BY DEF StockAccounted
<1>3. CASE r = task[w].offer
  BY <1>1, <1>2, <1>3 DEF CommitEdit, Core, TypeOK
<1>4. CASE r # task[w].offer
  BY <1>1, <1>2, <1>4 DEF CommitEdit, Core, TypeOK, StockAccounted
<1> QED BY <1>3, <1>4

LEMMA StockStep == Core /\ StockAccounted /\ [Next]_vars => StockAccounted'
<1> SUFFICES ASSUME Core, StockAccounted, [Next]_vars PROVE StockAccounted'
  OBVIOUS
<1>1. ASSUME NEW w \in Workers, CommitApprove(w) \/ CommitDeliver(w) PROVE StockAccounted'
  <2> DEFINE i == task[w].id
  <2>1. HoldsRow(w)
    BY <1>1 DEF CommitApprove, CommitDeliver, HoldsRow, Decisions
  <2>2. i \in Ids /\ redemption[i] # None /\ seenRow[w] = redemption[i]
    BY <2>1, DecisionFacts
  <2>3. /\ redemption[i].status # "denied" /\ UNCHANGED <<offer, supplied>>
        /\ \E s \in Statuses \ {"denied"} : redemption' = [redemption EXCEPT ![i].status = s]
    BY <1>1, <2>2 DEF CommitApprove, CommitDeliver, HandOver, ApprovedStatus, Statuses
  <2>4. \A r \in Rewards : LiveHolds(r)' = LiveHolds(r)
    BY <2>2, <2>3, HoldsKept
  <2> QED BY <2>3, <2>4 DEF StockAccounted
<1>2. CASE UNCHANGED <<redemption, offer, supplied>>
  BY <1>2 DEF StockAccounted, LiveHolds
<1> QED BY <1>1, <1>2, StockRedeem, StockReject, StockEdit
        DEF Next, Begin, Lock, Proceed, BeginRedeem, BeginDecision, BeginEdit, BeginSpend, BeginAdjust,
            LockUser, LockDecision, LockOffer, CheckOffer, CheckWallet, CommitPost,
            Refuse, Crash, Award, shop, vars

-----------------------------------------------------------------------------
(* No wallet is overdrawn, when the REST form only grants.                 *)

Wallet == NeverOverdrawn /\ WalletStillCovers

\* A worker that is about to post a debit holds the child, and its price is
\* known.
LEMMA PayerFacts ==
  ASSUME NEW w \in Workers, Core, pc[w] = "post", task[w].op \in {"redeem", "spend"}
  PROVE  /\ task[w].user \in Children /\ userLock[task[w].user] = w
         /\ Price(w) \in Nat
         /\ balance[task[w].user] \in Int
<1>1. HoldsUser(w) /\ (task[w].op = "redeem" => HoldsOffer(w))
  BY DEF HoldsUser, HoldsOffer
<1>2. /\ task[w].user \in Children
      /\ task[w].op = "redeem" => seenOffer[w] \in Offer
      /\ task[w].op = "spend" => task[w].amount \in Coins
  BY <1>1, TaskFacts DEF Core, TasksWellFormed
<1>3. Price(w) \in Nat
  BY <1>2, RowConstants DEF Price, Offer
<1> QED BY <1>1, <1>2, <1>3 DEF Core, LocksHeld, TypeOK

\* Coins that arrive break no check.
LEMMA WalletGrows ==
  ASSUME Core, Wallet, NEW u \in Children, NEW c \in Nat,
         balance' = [balance EXCEPT ![u] = @ + c],
         \A v \in Workers : pc'[v] = "post" /\ task'[v].op \in {"redeem", "spend"} =>
            pc'[v] = pc[v] /\ task'[v] = task[v] /\ seenOffer'[v] = seenOffer[v]
  PROVE  Wallet'
<1>1. \A x \in Children : balance'[x] \in Int /\ balance[x] \in Int /\ balance'[x] >= balance[x]
  BY DEF Core, TypeOK
<1>2. NeverOverdrawn'
  BY <1>1 DEF NeverOverdrawn, Wallet
<1>3. ASSUME NEW v \in Workers, pc'[v] = "post", task'[v].op \in {"redeem", "spend"}
      PROVE  CanPay(v)'
  <2>1. pc[v] = "post" /\ task[v].op \in {"redeem", "spend"} /\ CanPay(v)
    BY <1>3 DEF Wallet, WalletStillCovers
  <2>2. Price(v)' = Price(v) /\ task'[v] = task[v]
    BY <1>3 DEF Price
  <2>3. task[v].user \in Children /\ Price(v) \in Nat
    BY <2>1, PayerFacts
  <2> QED BY <1>1, <2>1, <2>2, <2>3 DEF CanPay
<1> QED BY <1>2, <1>3 DEF Wallet, WalletStillCovers

\* A step that moves no coins: at most one worker advances, and only the check of
\* the wallet lets it post a debit.
LEMMA WalletLocal ==
  ASSUME Core, Wallet, balance' = balance,
         \A v \in Workers : pc'[v] = "post" /\ task'[v].op \in {"redeem", "spend"} =>
            \/ pc'[v] = pc[v] /\ task'[v] = task[v] /\ seenOffer'[v] = seenOffer[v]
            \/ CanPay(v)'
  PROVE  Wallet'
<1>1. ASSUME NEW v \in Workers, pc'[v] = "post", task'[v].op \in {"redeem", "spend"}
      PROVE  CanPay(v)'
  BY <1>1 DEF Wallet, WalletStillCovers, CanPay, Price
<1> QED BY <1>1 DEF Wallet, WalletStillCovers, NeverOverdrawn

\* A debit is posted by the only worker that can post one for that child.
LEMMA WalletDebit ==
  ASSUME Core, Wallet, NEW w \in Workers, pc[w] = "post", task[w].op \in {"redeem", "spend"},
         balance' = [balance EXCEPT ![task[w].user] = @ - Price(w)],
         Finish(w)
  PROVE  Wallet'
<1> DEFINE u == task[w].user
<1>1. u \in Children /\ userLock[u] = w /\ Price(w) \in Nat /\ balance[u] \in Int
  BY PayerFacts
<1>2. Price(w) = 0 \/ Price(w) <= balance[u]
  BY DEF Wallet, WalletStillCovers, CanPay
<1>3. balance \in [Children -> Int]
  BY DEF Core, TypeOK
<1>4. NeverOverdrawn'
  BY <1>1, <1>2, <1>3 DEF NeverOverdrawn, Wallet
<1>5. ASSUME NEW v \in Workers, pc'[v] = "post", task'[v].op \in {"redeem", "spend"}
      PROVE  CanPay(v)'
  <2>1. v # w /\ pc'[v] = pc[v] /\ task'[v] = task[v] /\ seenOffer'[v] = seenOffer[v]
    BY <1>5 DEF Finish, Core, TypeOK, Steps
  <2>2. pc[v] = "post" /\ task[v].op \in {"redeem", "spend"} /\ CanPay(v)
    BY <1>5, <2>1 DEF Wallet, WalletStillCovers
  <2>3. task[v].user \in Children /\ userLock[task[v].user] = v
    BY <2>2, PayerFacts
  <2>4. balance'[task[v].user] = balance[task[v].user]
    BY <1>1, <1>3, <2>1, <2>3
  <2> QED BY <2>1, <2>2, <2>4 DEF CanPay, Price
<1> QED BY <1>4, <1>5 DEF Wallet, WalletStillCovers

LEMMA GrantsAreCoins ==
  ASSUME NoDeductions
  PROVE  Adjustments \subseteq Coins
<1> SUFFICES ASSUME NEW a \in Adjustments, a \notin Coins PROVE FALSE
  OBVIOUS
<1>1. PICK c \in Coins : a = -c
  BY WorkerConstants
<1>2. c \in Nat /\ c > 0 /\ a > 0
  BY RowConstants DEF NoDeductions
<1> QED BY <1>1, <1>2

LEMMA WalletStep ==
  ASSUME NoDeductions, Core, Wallet, [Next]_vars
  PROVE  Wallet'
<1>1. ASSUME NEW w \in Workers, Begin(w) \/ Lock(w) \/ CheckOffer(w) PROVE Wallet'
  <2>1. balance' = balance /\ \A v \in Workers \ {w} :
           pc'[v] = pc[v] /\ task'[v] = task[v] /\ seenOffer'[v] = seenOffer[v]
    BY <1>1 DEF Begin, Lock, BeginRedeem, BeginDecision, BeginEdit, BeginSpend, BeginAdjust, Start,
        LockUser, LockDecision, LockOffer, CheckOffer, Advance, shop, Core, TypeOK
  <2>2. ~(pc'[w] = "post" /\ task'[w].op \in {"redeem", "spend"})
    <3>1. CASE Begin(w)
      BY <3>1 DEF Begin, BeginRedeem, BeginDecision, BeginEdit, BeginSpend, BeginAdjust, Start,
         After, Core, TypeOK, Decisions
    <3>2. CASE Lock(w) \/ CheckOffer(w)
      <4>1. pc[w] # "idle" /\ pc[w] \in StepsOf(task[w].op)
        BY <3>2, TaskFacts DEF Lock, LockUser, LockDecision, LockOffer, CheckOffer
      <4> QED BY <3>2, <4>1 DEF Lock, LockUser, LockDecision, LockOffer, CheckOffer, Advance, After,
         StepsOf, Core, TypeOK
    <3> QED BY <1>1, <3>1, <3>2
  <2> QED BY <2>1, <2>2, WalletLocal
<1>2. ASSUME NEW w \in Workers, CheckWallet(w) PROVE Wallet'
  <2>1. CanPay(w)'
    BY <1>2 DEF CheckWallet, CanPay, Price, shop
  <2> QED BY <1>2, <2>1, WalletLocal DEF CheckWallet, Advance, shop, Core, TypeOK
<1>3. ASSUME NEW w \in Workers, Finish(w), balance' = balance PROVE Wallet'
  BY <1>3, WalletLocal DEF Finish, Core, TypeOK
<1>4. ASSUME NEW w \in Workers, NEW i \in Ids, CommitRedeem(w, i) PROVE Wallet'
  BY <1>4, WalletDebit DEF CommitRedeem, NewRedemption, Price
<1>5. ASSUME NEW w \in Workers, CommitReject(w) PROVE Wallet'
  <2>1. HoldsRow(w)
    BY <1>5 DEF CommitReject, HoldsRow, Decisions
  <2>2. seenRow[w].user \in Children /\ seenRow[w].cost \in Nat
    BY <2>1, DecisionFacts DEF Redemption
  <2>3. /\ balance' = [balance EXCEPT ![seenRow[w].user] = @ + seenRow[w].cost]
        /\ \A v \in Workers : pc'[v] = "post" =>
             pc'[v] = pc[v] /\ task'[v] = task[v] /\ seenOffer'[v] = seenOffer[v]
    BY <1>5 DEF CommitReject, Finish, Core, TypeOK
  <2> QED BY <2>2, <2>3, WalletGrows
<1>6. ASSUME NEW w \in Workers, CommitPost(w) PROVE Wallet'
  <2>1. CASE task[w].op = "spend"
    BY <1>6, <2>1, WalletDebit DEF CommitPost, Price
  <2>2. CASE task[w].op = "adjust"
    <3>1. task[w].user \in Children /\ task[w].amount \in Adjustments
      BY <1>6, <2>2, TaskFacts DEF CommitPost, Core, TasksWellFormed
    <3>2. task[w].amount \in Nat
      BY <3>1, GrantsAreCoins, RowConstants
    <3>3. /\ balance' = [balance EXCEPT ![task[w].user] = @ + task[w].amount]
          /\ \A v \in Workers : pc'[v] = "post" =>
               pc'[v] = pc[v] /\ task'[v] = task[v] /\ seenOffer'[v] = seenOffer[v]
      BY <1>6, <2>2 DEF CommitPost, Finish, Core, TypeOK
    <3> QED BY <3>1, <3>2, <3>3, WalletGrows
  <2> QED BY <1>6, <2>1, <2>2 DEF CommitPost
<1>7. ASSUME NEW u \in Children, NEW a \in Coins, Award(u, a) PROVE Wallet'
  <2>1. a \in Nat
    BY RowConstants
  <2> QED BY <1>7, <2>1, WalletGrows DEF Award, local
<1>8. CASE UNCHANGED vars
  BY <1>8, WalletLocal DEF vars, shop, local
<1> QED BY <1>1, <1>2, <1>3, <1>4, <1>5, <1>6, <1>7, <1>8
        DEF Next, Proceed, CommitApprove, CommitDeliver, CommitEdit, Refuse, Crash, shop

-----------------------------------------------------------------------------
(* Locks and who waits for them.                                           *)

\* A step of w that moves only w keeps every lock with its owner, if w keeps
\* those it had and takes its new ones from nobody.
LEMMA OwnersKept ==
  ASSUME Core, LocksOwned, NEW w \in Workers,
         \A v \in Workers \ {w} : pc'[v] = pc[v] /\ task'[v] = task[v],
         \A u \in Children :
            \/ userLock'[u] = userLock[u] /\ userLock[u] # w
            \/ userLock'[u] = None
            \/ userLock'[u] = w /\ HoldsUser(w)' /\ task'[w].user = u,
         \A i \in Ids :
            \/ rowLock'[i] = rowLock[i] /\ rowLock[i] # w
            \/ rowLock'[i] = None
            \/ rowLock'[i] = w /\ HoldsRow(w)' /\ task'[w].id = i,
         \A r \in Rewards :
            \/ offerLock'[r] = offerLock[r] /\ offerLock[r] # w
            \/ offerLock'[r] = None
            \/ offerLock'[r] = w /\ HoldsOffer(w)' /\ task'[w].offer = r
  PROVE  LocksOwned'
<1>1. /\ \A u \in Children : userLock[u] \in Workers \cup {None}
      /\ \A i \in Ids : rowLock[i] \in Workers \cup {None}
      /\ \A r \in Rewards : offerLock[r] \in Workers \cup {None}
  BY DEF Core, TypeOK, Instance
<1>2. /\ \A v \in Workers \ {w} : HoldsUser(v)' <=> HoldsUser(v)
      /\ \A v \in Workers \ {w} : HoldsRow(v)' <=> HoldsRow(v)
      /\ \A v \in Workers \ {w} : HoldsOffer(v)' <=> HoldsOffer(v)
  BY DEF HoldsUser, HoldsRow, HoldsOffer
<1>3. ASSUME NEW u \in Children, NEW v, userLock'[u] = v, v # None
      PROVE  HoldsUser(v)' /\ task'[v].user = u
  BY <1>1, <1>2, <1>3 DEF LocksOwned
<1>4. ASSUME NEW i \in Ids, NEW v, rowLock'[i] = v, v # None
      PROVE  HoldsRow(v)' /\ task'[v].id = i
  BY <1>1, <1>2, <1>4 DEF LocksOwned
<1>5. ASSUME NEW r \in Rewards, NEW v, offerLock'[r] = v, v # None
      PROVE  HoldsOffer(v)' /\ task'[v].offer = r
  BY <1>1, <1>2, <1>5 DEF LocksOwned
<1> QED BY <1>3, <1>4, <1>5 DEF LocksOwned

\* The end of a transaction gives back all that it held.
LEMMA OwnersFinish ==
  ASSUME Core, LocksOwned, NEW w \in Workers, Finish(w)
  PROVE  LocksOwned'
<1>1. \A v \in Workers \ {w} : pc'[v] = pc[v] /\ task'[v] = task[v]
  BY DEF Core, TypeOK, Finish
<1>2. /\ \A u \in Children : userLock'[u] = IF userLock[u] = w THEN None ELSE userLock[u]
      /\ \A i \in Ids : rowLock'[i] = IF rowLock[i] = w THEN None ELSE rowLock[i]
      /\ \A r \in Rewards : offerLock'[r] = IF offerLock[r] = w THEN None ELSE offerLock[r]
  BY DEF Core, TypeOK, Finish, Freed
<1> QED BY <1>1, <1>2, OwnersKept

\* A request that starts holds nothing.
LEMMA OwnersStart ==
  ASSUME Core, LocksOwned, NEW w \in Workers, NEW t, Start(w, t), UNCHANGED locks
  PROVE  LocksOwned'
<1>1. \A v \in Workers \ {w} : pc'[v] = pc[v] /\ task'[v] = task[v]
  BY DEF Core, TypeOK, Start
<1>2. ~HoldsUser(w) /\ ~HoldsRow(w) /\ ~HoldsOffer(w)
  BY DEF Start, HoldsUser, HoldsRow, HoldsOffer
<1>3. /\ \A u \in Children : userLock[u] # w
      /\ \A i \in Ids : rowLock[i] # w
      /\ \A r \in Rewards : offerLock[r] # w
  BY <1>2, WorkerConstants DEF LocksOwned
<1> QED BY <1>1, <1>3, OwnersKept DEF locks

\* The steps inside a transaction follow the route that After gives.
LEMMA OwnersAdvance ==
  ASSUME Core, LocksOwned, NEW w \in Workers,
         LockUser(w) \/ LockDecision(w) \/ LockOffer(w) \/ CheckOffer(w) \/ CheckWallet(w)
  PROVE  LocksOwned'
<1>1. /\ pc[w] # "idle"
      /\ pc[w] \in Steps
      /\ task' = task
      /\ pc'[w] = After(task[w].op, pc[w])
      /\ \A v \in Workers \ {w} : pc'[v] = pc[v]
  BY DEF Core, TypeOK, Steps, LockUser, LockDecision, LockOffer, CheckOffer, CheckWallet, Advance
<1>2. task[w].op \in Ops /\ pc[w] \in StepsOf(task[w].op)
  BY <1>1, TaskFacts DEF Task
<1>3. /\ HoldsUser(w) => HoldsUser(w)'
      /\ HoldsRow(w) => HoldsRow(w)'
      /\ HoldsOffer(w) => HoldsOffer(w)'
  BY <1>1, <1>2 DEF HoldsUser, HoldsRow, HoldsOffer, After, StepsOf, Ops, Decisions,
     LockUser, LockDecision, LockOffer, CheckOffer, CheckWallet
<1>4. \A u \in Children : \/ userLock'[u] = userLock[u]
                          \/ userLock'[u] = w /\ HoldsUser(w)' /\ task'[w].user = u
  <2>1. CASE LockUser(w)
    <3>1. pc[w] = "user" /\ HoldsUser(w)'
      BY <1>1, <1>2, <2>1 DEF LockUser, HoldsUser, After, StepsOf, Ops, Decisions
    <3> QED BY <1>1, <2>1, <3>1 DEF LockUser, Core, TypeOK
  <2> QED BY <2>1 DEF LockDecision, LockOffer, CheckOffer, CheckWallet, locks
<1>5. \A i \in Ids : \/ rowLock'[i] = rowLock[i]
                     \/ rowLock'[i] = w /\ HoldsRow(w)' /\ task'[w].id = i
  <2>1. CASE LockDecision(w)
    <3>1. pc[w] = "decision" /\ HoldsRow(w)'
      BY <1>1, <1>2, <2>1 DEF LockDecision, HoldsRow, After, StepsOf, Ops, Decisions
    <3> QED BY <1>1, <2>1, <3>1 DEF LockDecision, Core, TypeOK
  <2> QED BY <2>1 DEF LockUser, LockOffer, CheckOffer, CheckWallet, locks
<1>6. \A r \in Rewards : \/ offerLock'[r] = offerLock[r]
                         \/ offerLock'[r] = w /\ HoldsOffer(w)' /\ task'[w].offer = r
  <2>1. CASE LockOffer(w)
    <3>1. HoldsOffer(w)'
      BY <1>1, <1>2, <2>1 DEF LockOffer, HoldsOffer, After, StepsOf, Ops, Decisions
    <3> QED BY <1>1, <2>1, <3>1 DEF LockOffer, Core, TypeOK
  <2> QED BY <2>1 DEF LockUser, LockDecision, CheckOffer, CheckWallet, locks
<1>7. /\ \A u \in Children : userLock[u] = w => HoldsUser(w) /\ task[w].user = u
      /\ \A i \in Ids : rowLock[i] = w => HoldsRow(w) /\ task[w].id = i
      /\ \A r \in Rewards : offerLock[r] = w => HoldsOffer(w) /\ task[w].offer = r
  BY WorkerConstants DEF LocksOwned
<1> QED BY <1>1, <1>3, <1>4, <1>5, <1>6, <1>7, OwnersKept

LEMMA OwnedInit == Init => LocksOwned
BY DEF Init, LocksOwned

LEMMA OwnedStep == Core /\ LocksOwned /\ [Next]_vars => LocksOwned'
<1> SUFFICES ASSUME Core, LocksOwned, [Next]_vars PROVE LocksOwned'
  OBVIOUS
<1>1. ASSUME NEW w \in Workers, Begin(w) PROVE LocksOwned'
  BY <1>1, OwnersStart DEF Begin, BeginRedeem, BeginDecision, BeginEdit, BeginSpend, BeginAdjust
<1>2. ASSUME NEW w \in Workers, Lock(w) \/ CheckOffer(w) \/ CheckWallet(w) PROVE LocksOwned'
  BY <1>2, OwnersAdvance DEF Lock
<1>3. ASSUME NEW w \in Workers, Finish(w) PROVE LocksOwned'
  BY <1>3, OwnersFinish
<1>4. ASSUME UNCHANGED <<locks, local>> PROVE LocksOwned'
  BY <1>4 DEF locks, local, LocksOwned, HoldsUser, HoldsRow, HoldsOffer
<1>5. ASSUME NEW w \in Workers, Proceed(w) PROVE LocksOwned'
  BY <1>2, <1>3, <1>5 DEF Proceed, CommitRedeem, CommitApprove, CommitDeliver, CommitReject,
     CommitEdit, CommitPost, Refuse
<1> QED BY <1>1, <1>2, <1>3, <1>4, <1>5 DEF Next, Crash, Award, vars

\* A worker that waits for an offer waits for one that waits for nothing, one
\* that waits for a decision for one past it, one that waits for a child for
\* one past that: among any workers the one that got furthest waits for none.
LEMMA NobodyWaitsInACircle == Core /\ LocksOwned => NoLockCycle
<1> SUFFICES ASSUME Core, LocksOwned, NEW waiting \in SUBSET Workers, waiting # {},
                    \A w \in waiting : \E v \in waiting : WaitsFor(w, v)
             PROVE  FALSE
  BY DEF NoLockCycle
<1> DEFINE AtOffer(w) == pc[w] = "offer" \/ (pc[w] = "decide" /\ task[w].op = "reject")
<1>1. \A w \in waiting : /\ pc[w] # "idle" /\ pc[w] \in StepsOf(task[w].op) /\ task[w].op \in Ops
                         /\ (pc[w] = "user" \/ pc[w] = "decision" \/ AtOffer(w))
  <2> SUFFICES ASSUME NEW w \in waiting
               PROVE  /\ pc[w] # "idle" /\ pc[w] \in StepsOf(task[w].op) /\ task[w].op \in Ops
                      /\ (pc[w] = "user" \/ pc[w] = "decision" \/ AtOffer(w))
    OBVIOUS
  <2>1. pc[w] = "user" \/ pc[w] = "decision" \/ AtOffer(w)
    BY DEF WaitsFor
  <2> QED BY <2>1, TaskFacts DEF Task
<1>2. ASSUME NEW w \in waiting, AtOffer(w) PROVE FALSE
  <2>1. PICK v \in waiting : WaitsFor(w, v)
    OBVIOUS
  <2>2. v # None /\ offerLock[task[w].offer] = v
    BY <1>2, <2>1, WorkerConstants DEF WaitsFor
  <2>3. task[w].offer \in Rewards
    BY <1>1, <1>2, TaskFacts DEF StepsOf, Ops
  <2>4. HoldsOffer(v)
    BY <2>2, <2>3 DEF LocksOwned
  <2> QED BY <1>1, <2>4 DEF HoldsOffer
<1>3. ASSUME NEW w \in waiting, pc[w] = "decision" PROVE FALSE
  <2>1. PICK v \in waiting : WaitsFor(w, v)
    OBVIOUS
  <2>2. v # None /\ rowLock[task[w].id] = v
    BY <1>3, <2>1, WorkerConstants DEF WaitsFor
  <2>3. task[w].id \in Ids
    BY <1>1, <1>3, TaskFacts DEF StepsOf, Ops, Decisions
  <2>4. HoldsRow(v)
    BY <2>2, <2>3 DEF LocksOwned
  <2> QED BY <1>1, <1>2, <2>4 DEF HoldsRow
<1>4. PICK w \in waiting : TRUE
  OBVIOUS
<1>5. PICK v \in waiting : WaitsFor(w, v)
  OBVIOUS
<1>6. pc[w] = "user" /\ v # None /\ userLock[task[w].user] = v
  BY <1>1, <1>2, <1>3, <1>5, WorkerConstants DEF WaitsFor
<1>7. task[w].user \in Children
  BY <1>1, <1>6, TaskFacts DEF StepsOf, Ops
<1>8. HoldsUser(v)
  BY <1>6, <1>7 DEF LocksOwned
<1> QED BY <1>1, <1>2, <1>3, <1>8 DEF HoldsUser

-----------------------------------------------------------------------------
(* The theorems.                                                           *)

LEMMA InductiveShop == Spec => [](Core /\ LocksOwned /\ SettledOnce /\ StockAccounted)
<1>1. Init => Core /\ LocksOwned /\ SettledOnce /\ StockAccounted
  BY CoreInit, OwnedInit, SettledInit, StockInit
<1>2. (Core /\ LocksOwned /\ SettledOnce /\ StockAccounted) /\ [Next]_vars
         => (Core /\ LocksOwned /\ SettledOnce /\ StockAccounted)'
  BY CoreStep, OwnedStep, SettledStep, StockStep
<1> QED BY <1>1, <1>2, PTL DEF Spec

\* Rows, locks and worker memory keep their types; in particular no interleaving
\* drives Reward.stock below zero, which the column would refuse.
THEOREM TypeCorrect == Spec => []TypeOK
<1>1. Core => TypeOK
  BY DEF Core
<1> QED BY <1>1, InductiveShop, PTL

\* The inductive invariant: with every lock held as the code takes it, what was
\* checked under a lock still holds at the write, each promise is settled once
\* and no unit of stock is sold or put back twice.
THEOREM ShopCorrect == Spec => []ShopInv
<1>1. Core /\ LocksOwned /\ SettledOnce /\ StockAccounted => ShopInv
  BY DEF Core, ShopInv
<1> QED BY <1>1, InductiveShop, PTL

\* A promise is refunded or delivered, never both and never twice.
THEOREM PromisesSettledOnce == Spec => []SettledOnce
BY InductiveShop, PTL

\* Shelf units and live holds always add up to what the parent supplied.
THEOREM StockConserved == Spec => []StockAccounted
BY InductiveShop, PTL

\* PostgreSQL never finds a deadlock among purchases, decisions, spends and
\* edits, however many run: in any set of workers that wait for a child, a
\* decision or an offer one waits for nobody in the set.
THEOREM LocksNeverCycle == Spec => []NoLockCycle
BY InductiveShop, NobodyWaitsInACircle, PTL

LEMMA InductiveWallet ==
  ASSUME NoDeductions
  PROVE  Spec => [](Core /\ SettledOnce /\ Wallet)
<1>1. Init => Wallet
  BY DEF Init, Promise!PromiseInit, Wallet, NeverOverdrawn, WalletStillCovers
<1>2. (Core /\ SettledOnce /\ Wallet) /\ [Next]_vars => (Core /\ SettledOnce /\ Wallet)'
  BY CoreStep, SettledStep, WalletStep
<1> QED BY <1>1, <1>2, CoreInit, SettledInit, PTL DEF Spec

\* When every adjustment in the REST form is a grant, no interleaving of awards,
\* purchases, spends and refunds takes a wallet below zero.  The assumption is
\* needed: see the run overdraft.
THEOREM WalletNeverOverdrawn ==
  ASSUME NoDeductions
  PROVE  Spec => []NeverOverdrawn
<1>1. Wallet => NeverOverdrawn
  BY DEF Wallet
<1> QED BY <1>1, InductiveWallet, PTL

-----------------------------------------------------------------------------
(* The workers implement the promise: each commit is one of its actions,   *)
(* and every other step is invisible to it.                                *)

LEMMA SameRules ==
  /\ \A u, r, o : Promise!NewRedemption(u, r, o) = NewRedemption(u, r, o)
  /\ \A o : Promise!Eligible(o) = Eligible(o) /\ Promise!TakeOne(o) = TakeOne(o)
  /\ \A row : /\ Promise!ItemsOwed(row) = ItemsOwed(row)
              /\ Promise!Creditable(row) = Creditable(row)
              /\ Promise!HandOver(row) = HandOver(row)
  /\ \A kind : Promise!ApprovedStatus(kind) = ApprovedStatus(kind)
  /\ \A o, row : Promise!PutBack(o, row) = PutBack(o, row)
BY DEF Promise!NewRedemption, NewRedemption, Promise!Eligible, Eligible, Promise!TakeOne, TakeOne,
       Promise!ItemsOwed, ItemsOwed, Promise!Creditable, Creditable, Promise!HandOver, HandOver,
       Promise!ApprovedStatus, ApprovedStatus, Promise!PutBack, PutBack,
       Promise!IsAvailable, IsAvailable

LEMMA RedeemPromise ==
  ASSUME Core, SettledOnce, Wallet, NEW w \in Workers, NEW i \in Ids, CommitRedeem(w, i)
  PROVE  Promise!Redeem(task[w].user, task[w].offer, i)
<1>1. pc[w] = "post" /\ task[w].op = "redeem" /\ redemption[i] = None
  BY DEF CommitRedeem
<1>2. /\ task[w].user \in Children /\ task[w].offer \in Rewards
      /\ seenOffer[w] = offer[task[w].offer] /\ Eligible(seenOffer[w])
  BY <1>1, TaskFacts DEF Core, ChecksStillHold, HoldsOffer
<1>3. Price(w) \in Nat /\ balance[task[w].user] \in Int /\ Price(w) <= balance[task[w].user]
  BY <1>1, <1>2, PayerFacts DEF Wallet, NeverOverdrawn, WalletStillCovers, CanPay
<1>4. Price(w) = seenOffer[w].cost
  BY <1>1 DEF Price
<1>5. granted[i] = 0
  BY <1>1 DEF SettledOnce
<1> DEFINE row == NewRedemption(task[w].user, task[w].offer, seenOffer[w])
<1>6. row.cost = seenOffer[w].cost
  BY DEF NewRedemption
<1>7. /\ redemption' = [redemption EXCEPT ![i] = row]
      /\ charged' = [charged EXCEPT ![i] = row.cost]
      /\ balance' = [balance EXCEPT ![task[w].user] = @ - row.cost]
      /\ offer' = [offer EXCEPT ![task[w].offer] = TakeOne(@)]
      /\ granted' = [granted EXCEPT ![i] = @ + (IF row.status = "pending" THEN 0 ELSE ItemsOwed(row))]
  BY DEF CommitRedeem
<1> HIDE DEF row
<1>8. granted' = [granted EXCEPT ![i] = IF row.status = "pending" THEN 0 ELSE ItemsOwed(row)]
  <2>1. granted[i] + (IF row.status = "pending" THEN 0 ELSE ItemsOwed(row))
           = (IF row.status = "pending" THEN 0 ELSE ItemsOwed(row))
    BY <1>5 DEF ItemsOwed
  <2> QED BY <1>7, <2>1
<1>9. row = Promise!NewRedemption(task[w].user, task[w].offer, offer[task[w].offer])
  BY <1>2, SameRules DEF row
<1> QED BY <1>1, <1>2, <1>3, <1>4, <1>6, <1>7, <1>8, <1>9, SameRules DEF Promise!Redeem

LEMMA DecisionPromise ==
  ASSUME Core, SettledOnce, NEW w \in Workers
  PROVE  /\ CommitApprove(w) => Promise!Approve(task[w].id)
         /\ CommitDeliver(w) => Promise!Deliver(task[w].id)
         /\ CommitReject(w) => Promise!Reject(task[w].id)
<1> DEFINE i == task[w].id
<1>1. ASSUME HoldsRow(w)
      PROVE  /\ i \in Ids /\ seenRow[w] = redemption[i] /\ redemption[i] # None
             /\ charged[i] = IF redemption[i].status = "denied" THEN 0 ELSE redemption[i].cost
             /\ redemption[i].status = "pending" => granted[i] = 0
             /\ redemption[i].cost \in Nat
             /\ pc[w] = "post" /\ task[w].op = "reject" => redemption[i].status = "pending"
  BY <1>1, DecisionFacts DEF SettledOnce, Redemption
<1>2. \A row : 0 + ItemsOwed(row) = ItemsOwed(row)
  BY DEF ItemsOwed
<1>3. ASSUME CommitApprove(w) PROVE Promise!Approve(i)
  <2>1. HoldsRow(w)
    BY <1>3 DEF CommitApprove, HoldsRow, Decisions
  <2> QED BY <1>1, <1>2, <1>3, <2>1, SameRules DEF CommitApprove, Promise!Approve
<1>4. ASSUME CommitDeliver(w) PROVE Promise!Deliver(i)
  <2>1. HoldsRow(w)
    BY <1>4 DEF CommitDeliver, HoldsRow, Decisions
  <2> QED BY <1>1, <1>4, <2>1, SameRules DEF CommitDeliver, Promise!Deliver
<1>5. ASSUME CommitReject(w) PROVE Promise!Reject(i)
  <2>1. HoldsRow(w)
    BY <1>5 DEF CommitReject, HoldsRow, Decisions
  <2>2. charged[i] - redemption[i].cost = 0 /\ redemption[i].status = "pending"
    BY <1>1, <1>5, <2>1 DEF CommitReject
  <2> QED BY <1>1, <1>5, <2>1, <2>2, SameRules DEF CommitReject, Promise!Reject
<1> QED BY <1>3, <1>4, <1>5

LEMMA PostPromise ==
  ASSUME NoDeductions, Core, Wallet, NEW w \in Workers, CommitPost(w)
  PROVE  \E u \in Children, a \in Coins : Promise!Credit(u, a) \/ Promise!Debit(u, a)
<1>1. pc[w] = "post" /\ task[w].op \in {"spend", "adjust"}
  BY DEF CommitPost
<1>2. /\ task[w].user \in Children
      /\ task[w].op = "spend" => task[w].amount \in Coins
      /\ task[w].op = "adjust" => task[w].amount \in Adjustments
  BY <1>1, TaskFacts DEF Core, TasksWellFormed
<1>3. task[w].amount \in Coins
  BY <1>1, <1>2, GrantsAreCoins
<1>4. CASE task[w].op = "spend"
  <2>1. task[w].amount <= balance[task[w].user]
    BY <1>1, <1>3, <1>4, RowConstants DEF Wallet, WalletStillCovers, CanPay, Price
  <2>2. Promise!Debit(task[w].user, task[w].amount)
    BY <1>4, <2>1 DEF CommitPost, Promise!Debit
  <2> QED BY <1>2, <1>3, <2>2
<1>5. CASE task[w].op = "adjust"
  <2>1. Promise!Credit(task[w].user, task[w].amount)
    BY <1>5 DEF CommitPost, Promise!Credit
  <2> QED BY <1>2, <1>3, <2>1
<1> QED BY <1>1, <1>4, <1>5

LEMMA PromiseStep ==
  ASSUME NoDeductions, Core, SettledOnce, Wallet, [Next]_vars
  PROVE  [Promise!PromiseNext]_(Promise!shopVars)
<1>1. ASSUME NEW w \in Workers, NEW i \in Ids, CommitRedeem(w, i) PROVE Promise!PromiseNext
  <2>1. task[w].user \in Children /\ task[w].offer \in Rewards
    BY <1>1, TaskFacts DEF CommitRedeem
  <2> QED BY <1>1, <2>1, RedeemPromise DEF Promise!PromiseNext
<1>2. ASSUME NEW w \in Workers, CommitApprove(w) \/ CommitDeliver(w) \/ CommitReject(w)
      PROVE  Promise!PromiseNext
  <2>1. HoldsRow(w)
    BY <1>2 DEF CommitApprove, CommitDeliver, CommitReject, HoldsRow, Decisions
  <2>2. task[w].id \in Ids
    BY <2>1, DecisionFacts
  <2> QED BY <1>2, <2>2, DecisionPromise DEF Promise!PromiseNext
<1>3. ASSUME NEW w \in Workers, NEW new \in OfferForms, CommitEdit(w, new)
      PROVE  Promise!PromiseNext
  <2>1. task[w].offer \in Rewards
    BY <1>3, TaskFacts DEF CommitEdit
  <2>2. Promise!Edit(task[w].offer, new)
    BY <1>3 DEF CommitEdit, Promise!Edit
  <2> QED BY <2>1, <2>2 DEF Promise!PromiseNext
<1>4. ASSUME NEW w \in Workers, CommitPost(w) PROVE Promise!PromiseNext
  BY <1>4, PostPromise DEF Promise!PromiseNext
<1>5. ASSUME NEW u \in Children, NEW a \in Coins, Award(u, a) PROVE Promise!PromiseNext
  <2>1. Promise!Credit(u, a)
    BY <1>5 DEF Award, Promise!Credit
  <2> QED BY <2>1 DEF Promise!PromiseNext
<1>6. CASE UNCHANGED <<balance, offer, redemption, charged, granted>>
  BY <1>6 DEF Promise!shopVars
<1> QED BY <1>1, <1>2, <1>3, <1>4, <1>5, <1>6
        DEF Next, Begin, Lock, Proceed, BeginRedeem, BeginDecision, BeginEdit, BeginSpend, BeginAdjust,
            LockUser, LockDecision, LockOffer, CheckOffer, CheckWallet, Refuse, Crash, shop, vars

\* Whatever the workers interleave, a family sees the atomic shop of ShopPromise.
THEOREM ShopKeepsPromise ==
  ASSUME NoDeductions
  PROVE  Spec => KeepsPromise
<1>1. Init => Promise!PromiseInit
  BY DEF Init
<1>2. Core /\ SettledOnce /\ Wallet /\ [Next]_vars => [Promise!PromiseNext]_(Promise!shopVars)
  BY PromiseStep
<1> QED BY <1>1, <1>2, InductiveWallet, PTL DEF Spec, KeepsPromise, Promise!PromiseSpec

-----------------------------------------------------------------------------
(* RestockWishlist: the bookmarks of one offer.                            *)

LEMMA BellInit == WishInit => BellInv
<1> SUFFICES ASSUME WishInit PROVE BellInv
  OBVIOUS
<1>1. stock \in Nat \cup {Uncounted} /\ held \in Nat
  BY WishlistConstants DEF WishInit, Stocks
<1> QED BY <1>1 DEF WishInit, BellInv, WishTypeOK, EditsHold, OneBellPerBookmark

\* The offer is a row that children and parents change only when no edit holds it.
LEMMA ShelfStep ==
  ASSUME BellInv, (\E u \in Wishers : Buy(u)) \/ Refund \/ Settle
  PROVE  BellInv'
<1>1. stock' \in Nat \cup {Uncounted} /\ held' \in Nat
  BY WishlistConstants DEF BellInv, WishTypeOK, Buy, Refund, Settle
<1>2. /\ UNCHANGED <<onSale, wish, edits, bells, mails>>
      /\ editLock = NoEdit \/ stock' = stock
  BY DEF Buy, Refund, Settle
<1>3. WishTypeOK'
  BY <1>1, <1>2 DEF BellInv, WishTypeOK, edits
<1>4. EditsHold'
  <2> SUFFICES ASSUME NEW e \in Editors PROVE EditsHold!(e)'
    BY DEF EditsHold
  <2>1. EditsHold!(e) /\ (editLock # e \/ stock' = stock)
    BY <1>2, WishlistConstants DEF BellInv, EditsHold
  <2> QED BY <1>2, <2>1 DEF edits, Restocks
<1> QED BY <1>2, <1>3, <1>4 DEF BellInv, OneBellPerBookmark

LEMMA WishStep ==
  ASSUME BellInv, NEW u \in Wishers, Wish(u)
  PROVE  BellInv'
<1>1. WishTypeOK'
  BY DEF BellInv, WishTypeOK, Wish, shelf
<1>2. EditsHold'
  <2> SUFFICES ASSUME NEW e \in Editors PROVE EditsHold!(e)'
    BY DEF EditsHold
  <2>1. told'[e] = told[e] \ {u} /\ told[e] \subseteq Wishers /\ audience[e] \subseteq Wishers
    BY DEF Wish, BellInv, WishTypeOK
  <2>2. \A x \in Wishers : bells'[x] = IF x = u THEN 0 ELSE bells[x]
    BY DEF Wish, BellInv, WishTypeOK
  <2>3. wish' = wish \cup {u} /\ UNCHANGED <<shelf, editLock, at, form, audience, cleared>>
    BY DEF Wish
  <2>4. EditsHold!(e)
    BY DEF BellInv, EditsHold
  <2> QED BY <2>1, <2>2, <2>3, <2>4 DEF shelf, Restocks
<1>3. OneBellPerBookmark'
  BY DEF BellInv, WishTypeOK, OneBellPerBookmark, Wish
<1> QED BY <1>1, <1>2, <1>3 DEF BellInv

LEMMA UnwishStep ==
  ASSUME BellInv, NEW u \in Wishers, Unwish(u)
  PROVE  BellInv'
<1>1. WishTypeOK'
  BY DEF BellInv, WishTypeOK, Unwish, shelf, edits
<1>2. EditsHold'
  BY DEF BellInv, EditsHold, Unwish, shelf, edits, Restocks
<1>3. OneBellPerBookmark'
  BY DEF BellInv, WishTypeOK, OneBellPerBookmark, Unwish
<1> QED BY <1>1, <1>2, <1>3 DEF BellInv

-----------------------------------------------------------------------------
(* Edits.                                                                  *)

\* One edit at a time: the others are idle, with nothing in hand.
LEMMA OthersIdle ==
  ASSUME BellInv, NEW e \in Editors, at[e] # "idle" \/ editLock = NoEdit,
         NEW x \in Editors, x # e
  PROVE  at[x] = "idle" /\ audience[x] = {} /\ told[x] = {} /\ cleared[x] = {}
BY WishlistConstants DEF BellInv, EditsHold

LEMMA EditStep ==
  ASSUME BellInv, NEW e \in Editors,
         \/ \E f \in Form : OpenEdit(e, f)
         \/ ReadAudience(e) \/ ClearBookmarks(e)
         \/ \E u \in Wishers : Tell(e, u)
  PROVE  BellInv'
<1> USE DEF BellInv, WishTypeOK
<1>1. UNCHANGED <<stock, onSale, held, wish, bells>> /\ mails' \in [Wishers -> Nat]
  BY DEF OpenEdit, ReadAudience, ClearBookmarks, Tell, shelf
<1>2. OneBellPerBookmark'
  BY <1>1 DEF OneBellPerBookmark
<1>3. CASE \E f \in Form : OpenEdit(e, f)
  BY <1>1, <1>2, <1>3, OthersIdle DEF OpenEdit, EditsHold, Restocks
<1>4. CASE ReadAudience(e)
  BY <1>1, <1>2, <1>4, OthersIdle DEF ReadAudience, EditsHold, OneBellPerBookmark, Restocks
<1>5. CASE ClearBookmarks(e)
  BY <1>1, <1>2, <1>5, OthersIdle DEF ClearBookmarks, EditsHold, Restocks
<1>6. CASE \E u \in Wishers : Tell(e, u)
  BY <1>1, <1>2, <1>6, OthersIdle DEF Tell, EditsHold, Restocks
<1> QED BY <1>3, <1>4, <1>5, <1>6

LEMMA EndStep ==
  ASSUME BellInv, NEW e \in Editors, SaveEdit(e) \/ Rollback(e)
  PROVE  BellInv'
<1> USE DEF BellInv, WishTypeOK
<1>1. at[e] # "idle" /\ EndEdit(e)
  BY DEF SaveEdit, Rollback
<1>2. /\ stock' \in Nat \cup {Uncounted} /\ onSale' \in BOOLEAN /\ held' = held
      /\ wish' \subseteq Wishers /\ bells' \in [Wishers -> Nat] /\ mails' = mails
  BY <1>1, WishlistConstants DEF SaveEdit, Rollback, shelf, EditsHold, Form, Stocks
<1>3. WishTypeOK'
  BY <1>1, <1>2, WishlistConstants DEF EndEdit
<1>4. EditsHold'
  BY <1>1, OthersIdle DEF EndEdit, EditsHold
<1>5. OneBellPerBookmark'
  <2>1. CASE Rollback(e)
    BY <2>1 DEF Rollback, OneBellPerBookmark
  <2>2. CASE SaveEdit(e)
    <3> SUFFICES ASSUME NEW u \in Wishers
                 PROVE  bells'[u] <= (IF u \in wish' THEN 0 ELSE 1)
      BY DEF OneBellPerBookmark
    <3>1. /\ bells'[u] = IF u \in told[e] THEN bells[u] + 1 ELSE bells[u]
          /\ wish' = wish \ cleared[e]
      BY <2>2 DEF SaveEdit
    <3>2. /\ u \in told[e] => bells[u] = 0
          /\ u \in told[e] /\ u \in wish => u \in cleared[e]
          /\ bells[u] <= (IF u \in wish THEN 0 ELSE 1) /\ bells[u] \in Nat
      BY <2>2 DEF EditsHold, OneBellPerBookmark, SaveEdit
    <3> QED BY <3>1, <3>2
  <2> QED BY <2>1, <2>2
<1> QED BY <1>3, <1>4, <1>5

LEMMA BellStep == BellInv /\ [WishNext]_wishVars => BellInv'
<1> SUFFICES ASSUME BellInv, [WishNext]_wishVars PROVE BellInv'
  OBVIOUS
<1>1. CASE UNCHANGED wishVars
  BY <1>1 DEF wishVars, shelf, edits, BellInv, WishTypeOK, EditsHold, OneBellPerBookmark, Restocks
<1> QED BY <1>1, ShelfStep, WishStep, UnwishStep, EditStep, EndStep DEF WishNext

-----------------------------------------------------------------------------
(* The theorems about bookmarks.                                           *)

LEMMA InductiveBell == WishSpec => []BellInv
BY BellInit, BellStep, PTL DEF WishSpec

\* One notice per bookmark, however many parents edit, restock, crash and race
\* with children who bookmark, withdraw and buy.
THEOREM BellCorrect == WishSpec => []BellInv
BY InductiveBell

\* A bookmark goes away because its child removed it, or because the offer came
\* back from sold out to a counted stock that can be bought.
THEOREM BookmarksClearedOnRestock == WishSpec => ClearedOnlyOnRestock
<1>1. ASSUME BellInv, [WishNext]_wishVars, NEW u \in wish \ wish'
      PROVE  Unwish(u) \/ (stock = 0 /\ stock' # Uncounted /\ stock' >= 1 /\ onSale')
  <2>1. ASSUME NEW v \in Wishers, Unwish(v) PROVE Unwish(u)
    BY <1>1, <2>1 DEF Unwish
  <2>2. ASSUME NEW e \in Editors, SaveEdit(e)
        PROVE  stock = 0 /\ stock' # Uncounted /\ stock' >= 1 /\ onSale'
    BY <1>1, <2>2 DEF SaveEdit, BellInv, EditsHold, Restocks
  <2> QED BY <1>1, <2>1, <2>2 DEF WishNext, Wish, Buy, Refund, Settle, OpenEdit, ReadAudience, Tell,
          ClearBookmarks, Rollback, wishVars
<1>2. BellInv /\ [WishNext]_wishVars =>
        [\A u \in wish \ wish' :
            \/ Unwish(u)
            \/ stock = 0 /\ stock' # Uncounted /\ stock' >= 1 /\ onSale']_wishVars
  BY <1>1
<1> QED BY <1>2, InductiveBell, PTL DEF WishSpec, ClearedOnlyOnRestock
=============================================================================
