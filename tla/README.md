# Verification of The Abby Project

The Abby Project is a family's chore, project and allowance system: a Django
backend (PostgreSQL, Celery beat, Redis) with a React client, an MCP server for
agents, and a listener process that follows a 3D printer over MQTT. Children earn
money, Coins and XP; parents approve, price and pay. This directory holds TLA+
models of the parts where two of these actors can meet in an order nobody tried,
the TLC instances that check them, and TLAPS proofs about all of them, for every value of
their constants.

    tlc -workers 2 -config wallet.cfg MCRewardShop     # model-check one run
    tlapm RewardShopProofs.tla                         # check the proofs of one component

Contents: 1 the system, 2 the modules, 3 the runs, 4 bounds, 5 fairness, 6 proofs,
7 what the models found, 8 what is left out, 9 the plan.

## 1. The system

Paths are below `src/`. Every service is a class of static methods that wrap one
database transaction at READ COMMITTED (`ATOMIC_REQUESTS` is off, so what a view
does around a service call is outside its transaction).

| Part | State it keeps | Operations | Meets | What must hold |
|---|---|---|---|---|
| Reward shop, `apps/rewards` | `Reward` (cost, stock, active), `RewardRedemption`, append-only `CoinLedger` | request, approve, deliver, reject a redemption; edit an offer; award, spend, adjust Coins | every service that awards Coins; print exchange; MCP | no wallet below zero, stock conserved, each promise settled once |
| Restock wishlist, `apps/rewards/offer_services.py` | `RewardWishlist` rows, notices, mails | bookmark, withdraw, fan-out on restock | offer edits, refunds, purchases | one notice per bookmark, none lost |
| Money-to-coin exchange, `apps/rewards/services.py` | `ExchangeRequest` | request, approve, reject | money ledger, coin ledger | both ledgers move once, together |
| Print forge, `apps/printing` services, jobs, tasks | `PrintRequest`, `PrintJob`, tracker memory | decide, price, exchange, cancel; open, observe, close a row; sweep; link, unlink, delete | printer, listener, coin ledger, budget | one row and one debit per run, no refund for a print, no request stuck |
| Printer connection, `apps/printing/listener.py` | Redis lock, ingest queue, merged report | acquire, refresh, release; enqueue, consume, reseed | Redis, MQTT broker, tracker | one tracker per printer, state repaired after a drop |
| Timecards, `apps/timecards` | `TimeEntry`, `Timecard`, drop receipts | clock in and out, auto clock-out, void; generate, approve, close, dispute, pay | money ledger, project rates, beat tasks | one active entry, ledger equals approved hours, one payout per card |
| Payments, `apps/payments` | `PaymentLedger`, `GreenlightTransfer`, statement rows | record, pay out, confirm, reconcile | timecards, savings goals, exchange | no transfer paid twice, no pay beyond what is approved |
| Savings goals, `apps/projects/savings_service.py` | goals, recognised ranges | create, edit, settle | every money entry | a dollar counts towards a milestone once |
| Chores and homework | completions, submissions with frozen terms | submit, approve, reject, withdraw | AwardService, daily counters | one completion per period, paid once |
| Campaigns, `apps/quests/services.py` | `Quest`, `QuestParticipant`, rage shield | start alone or together, progress, complete, expire, rage | game loop callbacks, beat tasks | one active per child, all members paid at once, every campaign ends |
| Challenges and daily bonus, `apps/quests/goals.py` and others | facts, attempts, bonus rows, old clients' rows | record, evaluate, repair, void, retry, claim, settle | every activity, beat tasks | work counts once, one reward after a retry, one bonus a day |
| Pets, RPG items, achievements, habits, logs | inventories, XP, counters | grant, feed, equip, tap | AwardService, config counters | once-a-day rewards stay once a day |
| Members and sign-in, `apps/accounts/lifecycle.py`, `projects/views.py`, `oauth_exchange.py` | `Family`, `User`, tokens, authorship of shared work | create, deactivate, remove, reset, depart, close, hand over contact; sign in and out | everything, through the User and Family row locks and foreign keys | an open family has an active contact, no credential outlives its password, shared work survives its author's departure |
| MCP server | mutation receipts | every service, with a request UUID | Family and User locks | a replay returns the first result |
| Google, ingestion, notifications, activity, clients | tokens, drafts, logs | export, fetch, notify | outside services | no decision depends on them |

How they meet: the User row lock of the child is the gate of nearly every service
(redemption, chores, homework, timecards, savings, MCP). Ledgers are append-only and
a balance is `SUM(amount)`, so *reading* a balance needs that gate whenever a debit
follows; awards take no lock, which is sound because they only raise it. Views load
rows before a service opens its transaction: a service that decides must lock and read
again (`_lock_decision`). The printer's reports arrive on one thread, the beat tasks
and parents' requests on others, and these share `PrintJob` rows without a lock.

The hard behaviours are therefore: decisions on rows read too early, two debits that
each see the same balance, lock order, stock that returns, a close in several commits,
a listener that restarts or loses its connection in the middle of a print, a daily
sweep that races it, side effects (mail) inside a transaction, callbacks after a commit, evaluations that
fail and are repaired days later, a lock that expires under its owner, deletions that
cascade while others insert, and retries with and without a key. `PROJECT.json` lists each at its line.

## 2. The modules

A module `XProofs` extends the model `X` and holds its theorems; section 6 goes through
them. `GreenlightProofs` is about `PayWeek` too, which `Greenlight` extends; `RewardShopProofs`
extends `RewardShop` and `RestockWishlist`, `QuestProofs` `Challenge` and `Campaign`,
`PrinterProofs` `Listener` and `Ingest`. **`Sums`** holds the facts about sums and folds over
finite sets and sequences and about listings that the proofs on money, progress and
savings need; nothing in it is about this program.

### Reward shop

- **`ShopRows`**: the rows and the pure rules on them (`Eligible`, `NewRedemption`,
  `ApprovedStatus`, `Creditable`, `HandOver`, `TakeOne`, `PutBack`), each one expression
  of the service code. Two modules use them so that both apply the same rules.
- **`ShopPromise`**: the abstract specification: a purchase, an approval, a delivery, a
  rejection, an edit or a ledger row happens in one instant. No worker, lock or copy.
- **`RewardShop`**: web workers. A request arrives with the rows its view has read
  (`BeginDecision`), then takes its locks one by one in the code's order (`After`), reads
  each row again once it is locked, makes its checks as separate steps (`CheckOffer`,
  `CheckWallet`), and writes (`CommitRedeem`, `CommitApprove`, ...). Uncommitted writes are
  invisible to others under READ COMMITTED, so all writes of a transaction are its last
  step, and its locks go with them. `Refuse` is an exception or an early return, `Crash` a
  worker that dies anywhere. `Award` is an insert from any other service, with no lock.
  `BeginAdjust` is the REST adjustment, whose check happens before, and outside, the insert.
- **`MCRewardShop`** names the offers of the instances.

| variable | code |
|---|---|
| `balance[u]` | `SUM(CoinLedger.amount)` of the child |
| `offer`, `redemption` | the rows, with the fields the rules read |
| `charged`, `granted` | history: what the ledger and the inventory have for each redemption |
| `supplied` | history: units offered at the last edit, live holds included |
| `userLock`, `rowLock`, `offerLock` | `SELECT ... FOR NO KEY UPDATE` on the three tables |
| `pc`, `task`, `seenRow`, `seenOffer` | where a worker is, and the instances in its memory |

### Restock wishlist

**`RestockWishlist`** models one offer's bookmarks with `update_reward_offer` and
`notify_wishlist_on_restock` statement by statement: lock and save, read the children,
tell them one at a time, delete all bookmarks, commit or roll back. Bookmarks are added
and removed at any moment, since the edit's `FOR NO KEY UPDATE` does not stop an insert
that refers to the offer. Notices are rows, visible at the commit (`bells`); a mail is gone
when it is sent (`mails`). Purchases and refunds appear as what they do to the stock.

### Print forge

**`PrintForge`** has the request's status and Coins, the `PrintJob` rows, the printer, the
connection, the tracker's memory and the closes under way.

- A decision on a request holds its row lock from first read to commit, and so does the
  step that opens a job: each is one action. The force-close of a row left over by another
  print is part of that step, as in `_ensure_job`.
- Closing takes no lock: `ReportStopped` or `SweepRead` copies the row, `SaveEnd` commits
  its end, `CloseOut` debits and moves the request on, from the copy.
  Others run between the three, and `Abort` is a crash, a lost database, or a row that
  was deleted meanwhile.
- Reports are handled in order by one thread. The printer changes here only after its
  last change has been handled, unless the connection is down: then any number of
  changes go by unseen, and `Reconnect` brings one full report.
- A parent's link, unlink or delete works on the job, and unlink on the request too, as the view's
  `get_object` read them (`DeskRead`, `Seen`). A link then locks the request it names. An
  unlink writes the job (`DeskHold`, after which other writes of that job wait: `HeldJobWaits`), looks
  once for other open rows (`Alone`), and writes the request it read as printing back to
  approved, whatever that request has become (`DeskAct`). `DeskAtOnce` is a parent nobody comes between.
- `Events` says what goes wrong in an instance: pauses, the sweep, lost connections,
  restarts, crashes, manual links, and links and unlinks from rows read earlier. `ReportsRun` says
  whether the firmware reports `gcode_start_time`, by which `_is_same_print` decides.

A `job[j].fresh` row has a `last_report_at` younger than `STALE_JOB_MINUTES`; `Hours` ages
every row. `debits[n]` counts the budget rows of run `n`.

### Pay

**`PayWeek`** is one child's paid work. A card's generation, its decisions and a payout hold the
child's row `FOR UPDATE` from first read to commit. No other insert that refers to the child gets
past that lock, so each is one action (`Generate`, `Approve`, `Close`, `Dispute`, `MarkPaid`).
Exchange decisions and savings checks lock the row `FOR NO KEY UPDATE`: they exclude each other
and the cards, but an adjustment from the REST view (`Adjust`) takes no lock and its insert does
not wait. An exchange therefore reads the balance (`ReadBalance`) and later debits it (`ApproveExchange`)
or keeps nothing (`RollBack`), a savings check reads (`ReadGoal`) and later completes the goal
(`SettleGoal`); `late[x]` counts what was adjusted after the read of exchange `x`, and `Free` says
that no such transaction is open. `AdjustByTool` is the MCP tool, whose retry guard locks the child first. Of
what takes no lock the timers are split too: `AutoRead` takes copies of the running entries and `AutoSave` writes each back
whole; `VoidRead` is the view's row before the lock, `VoidSave` the save. `Sunday` is the
23:55 task, `NextWeek` the clock. `credit[w][p]` is the sum of a card's hourly ledger rows
by project, which `Corrections` brings to what the entries say, smallest change first as in the
code, so that `Running` can tell the balances passed through on the way (`Corrected` is what they
leave behind). Changes of the same amount come in any order: neither the balances nor the
goal can tell them apart. `GenerateByTool` and `VoidByTool` are the MCP paths to
the same services.

**`Greenlight`** extends it with the bank: `ConfirmTransfer` by hand, retried with the same key
or reference, and `Reconcile`, which settles a statement row against a recorded payout
(`MatchExisting`) or as a new one, and remembers it in `matched`. A payout's key is unique for
the child (`KeyIsFree`, a constraint of the table).

**`PayPromise`** is the abstract specification both implement: a card is open, released or
settled, no payout takes more than is owed and not held back, and a settled card is never
touched again. The mapping (`Promise` in `PayWeek`) computes its five variables from cards
and ledger rows.

### Savings

**`Savings`**: goals of one child beside the accepted ones of policy 1. Every write ends with
`Check`, which completes what the balance covers and pays for the cents that no range in
`progress` covers yet (`Claim`, `Grow`), goal by goal in the order of `Due`. `LedgerRowOnly` is a check that raised: its savepoint
is undone and the row stays. Five history variables count what was paid for each cent.
A small new goal that completes while an accepted one is open leaves the accepted goal's
cents to it; when that goal is then deleted nobody is paid for them (`left`).

### Campaigns and challenges

**`Campaign`**: `BeginAlone` and `BeginCallback` open a progress transaction (`tx[q]`), which holds all
members' rows and the campaign's until `Finish` or `Fail`. Work of one member of a shared
campaign becomes a callback in `due` (`Defer`), which may run late, find its campaign over
(`CallbackTooLate`) or be lost. The nightly tasks read without a lock and write later
(`ExpireRead`, `ExpireWrite`, `RageWrite`).

**`Challenge`**: `Record` saves a fact and evaluates it, with the day's bonus, under one
savepoint; `Fails` leaves it pending, and `Repaired` resumes it on a later day, after the
attempt it belongs to has lapsed, was retried or was paid. `Evaluate` goes through the
promises in the order of their keys, as `_process` does, told as sets: `Hit` have a window for the
fact, `Reached` reach their target with it, `Won` are paid (after a retry the first one, if none was
before), and `Takers` count it before a win closes the rest. `OldDaily`, `OldProgress` and
`OldClaim` are the client from before the daily bonus, `SettleOld` the task that pays what it
never claimed.

### Printer connection

**`Listener`**: one or two processes, the Redis key with the time it has left, and each process's
pass: `Sync` (what is tracked, what is new), `RefreshRead`, `RefreshWrite`, `Watch`. A pause
may fall between the read and the write of the key. The unit of time is `LOCK_REFRESH_SECONDS` (30 s), so `Ttl` is 3;
the watchdog's patience is shortened to one unit, which keeps it longer than an answer takes.

**`Ingest`**: inside one process: a bounded queue that drops the oldest report, the consumer, the
tick with its reseed, nudge and rebuild, and a printer whose reports are deltas. `Slow` lets a
report take longer than `stop` waits for the consumer thread.

### Household

**`Household`**: the members of a family, their credentials and the work they share. A request
arrives with what its view read (`As`: the key, the password and the marker of that moment)
and goes on under locks that follow from where it stands, so locks are operators over `req`
(`FamilyFree`, `Fenced`, `RowFree`). Administration is one action under the Family lock; a deletion is four
(`Enter`, `Fence`, `HandOver`, `Erase`). A writer of work takes no such lock: it holds its row
(`Stage`), and PostgreSQL checks its foreign keys at commit (`CheckKeys`), waiting for whoever
deletes the member. `Login` checks the password again under the lock; `Exchange` is Google's
answer, good only if nothing has invalidated the flow since `ArriveGoogle`.
Two behaviours are deliberate in the code and therefore allowed here: removing another
parent (`DELETE /api/parents/{id}`) lets the cascade take the work that parent made, where a
parent's own departure hands it over; and a chore's `PATCH` or approval saves every
column of a row that it read without a lock, also one that was deleted meanwhile.

## 3. The runs

| run | instance | question | properties |
|---|---|---|---|
| `wallet` | 1 child, 2 workers, spends, awards, grants, digital and mixed promises, rows older than the rule that a digital item must be named | is the invariant of the proofs true, is a wallet overdrawn, do workers wait in a circle, do they implement `ShopPromise`? | `ShopInv`, `NeverOverdrawn`, `NoLockCycle`, `KeepsPromise` |
| `bookmarks` | 2 children, 2 editing parents | does a bookmark ring twice, or vanish without cause? | `BellInv`, `ClearedOnlyOnRestock` |
| `bed` | 2 prints, pauses, restarts, lost connections | does the tracker keep one row and one debit for each run, and leave nothing behind? | `ForgeInv`, `RunBilledOnce`, `NothingRevives` |
| `stale_desk` | firmware without a run id, sweep, drops, restarts, crashes, pauses, links and unlinks from rows read earlier | can a child be refunded for a print, or print unpaid? | `CoinsFollowPrints` |
| `payday` | 1 week, 2 projects, 2 timers, a void in flight, the auto clock-out, an exchange, adjustments, a payout, a savings goal | do card and ledger agree, does a closed entry run again, is a goal reached by a balance that corrections only pass through, is a dollar exchanged that is already spent? | `PayInv`, `ExchangeCovered`, `GoalOnRealBalance`, `NeverReopened` |
| `statement` | 2 weeks, 2 bank rows, 2 manual confirmations with repeats | is anything paid twice, or paid that is not released? | `StatementAgrees`, `RepeatsPayOnce`, `MatchKeepsPayment`, `KeepsPromise` |
| `savings` | an accepted goal and two new ones, failed checks | is each cent paid for exactly once? | `SavingsInv`, `NoCentPaidTwice`, `EveryNewCentPaid`, `OnlyFailuresWait` |
| `campaign` | 2 children, 2 campaigns, late and lost callbacks, failures, nightly tasks | are members paid together, does late work go astray, does every campaign end? | `CampaignInv`, `LateWorkStays`, `PaidTogether`, `EveryCampaignEnds` |
| `challenge` | 2 versions of a promise, 3 facts, failures, a retry, an old client | is anything paid twice, does a pending fact wait for ever? | `ChallengeInv`, `PaysOnce`, `TaskPaysItsDay`, `EveryFactSettles` |
| `listener` | 2 processes, 2 faults of 8 kinds | is there one connection, and does the stream come back? | `ListenerInv`, `TwoBecomeOne`, `StreamReturns`, `OffIsLeftAlone` |
| `ingest` | 2 fields, 4 changes, a queue of 2, 2 outages | is what is merged true, and does it catch up? | `IngestInv`, `CatchesUp` |
| `household` | 2 parents, 2 children, one piece of work, 3 overlapping requests | who may leave, what goes with them, which sessions survive? | `HouseholdInv`, `SessionsFollowPasswords`, `SharedWorkStays`, `ClosedAsReviewed` |

An invariant named `...Inv` is the conjunction of its module's type invariant with
named parts, each stated and explained in the module: `ShopInv` has `ChecksStillHold`,
`SettledOnce` and `StockAccounted`, `ForgeInv` has `OneRowPerRun` and `PrintingHasOpenJob`,
`ChallengeInv` has `ProgressIsEarned` and `WorkCountsOnce`, and so on.

Three more configurations pass and can be run by hand: `answers.cfg` (`EveryRequestEnds`, under
fairness), `vanished.cfg` (`VanishedPrintEnds`, under fairness) and `exchanges.cfg` (`ExchangeCovered` with
two exchanges of different sizes on one project). The remaining ones end in a counterexample and belong to
section 7.

`bed` and `stale_desk` check with fewer events some properties that fail with more of them. The
division is the result: the tracker alone keeps its rows, and the failures come from the
second closer, from manual links, and from stale copies.

## 4. Bounds

- Shop: `MaxCoins` stops awards above it (2: a price of 1 or 2, with and without a coin to
  spare); `KeysLeft` stops purchases when the `Ids` are used up (2 redemptions contend for
  one unit). Two workers are the least that race; every conflict in this code is between
  two requests. The theorems of section 6 hold without any of these bounds.
- Wishlist: `MaxStock` 1 is the boundary between sold out and on sale; `MaxHeld` caps
  purchases not settled yet; `mails` stops counting at 2.
- Forge: `MaxRuns` (2 where one print can be taken for another, else 1), 2 `Jobs` slots (the
  row of a print and the one opened in error for it; 1 with one run), `debits` stops counting
  at 2. A primary key is reused only when nobody holds the deleted row's.
- Pay: `Entries` 2 (one running while another is voided), one duration, `MaxRows` payouts,
  `MaxSide` the net of bonuses, adjustments and exchanges at which adjustments stop, `Amounts` of 1. `payday` has
  two projects, because corrections of one must not pass the goal before those of the other, and one exchange:
  a payout, a correction and a locked adjustment are tried between its read and its debit and must wait, an
  unlocked one comes between (`MaxSide` 0 is enough: a deduction follows a bonus, a grant an exchange). `exchanges` has two exchanges, of 1 or 2 each, so that one of them, both, or
  neither fits the balance;
  `statement` has two weeks, because free payouts must leave the open week's money alone.
- Savings: three cents and targets of 1 and 3: ranges that touch, nest and are disjoint.
  `ClaimIsUnion` is evaluated for every range of every reachable coverage.
- Campaign: two campaigns (a late callback needs a second one), a target of 2, `MaxDue` 1
  callback at once, `MaxProgress` 3, a shield of at most 1.
- Challenge: days 0 to 2, a window of one day, 3 facts, one retry: a fact of day 0 can be
  repaired after the retry of day 1.
- Listener: two faults reach two crashes, a pause and a crash, a new code during an outage.
  Reading or writing the key takes no time unless the process is paused there; the printer
  answers within one unit.
- Ingest: a queue of two overflows at the third of four changes.
- Household: three requests, each made once; they bound every counter of keys, passwords and
  markers. Two requests race; the third is the one in between. `Start` restricts
  `Init` to two parents, of whom the younger may be inactive, one child, one not yet
  created, and work of the parent or the child.
- Symmetry: workers, children and keys of the shop, children and editors of the wishlist,
  requests and jobs of the forge, entries and exchanges of a week, requests of the
  household are interchangeable; runs with liveness use none.
- `CHECK_DEADLOCK FALSE` where the instance ends: its weeks, days, changes or faults are used up.
  The shop, the wishlist, the forge and the household check for deadlock.

## 5. Fairness

- `EveryCampaignEnds`: weak fairness of the nightly expiry's two steps (a beat task), of the end
  of an open transaction, and of time passing a campaign's end. No progress is assumed.
- `EveryFactSettles`: weak fairness of `Repair`, the nightly task. A repair may fail too; one
  that is tried every night succeeds at last.
- `TwoBecomeOne`, `StreamReturns`, `OffIsLeftAlone`: each process takes its passes and is started
  again by the operating system, a paused one wakes up, the broker answers, the clock runs. The faults are finitely many
  (`MaxFaults`), as `<>[]` in these properties needs.
- `CatchesUp`: the threads run, the printer answers a pushall, paho connects again, time passes.
- `EveryHourIsPaid` (`unpaid_hours.cfg`, where it fails all the same): weak fairness of the auto
  clock-out's two steps, of the ends of transactions and of time; strong fairness of `Sunday`,
  because the task queues for the child's row.
- `EveryRequestEnds` (`answers.cfg`): weak fairness of `Proceed` and strong fairness of the
  three locks, because PostgreSQL queues the waiters of a row lock.
- `VanishedPrintEnds` (`vanished.cfg`): weak fairness of `SweepRead`, of each closer's steps and of
  `Hours`. It does not hold with `crash` among the events: a close that dies between its
  commits is never taken up again.

## 6. Proofs

TLC checks a small instance; the theorems hold for every value of the constants that
meets the named assumptions of the modules (`...Constants`, evaluated in every run).
None of the properties is inductive alone. Each proof finds the invariant that is, with one
lemma for each action that can disturb it; TLC checked these invariants on the
instances before they were proved.

| module | theorems | further premise |
|---|---|---|
| `RewardShopProofs` | `TypeCorrect`, `ShopCorrect`, `PromisesSettledOnce`, `StockConserved`, `LocksNeverCycle` | |
| | `WalletNeverOverdrawn`, `ShopKeepsPromise` | `NoDeductions` |
| | `BellCorrect`, `BookmarksClearedOnRestock` | |
| `PrintForgeProofs` | `CoinsStay` | |
| | `TrackerKeepsRows`, `RunsAreBilledOnce`, `WhatIsOverStays` | `TrackerAlone` |
| `GreenlightProofs` | `OneTimerRuns`, `ClosedTimersStayClosed`, `CardsMatchLedger`, `ExchangesAreCovered`, `GoalsAreReal`, `StatementsAgree`, `NothingPaidTwice`, `ReconcilingKeepsPayments`, `MoneyKeepsPromise` | |
| `QuestProofs` | `WorkIsShownOnce`, `RewardsArePaidOnce`, `TasksPayTheirDay`, `ChildrenHaveOneCampaign`, `CampaignsAddUp`, `LateWorkIsNotMoved`, `MembersArePaidTogether` | |
| `PrinterProofs` | `OnePrinterConnection` | `ThreeRefreshes` |
| | `QueueBounded` | |
| | `SettledStateIsTrue` | `~Slow` |
| `SavingsProofs` | `SavingsCorrect`, `CentsArePaidOnce`, `NewCentsArePaid`, `WaitingIsAFailure` | |
| `HouseholdProofs` | `HouseholdCorrect`, `SessionsAreCurrent`, `DepartureIsSafe`, `ClosureMatchesReview` | |

The premises are of two kinds. Some draw the line that section 7 found: `NoDeductions` (parents
only grant with the REST form; `overdraft.cfg` breaks it), `TrackerAlone` (firmware with run ids, and
no sweep, no crash inside a close, no manual links; `double_debit.cfg` and `moved_debit.cfg` break
it), `~Slow` (a report is handled before `stop` gives up on the thread; `two_consumers.cfg` breaks
it). `ThreeRefreshes`, `Ttl >= 3`, is the code's ratio of `LOCK_TTL_SECONDS` 90 to `LOCK_REFRESH_SECONDS`
30; with a ratio of two a key can run out under a process that was never paused.

**Shop.** A rejection may put a unit back only because what its worker remembers of the row
is still true, so the invariant adds what workers know: `TasksWellFormed` ties a worker's
step to its kind of request, `LocksHeld` gives it the locks its route has taken, and
`ChecksStillHold` says that what it read under a lock equals the row. These with `TypeOK` are
`Core`: a step of another worker cannot change a row that this one has locked. On top of it,
`SettledOnce` needs a commit to start from the row as it is; `StockAccounted` counts `LiveHolds`
with the finite-set theorems, one element in or out for each commit; `WalletStillCovers` holds
because debits happen under the User lock, and whoever does not hold it only adds. For
`LocksNeverCycle` the order of acquisition (child, redemption, offer) comes from `LocksOwned`: a
lock's owner is a worker past the step that takes it, so in a circle one would wait for an
earlier kind than it holds. The refinement's mapping is the identity on the five shared
variables; a commit is the abstract action and every other step stutters.

**Wishlist.** `EditsHold` says that an edit under way holds the offer as it found it, that
whom it tells has heard nothing for this bookmark, and that when it saves, every bookmark it
told of is cleared. A bookmark made again while the edit runs therefore starts from no bell.

**Forge.** `CoinInv` carries `started`, which is set with every link and never taken back: a
row and a close's copy are linked only to a started request, and a started request is not
refunded. So no stale copy matters, not even an unlink's blind write: `DeskStarted` says that a request
that was read as printing was started, so the approved status it gets back is not that of a refunded one. `TrackInv` says which single row may be open, that the
tracker's row or the one in its close is it, that the copy agrees with the row unless its
request was deleted, and that a debit marks its row; the run's number then identifies the row.

**Pay.** `TimersOK` keeps one running entry: a stale save writes a closed status, never an
active one. For payouts, `GreenlightInv` is `RowsOK` with the three kinds of
uniqueness together, since each payment path checks one of them and must not break the others;
`MatchKeepsPayment` follows because a match only fills a reference in that was empty.

For the money, `MoneyInv` is `PayInv` with typed payouts and `ApprovalsOK`: an approval that has read
the balance belongs to a pending exchange, no second approval is open beside it,
and the balance covers its amount plus what was adjusted since. Everything but `Adjust` waits for the approval's end, and
`Adjust` moves balance and `late` alike, so after the debit the balance is at least `late`: `ExchangesAreCovered`.
`GoalsAreReal`: corrections are booked smallest change first, so a prefix of them with a positive sum is at most the
whole (`AscendingGrows`). If a savings check on the way sees a balance that covers the goal, then either that prefix is positive and
the balance after the card covers the goal too, or it is not and the balance before did.
That a card's ledger rows sum to its earnings is `SumGrouped`: hours summed by
project and then over the projects are the hours of the week. `MoneyKeepsPromise` takes the steps
one by one: a generation or a decision is an abstract one, every payment is an abstract
payout of no more than what is owed and free, and the steps of timers, voids and statements stutter.

**Sums.** The library states induction over sets with an operator parameter, so each fact about a
fold is proved by a smallest counterexample instead: the strict subset order of a finite set
is well-founded, so a set of finite subsets that break the fact has a smallest one, and taking
one element out of that leads to another. `IterateThere` and `IterateUnique` justify the
`CHOOSE` inside the library's fold. `FoldThere` does the same for a fold that takes the elements out in
any fixed order; with the largest index first, `PrefixFoldThere`, it is the fold over a sequence.

**Savings.** Three folds are unrolled: the pass of a claim over the bands (`GrowFold`), the sum of the
overlaps (`OverlapFold`) and the loop over the goals that are due (`SettleFold`). `GrowKeeps` says
what the pass has after k bands, so `ClaimUnion` and `FreshCounts` give what a claim returns for
any coverage in canonical form; `SettleLoop` says that the loop pays only cents that no coverage and
no open promise has, each once, and that all that the goals claimed is covered afterwards.
On that stands `SavingsOK`: what was paid, honoured or earned is covered by the progress row,
a paid cent is neither honoured nor still promised, and what is covered was paid, known at the
start, or left to a promise. `CheckKeeps` shows it for the check, whatever write it ends, if the
write opens no old promise again; a new goal that is completed implies a progress row (`GoalsOK`),
without which `Restart` would have no floor to read.

**Challenges.** `GoalsInv`: attempts of a promise are apart by a window (`RepeatsApart`) and count
only facts in it that came after their retry (`CountedInWindow`), so a fact counts once; an
attempt is paid exactly when completed, and once there is a retry a paid attempt has all
others closed (`OneReward`). `BonusInv`: what a day was paid is the sum of what its two rows,
the bonus and an old client's, say.

**Campaigns.** `CampaignOK`: an open progress transaction is of a member of an active campaign, the
one its work was done for; active campaigns have no member in common; what is active is unpaid;
and what the nightly expiry has read was started. Its stale write can therefore end a campaign
that was paid, but make none active, and none pays twice. For that much nothing is assumed of the
constants. `CampaignsAddUp` is about amounts as well: `CountsOK` says that a campaign's progress is the sum of
its participants' parts, which a `Finish` keeps by moving both by the same number (`SumMoved`), and
`RowsOK` and `ShieldsOK` that rows and shields stay in their ranges.

**Connection.** `KeyIsKept`: a process that was not paused has the key while it listens, and the key
lacks at most the ticks (`Spent`) that fall between two writes: one in a pass, two when a pass
ends late. A pause sets the history variable `late`, after which nothing is claimed.

**Ingest.** `ReceivedIsTrue`: unless a loss is noted, the newest of queue, taken report and merged
state that carries a field has the printer's value for it, and a full report is among them or came before.

**Household.** The invariant is what TLC checks: `FamilyHeld` and `WorkHeld` say what a
deletion has been admitted for and fenced off, so that its later steps find it still so;
`FlowsDated` dates a Google sign-in by the password it began under. `SomeoneJoinedFirst` gives the
next contact by well-foundedness of finite sets, for any set of parents.

Assumptions on constants say what the database and the code say: model values of one kind
are not of another, prices and bounds are naturals, no key is empty (the serializers refuse it),
parents and children are different people (`RolesAreApart`), and no two joined at once (`OldestRanks`,
which stands for the order by date and key). Tables are finite, and a savings target is positive
(`projects/serializers.py:612-615`).

Only model-checked:

- liveness and fairness (`EveryRequestEnds`, `EveryCampaignEnds`, `EveryFactSettles`, `CatchesUp` and
  those of `Listener`), which are out of the prover's reach.

## 7. What the models found

Where the code does not do what one of its comments, docs or docstrings says, or what one of its
own checks is there for. Each is stated by a property of its module, with the sentence or the check
it comes from, and a configuration
reproduces the counterexample. Where several rows share a configuration, name the row's property
in place of the one in the file.

| configuration, module | property | what the code does |
|---|---|---|
| `overdraft`, MCRewardShop | `NeverOverdrawn` | `CoinAdjustmentView` (`rewards/views.py:253-260`) checks a deduction against an unlocked balance; another debit in between makes the wallet negative. The MCP tool for the same act uses `spend_coins` and is safe. |
| `bookmarks`, MCRestockWishlist | `NoBookmarkLost` | a bookmark posted between the fan-out's read and its delete goes without a notice (`offer_services.py:26-43`) |
| `bookmarks` | `NudgedWhenStockReturns` | stock that returns by a refund, or by making the offer unlimited, tells nobody; `rewards/models.py:212` says children are nudged when stock returns |
| `bookmarks` | `OneMailPerBookmark` | mail leaves before the commit; after a rollback the next restock mails again |
| `double_debit`, MCPrintForge | `RunBilledOnce` | sweep and tracker both read a row open and both debit (`printing/services.py:418`) |
| `double_debit` | `SweptOnlyWhenQuiet` | `last_report_at` is written only when the percentage moves, so a long pause looks like silence and is swept (`printing/jobs.py:362`) |
| `moved_debit` | `DebitedStaysLinked` | a link from a row read before its close moves a booked debit |
| `moved_debit` | `CancelledStays` | an unlink tests the request that its view cached and saves APPROVED over it (`printing/services.py:398-403`): one that was cancelled, or completed, since then is back in the queue |
| `absorbed_run` | `NoAbsorbedRun` | a FINISH lost with the connection lets the next print use the row of the last |
| `exchanges`, MCPayWeek | `ExchangeNeverOverdraws` | the approval locks the child with `no_key=True` (`rewards/services.py:45`), which a ledger insert does not wait for; a parent's deduction (`payments/views.py:203`) between its balance read (line 503) and its debit (509) leaves the child in debt after an approved exchange |
| `unpaid_hours`, MCPayWeek | `EveryHourIsPaid` | a timer that runs across Sunday 23:55 belongs to a week that no scheduled run looks at again (`timecards/tasks.py:28`) |
| `unpaid_hours` | `VoidedForGood` | the auto clock-out saves a row it read before a void (`timecards/services.py:277`); `docs/mcp-tools.md:686` says a voided entry stays so |
| `paid_again`, Campaign | `OneTimePaidOnce` | the nightly expiry overwrites a campaign that was completed and paid since it was read (`quests/services.py:630`), and its one-time definition can be taken and paid again |
| `raised_shield` | `ActiveDayNeverRaises` | the task of 00:15 looks for progress on the day that has just begun, so a day with progress raises the shield (`quests/services.py:672`) |
| `unshown`, MCListener | `RefusalIsShown` | `tick` drops a refused listener before `flush_status` has saved why (`listener.py:506`); `cloud.py:30` says it is shown on the card |
| `unshown` | `RefusedIsNotDialled` | a refused connection is dropped and forgotten, so the next pass, five seconds later, dials with the same code (`listener.py:506`); `transports/cloud.py:37` asks for a hard stop |
| `stranded` | `StreamReturns` | when what a printer's code belongs to is taken away during a dead connection and then given back, the broken listener is kept and nobody dials again |
| `stale_seed`, MCIngest | `SeededByThisConnection` | a full report that waits in the queue while the connection is made again counts as the new connection's (`listener.py:246-250`) |
| `two_consumers` | `SettledIsTrue` | a report that takes longer than `stop` waits leaves two consumer threads, and an old report may be merged last |

With other events in `bed.cfg` more of the forge's properties fail, for the same reasons:
with `sweep` and `restart` a swept paused print gets a second row (`OneRowPerRun`); with
`crash` dying between `job.save` and `close_out` leaves the request in printing, and with `link`
a row that is linked elsewhere leaves its first request there (`PrintingHasOpenJob`); with `sweep` and
`link` `close_out` overwrites a request that was unlinked and cancelled meanwhile, and the
tracker writes to a row that the sweep has closed (`NothingRevives`). `RedeemClearsBookmark` of
`RestockWishlist` fails at once: buying does not clear the bookmark that
`rewards/models.py:215-216` says it clears.

## 8. What is abstracted or left out

- Shop: prices, names, kinds and notes are what the rules compare; activity log and
  notifications are left out. The household scope and the role checks of the views are
  not modelled. An answer that is lost and retried is simply another request.
- Wishlist: one offer; every child has an address; expiry windows are part of `onSale`.
- Forge: one printer, so at most one open row (a unique constraint says so). `FAILED`, `UNKNOWN`
  and a printer that comes back idle end a row alike. A request's text edits, hiding a row,
  photos, HMS and progress events are left out, and so are grams and minutes: the budget is a
  count of debits. An exception in a handler outside a close is not modelled. Two prints are
  told apart by their run id or by their plate's name.
- Pay: one child and one wage; money is counted in hours of it. XP, badges, the receipt of a clock-out,
  balance snapshots and exports are left out. A statement upload with several rows is
  several requests.
- Savings: one Coin a cent; badges and the game loop of a completion are left out.
- Challenge: the nightly repair takes every pending fact, where the code takes the hundred oldest
  (`quests/activity.py:257`), so a hundred that always fail would keep later ones waiting.
- Campaign: one boss definition that is not repeatable; trigger filters, sizes of damage and
  rewards, scrolls and badge gates are left out. Challenge: one-time promises, no recurring
  calendars, enrollment, pins or filters.
- Listener and Ingest: one printer; the capture file, the heartbeat file, the cloud's
  online events and the fields themselves are left out, and so is any error but a refusal.
- Household: one family. Signup, the redaction of activity, the check for rows of other families, the outbox of
  deleted files and linking a Google account are left out. A chore stands for the six
  tables of shared work.
- Not modelled: chores' and homework's decisions (the pattern of the shop's), pets, RPG items,
  achievements, habits, the journals, the MCP server's receipts, notifications. Google's
  exports, the ingestion pipeline, the clients, infrastructure and content are I/O, or hold
  no state that a decision uses. `PROJECT.json` gives the reason for each. The source is some
  hundred thousand lines, most of them serializers, forms, content and clients; the map
  covers the transactions in which two actors can meet.

## 9. The plan

To model: `Approvals` (chores and homework: submit, decide, withdraw, the daily counter),
`RetryReceipts` (MCP receipts with deletion, role changes and replays), expeditions.
