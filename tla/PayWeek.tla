------------------------------ MODULE PayWeek ------------------------------
(***************************************************************************)
(* One child's paid work: the timer (apps/timecards/services.py), the      *)
(* weekly card and its decisions, the money ledger (apps/payments) and the *)
(* money-to-coins exchange (apps/rewards/services.py).                     *)
(*                                                                         *)
(* Every card decision, payout and generation holds the child's row FOR    *)
(* UPDATE from its first read to its commit, and that lock also makes an   *)
(* insert that refers to the child wait, so each is one action.  Exchange  *)
(* decisions and savings checks hold it FOR NO KEY UPDATE: they exclude    *)
(* one another and the cards, but not the ledger row that a parent's       *)
(* adjustment inserts with no lock.  What reads a balance under that lock  *)
(* and writes by it later is split, and so is what runs without a lock:    *)
(* the scheduler's auto clock-out reads a list and saves each row later,   *)
(* the void view reads its row before the lock.  Both save whole rows.     *)
(*                                                                         *)
(* Money is counted in units of one hour's wage.                           *)
(***************************************************************************)
EXTENDS Integers, Sequences, SequencesExt, FiniteSetsExt

CONSTANTS
    Entries,     \* TimeEntry rows the child may create
    Voids,       \* void requests that may be in flight
    Projects,
    LastWeek,    \* bound of the model: weeks 1 .. LastWeek are worked
    Durations,   \* hours an entry may last
    Bonus,       \* Project.bonus_amount
    Exchanges,   \* ExchangeRequest rows the child may create
    Amounts,     \* bound of the model: what an exchange, an adjustment or a free payout moves
    MaxRows,     \* bound of the model: payouts recorded
    MaxSide,     \* bound of the model: net of everything that is not hours or payouts
    Target,      \* target_amount of the child's savings goal
    None

ASSUME PayWeekConstants ==
    /\ LastWeek \in Nat \ {0}
    /\ IsFiniteSet(Entries) /\ IsFiniteSet(Projects)
    /\ Durations \subseteq Nat
    /\ \E longest \in Durations : \A d \in Durations : longest >= d
    /\ Amounts \subseteq Nat \ {0}
    /\ {Bonus, MaxRows, MaxSide} \subseteq Nat
    /\ Target \in Nat \ {0}

Weeks == 1 .. LastWeek

VARIABLES
    week,      \* the current week; LastWeek + 1 when the model's work is over
    ran,       \* the Sunday 23:55 task of this week has run
    entry,     \* entry[e]: the TimeEntry row
    autoRow,   \* autoRow[e]: the row as auto_clock_out read it, or None
    voidRow,   \* voidRow[v]: the row as the request v read it, or None
    card,      \* card[w]: the week's Timecard row
    credit,    \* credit[w][p]: sum of the card's HOURLY rows of a project
    doneIn,    \* doneIn[p]: the week the project was completed in, or 0
    payouts,   \* the PAYOUT rows with their GreenlightTransfer, in order
    side,      \* sum of the other rows: bonuses, adjustments, exchanges
    exchange,  \* exchange[x]: the ExchangeRequest row
    late,      \* late[x]: an approval of x has read the balance, and what was
               \* adjusted since; or None
    reached,   \* the savings goal is completed
    covered    \* a savings check has read a balance that covers the goal

clock == <<week, ran>>
timers == <<entry, autoRow, voidRow>>
ledger == <<credit, payouts, side, reached>>
trades == <<exchange, late, covered>>
vars == <<clock, timers, card, ledger, doneIn, trades>>

EntryRow == [status : {"none", "active", "completed", "voided"},
             project : Projects \cup {None}, week : 0 .. LastWeek, hours : {0} \cup Durations]
CardRow == [status : {"none", "pending", "approved", "paid", "closed", "disputed"},
            hourly : Nat, bonus : Nat]
ExchangeRow == [status : {"none", "pending", "approved", "denied"}, amount : Nat]

NoEntry == [status |-> "none", project |-> None, week |-> 0, hours |-> 0]

Init ==
    /\ week = 1
    /\ ran = FALSE
    /\ entry = [e \in Entries |-> NoEntry]
    /\ autoRow = [e \in Entries |-> None]
    /\ voidRow = [v \in Voids |-> None]
    /\ card = [w \in Weeks |-> [status |-> "none", hourly |-> 0, bonus |-> 0]]
    /\ credit = [w \in Weeks |-> [p \in Projects |-> 0]]
    /\ doneIn = [p \in Projects |-> 0]
    /\ payouts = <<>>
    /\ side = 0
    /\ exchange = [x \in Exchanges |-> [status |-> "none", amount |-> 0]]
    /\ late = [x \in Exchanges |-> None]
    /\ reached = FALSE
    /\ covered = FALSE

-----------------------------------------------------------------------------
(* Balances.                                                               *)

CreditOf(w) == MapThenSumSet(LAMBDA p : credit[w][p], Projects)

\* The PAYOUT rows of a card; those of no card are the rows for 0.
RowsFor(w) == {i \in DOMAIN payouts : payouts[i].card = w}

PaidBy(rows) == MapThenSumSet(LAMBDA i : payouts[i].amount, rows)

Owed == MapThenSumSet(CreditOf, Weeks) + side - PaidBy(DOMAIN payouts)

Decided(w) == card[w].status \in {"approved", "paid", "closed"}

\* Only positive nets are withheld: one card's correction frees no other's.
Pending == MapThenSumSet(LAMBDA w : IF CreditOf(w) > 0 THEN CreditOf(w) ELSE 0,
                         {w \in Weeks : ~Decided(w)})

Payable == Max({0, Min({Owed, Owed - Pending})})

HasPayout(w) == \E i \in DOMAIN payouts : payouts[i].card = w

TotalOf(w) == card[w].hourly + card[w].bonus

\* record_entry ends with a savings check: the goal completes, for good, when
\* a balance covers it; a check that fails keeps the entry and leaves the goal.
Save(balances) == reached' \in {reached, reached \/ \E b \in balances : b >= Target}

\* Mutant of Free: an exchange is approved without locking the child's row.
FreeOfChecks == ~covered

\* No transaction that takes more than one step here holds the child's row.
Free == ~covered /\ \A x \in Exchanges : late[x] = None

-----------------------------------------------------------------------------
(* The timer.                                                              *)

\* The check and the insert are apart, with no lock; the unique constraint
\* repeats the check for the insert, so a second active row never commits.  The
\* Sunday task runs inside the quiet hours, which refuse new timers.
ClockIn(e, p) ==
    /\ week \in Weeks
    /\ ~ran
    /\ entry[e].status = "none"
    /\ doneIn[p] = 0
    /\ \A f \in Entries : entry[f].status # "active"
    /\ entry' = [entry EXCEPT ![e] = [status |-> "active", project |-> p, week |-> week, hours |-> 0]]
    /\ UNCHANGED <<clock, autoRow, voidRow, card, ledger, doneIn, trades>>

\* Under the user lock: the row is read again, closed and rewarded.
ClockOut(e, h) ==
    /\ Free
    /\ entry[e].status = "active"
    /\ entry' = [entry EXCEPT ![e].status = "completed", ![e].hours = h]
    /\ UNCHANGED <<clock, autoRow, voidRow, card, ledger, doneIn, trades>>

\* auto_clock_out evaluates its query; any timer may have run for eight hours.
AutoRead(e) ==
    /\ entry[e].status = "active"
    /\ \A f \in Entries : autoRow[f] = None
    /\ autoRow' = [autoRow EXCEPT ![e] = entry[e]]
    /\ UNCHANGED <<clock, entry, voidRow, card, ledger, doneIn, trades>>

\* Mutant of AutoSave: the save leaves the status alone.
AutoSaveOpen(e) ==
    /\ autoRow[e] # None
    /\ entry' = [entry EXCEPT ![e] = autoRow[e]]
    /\ autoRow' = [autoRow EXCEPT ![e] = None]
    /\ UNCHANGED <<clock, voidRow, card, ledger, doneIn, trades>>

\* It saves a row it read, whatever became of it, and awards nothing.
AutoSave(e) ==
    /\ autoRow[e] # None
    /\ entry' = [entry EXCEPT ![e] = [autoRow[e] EXCEPT !.status = "completed", !.hours = Max(Durations)]]
    /\ autoRow' = [autoRow EXCEPT ![e] = None]
    /\ UNCHANGED <<clock, voidRow, card, ledger, doneIn, trades>>

\* POST void: get_object runs before the lock is taken.
VoidRead(v, e) ==
    /\ entry[e].status # "none"
    /\ voidRow[v] = None
    /\ voidRow' = [voidRow EXCEPT ![v] = [of |-> e, row |-> entry[e]]]
    /\ UNCHANGED <<clock, entry, autoRow, card, ledger, doneIn, trades>>

VoidSave(v) ==
    /\ Free
    /\ voidRow[v] # None
    /\ entry' = [entry EXCEPT ![voidRow[v].of] = [voidRow[v].row EXCEPT !.status = "voided"]]
    /\ voidRow' = [voidRow EXCEPT ![v] = None]
    /\ UNCHANGED <<clock, autoRow, card, ledger, doneIn, trades>>

\* The agent tool saves the status column alone.
VoidByTool(e) ==
    /\ entry[e].status \in {"active", "completed"}
    /\ entry' = [entry EXCEPT ![e].status = "voided"]
    /\ UNCHANGED <<clock, autoRow, voidRow, card, ledger, doneIn, trades>>

-----------------------------------------------------------------------------
(* The weekly card.                                                        *)

Worked(w) == {e \in Entries : entry[e].status = "completed" /\ entry[e].week = w}

Expected(w) == [p \in Projects |->
    MapThenSumSet(LAMBDA e : entry[e].hours, {e \in Worked(w) : entry[e].project = p})]

BonusOf(w) == Bonus * Cardinality({p \in Projects : doneIn[p] = w})

Delta(w) == [p \in Projects |-> Expected(w)[p] - credit[w][p]]

Changed(w) == {<<p, Delta(w)[p]>> : p \in {q \in Projects : Delta(w)[q] # 0}}

\* Mutant of Corrections: replacements are added before old credits go.
CorrectionsUp(w) == CHOOSE rows \in SetToSeqs(Changed(w)) : IsSorted(rows, LAMBDA a, b : a[2] >= b[2])

\* Mutant of Corrections: a project with no hours left keeps its credit.
CorrectionsKept(w) == CHOOSE rows \in SetToSeqs({r \in Changed(w) : Expected(w)[r[1]] > 0}) :
                          IsSorted(rows, LAMBDA a, b : a[2] <= b[2])

\* The corrections of a card that is there, smallest first; a new card has
\* only credits.
Corrections(w) == CHOOSE rows \in SetToSeqs(Changed(w)) : IsSorted(rows, LAMBDA a, b : a[2] <= b[2])

\* The balances the savings checks see as the corrections are written.
Running(rows) == {Owed + MapThenSumSet(LAMBDA i : rows[i][2], 1 .. n) : n \in 1 .. Len(rows)}

\* A card that is decided, or has a payout, is returned as it is.
Skips(w) ==
    \/ Decided(w) \/ HasPayout(w)
    \/ Worked(w) = {} /\ card[w].status = "none"

HoursOf(w) == MapThenSumSet(LAMBDA p : Expected(w)[p], Projects)

Corrected(w) == [p \in Projects |->
    credit[w][p] + MapThenSumSet(LAMBDA r : r[2], {r \in ToSet(Corrections(w)) : r[1] = p})]

Generate(w) ==
    /\ Free
    /\ ~Skips(w)
    /\ card' = [card EXCEPT ![w] =
                  [status |-> IF @.status = "none" THEN "pending" ELSE @.status,
                   hourly |-> HoursOf(w), bonus |-> BonusOf(w)]]
    /\ credit' = [credit EXCEPT ![w] = Corrected(w)]
    /\ Save(Running(Corrections(w)))
    /\ UNCHANGED <<payouts, side>>

\* generate_timecard: a parent asks for any week, any time.
GenerateByTool(w) ==
    /\ Generate(w)
    /\ UNCHANGED <<clock, timers, doneIn, trades>>

\* The Sunday task.
Sunday ==
    /\ Free
    /\ week \in Weeks
    /\ ~ran
    /\ ran' = TRUE
    /\ IF Skips(week) THEN UNCHANGED <<card, ledger>> ELSE Generate(week)
    /\ UNCHANGED <<week, timers, doneIn, trades>>

NextWeek ==
    /\ week \in Weeks
    /\ ran
    /\ week' = week + 1
    /\ ran' = FALSE
    /\ UNCHANGED <<timers, card, ledger, doneIn, trades>>

-----------------------------------------------------------------------------
(* Decisions on a card.  Each locks the child and reads the card again.    *)

SetStatus(w, to) == card' = [card EXCEPT ![w].status = to]

\* From pending, or again after a dispute.
Approve(w) ==
    /\ Free
    /\ card[w].status \in {"pending", "disputed"}
    /\ ~HasPayout(w)
    /\ SetStatus(w, "approved")
    /\ UNCHANGED <<clock, timers, ledger, doneIn, trades>>

\* Only a week worth nothing is closed.
Close(w) ==
    /\ Free
    /\ card[w].status = "approved"
    /\ TotalOf(w) = 0
    /\ ~HasPayout(w)
    /\ SetStatus(w, "closed")
    /\ UNCHANGED <<clock, timers, ledger, doneIn, trades>>

\* Either side, as long as nothing is settled.
Dispute(w) ==
    /\ Free
    /\ card[w].status \in {"pending", "approved"}
    /\ ~HasPayout(w)
    /\ SetStatus(w, "disputed")
    /\ UNCHANGED <<clock, timers, ledger, doneIn, trades>>

NoTransfer == [key |-> None, ref |-> None, on |-> None]

PayRow(w, a, how) == [card |-> w, amount |-> a, key |-> how.key, ref |-> how.ref, on |-> how.on]

\* A payout row is written; the savings check sees the balance after it.
Record(w, a, how) ==
    /\ Len(payouts) < MaxRows
    /\ payouts' = Append(payouts, PayRow(w, a, how))
    /\ Save({Owed - a})
    /\ UNCHANGED <<credit, side>>

\* mark_paid: a retry after the payout changes nothing.
MarkPaid(w) ==
    /\ Free
    /\ card[w].status = "approved"
    /\ ~HasPayout(w)
    /\ TotalOf(w) \in 1 .. Payable
    /\ Record(w, TotalOf(w), NoTransfer)
    /\ SetStatus(w, "paid")
    /\ UNCHANGED <<clock, timers, doneIn, trades>>

-----------------------------------------------------------------------------
(* Other money.                                                            *)

Within(d) == side + d \in -MaxSide .. MaxSide

\* A row is written, and its savings check sees the balance after it.
MoveSide(d) ==
    /\ side' = side + d
    /\ Save({Owed + d})
    /\ UNCHANGED <<credit, payouts>>

\* A parent's correction, either way, with no check and no lock.  The row is
\* committed at once; its savings check comes later.
Adjust(d) ==
    /\ Within(d)
    /\ side' = side + d
    /\ late' = [x \in Exchanges |-> IF late[x] = None THEN None ELSE late[x] + d]
    /\ UNCHANGED <<clock, timers, card, credit, payouts, reached, doneIn, exchange, covered>>

\* adjust_payment, whose retry guard locks the child around the row and its check.
AdjustByTool(d) ==
    /\ Free
    /\ Within(d)
    /\ MoveSide(d)
    /\ UNCHANGED <<clock, timers, card, doneIn, trades>>

\* The savings check after an adjustment, or when goals are made and edited.
ReadGoal ==
    /\ Free
    /\ ~reached
    /\ Owed >= Target
    /\ covered' = TRUE
    /\ UNCHANGED <<clock, timers, card, ledger, doneIn, exchange, late>>

\* Its commit, whatever was adjusted since it read, or its failure.
SettleGoal(done) ==
    /\ covered
    /\ covered' = FALSE
    /\ reached' = (reached \/ done)
    /\ UNCHANGED <<clock, timers, card, credit, payouts, side, doneIn, exchange, late>>

\* The first completion of a project pays its bonus.
CompleteProject(p) ==
    /\ Free
    /\ week \in Weeks
    /\ doneIn[p] = 0
    /\ doneIn' = [doneIn EXCEPT ![p] = week]
    /\ IF Bonus > 0 THEN MoveSide(Bonus) ELSE UNCHANGED ledger
    /\ UNCHANGED <<clock, timers, card, trades>>

\* The balance is looked at and nothing is set aside.
RequestExchange(x, a) ==
    /\ exchange[x].status = "none"
    /\ Owed >= a
    /\ exchange' = [exchange EXCEPT ![x] = [status |-> "pending", amount |-> a]]
    /\ UNCHANGED <<clock, timers, card, ledger, doneIn, late, covered>>

\* approve up to its read of the balance, which decides again.
ReadBalance(x) ==
    /\ Free
    /\ exchange[x].status = "pending"
    /\ Owed >= exchange[x].amount
    /\ late' = [late EXCEPT ![x] = 0]
    /\ UNCHANGED <<clock, timers, card, ledger, doneIn, exchange, covered>>

\* The debit and the commit.
ApproveExchange(x) ==
    /\ late[x] # None
    /\ MoveSide(-exchange[x].amount)
    /\ exchange' = [exchange EXCEPT ![x].status = "approved"]
    /\ late' = [late EXCEPT ![x] = None]
    /\ UNCHANGED <<clock, timers, card, doneIn, covered>>

\* The approval fails after its read, and keeps nothing.
RollBack(x) ==
    /\ late[x] # None
    /\ late' = [late EXCEPT ![x] = None]
    /\ UNCHANGED <<clock, timers, card, ledger, doneIn, exchange, covered>>

RejectExchange(x) ==
    /\ Free
    /\ exchange[x].status = "pending"
    /\ exchange' = [exchange EXCEPT ![x].status = "denied"]
    /\ UNCHANGED <<clock, timers, card, ledger, doneIn, late, covered>>

-----------------------------------------------------------------------------
TimerStep == \E e \in Entries :
    \/ \E p \in Projects : ClockIn(e, p)
    \/ \E h \in Durations : ClockOut(e, h)
    \/ AutoRead(e)
    \/ AutoSave(e)
    \/ \E v \in Voids : VoidRead(v, e)
    \/ VoidByTool(e)

VoidDone == \E v \in Voids : VoidSave(v)

CardStep == \E w \in Weeks :
    \/ GenerateByTool(w)
    \/ Approve(w)
    \/ Close(w)
    \/ Dispute(w)
    \/ MarkPaid(w)

Ends(x) == ApproveExchange(x) \/ RollBack(x)

MoneyStep ==
    \/ \E a \in Amounts, sign \in {1, -1} : Adjust(sign * a) \/ AdjustByTool(sign * a)
    \/ ReadGoal
    \/ \E done \in BOOLEAN : SettleGoal(done)
    \/ \E p \in Projects : CompleteProject(p)
    \/ \E x \in Exchanges, a \in Amounts : RequestExchange(x, a)
    \/ \E x \in Exchanges : ReadBalance(x) \/ Ends(x) \/ RejectExchange(x)

Next == TimerStep \/ VoidDone \/ CardStep \/ MoneyStep \/ Sunday \/ NextWeek

Spec == Init /\ [][Next]_vars

\* The scheduler's jobs run again and again and each finishes, transactions end,
\* the Sunday task gets the child's row in its turn, and weeks pass.
FairSpec ==
    /\ Spec
    /\ \A e \in Entries : WF_vars(AutoRead(e)) /\ WF_vars(AutoSave(e))
    /\ \A x \in Exchanges : WF_vars(Ends(x))
    /\ WF_vars(\E done \in BOOLEAN : SettleGoal(done))
    /\ SF_vars(Sunday)
    /\ WF_vars(NextWeek)

-----------------------------------------------------------------------------
(* Properties.                                                             *)

\* The timers, and the one that runs (one_active_entry_per_user).
TimersOK ==
    /\ week \in 1 .. LastWeek + 1
    /\ entry \in [Entries -> EntryRow]
    /\ autoRow \in [Entries -> {None} \cup EntryRow]
    /\ voidRow \in [Voids -> {None} \cup [of : Entries, row : EntryRow]]
    /\ \A e, f \in Entries : entry[e].status = "active" /\ entry[f].status = "active" => e = f

\* Types of the other rows.
TypeOK ==
    /\ TimersOK
    /\ ran \in BOOLEAN
    /\ card \in [Weeks -> CardRow]
    /\ credit \in [Weeks -> [Projects -> Nat]]
    /\ doneIn \in [Projects -> 0 .. LastWeek]
    /\ Len(payouts) <= MaxRows
    /\ side \in Int
    /\ exchange \in [Exchanges -> ExchangeRow]
    /\ late \in [Exchanges -> Int \cup {None}]
    /\ reached \in BOOLEAN /\ covered \in BOOLEAN

\* The hourly rows of a week add up to what its card says, however often it was
\* generated, corrected, voided, disputed (generate_weekly_timecard).
CardMatchesLedger == \A w \in Weeks : CreditOf(w) = card[w].hourly

\* One timer runs, and the card of a week says what its ledger rows add up to.
PayInv == TypeOK /\ CardMatchesLedger

\* A week is paid by one row of exactly its total and only then is it PAID, by
\* whichever of the two payment paths and however often they are repeated; a
\* closed week was worth nothing (mark_paid, confirm_transfer, close_timecard).
PaidInFullOnce == \A w \in Weeks :
    /\ card[w].status = "paid" <=> HasPayout(w)
    /\ \A i \in DOMAIN payouts : payouts[i].card = w =>
         /\ payouts[i].amount = TotalOf(w)
         /\ \A j \in DOMAIN payouts : payouts[j].card = w => i = j
    /\ card[w].status = "closed" => TotalOf(w) = 0

\* No two exchanges, payouts or corrections of a week spend the same dollars,
\* though requests set nothing aside and their approvals overlap: an exchange
\* leaves a child in debt only by what an adjustment took after its balance was
\* read ("also serializes distinct requests spending this wallet", approve).
ExchangeCovered == [][\A x \in Exchanges :
    exchange[x].status = "pending" /\ exchange'[x].status = "approved" => Owed' >= late[x]]_vars

\* An exchange never leaves a child in debt, which is what the second balance check
\* of approve is for; an adjustment between that check and the debit breaks it.
ExchangeNeverOverdraws == [][\A x \in Exchanges :
    exchange[x].status = "pending" /\ exchange'[x].status = "approved" => Owed' >= 0]_vars

\* The corrections of a week, and a payout, never complete the savings goal by a
\* balance that they only pass through: one of the balances before and after
\* them covers it (the order of the corrections, services.py:385).
GoalOnRealBalance ==
    [][~reached /\ reached' /\ <<credit, payouts>>' # <<credit, payouts>>
           => Owed >= Target \/ Owed' >= Target]_vars

\* Three paths save a time entry from a row they read earlier; none of them turns
\* a closed entry back into a running timer, whose clock-out would award again.
NeverReopened == [][\A e \in Entries :
    entry[e].status \in {"completed", "voided"} => entry'[e].status # "active"]_vars

PhaseOf(w) == CASE card[w].status = "approved" -> "released"
                [] card[w].status \in {"paid", "closed"} -> "settled"
                [] OTHER -> "open"

\* What this code promises, in the terms of PayPromise.
Promise == INSTANCE PayPromise WITH
    Cards <- Weeks,
    phase <- [w \in Weeks |-> PhaseOf(w)],
    credit <- [w \in Weeks |-> CreditOf(w)],
    paid <- [w \in Weeks |-> PaidBy(RowsFor(w))],
    spent <- PaidBy(RowsFor(0)),
    side <- side

KeepsPromise == Promise!Spec

\* What docs/mcp-tools.md:686 says of a voided entry.
VoidedForGood == [][\A e \in Entries :
    entry[e].status = "voided" => entry'[e].status = "voided"]_vars

\* docs/rewards-inventory.md:141: clocked hours become hourly pay.
EveryHourIsPaid == \A e \in Entries :
    (entry[e].status = "completed" /\ entry[e].hours > 0) ~>
        \/ entry[e].status = "voided"
        \/ \E w \in Weeks : w = entry[e].week /\ credit[w] = Expected(w)
=============================================================================
