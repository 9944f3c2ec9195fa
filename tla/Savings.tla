------------------------------ MODULE Savings ------------------------------
(***************************************************************************)
(* Savings goals of one child (apps/projects/savings_service.py, the goal  *)
(* and progress models).  Money stays liquid: a goal completes when a      *)
(* write finds a balance that covers it, and pays Coins for the cents it   *)
(* is the first to save.  Accepted old goals keep the fixed promise they   *)
(* were made, and the cents of an open one are not paid to newer goals.    *)
(*                                                                         *)
(* Each write holds the child's row, so it is one action, with the check   *)
(* that ends it.  A ledger row survives a check that fails; the rate is    *)
(* one Coin per cent here.                                                 *)
(***************************************************************************)
EXTENDS Integers, Sequences, FiniteSets, SequencesExt, FiniteSetsExt

CONSTANTS
    Goals,         \* numbered as they are created (pk)
    Legacy,        \* accepted goals of policy 1, there from the start
    LegacyTarget,  \* legacy_target_amount of each of them
    Targets,       \* target_amount a child may choose
    Moves,         \* bound of the model: what a ledger row adds or takes
    MaxBalance,    \* bound of the model
    None

\* Bands of cents, and the row that has them.
Bands == Seq(Nat \X Nat)

ProgressRow == [floor : Nat, ranges : Bands]

ASSUME SavingsConstants ==
    /\ Goals \subseteq Nat /\ IsFiniteSet(Goals)
    /\ Legacy \subseteq Goals
    /\ \A g \in Legacy, h \in Goals \ Legacy : g < h
    /\ LegacyTarget \in [Legacy -> Nat \ {0}]
    /\ Targets \subseteq Nat \ {0}
    /\ MaxBalance \in Nat
    /\ None \notin ProgressRow

VARIABLES
    balance,   \* sum of the child's money ledger
    goal,      \* goal[g]: the SavingsGoal row
    progress,  \* the SavingsRewardProgress row, or None
    behind,    \* the check of the last ledger row failed
    paidCents, \* history: paidCents[c], how often cent c was paid to a new goal
    earned,    \* history: cents of the ranges of completed new goals
    known,     \* history: cents that were recognized when progress began
    left,      \* history: cents that a completion left to an open promise
    honoured   \* history: cents of the promises that legacy goals were paid

rows == <<balance, goal, progress, behind>>
history == <<paidCents, earned, known, left, honoured>>
vars == <<rows, history>>

Cents == 0 .. MaxBalance

GoalRow == [status : {"none", "open", "done", "gone"}, target : Nat,
            start : Nat, qualifies : BOOLEAN]

Row(target, start) == [status |-> "open", target |-> target, start |-> start, qualifies |-> FALSE]

Positive(n) == IF n > 0 THEN n ELSE 0

Begin(b) == [floor |-> b, ranges |-> IF b > 0 THEN << <<0, b>> >> ELSE <<>>]

Init ==
    /\ balance \in Cents
    /\ goal = [g \in Goals |-> IF g \in Legacy THEN Row(LegacyTarget[g], 0)
                               ELSE [Row(0, 0) EXCEPT !.status = "none"]]
    /\ progress = None
    /\ behind = TRUE
    /\ paidCents = [c \in Cents |-> 0]
    /\ earned = {}
    /\ known = {}
    /\ left = {}
    /\ honoured = {}

-----------------------------------------------------------------------------
(* _claim_savings_range: bands are <<left, right>>, right excluded, ordered *)
(* and apart from one another.                                              *)

Overlap(l, r, band) == Positive(Min({r, band[2]}) - Max({l, band[1]}))

\* Mutant of Grow: a band that only touches is swallowed one cent short.
GrowShort(acc, band) ==
    IF band[2] <= acc.l THEN [acc EXCEPT !.out = Append(@, band)]
    ELSE IF acc.r < band[1]
    THEN [acc EXCEPT !.out = (IF acc.placed THEN @ ELSE Append(@, <<acc.l, acc.r>>)) \o <<band>>, !.placed = TRUE]
    ELSE [acc EXCEPT !.l = Min({@, band[1]}), !.r = Max({@, band[2]})]

\* One band of the pass: it lies before the union, after it, or joins it.
Grow(acc, band) ==
    IF band[2] < acc.l THEN [acc EXCEPT !.out = Append(@, band)]
    ELSE IF acc.r < band[1]
    THEN [acc EXCEPT !.out = (IF acc.placed THEN @ ELSE Append(@, <<acc.l, acc.r>>)) \o <<band>>, !.placed = TRUE]
    ELSE [acc EXCEPT !.l = Min({@, band[1]}), !.r = Max({@, band[2]})]

\* Uncovered cents of l .. r-1, and the union.
Claim(covered, l, r) ==
    IF r <= l THEN [fresh |-> 0, bands |-> covered]
    ELSE LET acc == FoldLeft(Grow, [l |-> l, r |-> r, placed |-> FALSE, out |-> <<>>], covered)
         IN  [fresh |-> (r - l) - FoldLeft(LAMBDA sum, band : sum + Overlap(l, r, band), 0, covered),
              bands |-> IF acc.placed THEN acc.out ELSE Append(acc.out, <<acc.l, acc.r>>)]

Span(l, r) == {c \in Cents : l <= c /\ c < r}

CentsOf(bands) == UNION {Span(bands[i][1], bands[i][2]) : i \in DOMAIN bands}

Canonical(bands) == \A i \in DOMAIN bands :
    bands[i][1] < bands[i][2] /\ (i > 1 => bands[i - 1][2] < bands[i][1])

-----------------------------------------------------------------------------
(* check_and_complete, on the goals and progress of a write.               *)

OpenLegacy(gs) == {g \in Legacy : gs[g].status = "open"}

\* Policy 1 first, then the nearest target, then the oldest.
Before(gs, g, h) ==
    \/ g \in Legacy /\ h \notin Legacy
    \/ /\ g \in Legacy <=> h \in Legacy
       /\ gs[g].target < gs[h].target \/ (gs[g].target = gs[h].target /\ g <= h)

Reached(gs, b) == {g \in Goals : gs[g].status = "open" /\ gs[g].target <= b}

Due(gs, b) == CHOOSE q \in SetToSeqs(Reached(gs, b)) : IsSorted(q, LAMBDA g, h : Before(gs, g, h))

RangeOf(gs, g) == IF g \in Legacy THEN <<0, LegacyTarget[g]>> ELSE <<gs[g].start, gs[g].target>>

\* Mutant of Reserve: open promises are not set aside.
ReserveNothing(gs, ranges) == ranges

\* Mutant of Reserve: every open goal reserves, not the accepted ones alone.
ReserveOpen(gs, ranges) ==
    FoldSet(LAMBDA g, r : Claim(r, 0, gs[g].target).bands, ranges,
            {g \in Goals : gs[g].status = "open"})

\* The cents of every open promise count as covered for newer goals.
Reserve(gs, ranges) ==
    FoldSet(LAMBDA g, r : Claim(r, 0, LegacyTarget[g]).bands, ranges, OpenLegacy(gs))

\* One goal of the loop: what it claims, what it is paid, the last milestone.
Settle(gs, acc, g) ==
    LET span == RangeOf(gs, g)
        claim == Claim(acc.reserved, span[1], span[2])
    IN  [acc EXCEPT !.reserved = claim.bands,
                    !.ranges = Claim(@, span[1], span[2]).bands,
                    !.floor = Max({@, gs[g].target}),
                    !.best = IF g \notin Legacy /\ claim.fresh > 0 THEN {g} ELSE @,
                    !.paid = IF g \in Legacy THEN @ ELSE @ \cup (Span(span[1], span[2]) \ CentsOf(acc.reserved))]

Check(b, gs, pr) ==
    LET due == Due(gs, Positive(b))
        done == ToSet(due)
        pr0 == IF pr = None THEN Begin(Positive(b)) ELSE pr
        acc == FoldLeft(LAMBDA a, g : Settle(gs, a, g),
                        [reserved |-> Reserve(gs, pr0.ranges), ranges |-> pr0.ranges,
                         floor |-> pr0.floor, best |-> {}, paid |-> {}], due)
    IN  IF due = <<>>
        THEN /\ goal' = gs
             /\ progress' = pr
             /\ known' = IF progress = None /\ pr # None THEN CentsOf(pr.ranges) ELSE known
             /\ UNCHANGED <<paidCents, earned, left, honoured>>
        ELSE /\ goal' = [g \in Goals |-> IF g \notin done THEN gs[g]
                           ELSE [gs[g] EXCEPT !.status = "done", !.qualifies = g \in Legacy \/ g \in acc.best]]
             /\ progress' = [floor |-> acc.floor, ranges |-> acc.ranges]
             /\ known' = IF progress = None THEN CentsOf(pr0.ranges) ELSE known
             /\ paidCents' = [c \in Cents |-> IF c \in acc.paid THEN paidCents[c] + 1 ELSE paidCents[c]]
             /\ earned' = earned \cup UNION {Span(gs[g].start, gs[g].target) : g \in done \ Legacy}
             /\ left' = left \cup UNION {Span(0, LegacyTarget[g]) : g \in OpenLegacy(gs)}
             /\ honoured' = honoured \cup UNION {Span(0, LegacyTarget[g]) : g \in done \cap Legacy}

-----------------------------------------------------------------------------
(* Writes.                                                                 *)

\* PaymentService.record_entry with a check that works.
LedgerRow(d) ==
    /\ balance + d \in Cents
    /\ balance' = balance + d
    /\ behind' = FALSE
    /\ Check(balance + d, goal, progress)

\* The check raises: its savepoint is undone, the row stays.
LedgerRowOnly(d) ==
    /\ balance + d \in Cents
    /\ balance' = balance + d
    /\ behind' = TRUE
    /\ UNCHANGED <<goal, progress, history>>

\* Mutant of CreateGoal: the goal waits for the next ledger row.
CreateGoalOnly(g, t) ==
    /\ goal[g].status = "none"
    /\ progress # None
    /\ goal' = [goal EXCEPT ![g] = Row(t, Max({balance, progress.floor}))]
    /\ behind' = FALSE
    /\ UNCHANGED <<balance, progress, history>>

\* A goal of policy 2 starts above the money that is there and above every
\* target reached before.
CreateGoal(g, t) ==
    /\ goal[g].status = "none"
    /\ \A h \in Goals : h < g => goal[h].status # "none"
    /\ LET pr == IF progress = None THEN Begin(Positive(balance)) ELSE progress
       IN  Check(balance, [goal EXCEPT ![g] = Row(t, Max({balance, pr.floor}))], pr)
    /\ behind' = FALSE
    /\ UNCHANGED balance

\* A new target recognizes only future saving.
Restart(g, t) == IF t = goal[g].target THEN goal[g].start
                 ELSE Max({goal[g].start, balance, progress.floor})

\* An accepted goal keeps its payout, so its target cannot go below it.  A
\* goal that is completed can be edited too; it is not paid again.
UpdateGoal(g, t) ==
    /\ goal[g].status \in {"open", "done"}
    /\ \/ g \in Legacy /\ t >= LegacyTarget[g] /\ Check(balance, [goal EXCEPT ![g].target = t], progress)
       \/ /\ g \notin Legacy
          /\ Check(balance, [goal EXCEPT ![g].target = t, ![g].start = Restart(g, t)], progress)
    /\ behind' = FALSE
    /\ UNCHANGED balance

DeleteGoal(g) ==
    /\ goal[g].status \in {"open", "done"}
    /\ goal' = [goal EXCEPT ![g].status = "gone"]
    /\ UNCHANGED <<balance, progress, behind, history>>

Next ==
    \/ \E d \in Moves : LedgerRow(d) \/ LedgerRowOnly(d)
    \/ \E g \in Goals, t \in Targets : CreateGoal(g, t) \/ UpdateGoal(g, t)
    \/ \E g \in Goals : DeleteGoal(g)

Spec == Init /\ [][Next]_vars

-----------------------------------------------------------------------------
(* Properties.                                                             *)

TypeOK ==
    /\ balance \in Cents
    /\ goal \in [Goals -> GoalRow]
    /\ progress = None \/ (progress \in ProgressRow /\ Canonical(progress.ranges))
    /\ behind \in BOOLEAN

\* A claim is the union of its range and the coverage, in canonical form, and
\* counts exactly the cents that were not covered (_claim_savings_range).
ClaimIsUnion == progress # None =>
    \A l, r \in 0 .. MaxBalance + 1 : LET claim == Claim(progress.ranges, l, r) IN
        /\ CentsOf(claim.bands) = CentsOf(progress.ranges) \cup Span(l, r)
        /\ claim.fresh = Cardinality(Span(l, r) \ CentsOf(progress.ranges))
        /\ Canonical(claim.bands)

\* What is covered stays sorted, disjoint and not adjacent, and a claim on it
\* counts the new cents and no other.
SavingsInv == TypeOK /\ ClaimIsUnion

\* No cent is paid to two new goals, nor to a new goal and an accepted promise,
\* however deposits, spending, new targets and deletions are ordered.
NoCentPaidTwice == \A c \in Cents :
    paidCents[c] <= 1 /\ (paidCents[c] = 1 => c \notin honoured)

\* Nothing a completed goal saved is lost to it: each cent was paid, or was there
\* before, or was left to a promise that was open then.
EveryNewCentPaid == \A c \in earned : paidCents[c] = 1 \/ c \in known \cup left

\* Goals wait for their completion only after a check that failed; the next
\* write of any kind settles them (record_entry swallows the failure).
OnlyFailuresWait == ~behind =>
    \A g \in Goals : goal[g].status = "open" => goal[g].target > balance
=============================================================================
