------------------------------ MODULE Challenge ------------------------------
(***************************************************************************)
(* Automatic challenges and the daily bonus of one child                   *)
(* (apps/quests/goals.py, controls.py, activity.py, daily_bonus.py and     *)
(* DailyChallengeService).                                                 *)
(*                                                                         *)
(* Accepted work leaves a fact.  A fact is saved before it is evaluated, so *)
(* that an evaluation that fails can be repaired later, perhaps after the  *)
(* window it belongs to has passed.  The promises here are one-time ones;  *)
(* two of them may be versions of one definition.  An attempt that expired *)
(* can be retried on request, with a new window and the same reward.       *)
(*                                                                         *)
(* Every writer holds the child's row, so each transaction is one step.    *)
(* The clock counts days.                                                  *)
(***************************************************************************)
EXTENDS Naturals, Sequences, FiniteSets

CONSTANTS
    Goals,       \* versions of the definition that the child accepted, numbered
    Opens,       \* Opens[g]: starts_at
    Target,      \* Target[g]: facts that it takes
    Window,      \* days from starts_at to ends_at
    Enough,      \* minute facts that make up the daily bonus's ten minutes
    LegacyDays,  \* days on which an old client may be used
    LastDay,     \* bound of the model: the clock
    MaxFacts,    \* bound of the model: accepted work
    MaxRetries,  \* bound of the model
    None

Days == 0 .. LastDay

Fact == [day : Days, kind : {"task", "minutes"}, state : {"pending", "processed", "voided"}]
LegacyRow == [done : BOOLEAN, owed : BOOLEAN]

ASSUME ChallengeConstants ==
    /\ Cardinality(Goals) \in Nat /\ Goals = 1 .. Cardinality(Goals)
    /\ Opens \in [Goals -> Nat] /\ Target \in [Goals -> Nat \ {0}]
    /\ Window \in Nat \ {0} /\ Enough \in Nat \ {0}
    /\ LastDay \in Nat /\ MaxFacts \in Nat /\ MaxRetries \in Nat
    /\ LegacyDays \subseteq Days
    /\ None \notin LegacyRow

VARIABLES
    today,
    facts,     \* facts[f]: the ChallengeActivity rows in the order of their keys
    attempts,  \* the ChallengeOccurrence rows, likewise
    bonus,     \* bonus[d]: the DailyBonus row of the day was awarded
    legacy,    \* legacy[d]: the DailyChallenge row of the day, or None
    paidDays   \* history: paidDays[d]: times the day's bonus was paid

vars == <<today, facts, attempts, bonus, legacy, paidDays>>

AttemptRow == [goal : Goals, starts : Nat, status : {"active", "completed", "closed"},
               counted : SUBSET Nat, progress : Nat, paid : BOOLEAN, retry : BOOLEAN, after : Nat]

Attempt(g, day, retry) ==
    [goal |-> g, starts |-> day, status |-> "active", counted |-> {}, progress |-> 0,
     paid |-> FALSE, retry |-> retry, after |-> IF retry THEN Len(facts) ELSE 0]

Init ==
    /\ today = 0
    /\ facts = <<>>
    /\ attempts = [g \in Goals |-> Attempt(g, Opens[g], FALSE)]
    /\ bonus = [d \in Days |-> FALSE]
    /\ legacy = [d \in Days |-> None]
    /\ paidDays = [d \in Days |-> 0]

Covers(a, day) == a.starts <= day /\ day < a.starts + Window

-----------------------------------------------------------------------------
(* Evaluation of a fact against the promises.                              *)

\* Mutant of Lifetime: versions of a definition never share a reward.
LifetimeNever == FALSE

\* An explicit retry turns all versions into one reward.
Lifetime == \E i \in DOMAIN attempts : attempts[i].retry

PaidAny == \E i \in DOMAIN attempts : attempts[i].paid

\* The attempt whose window has the fact's day takes it, if it is unpaid.
Counts(a, f, day) ==
    /\ Covers(a, day)
    /\ ~a.paid /\ a.status # "closed"
    /\ a.retry => f > a.after

\* Facts of an attempt that have not been voided.
Total(counted, fs) == Cardinality({f \in counted : fs[f].state # "voided"})

\* close_unpaid_attempts excludes the attempt that is being paid.
Status(a, wins, closing) ==
    IF wins THEN "completed" ELSE IF closing /\ ~a.paid THEN "closed" ELSE a.status

Hit(f, fs) == {i \in DOMAIN attempts : Counts(attempts[i], f, fs[f].day)}

Reached(f, fs) == {i \in Hit(f, fs) : Total(attempts[i].counted \cup {f}, fs) >= Target[attempts[i].goal]}

\* Promises are taken in the order of their keys.
First(f, fs) == {i \in Reached(f, fs) : \A j \in Reached(f, fs) : attempts[i].goal <= attempts[j].goal}

\* Those that reach their target are paid; after a retry only the first one is,
\* and only if none was before, and the others are closed.
Won(f, fs) == IF ~Lifetime THEN Reached(f, fs) ELSE IF PaidAny THEN {} ELSE First(f, fs)

Closing(f, fs) == Lifetime /\ Reached(f, fs) # {}

\* A promise that is closed before its turn does not count the fact.
Takers(f, fs) == {i \in Hit(f, fs) :
    Closing(f, fs) => \A j \in First(f, fs) : attempts[i].goal <= attempts[j].goal}

Taken(a, f, fs) ==
    LET now == a.counted \cup {f} IN [a EXCEPT !.counted = now, !.progress = Total(now, fs)]

Evaluate(f, fs) ==
    [i \in DOMAIN attempts |->
        LET a == attempts[i]
            won == i \in Won(f, fs)
        IN  [(IF i \in Takers(f, fs) THEN Taken(a, f, fs) ELSE a) EXCEPT
                !.paid = @ \/ won, !.status = Status(a, won, Closing(f, fs))]]

-----------------------------------------------------------------------------
(* The daily bonus.                                                        *)

Owed(d) == legacy[d] # None /\ legacy[d].owed
Settled(d) == legacy[d] # None /\ legacy[d].done /\ ~legacy[d].owed

Qualifies(kind, d, fs) ==
    \/ kind = "task"
    \/ Cardinality({f \in DOMAIN fs : fs[f].kind = "minutes" /\ fs[f].day = d /\ fs[f].state # "voided"}) >= Enough
    \/ legacy[d] # None /\ legacy[d].done

\* process_daily_bonus on a qualified day: paid once, or marked as paid when
\* the day's legacy row was.
PayBonus(d) ==
    IF bonus[d] THEN UNCHANGED <<bonus, legacy, paidDays>>
    ELSE /\ bonus' = [bonus EXCEPT ![d] = TRUE]
         /\ paidDays' = [paidDays EXCEPT ![d] = @ + IF Settled(d) THEN 0 ELSE 1]
         /\ legacy' = IF legacy[d] = None THEN legacy ELSE [legacy EXCEPT ![d].owed = FALSE]

DailyBonus(kind, d, fs) ==
    IF Qualifies(kind, d, fs) THEN PayBonus(d) ELSE UNCHANGED <<bonus, legacy, paidDays>>

\* Goals and bonus are evaluated in one savepoint.
Process(f, fs) ==
    /\ facts' = [fs EXCEPT ![f].state = "processed"]
    /\ attempts' = Evaluate(f, fs)
    /\ DailyBonus(fs[f].kind, fs[f].day, fs)
    /\ UNCHANGED today

\* Mutant of Fails: the fact is marked before it is evaluated.
FailsMarked(f, fs) ==
    /\ facts' = [fs EXCEPT ![f].state = "processed"]
    /\ UNCHANGED <<today, attempts, bonus, legacy, paidDays>>

\* The savepoint is rolled back; the fact stays pending.
Fails(f, fs) ==
    /\ facts' = fs
    /\ UNCHANGED <<today, attempts, bonus, legacy, paidDays>>

\* record_activity: work accepted now, done today or (a timer that was
\* stopped for the child) the day before.
Record(day, kind) ==
    /\ Len(facts) < MaxFacts
    /\ day \in {today, today - 1} \cap Days
    /\ LET fs == Append(facts, [day |-> day, kind |-> kind, state |-> "pending"])
       IN  Process(Len(fs), fs) \/ Fails(Len(fs), fs)

Pending(f) == f \in DOMAIN facts /\ facts[f].state = "pending"

\* Mutant of Repaired: only the work of today is repaired.
RepairedToday(f) == Pending(f) /\ facts[f].day = today /\ Process(f, facts)

\* retry_pending_activity
Repaired(f) == Pending(f) /\ Process(f, facts)

\* Mutant of VoidFact: the totals are left as they are.
VoidFactOnly(f) ==
    /\ facts' = [facts EXCEPT ![f].state = "voided"]
    /\ UNCHANGED <<today, attempts, bonus, legacy, paidDays>>

\* void_activity: the source was voided or deleted.
VoidFact(f) ==
    /\ facts' = [facts EXCEPT ![f].state = "voided"]
    /\ attempts' = [i \in DOMAIN attempts |->
         LET a == attempts[i] IN
         IF a.paid \/ f \notin a.counted THEN a ELSE [a EXCEPT !.progress = Total(a.counted, facts')]]
    /\ UNCHANGED <<today, bonus, legacy, paidDays>>

Void(f) == facts[f].state # "voided" /\ VoidFact(f)

-----------------------------------------------------------------------------
(* Retries.                                                                *)

\* Among the latest attempts of all versions, none is open and i is the last.
Latest(i) ==
    LET last == {j \in DOMAIN attempts : \A k \in DOMAIN attempts : attempts[k].goal = attempts[j].goal => k <= j}
    IN  /\ i \in last
        /\ \A j \in last :
             /\ ~(attempts[j].status = "active" /\ today < attempts[j].starts + Window)
             /\ \/ attempts[j].starts < attempts[i].starts
                \/ attempts[j].starts = attempts[i].starts /\ j <= i

\* retry_state: an expired attempt of a promise that was never paid.
RetryAllowed(i) ==
    /\ ~PaidAny /\ attempts[i].status # "closed"
    /\ Latest(i) /\ today >= attempts[i].starts + Window

Retry(i) ==
    /\ Len(attempts) < Cardinality(Goals) + MaxRetries
    /\ RetryAllowed(i)
    /\ attempts' = Append(attempts, Attempt(attempts[i].goal, today, TRUE))
    /\ UNCHANGED <<today, facts, bonus, legacy, paidDays>>

-----------------------------------------------------------------------------
(* Clients from before the daily bonus, and the clock.                     *)

\* get_or_create_today
OldDaily ==
    /\ today \in LegacyDays /\ legacy[today] = None
    /\ legacy' = [legacy EXCEPT ![today] = [done |-> bonus[today], owed |-> ~bonus[today]]]
    /\ UNCHANGED <<today, facts, attempts, bonus, paidDays>>

\* DailyChallengeService.record_progress reaches the row's target.
OldProgress ==
    /\ legacy[today] # None /\ ~legacy[today].done
    /\ legacy' = [legacy EXCEPT ![today].done = TRUE]
    /\ UNCHANGED <<today, facts, attempts, bonus, paidDays>>

\* claim_reward
OldClaim ==
    /\ ~bonus[today] /\ Owed(today) /\ legacy[today].done
    /\ legacy' = [legacy EXCEPT ![today].owed = FALSE]
    /\ paidDays' = [paidDays EXCEPT ![today] = @ + 1]
    /\ UNCHANGED <<today, facts, attempts, bonus>>

\* settle_legacy_bonuses
SettleOld(d) ==
    /\ Owed(d) /\ legacy[d].done
    /\ PayBonus(d)
    /\ UNCHANGED <<today, facts, attempts>>

NextDay ==
    /\ today < LastDay
    /\ today' = today + 1
    /\ UNCHANGED <<facts, attempts, bonus, legacy, paidDays>>

Repair == \E f \in DOMAIN facts : Repaired(f)

Next ==
    \/ \E d \in Days, kind \in {"task", "minutes"} : Record(d, kind)
    \/ Repair
    \/ \E f \in DOMAIN facts : Void(f)
    \/ \E i \in DOMAIN attempts : Retry(i)
    \/ OldDaily \/ OldProgress \/ OldClaim
    \/ \E d \in Days : SettleOld(d)
    \/ NextDay

Spec == Init /\ [][Next]_vars

\* rotate_daily_challenges_task repairs every night; a fact whose evaluation
\* fails today is tried again tomorrow.
FairSpec ==
    /\ Spec
    /\ WF_vars(Repair)

-----------------------------------------------------------------------------
(* Properties.                                                             *)

TypeOK ==
    /\ today \in Days
    /\ facts \in Seq(Fact)
    /\ attempts \in Seq(AttemptRow)
    /\ bonus \in [Days -> BOOLEAN] /\ paidDays \in [Days -> Nat]
    /\ legacy \in [Days -> LegacyRow \cup {None}]
    /\ \A i \in DOMAIN attempts :
         /\ attempts[i].counted \subseteq DOMAIN facts
         /\ attempts[i].paid <=> attempts[i].status = "completed"

\* Once a promise was retried, it is paid once among all its attempts and
\* versions, however late a repair is, and nothing stays open beside the
\* reward (_award_in_scope, retry_state).
OneRewardAfterRetry == (\E i, j \in DOMAIN attempts : attempts[i].retry /\ attempts[j].paid) =>
    /\ Cardinality({i \in DOMAIN attempts : attempts[i].paid}) = 1
    /\ \A i \in DOMAIN attempts : attempts[i].paid \/ attempts[i].status = "closed"

\* An unpaid attempt shows what its standing facts add up to, and a reached
\* target has been paid or closed (_process, void_activity).
ProgressIsEarned == \A i \in DOMAIN attempts :
    LET a == attempts[i] IN
    /\ ~a.paid => a.progress = Total(a.counted, facts)
    /\ a.progress >= Target[a.goal] => a.paid \/ a.status = "closed"

\* Work counts for one attempt of a promise, and what a child had done before
\* asking for a retry does not pay it (_process).
WorkCountsOnce == \A f \in DOMAIN facts, i, j \in DOMAIN attempts :
    f \in attempts[i].counted =>
        /\ f \in attempts[j].counted /\ attempts[j].goal = attempts[i].goal => i = j
        /\ f > attempts[i].after

\* After any failures, repairs, voids and retries each attempt shows its own
\* standing work and no other attempt shows it too.
ChallengeInv == TypeOK /\ ProgressIsEarned /\ WorkCountsOnce

\* The bonus of a day is paid once, whether by work, by an old client's claim
\* or by the settling task (process_daily_bonus, claim_reward).
OneBonusPerDay == \A d \in Days : paidDays[d] <= 1

\* A late repair, a retry and an old client's claim pay nothing a second time.
PaysOnce == OneRewardAfterRetry /\ OneBonusPerDay

\* Finished tasks that were evaluated have paid their day's bonus
\* (record_activity rolls the fact back together with the bonus).
TaskPaysItsDay == \A f \in DOMAIN facts :
    facts[f].kind = "task" /\ facts[f].state = "processed" => paidDays[facts[f].day] = 1

\* Every fact is evaluated or voided in the end (retry_pending_activity).
EveryFactSettles == []<>(\A f \in DOMAIN facts : ~Pending(f))
=============================================================================
