------------------------------ MODULE Campaign ------------------------------
(***************************************************************************)
(* Campaigns: accepted quests of one child or of several                   *)
(* (apps/quests/services.py, the quest step of the game loop in            *)
(* apps/rpg/services.py, the nightly tasks).  All campaigns here are of    *)
(* one boss definition that is not repeatable.                             *)
(*                                                                         *)
(* Progress is a transaction that locks all members and then the campaign; *)
(* it is open between Begin and Finish, and whoever needs one of those     *)
(* rows waits.  The work of one of several members is credited by a        *)
(* callback after its source has committed.  The nightly tasks read        *)
(* without locks and write later.                                          *)
(***************************************************************************)
EXTENDS Naturals, FiniteSets, FiniteSetsExt

CONSTANTS
    Children,
    Quests,      \* campaigns that may be started, numbered
    CampaignTarget,      \* target_value of the definition
    Climb, Decay, Cap,   \* RAGE_SHIELD_*
    MaxDue,      \* bound of the model: callbacks that wait at once
    MaxProgress, \* bound of the model: current_progress
    Nothing

ASSUME CampaignConstants ==
    /\ Quests \subseteq Nat
    /\ IsFiniteSet(Children)
    /\ CampaignTarget \in Nat \ {0}
    /\ Climb \in Nat /\ Decay \in Nat /\ Cap \in Nat
    /\ MaxDue \in Nat /\ MaxProgress \in Nat

VARIABLES
    status, members, progress, rage, part, \* the Quest and QuestParticipant rows
    ended,    \* ended[q]: the clock is past end_date
    touched,  \* campaigns with a participant's updated_at of today
    hit,      \* history: campaigns with progress today
    tx,       \* tx[q]: the progress transaction that holds q, or Nothing
    due,      \* on_commit callbacks: whose work, for which campaign
    expiring, \* ids that expire_quests has read
    raging,   \* raging[q]: the shield that apply_boss_rage has read, and
              \* (history) whether the day that ended had progress, or Nothing
    paid      \* paid[q][c]: payouts of the campaign's reward

rows == <<status, members, progress, rage, part, paid>>
tasks == <<expiring, raging>>
daily == <<touched, hit>>
campaignVars == <<rows, ended, daily, tx, due, tasks>>

Unread == [q \in Quests |-> Nothing]

CampaignInit ==
    /\ status = [q \in Quests |-> "none"]
    /\ members = [q \in Quests |-> {}]
    /\ progress = [q \in Quests |-> 0]
    /\ rage = [q \in Quests |-> 0]
    /\ part = [q \in Quests |-> [c \in Children |-> 0]]
    /\ ended = [q \in Quests |-> FALSE]
    /\ touched = {}
    /\ hit = {}
    /\ tx = Unread
    /\ due = {}
    /\ expiring = {}
    /\ raging = Unread
    /\ paid = [q \in Quests |-> [c \in Children |-> 0]]

Active == {q \in Quests : status[q] = "active"}
ActiveOf(c) == {q \in Active : c \in members[q]}
Locked(c) == \E q \in Quests : tx[q] # Nothing /\ c \in members[q]

\* Mutant of Free: the check for an active quest is left out.
FreeAlways(group) == \A c \in group, q \in Quests : c \in members[q] => status[q] # "completed"

\* No active quest, and a quest that is not repeatable was never completed.
Free(group) == \A c \in group, q \in Quests : c \in members[q] => status[q] \notin {"active", "completed"}

\* start_quest and start_co_op_quest, in one transaction under every member's lock.
Start(q, group) ==
    /\ status[q] = "none"
    /\ \A p \in Quests : p < q => status[p] # "none"
    /\ group # {}
    /\ \A c \in group : ~Locked(c)
    /\ Free(group)
    /\ status' = [status EXCEPT ![q] = "active"]
    /\ members' = [members EXCEPT ![q] = group]
    /\ touched' = touched \cup {q}
    /\ UNCHANGED <<progress, rage, part, paid, ended, hit, tx, due, tasks>>

-----------------------------------------------------------------------------
(* Progress.                                                               *)

\* Work of a member of several: its source commits and leaves a callback.
Defer(c) ==
    /\ ~Locked(c)
    /\ \E q \in ActiveOf(c) :
        /\ Cardinality(members[q]) > 1
        /\ Cardinality(due) < MaxDue
        /\ due' = due \cup {[child |-> c, quest |-> q]}
    /\ UNCHANGED <<rows, ended, daily, tx, tasks>>

\* The process dies, or the callback raises, before it began.
LoseCallback(d) ==
    /\ d \in due
    /\ due' = due \ {d}
    /\ UNCHANGED <<rows, ended, daily, tx, tasks>>

\* Mutant of Membership: the campaign is looked up again, by the child alone.
MembershipNow(c, want) == ActiveOf(c)

\* Late work belongs to the campaign that its source saw.
Membership(c, want) == ActiveOf(c) \cap {want}

\* record_progress takes its locks; what it finds past the end it expires.
Open(c, want) == \E q \in Membership(c, want) :
    /\ \A m \in members[q] : ~Locked(m)
    /\ progress[q] < MaxProgress
    /\ IF ended[q]
       THEN status' = [status EXCEPT ![q] = "expired"] /\ UNCHANGED tx
       ELSE tx' = [tx EXCEPT ![q] = [child |-> c, seen |-> want]] /\ UNCHANGED status
    /\ UNCHANGED <<members, progress, rage, part, paid, ended, daily, tasks>>

\* Work of a child that is alone in its campaign runs in its own transaction.
BeginAlone(c) ==
    /\ \E q \in ActiveOf(c) : members[q] = {c} /\ Open(c, q)
    /\ UNCHANGED due

BeginCallback(d) ==
    /\ d \in due
    /\ due' = due \ {d}
    /\ Open(d.child, d.quest)

\* The campaign was closed before its callback got the locks.
CallbackTooLate(d) ==
    /\ d \in due
    /\ Membership(d.child, d.quest) = {}
    /\ due' = due \ {d}
    /\ UNCHANGED <<rows, ended, daily, tx, tasks>>

\* Mutant of Payees: only the child that landed the last hit is paid.
PayeesFinisher(q) == {tx[q].child}

Payees(q) == members[q]

\* Damage, contribution and, at the target, completion with every member's
\* reward are committed together.
Finish(q) ==
    /\ tx[q] # Nothing
    /\ LET c == tx[q].child
           reached == progress[q] + 1 >= CampaignTarget + rage[q]
       IN  /\ progress' = [progress EXCEPT ![q] = @ + 1]
           /\ part' = [part EXCEPT ![q][c] = @ + 1]
           /\ status' = IF reached THEN [status EXCEPT ![q] = "completed"] ELSE status
           /\ paid' = IF reached THEN [paid EXCEPT ![q] = [m \in Children |-> @[m] + IF m \in Payees(q) THEN 1 ELSE 0]]
                      ELSE paid
    /\ tx' = [tx EXCEPT ![q] = Nothing]
    /\ touched' = touched \cup {q}
    /\ hit' = hit \cup {q}
    /\ UNCHANGED <<members, rage, ended, due, tasks>>

\* A failure rolls the step back; the campaign goes on without this work.
Fail(q) ==
    /\ tx[q] # Nothing
    /\ tx' = [tx EXCEPT ![q] = Nothing]
    /\ UNCHANGED <<rows, ended, daily, due, tasks>>

-----------------------------------------------------------------------------
(* The clock and the nightly tasks.                                        *)

PassEnd(q) ==
    /\ status[q] # "none" /\ ~ended[q]
    /\ ended' = [ended EXCEPT ![q] = TRUE]
    /\ UNCHANGED <<rows, daily, tx, due, tasks>>

\* A day begins, and shortly after it apply_boss_rage reads the shields.
Midnight ==
    /\ raging = Unread
    /\ raging' = [q \in Quests |->
         IF status[q] = "active" THEN [shield |-> rage[q], worked |-> q \in hit] ELSE Nothing]
    /\ touched' = {}
    /\ hit' = {}
    /\ UNCHANGED <<rows, ended, tx, due, expiring>>

\* Mutant of PastDue: the task looks at untouched campaigns only.
PastDueIdle == {q \in Active : ended[q] /\ q \notin touched}

PastDue == {q \in Active : ended[q]}

ExpireRead ==
    /\ expiring = {} /\ PastDue # {}
    /\ expiring' = PastDue
    /\ UNCHANGED <<rows, ended, daily, tx, due, raging>>

\* One UPDATE by id: it waits for the rows and does not look at their status.
ExpireWrite ==
    /\ expiring # {}
    /\ \A q \in expiring : tx[q] = Nothing
    /\ status' = [q \in Quests |-> IF q \in expiring THEN "expired" ELSE status[q]]
    /\ expiring' = {}
    /\ UNCHANGED <<members, progress, rage, part, paid, ended, daily, tx, due, raging>>

\* A day without progress raises the shield, one with progress lowers it.
Shield(shield, today) ==
    IF ~today THEN Min({shield + Climb, Cap}) ELSE IF shield > Decay THEN shield - Decay ELSE 0

\* "Today" is the day that has just begun.
RageWrite(q) ==
    /\ raging[q] # Nothing
    /\ tx[q] = Nothing
    /\ rage' = [rage EXCEPT ![q] = LET old == raging[q].shield
                                       new == Shield(old, q \in touched)
                                   IN  IF new = old THEN @ ELSE new]
    /\ raging' = [raging EXCEPT ![q] = Nothing]
    /\ UNCHANGED <<status, members, progress, part, paid, ended, daily, tx, due, expiring>>

\* The rage_breaker consumable.
BreakRage(c) ==
    /\ ~Locked(c)
    /\ \E q \in ActiveOf(c) : rage[q] > 0 /\ rage' = [rage EXCEPT ![q] = 0]
    /\ UNCHANGED <<status, members, progress, part, paid, ended, daily, tx, due, tasks>>

Nightly == ExpireRead \/ ExpireWrite \/ \E q \in Quests : RageWrite(q)

CampaignNext ==
    \/ \E q \in Quests, group \in SUBSET Children : Start(q, group)
    \/ \E c \in Children : Defer(c) \/ BeginAlone(c) \/ BreakRage(c)
    \/ \E d \in due : LoseCallback(d) \/ BeginCallback(d) \/ CallbackTooLate(d)
    \/ \E q \in Quests : Finish(q) \/ Fail(q) \/ PassEnd(q)
    \/ Midnight
    \/ Nightly

CampaignSpec == CampaignInit /\ [][CampaignNext]_campaignVars

\* The beat scheduler runs the tasks every night and a transaction ends.
CampaignFairSpec ==
    /\ CampaignSpec
    /\ WF_campaignVars(ExpireRead) /\ WF_campaignVars(ExpireWrite)
    /\ \A q \in Quests : WF_campaignVars(Finish(q) \/ Fail(q)) /\ WF_campaignVars(PassEnd(q))

-----------------------------------------------------------------------------
(* Properties.                                                             *)

CampaignTypeOK ==
    /\ status \in [Quests -> {"none", "active", "completed", "expired"}]
    /\ members \in [Quests -> SUBSET Children]
    /\ progress \in [Quests -> 0 .. MaxProgress]
    /\ rage \in [Quests -> 0 .. Cap]
    /\ \A q \in Quests : tx[q] # Nothing => tx[q].child \in members[q] /\ status[q] = "active"

\* A child is in one active campaign at a time, whoever starts which
\* (start_quest, start_co_op_quest).
OneActivePerChild == \A c \in Children : Cardinality(ActiveOf(c)) <= 1

\* A campaign that was open pays all its members at once, and one that has
\* lapsed pays nobody (_complete_quest).
PaidTogether == [][\A q \in Quests : paid'[q] # paid[q] =>
    /\ status[q] = "active"
    /\ paid[q] = [c \in Children |-> 0]
    /\ paid'[q] = [c \in Children |-> IF c \in members[q] THEN 1 ELSE 0]]_campaignVars

\* No work is lost between the campaign's row and its members' rows
\* (record_progress writes both under the same locks).
ProgressIsSum == \A q \in Quests : progress[q] = MapThenSumSet(LAMBDA c : part[q][c], Children)

\* Two starters, late callbacks and the nightly tasks leave a child one active
\* campaign and a campaign the sum of its members' work.
CampaignInv == CampaignTypeOK /\ OneActivePerChild /\ ProgressIsSum

\* Late work is credited to the campaign it was done for, though another one
\* may have begun since (the callback of _step_quest_progress).
LateWorkStays == \A q \in Quests : tx[q] # Nothing => tx[q].seen = q

\* Every campaign ends: at its target, or at the task after its last day.
EveryCampaignEnds == \A q \in Quests : status[q] = "active" ~> status[q] # "active"

\* A definition that is not repeatable pays a child once
\* (start_quest: "You have already completed this quest").
OneTimePaidOnce == \A c \in Children :
    Cardinality({q \in Quests : paid[q][c] > 0}) <= 1

\* The night after a day with progress does not raise the shield
\* (apply_boss_rage: an active day decays it).
ActiveDayNeverRaises == [][\A q \in Quests :
    rage'[q] > rage[q] => ~raging[q].worked]_campaignVars
=============================================================================
