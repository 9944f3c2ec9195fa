----------------------------- MODULE QuestProofs -----------------------------
(***************************************************************************)
(* Proofs about the two models of apps/quests.                             *)
(*                                                                         *)
(* Challenge, for every list of promises, every window and target and any  *)
(* number of facts, failures, repairs, voids and retries: work counts once *)
(* and is all that an attempt shows, a promise that was retried is paid    *)
(* once, and a day's bonus is paid once and by every task.                 *)
(*                                                                         *)
(* Campaign, for any children, campaigns and nightly tasks: a child is in  *)
(* one active campaign, late work stays with its own, and all members are  *)
(* paid in the step that completes it.                                     *)
(***************************************************************************)
EXTENDS Challenge, Campaign, Sums, FiniteSetTheorems, TLAPS

USE ChallengeConstants

-----------------------------------------------------------------------------
(* The inductive invariant.                                                *)

\* A retry begins when the window before it is over.
RepeatsApart == \A i, j \in DOMAIN attempts :
  i < j /\ attempts[i].goal = attempts[j].goal => attempts[j].starts >= attempts[i].starts + Window

CountedInWindow == \A i \in DOMAIN attempts : \A f \in attempts[i].counted :
  Covers(attempts[i], facts[f].day) /\ f > attempts[i].after

OneReward == Lifetime => \A i, j \in DOMAIN attempts :
  attempts[i].paid /\ i # j => attempts[j].status = "closed"

\* What a day has been paid is what its two rows say.
DayAddsUp == \A d \in Days :
  /\ paidDays[d] = IF bonus[d] \/ Settled(d) THEN 1 ELSE 0
  /\ legacy[d] # None /\ ~legacy[d].done /\ ~legacy[d].owed => bonus[d]

TasksCount == \A f \in DOMAIN facts :
  facts[f].kind = "task" /\ facts[f].state = "processed" => bonus[facts[f].day]

GoalTypes ==
  /\ facts \in Seq(Fact) /\ attempts \in Seq(AttemptRow)
  /\ \A i \in DOMAIN attempts :
       /\ attempts[i].counted \subseteq DOMAIN facts
       /\ attempts[i].paid <=> attempts[i].status = "completed"
       /\ ~attempts[i].retry => attempts[i].after = 0

BonusTypes ==
  /\ today \in Days /\ facts \in Seq(Fact)
  /\ bonus \in [Days -> BOOLEAN] /\ paidDays \in [Days -> Nat]
  /\ legacy \in [Days -> LegacyRow \cup {None}]

GoalsInv == GoalTypes /\ RepeatsApart /\ CountedInWindow /\ ProgressIsEarned /\ OneReward
BonusInv == BonusTypes /\ DayAddsUp /\ TasksCount

-----------------------------------------------------------------------------
(* Totals.                                                                 *)

LEMMA TotalType ==
  ASSUME NEW n \in Nat, NEW counted \in SUBSET (1 .. n), NEW fs
  PROVE  Total(counted, fs) \in Nat
<1> DEFINE S == {f \in counted : fs[f].state # "voided"}
<1>1. IsFiniteSet(1 .. n)
  BY FS_Interval
<1>2. IsFiniteSet(S)
  BY <1>1, FS_Subset
<1> QED BY <1>2, FS_CardinalityType DEF Total

\* Voids only lower a total, and what leaves standing work standing keeps it.
LEMMA TotalSame ==
  ASSUME NEW counted, NEW fs, NEW gs,
         \A f \in counted : fs[f].state = "voided" <=> gs[f].state = "voided"
  PROVE  Total(counted, fs) = Total(counted, gs)
<1>1. {f \in counted : fs[f].state # "voided"} = {f \in counted : gs[f].state # "voided"}
  OBVIOUS
<1> QED BY <1>1 DEF Total

LEMMA TotalLower ==
  ASSUME NEW n \in Nat, NEW counted \in SUBSET (1 .. n), NEW fs, NEW gs,
         \A f \in counted : fs[f].state = "voided" => gs[f].state = "voided"
  PROVE  Total(counted, gs) <= Total(counted, fs)
<1> DEFINE S == {f \in counted : fs[f].state # "voided"}
           T == {f \in counted : gs[f].state # "voided"}
<1>1. IsFiniteSet(1 .. n)
  BY FS_Interval
<1>2. IsFiniteSet(S) /\ T \in SUBSET S
  BY <1>1, FS_Subset
<1> HIDE DEF S, T
<1>3. Cardinality(T) <= Cardinality(S)
  BY <1>2, FS_Subset
<1> QED BY <1>3 DEF Total, S, T

-----------------------------------------------------------------------------
(* Evaluation.                                                             *)

LEMMA EvaluateSets ==
  ASSUME NEW f, NEW fs, \A i \in DOMAIN attempts : attempts[i].goal \in Nat
  PROVE  /\ Won(f, fs) \subseteq Reached(f, fs) /\ Reached(f, fs) \subseteq Hit(f, fs)
         /\ Takers(f, fs) \subseteq Hit(f, fs) /\ Hit(f, fs) \subseteq DOMAIN attempts
         /\ Closing(f, fs) \in BOOLEAN
         /\ Lifetime /\ Won(f, fs) # {} => Closing(f, fs) /\ ~PaidAny
         /\ Reached(f, fs) # {} /\ Lifetime => Closing(f, fs)
         /\ ~Lifetime => Won(f, fs) = Reached(f, fs) /\ ~Closing(f, fs)
         /\ Lifetime => \A i, j \in Won(f, fs) : attempts[i].goal = attempts[j].goal
<1>1. /\ Won(f, fs) \subseteq Reached(f, fs) /\ Reached(f, fs) \subseteq Hit(f, fs)
      /\ Takers(f, fs) \subseteq Hit(f, fs) /\ Hit(f, fs) \subseteq DOMAIN attempts
      /\ Closing(f, fs) \in BOOLEAN
      /\ Lifetime /\ Won(f, fs) # {} => Closing(f, fs) /\ ~PaidAny
      /\ Reached(f, fs) # {} /\ Lifetime => Closing(f, fs)
      /\ ~Lifetime => Won(f, fs) = Reached(f, fs) /\ ~Closing(f, fs)
  BY DEF Won, First, Reached, Takers, Hit, Closing
<1>2. ASSUME Lifetime, NEW i \in Won(f, fs), NEW j \in Won(f, fs)
      PROVE  attempts[i].goal = attempts[j].goal
  <2>1. i \in First(f, fs) /\ j \in First(f, fs)
    BY <1>2 DEF Won
  <2>2. attempts[i].goal <= attempts[j].goal /\ attempts[j].goal <= attempts[i].goal
    BY <2>1 DEF First
  <2>3. i \in DOMAIN attempts /\ j \in DOMAIN attempts
    BY <1>1
  <2> QED BY <2>2, <2>3
<1> QED BY <1>1, <1>2

\* What Evaluate does to each attempt.
LEMMA EvaluateRows ==
  ASSUME GoalTypes, NEW fs \in Seq(Fact), NEW f \in DOMAIN fs, DOMAIN facts \subseteq DOMAIN fs,
         attempts' = Evaluate(f, fs)
  PROVE  /\ attempts' \in Seq(AttemptRow) /\ DOMAIN attempts' = DOMAIN attempts
         /\ \A i \in DOMAIN attempts :
              LET a == attempts[i]
                  b == attempts'[i]
                  now == a.counted \cup {f}
                  takes == i \in Takers(f, fs)
                  won == i \in Won(f, fs)
              IN  /\ b.goal = a.goal /\ b.starts = a.starts /\ b.retry = a.retry /\ b.after = a.after
                  /\ b.counted = IF takes THEN now ELSE a.counted
                  /\ b.progress = IF takes THEN Total(now, fs) ELSE a.progress
                  /\ b.paid <=> a.paid \/ won
                  /\ b.status = Status(a, won, Closing(f, fs))
<1> DEFINE Base(i) == IF i \in Takers(f, fs) THEN Taken(attempts[i], f, fs) ELSE attempts[i]
           New(i) == [Base(i) EXCEPT !.paid = @ \/ i \in Won(f, fs),
                                     !.status = Status(attempts[i], i \in Won(f, fs), Closing(f, fs))]
<1>1. attempts' = [i \in DOMAIN attempts |-> New(i)]
  BY DEF Evaluate
<1>2. \A i \in DOMAIN attempts : attempts[i] \in AttemptRow
  BY DEF GoalTypes
<1>3. ASSUME NEW i \in DOMAIN attempts
      PROVE  LET a == attempts[i]
                 b == Base(i)
                 now == a.counted \cup {f}
                 takes == i \in Takers(f, fs)
             IN  /\ b \in AttemptRow
                 /\ b.goal = a.goal /\ b.starts = a.starts /\ b.retry = a.retry /\ b.after = a.after
                 /\ b.counted = IF takes THEN now ELSE a.counted
                 /\ b.progress = IF takes THEN Total(now, fs) ELSE a.progress
                 /\ b.paid <=> a.paid
  <2> DEFINE now == attempts[i].counted \cup {f}
  <2>1. Len(fs) \in Nat /\ DOMAIN fs = 1 .. Len(fs)
    OBVIOUS
  <2>2. now \in SUBSET (1 .. Len(fs))
    BY <1>3, <2>1 DEF GoalTypes
  <2>3. Total(now, fs) \in Nat
    BY <2>1, <2>2, TotalType
  <2>4. attempts[i] \in AttemptRow /\ now \in SUBSET Nat
    BY <1>2, <1>3, <2>2
  <2>5. Taken(attempts[i], f, fs) = [attempts[i] EXCEPT !.counted = now, !.progress = Total(now, fs)]
    BY DEF Taken
  <2> HIDE DEF now
  <2>6. /\ Taken(attempts[i], f, fs) \in AttemptRow
        /\ Taken(attempts[i], f, fs).goal = attempts[i].goal
        /\ Taken(attempts[i], f, fs).starts = attempts[i].starts
        /\ Taken(attempts[i], f, fs).retry = attempts[i].retry
        /\ Taken(attempts[i], f, fs).after = attempts[i].after
        /\ Taken(attempts[i], f, fs).counted = now
        /\ Taken(attempts[i], f, fs).progress = Total(now, fs)
        /\ Taken(attempts[i], f, fs).paid = attempts[i].paid
    BY <2>3, <2>4, <2>5 DEF AttemptRow
  <2> QED BY <2>4, <2>6 DEF now
<1> HIDE DEF Base
<1>4. ASSUME NEW i \in DOMAIN attempts
      PROVE  /\ New(i) \in AttemptRow
             /\ New(i).goal = Base(i).goal /\ New(i).starts = Base(i).starts /\ New(i).retry = Base(i).retry
             /\ New(i).after = Base(i).after /\ New(i).counted = Base(i).counted
             /\ New(i).progress = Base(i).progress
             /\ New(i).paid <=> Base(i).paid \/ i \in Won(f, fs)
             /\ New(i).status = Status(attempts[i], i \in Won(f, fs), Closing(f, fs))
  <2>1. Base(i) \in AttemptRow
    BY <1>3, <1>4
  <2>2. Status(attempts[i], i \in Won(f, fs), Closing(f, fs)) \in {"active", "completed", "closed"}
    BY <1>2, <1>4 DEF Status, AttemptRow
  <2> QED BY <2>1, <2>2 DEF AttemptRow
<1> HIDE DEF New
<1>5. attempts' \in Seq(AttemptRow) /\ DOMAIN attempts' = DOMAIN attempts
  <2>1. DOMAIN attempts = 1 .. Len(attempts) /\ Len(attempts) \in Nat
    BY DEF GoalTypes
  <2>2. [i \in DOMAIN attempts |-> New(i)] \in [DOMAIN attempts -> AttemptRow]
    BY <1>4
  <2> QED BY <1>1, <2>1, <2>2
<1>6. ASSUME NEW i \in DOMAIN attempts
      PROVE  LET a == attempts[i]
                 b == attempts'[i]
                 now == a.counted \cup {f}
                 takes == i \in Takers(f, fs)
                 won == i \in Won(f, fs)
             IN  /\ b.goal = a.goal /\ b.starts = a.starts /\ b.retry = a.retry /\ b.after = a.after
                 /\ b.counted = IF takes THEN now ELSE a.counted
                 /\ b.progress = IF takes THEN Total(now, fs) ELSE a.progress
                 /\ b.paid <=> a.paid \/ won
                 /\ b.status = Status(a, won, Closing(f, fs))
  <2>1. attempts'[i] = New(i)
    BY <1>1
  <2>2. /\ New(i).goal = attempts[i].goal /\ New(i).starts = attempts[i].starts
        /\ New(i).retry = attempts[i].retry /\ New(i).after = attempts[i].after
        /\ New(i).counted = IF i \in Takers(f, fs) THEN attempts[i].counted \cup {f} ELSE attempts[i].counted
        /\ New(i).progress = IF i \in Takers(f, fs) THEN Total(attempts[i].counted \cup {f}, fs)
                             ELSE attempts[i].progress
    BY <1>3, <1>4
  <2>3. New(i).paid <=> attempts[i].paid \/ i \in Won(f, fs)
    BY <1>3, <1>4
  <2>4. New(i).status = Status(attempts[i], i \in Won(f, fs), Closing(f, fs))
    BY <1>4
  <2> QED BY <2>1, <2>2, <2>3, <2>4
<1> QED BY <1>5, <1>6

\* Two attempts of a promise never take the same day's work.
LEMMA OneWindow ==
  ASSUME GoalsInv, NEW i \in DOMAIN attempts, NEW j \in DOMAIN attempts, NEW day \in Nat,
         attempts[i].goal = attempts[j].goal, Covers(attempts[i], day), Covers(attempts[j], day)
  PROVE  i = j
<1>1. i \in Nat /\ j \in Nat /\ attempts[i].starts \in Nat /\ attempts[j].starts \in Nat
  <2>1. attempts \in Seq(AttemptRow)
    BY DEF GoalsInv, GoalTypes
  <2>2. i \in Nat /\ j \in Nat /\ attempts[i] \in AttemptRow /\ attempts[j] \in AttemptRow
    BY <2>1
  <2> QED BY <2>2 DEF AttemptRow
<1>2. i < j => attempts[j].starts >= attempts[i].starts + Window
  BY DEF GoalsInv, RepeatsApart
<1>3. j < i => attempts[i].starts >= attempts[j].starts + Window
  BY DEF GoalsInv, RepeatsApart
<1>4. /\ attempts[i].starts <= day /\ day < attempts[i].starts + Window
      /\ attempts[j].starts <= day /\ day < attempts[j].starts + Window
  BY DEF Covers
<1> QED BY <1>1, <1>2, <1>3, <1>4

LEMMA ProcessGoals ==
  ASSUME GoalsInv, NEW fs \in Seq(Fact), NEW f \in DOMAIN fs, DOMAIN facts \subseteq DOMAIN fs,
         \A g \in DOMAIN facts : fs[g] = facts[g], fs[f].state = "pending",
         facts' = [fs EXCEPT ![f].state = "processed"], attempts' = Evaluate(f, fs)
  PROVE  GoalsInv'
<1> USE DEF GoalsInv
<1>1. /\ facts' \in Seq(Fact) /\ DOMAIN facts' = DOMAIN fs
      /\ \A g \in DOMAIN fs : /\ facts'[g].day = fs[g].day /\ facts'[g].day \in Nat
                              /\ facts'[g].state = "voided" <=> fs[g].state = "voided"
  <2>1. \A g \in DOMAIN fs : fs[g] \in Fact
    OBVIOUS
  <2>2. facts' = [fs EXCEPT ![f] = [fs[f] EXCEPT !.state = "processed"]]
    OBVIOUS
  <2>3. /\ [fs[f] EXCEPT !.state = "processed"] \in Fact
        /\ [fs[f] EXCEPT !.state = "processed"].day = fs[f].day
        /\ [fs[f] EXCEPT !.state = "processed"].state = "processed"
    BY <2>1 DEF Fact
  <2>4. \A g \in DOMAIN fs : fs[g].day \in Nat
    BY <2>1 DEF Fact, Days
  <2> QED BY <2>1, <2>2, <2>3, <2>4
<1>2. \A i \in DOMAIN attempts : attempts[i] \in AttemptRow /\ attempts[i].counted \subseteq DOMAIN facts
  BY DEF GoalTypes
<1>3. \A i \in DOMAIN attempts : attempts[i].goal \in Nat
  BY <1>2 DEF AttemptRow
<1>4. attempts' \in Seq(AttemptRow) /\ DOMAIN attempts' = DOMAIN attempts
  BY EvaluateRows
<1>5. \A i \in DOMAIN attempts :
        LET a == attempts[i]
            b == attempts'[i]
            now == a.counted \cup {f}
            takes == i \in Takers(f, fs)
            won == i \in Won(f, fs)
        IN  /\ b.goal = a.goal /\ b.starts = a.starts /\ b.retry = a.retry /\ b.after = a.after
            /\ b.counted = IF takes THEN now ELSE a.counted
            /\ b.progress = IF takes THEN Total(now, fs) ELSE a.progress
            /\ b.paid <=> a.paid \/ won
            /\ b.status = Status(a, won, Closing(f, fs))
  BY EvaluateRows
<1>6. /\ Won(f, fs) \subseteq Reached(f, fs) /\ Reached(f, fs) \subseteq Hit(f, fs)
      /\ Takers(f, fs) \subseteq Hit(f, fs) /\ Hit(f, fs) \subseteq DOMAIN attempts
      /\ Closing(f, fs) \in BOOLEAN
      /\ Lifetime /\ Won(f, fs) # {} => Closing(f, fs) /\ ~PaidAny
      /\ Reached(f, fs) # {} /\ Lifetime => Closing(f, fs)
      /\ ~Lifetime => Won(f, fs) = Reached(f, fs) /\ ~Closing(f, fs)
      /\ Lifetime => \A i, j \in Won(f, fs) : attempts[i].goal = attempts[j].goal
  BY <1>3, EvaluateSets
<1>7. \A i \in Hit(f, fs) : /\ Covers(attempts[i], fs[f].day) /\ ~attempts[i].paid
                           /\ attempts[i].status # "closed" /\ (attempts[i].retry => f > attempts[i].after)
  BY DEF Hit, Counts
<1>8. GoalTypes'
  <2> SUFFICES ASSUME NEW i \in DOMAIN attempts
               PROVE  /\ attempts'[i].counted \subseteq DOMAIN facts'
                      /\ attempts'[i].paid <=> attempts'[i].status = "completed"
                      /\ ~attempts'[i].retry => attempts'[i].after = 0
    BY <1>1, <1>4 DEF GoalTypes
  <2>1. attempts'[i].counted \subseteq DOMAIN facts'
    <3>1. attempts[i].counted \subseteq DOMAIN fs /\ f \in DOMAIN fs /\ DOMAIN facts' = DOMAIN fs
      BY <1>1, <1>2
    <3>2. \/ attempts'[i].counted = attempts[i].counted \cup {f}
          \/ attempts'[i].counted = attempts[i].counted
      BY <1>5
    <3> QED BY <3>1, <3>2
  <2>2. /\ attempts[i].paid <=> attempts[i].status = "completed"
        /\ ~attempts[i].retry => attempts[i].after = 0
    BY DEF GoalTypes
  <2>3. attempts'[i].paid <=> attempts'[i].status = "completed"
    <3>1. /\ attempts'[i].paid <=> attempts[i].paid \/ i \in Won(f, fs)
          /\ attempts'[i].status = Status(attempts[i], i \in Won(f, fs), Closing(f, fs))
      BY <1>5
    <3> QED BY <2>2, <3>1 DEF Status
  <2>4. ~attempts'[i].retry => attempts'[i].after = 0
    BY <1>5, <2>2
  <2> QED BY <2>1, <2>3, <2>4
<1>9. RepeatsApart'
  <2> SUFFICES ASSUME NEW i \in DOMAIN attempts, NEW j \in DOMAIN attempts, i < j,
                      attempts'[i].goal = attempts'[j].goal
               PROVE  attempts'[j].starts >= attempts'[i].starts + Window
    BY <1>4 DEF RepeatsApart
  <2>1. /\ attempts'[i].goal = attempts[i].goal /\ attempts'[i].starts = attempts[i].starts
        /\ attempts'[j].goal = attempts[j].goal /\ attempts'[j].starts = attempts[j].starts
    BY <1>5
  <2>2. attempts[j].starts >= attempts[i].starts + Window
    BY <2>1 DEF RepeatsApart
  <2> QED BY <2>1, <2>2
<1>10. CountedInWindow'
  <2> SUFFICES ASSUME NEW i \in DOMAIN attempts, NEW g \in attempts'[i].counted
               PROVE  Covers(attempts'[i], facts'[g].day) /\ g > attempts'[i].after
    BY <1>4 DEF CountedInWindow
  <2>1. \A day : Covers(attempts'[i], day) <=> Covers(attempts[i], day)
    BY <1>5 DEF Covers
  <2>2. CASE g \in attempts[i].counted
    <3>1. Covers(attempts[i], facts[g].day) /\ g > attempts[i].after /\ g \in DOMAIN facts
      BY <1>2, <2>2 DEF CountedInWindow
    <3> QED BY <1>1, <1>5, <2>1, <3>1
  <2>3. CASE g \notin attempts[i].counted
    <3>1. g = f /\ i \in Hit(f, fs)
      BY <1>5, <1>6, <2>3
    <3>2. Covers(attempts[i], fs[f].day) /\ f > attempts[i].after
      <4>1. f \in Nat \ {0}
        OBVIOUS
      <4> QED BY <1>7, <3>1, <4>1 DEF GoalTypes
    <3> QED BY <1>1, <1>5, <2>1, <3>1, <3>2
  <2> QED BY <2>2, <2>3
<1>11. ProgressIsEarned'
  <2> SUFFICES ASSUME NEW i \in DOMAIN attempts
               PROVE  /\ ~attempts'[i].paid => attempts'[i].progress = Total(attempts'[i].counted, facts')
                      /\ attempts'[i].progress >= Target[attempts'[i].goal] =>
                           attempts'[i].paid \/ attempts'[i].status = "closed"
    BY <1>4 DEF ProgressIsEarned
  <2> DEFINE a == attempts[i]
             now == a.counted \cup {f}
  <2>1. /\ ~a.paid => a.progress = Total(a.counted, facts)
        /\ a.progress >= Target[a.goal] => a.paid \/ a.status = "closed"
    BY DEF ProgressIsEarned
  <2>2. Total(a.counted, facts) = Total(a.counted, facts')
    <3>1. \A g \in a.counted : facts[g].state = "voided" <=> facts'[g].state = "voided"
      BY <1>1, <1>2
    <3>2. {g \in a.counted : facts[g].state # "voided"} = {g \in a.counted : facts'[g].state # "voided"}
      BY <3>1
    <3> QED BY ONLY <3>2 DEF Total
  <2>3. Total(now, fs) = Total(now, facts')
    <3>1. \A g \in now : fs[g].state = "voided" <=> facts'[g].state = "voided"
      BY <1>1, <1>2
    <3>2. {g \in now : fs[g].state # "voided"} = {g \in now : facts'[g].state # "voided"}
      BY <3>1
    <3> QED BY ONLY <3>2 DEF Total
  <2>4. /\ attempts'[i].goal = a.goal
        /\ attempts'[i].counted = IF i \in Takers(f, fs) THEN now ELSE a.counted
        /\ attempts'[i].progress = IF i \in Takers(f, fs) THEN Total(now, fs) ELSE a.progress
        /\ attempts'[i].paid <=> a.paid \/ i \in Won(f, fs)
        /\ attempts'[i].status = Status(a, i \in Won(f, fs), Closing(f, fs))
    BY <1>5
  <2>5. i \in Takers(f, fs) /\ Total(now, fs) >= Target[a.goal] => i \in Reached(f, fs)
    BY <1>6 DEF Reached
  <2>6. i \in Reached(f, fs) => i \in Won(f, fs) \/ Closing(f, fs)
    BY <1>6
  <2>7. a.status = "closed" => i \notin Won(f, fs)
    BY <1>6, <1>7
  <2> HIDE DEF a, now
  <2> QED BY <2>1, <2>2, <2>3, <2>4, <2>5, <2>6, <2>7 DEF Status
<1>12. OneReward'
  <2> SUFFICES ASSUME Lifetime', NEW i \in DOMAIN attempts, NEW j \in DOMAIN attempts, attempts'[i].paid, i # j
               PROVE  attempts'[j].status = "closed"
    BY <1>4 DEF OneReward
  <2>1. Lifetime
    BY <1>4, <1>5 DEF Lifetime
  <2>2. /\ attempts[i].paid \/ i \in Won(f, fs)
        /\ attempts'[j].status = Status(attempts[j], j \in Won(f, fs), Closing(f, fs))
    BY <1>5
  <2>3. CASE Won(f, fs) = {}
    <3>1. attempts[j].status = "closed"
      BY <2>1, <2>2, <2>3 DEF OneReward
    <3> QED BY <2>2, <2>3, <3>1 DEF Status
  <2>4. CASE Won(f, fs) # {}
    <3>1. Closing(f, fs) /\ ~attempts[i].paid /\ ~attempts[j].paid
      BY <1>6, <2>1, <2>4 DEF PaidAny
    <3>2. i \in Won(f, fs)
      BY <2>2, <3>1
    <3>3. j \notin Won(f, fs)
      <4>1. SUFFICES ASSUME j \in Won(f, fs) PROVE FALSE
        OBVIOUS
      <4>2. attempts[i].goal = attempts[j].goal /\ Covers(attempts[i], fs[f].day) /\ Covers(attempts[j], fs[f].day)
        BY <1>6, <1>7, <2>1, <3>2, <4>1
      <4> QED BY <1>1, <4>2, OneWindow
    <3> QED BY <2>2, <3>1, <3>3 DEF Status
  <2> QED BY <2>3, <2>4
<1> QED BY <1>8, <1>9, <1>10, <1>11, <1>12

-----------------------------------------------------------------------------
(* New facts, voids and retries.                                           *)

LEMMA AppendFact ==
  ASSUME facts \in Seq(Fact), NEW row \in Fact, NEW fs, fs = Append(facts, row)
  PROVE  /\ fs \in Seq(Fact) /\ Len(fs) \in DOMAIN fs /\ DOMAIN facts \subseteq DOMAIN fs
         /\ fs[Len(fs)] = row /\ \A g \in DOMAIN facts : fs[g] = facts[g]
         /\ DOMAIN fs = DOMAIN facts \cup {Len(fs)}
  OBVIOUS

LEMMA FailsGoals ==
  ASSUME GoalsInv, NEW fs \in Seq(Fact), DOMAIN facts \subseteq DOMAIN fs,
         \A g \in DOMAIN facts : fs[g] = facts[g], facts' = fs, attempts' = attempts
  PROVE  GoalsInv'
<1> USE DEF GoalsInv
<1>1. GoalTypes'
  BY DEF GoalTypes
<1>2. \A i \in DOMAIN attempts : \A g \in attempts[i].counted : facts'[g] = facts[g]
  BY DEF GoalTypes
<1>3. RepeatsApart' /\ OneReward'
  BY DEF RepeatsApart, OneReward, Lifetime
<1>4. CountedInWindow'
  BY <1>2 DEF CountedInWindow, Covers
<1>5. ProgressIsEarned'
  <2> SUFFICES ASSUME NEW i \in DOMAIN attempts
               PROVE  Total(attempts[i].counted, facts) = Total(attempts[i].counted, facts')
    BY DEF ProgressIsEarned
  <2>1. {g \in attempts[i].counted : facts[g].state # "voided"}
           = {g \in attempts[i].counted : facts'[g].state # "voided"}
    BY <1>2
  <2> QED BY ONLY <2>1 DEF Total
<1> QED BY <1>1, <1>3, <1>4, <1>5

\* A void takes its fact from the totals of the unpaid attempts alone.
LEMMA VoidGoals ==
  ASSUME GoalsInv, NEW f \in DOMAIN facts, VoidFact(f)
  PROVE  /\ GoalsInv' /\ facts' \in Seq(Fact) /\ DOMAIN facts' = DOMAIN facts
         /\ \A g \in DOMAIN facts : /\ facts'[g].day = facts[g].day /\ facts'[g].kind = facts[g].kind
                                    /\ facts'[g].state = IF g = f THEN "voided" ELSE facts[g].state
<1> USE DEF GoalsInv
<1> DEFINE New(i) == LET a == attempts[i] IN
             IF a.paid \/ f \notin a.counted THEN a ELSE [a EXCEPT !.progress = Total(a.counted, facts')]
<1>1. /\ facts' \in Seq(Fact) /\ DOMAIN facts' = DOMAIN facts
      /\ \A g \in DOMAIN facts : /\ facts'[g].day = facts[g].day /\ facts'[g].kind = facts[g].kind
                                 /\ facts'[g].state = IF g = f THEN "voided" ELSE facts[g].state
  <2>1. facts \in Seq(Fact) /\ \A g \in DOMAIN facts : facts[g] \in Fact
    BY DEF GoalTypes
  <2>2. facts' = [facts EXCEPT ![f] = [facts[f] EXCEPT !.state = "voided"]]
    BY DEF VoidFact
  <2>3. /\ [facts[f] EXCEPT !.state = "voided"] \in Fact
        /\ [facts[f] EXCEPT !.state = "voided"].day = facts[f].day
        /\ [facts[f] EXCEPT !.state = "voided"].kind = facts[f].kind
        /\ [facts[f] EXCEPT !.state = "voided"].state = "voided"
    BY <2>1 DEF Fact
  <2> QED BY <2>1, <2>2, <2>3
<1>2. attempts' = [i \in DOMAIN attempts |-> New(i)]
  BY DEF VoidFact
<1>3. \A i \in DOMAIN attempts : attempts[i] \in AttemptRow /\ attempts[i].counted \subseteq DOMAIN facts
  BY DEF GoalTypes
<1>4. Len(facts) \in Nat /\ DOMAIN facts = 1 .. Len(facts) /\ DOMAIN facts' = 1 .. Len(facts)
  BY <1>1 DEF GoalTypes
<1>5. ASSUME NEW i \in DOMAIN attempts
      PROVE  /\ Total(attempts[i].counted, facts') \in Nat
             /\ Total(attempts[i].counted, facts') <= Total(attempts[i].counted, facts)
             /\ f \notin attempts[i].counted =>
                  Total(attempts[i].counted, facts') = Total(attempts[i].counted, facts)
  <2>1. PICK gs : gs = facts'
    OBVIOUS
  <2>2. attempts[i].counted \in SUBSET (1 .. Len(facts))
    BY <1>3, <1>4
  <2>3. \A g \in attempts[i].counted : facts[g].state = "voided" => gs[g].state = "voided"
    BY <1>1, <1>3, <2>1
  <2>4. f \notin attempts[i].counted =>
          \A g \in attempts[i].counted : gs[g].state = "voided" <=> facts[g].state = "voided"
    BY <1>1, <1>3, <2>1
  <2>5. Total(attempts[i].counted, gs) \in Nat
    BY <1>4, <2>2, TotalType
  <2>6. Total(attempts[i].counted, gs) <= Total(attempts[i].counted, facts)
    BY ONLY <1>4, <2>2, <2>3, TotalLower
  <2>7. f \notin attempts[i].counted => Total(attempts[i].counted, gs) = Total(attempts[i].counted, facts)
    BY ONLY <2>4, TotalSame
  <2> QED BY ONLY <2>1, <2>5, <2>6, <2>7
<1>6. ASSUME NEW i \in DOMAIN attempts
      PROVE  /\ New(i) \in AttemptRow
             /\ New(i).goal = attempts[i].goal /\ New(i).starts = attempts[i].starts
             /\ New(i).retry <=> attempts[i].retry
             /\ New(i).after = attempts[i].after /\ New(i).counted = attempts[i].counted
             /\ New(i).paid <=> attempts[i].paid
             /\ New(i).status = attempts[i].status
             /\ New(i).progress = IF attempts[i].paid \/ f \notin attempts[i].counted THEN attempts[i].progress
                                  ELSE Total(attempts[i].counted, facts')
  <2>1. PICK t \in Nat : t = Total(attempts[i].counted, facts')
    BY <1>5
  <2>2. New(i) = IF attempts[i].paid \/ f \notin attempts[i].counted THEN attempts[i]
                 ELSE [attempts[i] EXCEPT !.progress = t]
    BY <2>1
  <2>3. attempts[i] \in AttemptRow
    BY <1>3
  <2> HIDE DEF New
  <2> QED BY ONLY <2>1, <2>2, <2>3 DEF AttemptRow
<1> HIDE DEF New
<1>7. /\ attempts' \in Seq(AttemptRow) /\ DOMAIN attempts' = DOMAIN attempts
      /\ \A i \in DOMAIN attempts : attempts'[i] = New(i)
  <2>1. DOMAIN attempts = 1 .. Len(attempts) /\ Len(attempts) \in Nat
    BY DEF GoalTypes
  <2>2. [i \in DOMAIN attempts |-> New(i)] \in [DOMAIN attempts -> AttemptRow]
    BY <1>6
  <2> QED BY <1>2, <2>1, <2>2
<1>8. GoalTypes'
  <2> SUFFICES ASSUME NEW i \in DOMAIN attempts
               PROVE  /\ attempts'[i].counted \subseteq DOMAIN facts'
                      /\ attempts'[i].paid <=> attempts'[i].status = "completed"
                      /\ ~attempts'[i].retry => attempts'[i].after = 0
    BY <1>1, <1>7 DEF GoalTypes
  <2>1. /\ attempts[i].counted \subseteq DOMAIN facts
        /\ attempts[i].paid <=> attempts[i].status = "completed"
        /\ ~attempts[i].retry => attempts[i].after = 0
    BY DEF GoalTypes
  <2>2. /\ attempts'[i].counted = attempts[i].counted /\ attempts'[i].status = attempts[i].status
        /\ attempts'[i].paid <=> attempts[i].paid
        /\ attempts'[i].retry <=> attempts[i].retry
        /\ attempts'[i].after = attempts[i].after
    BY <1>6, <1>7
  <2> QED BY <1>1, <2>1, <2>2
<1>9. RepeatsApart'
  <2> SUFFICES ASSUME NEW i \in DOMAIN attempts, NEW j \in DOMAIN attempts, i < j,
                      attempts'[i].goal = attempts'[j].goal
               PROVE  attempts'[j].starts >= attempts'[i].starts + Window
    BY <1>7 DEF RepeatsApart
  <2>1. /\ attempts'[i].goal = attempts[i].goal /\ attempts'[i].starts = attempts[i].starts
        /\ attempts'[j].goal = attempts[j].goal /\ attempts'[j].starts = attempts[j].starts
    BY <1>6, <1>7
  <2>2. attempts[j].starts >= attempts[i].starts + Window
    BY <2>1 DEF RepeatsApart
  <2> QED BY <2>1, <2>2
<1>10. CountedInWindow'
  <2> SUFFICES ASSUME NEW i \in DOMAIN attempts, NEW g \in attempts[i].counted
               PROVE  Covers(attempts'[i], facts'[g].day) /\ g > attempts'[i].after
    BY <1>6, <1>7 DEF CountedInWindow
  <2>1. Covers(attempts[i], facts[g].day) /\ g > attempts[i].after
    BY DEF CountedInWindow
  <2>2. attempts'[i].starts = attempts[i].starts /\ attempts'[i].after = attempts[i].after
    BY <1>6, <1>7
  <2>3. facts'[g].day = facts[g].day
    BY <1>1, <1>3
  <2> QED BY <2>1, <2>2, <2>3 DEF Covers
<1>11. ProgressIsEarned'
  <2> SUFFICES ASSUME NEW i \in DOMAIN attempts
               PROVE  /\ ~attempts'[i].paid => attempts'[i].progress = Total(attempts'[i].counted, facts')
                      /\ attempts'[i].progress >= Target[attempts'[i].goal] =>
                           attempts'[i].paid \/ attempts'[i].status = "closed"
    BY <1>7 DEF ProgressIsEarned
  <2>1. /\ ~attempts[i].paid => attempts[i].progress = Total(attempts[i].counted, facts)
        /\ attempts[i].progress >= Target[attempts[i].goal] => attempts[i].paid \/ attempts[i].status = "closed"
    BY DEF ProgressIsEarned
  <2>2. /\ attempts'[i].goal = attempts[i].goal /\ attempts'[i].counted = attempts[i].counted
        /\ attempts'[i].paid <=> attempts[i].paid
        /\ attempts'[i].status = attempts[i].status
        /\ attempts'[i].progress = IF attempts[i].paid \/ f \notin attempts[i].counted THEN attempts[i].progress
                                   ELSE Total(attempts[i].counted, facts')
    BY <1>6, <1>7
  <2>3. attempts[i].progress \in Nat /\ Target[attempts[i].goal] \in Nat
    BY <1>3 DEF AttemptRow
  <2>4. /\ Total(attempts[i].counted, facts') \in Nat
        /\ Total(attempts[i].counted, facts') <= Total(attempts[i].counted, facts)
        /\ f \notin attempts[i].counted =>
             Total(attempts[i].counted, facts') = Total(attempts[i].counted, facts)
    BY <1>5
  <2> QED BY <2>1, <2>2, <2>3, <2>4
<1>12. OneReward'
  <2>1. Lifetime' => Lifetime
    BY <1>6, <1>7 DEF Lifetime
  <2>2. \A i \in DOMAIN attempts : /\ attempts'[i].paid <=> attempts[i].paid
                                  /\ attempts'[i].status = attempts[i].status
    BY <1>6, <1>7
  <2> QED BY <1>7, <2>1, <2>2 DEF OneReward
<1> QED BY <1>1, <1>8, <1>9, <1>10, <1>11, <1>12

\* A retry opens a window of its own, and only while nothing was paid.
LEMMA RetryGoals ==
  ASSUME GoalsInv, today \in Nat, NEW i \in DOMAIN attempts, Retry(i)
  PROVE  GoalsInv'
<1> USE DEF GoalsInv
<1> DEFINE n == Len(attempts) + 1
           row == Attempt(attempts[i].goal, today, TRUE)
<1>1. attempts \in Seq(AttemptRow) /\ attempts[i] \in AttemptRow /\ facts \in Seq(Fact)
  BY DEF GoalTypes
<1>2. row = [goal |-> attempts[i].goal, starts |-> today, status |-> "active", counted |-> {}, progress |-> 0,
             paid |-> FALSE, retry |-> TRUE, after |-> Len(facts)]
  BY DEF Attempt
<1>3. row \in AttemptRow
  <2>1. PICK goal \in Goals, after \in Nat : goal = attempts[i].goal /\ after = Len(facts)
    <3>1. attempts[i].goal \in Goals
      BY ONLY <1>1 DEF AttemptRow
    <3>2. Len(facts) \in Nat
      BY <1>1
    <3> QED BY ONLY <3>1, <3>2
  <2>2. today \in Nat /\ {} \in SUBSET Nat
    OBVIOUS
  <2> HIDE DEF row
  <2> QED BY ONLY <1>2, <2>1, <2>2 DEF AttemptRow
<1>4. facts' = facts /\ attempts' = Append(attempts, row)
  BY DEF Retry
<1> HIDE DEF row
<1>5. /\ attempts' \in Seq(AttemptRow) /\ n \in DOMAIN attempts' /\ attempts'[n] = row
      /\ DOMAIN attempts' = DOMAIN attempts \cup {n}
      /\ \A k \in DOMAIN attempts : attempts'[k] = attempts[k] /\ k < n
  BY <1>1, <1>3, <1>4
<1> HIDE DEF n
<1>6. GoalTypes'
  BY <1>2, <1>4, <1>5 DEF GoalTypes
<1>7. RepeatsApart'
  <2> SUFFICES ASSUME NEW j \in DOMAIN attempts', NEW k \in DOMAIN attempts', j < k,
                      attempts'[j].goal = attempts'[k].goal
               PROVE  attempts'[k].starts >= attempts'[j].starts + Window
    BY DEF RepeatsApart
  <2>1. j \in DOMAIN attempts
    <3>1. j \in Nat /\ k \in Nat /\ n \in Nat
      BY <1>1, <1>5 DEF n
    <3> QED BY <1>5, <3>1
  <2>2. CASE k \in DOMAIN attempts
    BY <1>5, <2>1, <2>2 DEF RepeatsApart
  <2>3. CASE k = n
    <3>1. attempts[j].goal = attempts[i].goal /\ attempts'[k].starts = today /\ attempts'[j] = attempts[j]
      BY <1>2, <1>5, <2>1, <2>3
    <3>2. j <= i /\ today >= attempts[i].starts + Window
      BY <2>1, <3>1 DEF Retry, RetryAllowed, Latest
    <3>3. j < i => attempts[i].starts >= attempts[j].starts + Window
      BY <2>1, <3>1 DEF RepeatsApart
    <3>4. attempts[j] \in AttemptRow /\ i \in Nat /\ j \in Nat
      BY <1>1, <2>1
    <3>5. attempts[i].starts \in Nat /\ attempts[j].starts \in Nat
      BY <1>1, <3>4 DEF AttemptRow
    <3> QED BY <3>1, <3>2, <3>3, <3>4, <3>5
  <2> QED BY <1>5, <2>2, <2>3
<1>8. CountedInWindow'
  BY <1>2, <1>4, <1>5 DEF CountedInWindow, Covers
<1>9. ProgressIsEarned'
  <2>1. row.progress = 0 /\ Target[row.goal] \in Nat \ {0}
    BY <1>2, <1>3 DEF AttemptRow
  <2>2. row.progress = Total(row.counted, facts)
    BY <1>2, FS_EmptySet DEF Total
  <2>3. ~row.paid
    BY <1>2
  <2> QED BY <1>4, <1>5, <2>1, <2>2, <2>3 DEF ProgressIsEarned
<1>10. OneReward'
  <2>1. \A k \in DOMAIN attempts : ~attempts[k].paid
    BY DEF Retry, RetryAllowed, PaidAny
  <2>2. ~row.paid
    BY <1>2
  <2>3. \A k \in DOMAIN attempts' : ~attempts'[k].paid
    BY <1>5, <2>1, <2>2
  <2> QED BY <2>3 DEF OneReward
<1> QED BY <1>6, <1>7, <1>8, <1>9, <1>10

-----------------------------------------------------------------------------
(* The daily bonus.                                                        *)

\* A day that was not paid yet is paid or, if its old row was, marked.
LEMMA PayBonusAddsUp ==
  ASSUME BonusTypes, DayAddsUp, NEW d \in Days, PayBonus(d)
  PROVE  /\ bonus' \in [Days -> BOOLEAN] /\ paidDays' \in [Days -> Nat]
         /\ legacy' \in [Days -> LegacyRow \cup {None}]
         /\ DayAddsUp' /\ bonus'[d] /\ \A e \in Days : bonus[e] => bonus'[e]
<1>1. CASE bonus[d]
  BY <1>1 DEF PayBonus, BonusTypes, DayAddsUp, Settled
<1>2. CASE ~bonus[d]
  <2>1. /\ bonus' = [bonus EXCEPT ![d] = TRUE]
        /\ paidDays' = [paidDays EXCEPT ![d] = @ + IF Settled(d) THEN 0 ELSE 1]
        /\ legacy' = IF legacy[d] = None THEN legacy
                     ELSE [legacy EXCEPT ![d] = [legacy[d] EXCEPT !.owed = FALSE]]
    BY <1>2 DEF PayBonus
  <2>2. legacy[d] # None => /\ [legacy[d] EXCEPT !.owed = FALSE] \in LegacyRow
    BY DEF BonusTypes, LegacyRow
  <2>3. /\ bonus' \in [Days -> BOOLEAN] /\ paidDays' \in [Days -> Nat]
        /\ legacy' \in [Days -> LegacyRow \cup {None}]
    BY <2>1, <2>2 DEF BonusTypes
  <2>4. bonus'[d] /\ \A e \in Days \ {d} : bonus'[e] = bonus[e] /\ legacy'[e] = legacy[e]
                                       /\ paidDays'[e] = paidDays[e]
    BY <2>1 DEF BonusTypes
  <2>5. paidDays'[d] = 1
    <3>1. paidDays[d] = IF Settled(d) THEN 1 ELSE 0
      BY <1>2 DEF DayAddsUp
    <3>2. paidDays'[d] = paidDays[d] + IF Settled(d) THEN 0 ELSE 1
      BY <2>1 DEF BonusTypes
    <3> QED BY <3>1, <3>2
  <2>6. ASSUME NEW e \in Days
        PROVE  /\ paidDays'[e] = IF bonus'[e] \/ Settled(e)' THEN 1 ELSE 0
               /\ legacy'[e] # None /\ ~legacy'[e].done /\ ~legacy'[e].owed => bonus'[e]
    <3>1. CASE e = d
      BY <2>4, <2>5, <3>1
    <3>2. CASE e # d
      BY <2>4, <3>2 DEF DayAddsUp, Settled
    <3> QED BY <3>1, <3>2
  <2>7. DayAddsUp'
    BY <2>6 DEF DayAddsUp
  <2> QED BY <2>3, <2>4, <2>7
<1> QED BY <1>1, <1>2

LEMMA ProcessBonus ==
  ASSUME BonusInv, NEW fs \in Seq(Fact), NEW f \in DOMAIN fs, Process(f, fs),
         \A g \in DOMAIN fs \ {f} : g \in DOMAIN facts /\ fs[g] = facts[g]
  PROVE  BonusInv'
<1> USE DEF BonusInv
<1>1. /\ facts' \in Seq(Fact) /\ DOMAIN facts' = DOMAIN fs /\ fs[f].day \in Days
      /\ \A g \in DOMAIN fs : facts'[g].day = fs[g].day /\ facts'[g].kind = fs[g].kind
      /\ \A g \in DOMAIN fs \ {f} : facts'[g].state = fs[g].state
  <2>1. \A g \in DOMAIN fs : fs[g] \in Fact
    OBVIOUS
  <2>2. facts' = [fs EXCEPT ![f] = [fs[f] EXCEPT !.state = "processed"]]
    BY DEF Process
  <2>3. /\ [fs[f] EXCEPT !.state = "processed"] \in Fact /\ fs[f].day \in Days
        /\ [fs[f] EXCEPT !.state = "processed"].day = fs[f].day
        /\ [fs[f] EXCEPT !.state = "processed"].kind = fs[f].kind
    BY <2>1 DEF Fact
  <2> QED BY <2>1, <2>2, <2>3
<1>2. /\ bonus' \in [Days -> BOOLEAN] /\ paidDays' \in [Days -> Nat]
      /\ legacy' \in [Days -> LegacyRow \cup {None}]
      /\ DayAddsUp' /\ \A e \in Days : bonus[e] => bonus'[e]
      /\ fs[f].kind = "task" => bonus'[fs[f].day]
  <2>1. CASE Qualifies(fs[f].kind, fs[f].day, fs)
    <3>1. PayBonus(fs[f].day)
      BY <2>1 DEF Process, DailyBonus
    <3> QED BY <1>1, <3>1, PayBonusAddsUp
  <2>2. CASE ~Qualifies(fs[f].kind, fs[f].day, fs)
    <3>1. UNCHANGED <<bonus, legacy, paidDays>> /\ fs[f].kind # "task"
      BY <2>2 DEF Process, DailyBonus, Qualifies
    <3> QED BY <3>1 DEF BonusTypes, DayAddsUp, Settled
  <2> QED BY <2>1, <2>2
<1>3. TasksCount'
  <2> SUFFICES ASSUME NEW g \in DOMAIN fs, facts'[g].kind = "task", facts'[g].state = "processed"
               PROVE  bonus'[facts'[g].day]
    BY <1>1 DEF TasksCount
  <2>1. CASE g = f
    BY <1>1, <1>2, <2>1
  <2>2. CASE g # f
    <3>1. g \in DOMAIN facts /\ facts[g].kind = "task" /\ facts[g].state = "processed" /\ facts'[g].day = facts[g].day
      BY <1>1, <2>2
    <3>2. bonus[facts[g].day] /\ facts[g] \in Fact
      BY <3>1 DEF TasksCount, BonusTypes
    <3>3. facts[g].day \in Days
      BY <3>2 DEF Fact
    <3> QED BY <1>2, <3>1, <3>2, <3>3
  <2> QED BY <2>1, <2>2
<1>4. BonusTypes'
  BY <1>1, <1>2 DEF BonusTypes, Process
<1> QED BY <1>2, <1>3, <1>4

\* Only the old client's rows change: every fact and every bonus stays.
LEMMA LegacyBonus ==
  ASSUME BonusInv, OldDaily \/ OldProgress \/ OldClaim
  PROVE  BonusInv'
<1> USE DEF BonusInv
<1>1. today \in Days /\ bonus \in [Days -> BOOLEAN] /\ paidDays \in [Days -> Nat]
      /\ legacy \in [Days -> LegacyRow \cup {None}]
  BY DEF BonusTypes
<1>2. facts' = facts /\ today' = today /\ bonus' = bonus
  BY DEF OldDaily, OldProgress, OldClaim
<1>3. legacy[today] # None => legacy[today] \in LegacyRow
  BY <1>1
<1>4. PICK row \in LegacyRow, n \in Nat :
        /\ legacy' = [legacy EXCEPT ![today] = row] /\ paidDays' = [paidDays EXCEPT ![today] = n]
        /\ n = IF bonus[today] \/ (row.done /\ ~row.owed) THEN 1 ELSE 0
        /\ ~row.done /\ ~row.owed => bonus[today]
  <2>1. CASE OldDaily
    <3> DEFINE row == [done |-> bonus[today], owed |-> ~bonus[today]]
    <3>1. row \in LegacyRow /\ (row.done <=> bonus[today]) /\ (row.owed <=> ~bonus[today])
      BY <1>1 DEF LegacyRow
    <3>2. legacy' = [legacy EXCEPT ![today] = row] /\ legacy[today] = None /\ paidDays' = paidDays
      BY <2>1 DEF OldDaily
    <3>3. paidDays[today] = IF bonus[today] THEN 1 ELSE 0
      BY <1>1, <3>2 DEF DayAddsUp, Settled
    <3>4. paidDays[today] \in Nat /\ paidDays' = [paidDays EXCEPT ![today] = paidDays[today]]
      BY <1>1, <3>2
    <3> HIDE DEF row
    <3> QED BY <3>1, <3>2, <3>3, <3>4
  <2>2. CASE OldProgress
    <3> DEFINE row == [legacy[today] EXCEPT !.done = TRUE]
    <3>1. legacy' = [legacy EXCEPT ![today] = row] /\ legacy[today] # None /\ ~legacy[today].done
          /\ paidDays' = paidDays
      BY <2>2 DEF OldProgress
    <3>2. row \in LegacyRow /\ row.done /\ (row.owed <=> legacy[today].owed)
      BY <1>3, <3>1 DEF LegacyRow
    <3>3. paidDays[today] = IF bonus[today] THEN 1 ELSE 0
      BY <1>1, <3>1 DEF DayAddsUp, Settled
    <3>4. ~legacy[today].owed => bonus[today]
      BY <1>1, <3>1 DEF DayAddsUp
    <3>5. paidDays[today] \in Nat /\ paidDays' = [paidDays EXCEPT ![today] = paidDays[today]]
      BY <1>1, <3>1
    <3> HIDE DEF row
    <3> QED BY <3>1, <3>2, <3>3, <3>4, <3>5
  <2>3. CASE OldClaim
    <3> DEFINE row == [legacy[today] EXCEPT !.owed = FALSE]
    <3>1. /\ legacy' = [legacy EXCEPT ![today] = row] /\ legacy[today] # None
          /\ legacy[today].owed /\ legacy[today].done /\ ~bonus[today]
          /\ paidDays' = [paidDays EXCEPT ![today] = paidDays[today] + 1]
      BY <1>1, <2>3 DEF OldClaim, Owed
    <3>2. row \in LegacyRow /\ row.done /\ ~row.owed
      BY <1>3, <3>1 DEF LegacyRow
    <3>3. paidDays[today] = 0
      BY <1>1, <3>1 DEF DayAddsUp, Settled
    <3>4. paidDays' = [paidDays EXCEPT ![today] = 1] /\ 1 \in Nat
      BY <3>1, <3>3
    <3> HIDE DEF row
    <3> QED BY <3>1, <3>2, <3>4
  <2> QED BY <2>1, <2>2, <2>3
<1>5. BonusTypes'
  BY <1>1, <1>2, <1>4 DEF BonusTypes
<1>6. DayAddsUp'
  <2> SUFFICES ASSUME NEW d \in Days
               PROVE  /\ paidDays'[d] = IF bonus[d] \/ Settled(d)' THEN 1 ELSE 0
                      /\ legacy'[d] # None /\ ~legacy'[d].done /\ ~legacy'[d].owed => bonus[d]
    BY <1>2 DEF DayAddsUp
  <2>1. CASE d = today
    <3>1. legacy'[d] = row /\ paidDays'[d] = n /\ row # None
      BY <1>1, <1>4, <2>1
    <3> QED BY <1>4, <2>1, <3>1 DEF Settled
  <2>2. CASE d # today
    <3>1. legacy'[d] = legacy[d] /\ paidDays'[d] = paidDays[d]
      BY <1>1, <1>4, <2>2
    <3> QED BY <3>1 DEF DayAddsUp, Settled
  <2> QED BY <2>1, <2>2
<1>7. TasksCount'
  BY <1>2 DEF TasksCount
<1> QED BY <1>5, <1>6, <1>7

LEMMA VoidBonus ==
  ASSUME BonusInv, GoalsInv, NEW f \in DOMAIN facts, Void(f)
  PROVE  BonusInv'
<1>1. VoidFact(f)
  BY DEF Void
<1>2. /\ facts' \in Seq(Fact) /\ DOMAIN facts' = DOMAIN facts
      /\ \A g \in DOMAIN facts : /\ facts'[g].day = facts[g].day /\ facts'[g].kind = facts[g].kind
                                 /\ facts'[g].state = IF g = f THEN "voided" ELSE facts[g].state
  BY <1>1, VoidGoals
<1>3. UNCHANGED <<today, bonus, legacy, paidDays>>
  BY <1>1 DEF VoidFact
<1>4. BonusTypes'
  BY <1>2, <1>3 DEF BonusInv, BonusTypes
<1>5. DayAddsUp'
  BY <1>3 DEF BonusInv, DayAddsUp, Settled
<1>6. TasksCount'
  <2> SUFFICES ASSUME NEW g \in DOMAIN facts, facts'[g].kind = "task", facts'[g].state = "processed"
               PROVE  bonus[facts'[g].day]
    BY <1>2, <1>3 DEF TasksCount
  <2>1. facts[g].kind = "task" /\ facts[g].state = "processed" /\ facts'[g].day = facts[g].day
    BY <1>2
  <2> QED BY <2>1 DEF BonusInv, TasksCount
<1> QED BY <1>4, <1>5, <1>6 DEF BonusInv

\* A fact that stays pending asks for no bonus.
LEMMA FailsBonus ==
  ASSUME BonusInv, NEW fs \in Seq(Fact), NEW f \in DOMAIN fs, Fails(f, fs), fs[f].state = "pending",
         \A g \in DOMAIN fs \ {f} : g \in DOMAIN facts /\ fs[g] = facts[g]
  PROVE  BonusInv'
<1>1. facts' = fs /\ UNCHANGED <<today, bonus, legacy, paidDays>>
  BY DEF Fails
<1>2. BonusTypes'
  BY <1>1 DEF BonusInv, BonusTypes
<1>3. DayAddsUp'
  BY <1>1 DEF BonusInv, DayAddsUp, Settled
<1>4. TasksCount'
  <2> SUFFICES ASSUME NEW g \in DOMAIN fs, fs[g].kind = "task", fs[g].state = "processed"
               PROVE  bonus[fs[g].day]
    BY <1>1 DEF TasksCount
  <2>1. g # f
    OBVIOUS
  <2> QED BY <2>1 DEF BonusInv, TasksCount
<1> QED BY <1>2, <1>3, <1>4 DEF BonusInv

-----------------------------------------------------------------------------
(* The invariant of the specification.                                     *)

LEMMA InitHolds ==
  ASSUME Init
  PROVE  GoalsInv /\ BonusInv
<1> DEFINE row(g) == Attempt(g, Opens[g], FALSE)
<1>1. facts = <<>> /\ facts \in Seq(Fact) /\ today \in Days
  BY DEF Init, Days
<1>2. \A g \in Goals : row(g) = [goal |-> g, starts |-> Opens[g], status |-> "active", counted |-> {},
                               progress |-> 0, paid |-> FALSE, retry |-> FALSE, after |-> 0]
  BY DEF Attempt
<1> HIDE DEF row
<1>3. ASSUME NEW g \in Goals
      PROVE  /\ row(g) \in AttemptRow /\ row(g).goal = g /\ row(g).counted = {} /\ ~row(g).paid
             /\ row(g).status = "active" /\ ~row(g).retry /\ row(g).after = 0 /\ row(g).progress = 0
  <2>1. PICK starts \in Nat : starts = Opens[g]
    OBVIOUS
  <2>2. row(g) = [goal |-> g, starts |-> starts, status |-> "active", counted |-> {},
                  progress |-> 0, paid |-> FALSE, retry |-> FALSE, after |-> 0]
    BY <1>2, <2>1
  <2>3. {} \in SUBSET Nat /\ 0 \in Nat
    OBVIOUS
  <2> QED BY ONLY <1>3, <2>1, <2>2, <2>3 DEF AttemptRow
<1>4. attempts = [g \in Goals |-> row(g)]
  BY DEF Init, row
<1>5. attempts \in Seq(AttemptRow) /\ DOMAIN attempts = Goals /\ \A g \in Goals : attempts[g] = row(g)
  <2>1. [g \in Goals |-> row(g)] \in [Goals -> AttemptRow]
    BY <1>3
  <2>2. PICK n \in Nat : Goals = 1 .. n
    OBVIOUS
  <2>3. attempts \in [1 .. n -> AttemptRow]
    BY <1>4, <2>1, <2>2
  <2> QED BY <1>4, <2>2, <2>3
<1>6. GoalTypes
  BY <1>1, <1>3, <1>5 DEF GoalTypes
<1>7. RepeatsApart
  <2>1. \A i, j \in Goals : i < j => attempts[i].goal # attempts[j].goal
    BY <1>3, <1>5
  <2> QED BY <1>5, <2>1 DEF RepeatsApart
<1>8. CountedInWindow
  BY <1>3, <1>5 DEF CountedInWindow
<1>9. ProgressIsEarned
  <2> SUFFICES ASSUME NEW g \in Goals
               PROVE  /\ row(g).progress = Total(row(g).counted, facts)
                      /\ ~(row(g).progress >= Target[row(g).goal])
    BY <1>5 DEF ProgressIsEarned
  <2>1. Total({}, facts) = 0
    BY FS_EmptySet DEF Total
  <2>2. Target[g] \in Nat \ {0}
    OBVIOUS
  <2>3. row(g).progress = 0 /\ row(g).counted = {} /\ row(g).goal = g
    BY <1>3
  <2> QED BY <2>1, <2>2, <2>3
<1>10. OneReward
  BY <1>3, <1>5 DEF OneReward
<1>11. BonusTypes /\ DayAddsUp /\ TasksCount
  BY <1>1 DEF Init, BonusTypes, DayAddsUp, TasksCount, Settled
<1> QED BY <1>6, <1>7, <1>8, <1>9, <1>10, <1>11 DEF GoalsInv, BonusInv

LEMMA StepHolds ==
  ASSUME GoalsInv, BonusInv, [Next]_vars
  PROVE  GoalsInv' /\ BonusInv'
<1>1. facts \in Seq(Fact) /\ today \in Days /\ today \in Nat
  BY DEF BonusInv, BonusTypes, Days
<1>2. ASSUME NEW day \in Days, NEW kind \in {"task", "minutes"}, Record(day, kind)
      PROVE  GoalsInv' /\ BonusInv'
  <2> DEFINE row == [day |-> day, kind |-> kind, state |-> "pending"]
             fs == Append(facts, row)
             f == Len(fs)
  <2>1. row \in Fact /\ row.state = "pending"
    BY DEF Fact
  <2>2. Process(f, fs) \/ Fails(f, fs)
    BY <1>2 DEF Record
  <2>3. /\ fs \in Seq(Fact) /\ f \in DOMAIN fs /\ DOMAIN facts \subseteq DOMAIN fs
        /\ fs[f] = row /\ \A g \in DOMAIN facts : fs[g] = facts[g]
        /\ DOMAIN fs = DOMAIN facts \cup {f}
    <3> HIDE DEF row
    <3> QED BY <1>1, <2>1, AppendFact
  <2> HIDE DEF row, fs, f
  <2>4. fs[f].state = "pending" /\ \A g \in DOMAIN fs \ {f} : g \in DOMAIN facts /\ fs[g] = facts[g]
    BY <2>1, <2>3
  <2>5. CASE Process(f, fs)
    <3>1. GoalsInv'
      BY <2>3, <2>4, <2>5, ProcessGoals DEF Process
    <3>2. BonusInv'
      BY <2>3, <2>4, <2>5, ProcessBonus
    <3> QED BY <3>1, <3>2
  <2>6. CASE Fails(f, fs)
    <3>1. GoalsInv'
      BY <2>3, <2>6, FailsGoals DEF Fails
    <3>2. BonusInv'
      BY <2>3, <2>4, <2>6, FailsBonus
    <3> QED BY <3>1, <3>2
  <2> QED BY <2>2, <2>5, <2>6
<1>3. ASSUME NEW f \in DOMAIN facts, Repaired(f)
      PROVE  GoalsInv' /\ BonusInv'
  <2>1. facts[f].state = "pending" /\ Process(f, facts)
    BY <1>3 DEF Repaired, Pending
  <2>2. GoalsInv'
    BY <1>1, <2>1, ProcessGoals DEF Process
  <2>3. BonusInv'
    BY <1>1, <2>1, ProcessBonus
  <2> QED BY <2>2, <2>3
<1>4. ASSUME NEW f \in DOMAIN facts, Void(f)
      PROVE  GoalsInv' /\ BonusInv'
  BY <1>4, VoidGoals, VoidBonus DEF Void
<1>5. ASSUME NEW i \in DOMAIN attempts, Retry(i)
      PROVE  GoalsInv' /\ BonusInv'
  <2>1. GoalsInv'
    BY <1>1, <1>5, RetryGoals
  <2>2. UNCHANGED <<today, facts, bonus, legacy, paidDays>>
    BY <1>5 DEF Retry
  <2> QED BY <2>1, <2>2 DEF BonusInv, BonusTypes, DayAddsUp, TasksCount, Settled
<1>6. ASSUME UNCHANGED <<facts, attempts>>
      PROVE  GoalsInv'
  BY <1>1, <1>6, FailsGoals
<1>7. CASE OldDaily \/ OldProgress \/ OldClaim
  <2>1. UNCHANGED <<facts, attempts>>
    BY <1>7 DEF OldDaily, OldProgress, OldClaim
  <2> QED BY <1>6, <1>7, <2>1, LegacyBonus
<1>8. ASSUME NEW d \in Days, SettleOld(d)
      PROVE  GoalsInv' /\ BonusInv'
  <2>1. PayBonus(d) /\ UNCHANGED <<today, facts, attempts>>
    BY <1>8 DEF SettleOld
  <2>2. /\ bonus' \in [Days -> BOOLEAN] /\ paidDays' \in [Days -> Nat]
        /\ legacy' \in [Days -> LegacyRow \cup {None}]
        /\ DayAddsUp' /\ \A e \in Days : bonus[e] => bonus'[e]
    BY <2>1, PayBonusAddsUp DEF BonusInv
  <2>3. TasksCount'
    <3>1. \A g \in DOMAIN facts : facts[g] \in Fact
      BY <1>1
    <3>2. \A g \in DOMAIN facts : facts[g].day \in Days
      BY <3>1 DEF Fact
    <3> QED BY <2>1, <2>2, <3>2 DEF BonusInv, TasksCount
  <2> QED BY <1>6, <2>1, <2>2, <2>3 DEF BonusInv, BonusTypes
<1>9. CASE NextDay
  <2>1. UNCHANGED <<facts, attempts, bonus, legacy, paidDays>> /\ today' \in Days
    BY <1>1, <1>9 DEF NextDay, Days
  <2> QED BY <1>6, <2>1 DEF BonusInv, BonusTypes, DayAddsUp, TasksCount, Settled
<1>10. CASE UNCHANGED vars
  <2>1. UNCHANGED <<today, facts, attempts, bonus, legacy, paidDays>>
    BY <1>10 DEF vars
  <2> QED BY <1>6, <2>1 DEF BonusInv, BonusTypes, DayAddsUp, TasksCount, Settled
<1> QED BY <1>2, <1>3, <1>4, <1>5, <1>7, <1>8, <1>9, <1>10 DEF Next, Repair

LEMMA InvHolds == Spec => [](GoalsInv /\ BonusInv)
<1>1. Init => GoalsInv /\ BonusInv
  BY InitHolds
<1>2. (GoalsInv /\ BonusInv) /\ [Next]_vars => (GoalsInv /\ BonusInv)'
  BY StepHolds
<1> QED BY <1>1, <1>2, PTL DEF Spec

-----------------------------------------------------------------------------
(* The theorems.                                                           *)

\* Whatever fails, is repaired late, voided or retried, an unpaid attempt
\* shows exactly its standing work, a reached target is paid or closed, and
\* no work counts for two attempts of a promise (_process, void_activity).
THEOREM WorkIsShownOnce == Spec => []ChallengeInv
<1>1. GoalsInv /\ BonusInv => ChallengeInv
  <2> SUFFICES ASSUME GoalsInv, BonusInv PROVE ChallengeInv
    OBVIOUS
  <2>1. TypeOK
    BY DEF GoalsInv, BonusInv, GoalTypes, BonusTypes, TypeOK
  <2>2. WorkCountsOnce
    <3> SUFFICES ASSUME NEW f \in DOMAIN facts, NEW i \in DOMAIN attempts, NEW j \in DOMAIN attempts,
                        f \in attempts[i].counted
                 PROVE  /\ f \in attempts[j].counted /\ attempts[j].goal = attempts[i].goal => i = j
                        /\ f > attempts[i].after
      BY DEF WorkCountsOnce
    <3>1. facts[f].day \in Nat
      <4>1. facts[f] \in Fact
        BY DEF GoalsInv, GoalTypes
      <4> QED BY <4>1 DEF Fact, Days
    <3>2. Covers(attempts[i], facts[f].day) /\ f > attempts[i].after
      BY DEF GoalsInv, CountedInWindow
    <3>3. f \in attempts[j].counted => Covers(attempts[j], facts[f].day)
      BY DEF GoalsInv, CountedInWindow
    <3> QED BY <3>1, <3>2, <3>3, OneWindow
  <2> QED BY <2>1, <2>2 DEF ChallengeInv, GoalsInv
<1> QED BY <1>1, InvHolds, PTL

\* Once a promise was retried, one attempt of all its versions is paid and
\* the others are closed; a day's bonus is paid at most once, whether work,
\* an old client or the settling task asks (_award_in_scope, claim_reward).
THEOREM RewardsArePaidOnce == Spec => []PaysOnce
<1>1. GoalsInv /\ BonusInv => PaysOnce
  <2> SUFFICES ASSUME GoalsInv, BonusInv PROVE PaysOnce
    OBVIOUS
  <2>1. OneBonusPerDay
    BY DEF BonusInv, DayAddsUp, OneBonusPerDay
  <2>2. OneRewardAfterRetry
    <3> SUFFICES ASSUME NEW i \in DOMAIN attempts, attempts[i].retry, NEW j \in DOMAIN attempts, attempts[j].paid
                 PROVE  /\ Cardinality({k \in DOMAIN attempts : attempts[k].paid}) = 1
                        /\ \A k \in DOMAIN attempts : attempts[k].paid \/ attempts[k].status = "closed"
      BY DEF OneRewardAfterRetry
    <3>1. \A k \in DOMAIN attempts : k # j => attempts[k].status = "closed"
      BY DEF GoalsInv, OneReward, Lifetime
    <3>2. \A k \in DOMAIN attempts : k # j => ~attempts[k].paid
      BY <3>1 DEF GoalsInv, GoalTypes
    <3>3. {k \in DOMAIN attempts : attempts[k].paid} = {j}
      BY <3>2
    <3>4. Cardinality({j}) = 1
      BY FS_Singleton
    <3> QED BY <3>1, <3>3, <3>4
  <2> QED BY <2>1, <2>2 DEF PaysOnce
<1> QED BY <1>1, InvHolds, PTL

\* A finished task that was evaluated, on time or by a late repair, has paid
\* its day's bonus (record_activity, process_daily_bonus).
THEOREM TasksPayTheirDay == Spec => []TaskPaysItsDay
<1>1. GoalsInv /\ BonusInv => TaskPaysItsDay
  <2> SUFFICES ASSUME BonusInv, NEW f \in DOMAIN facts, facts[f].kind = "task", facts[f].state = "processed"
               PROVE  paidDays[facts[f].day] = 1
    BY DEF TaskPaysItsDay
  <2>1. facts[f] \in Fact
    BY DEF BonusInv, BonusTypes
  <2>2. facts[f].day \in Days /\ bonus[facts[f].day]
    BY <2>1 DEF Fact, BonusInv, TasksCount
  <2> QED BY <2>2 DEF BonusInv, DayAddsUp
<1> QED BY <1>1, InvHolds, PTL
-----------------------------------------------------------------------------
(* Campaigns: who is in one, what is credited to it and who is paid.       *)

HIDE ChallengeConstants

campaignRows == <<status, members, tx, expiring, paid>>

NobodyPaid == [c \in Children |-> 0]

\* A progress transaction is of a member of the campaign that it holds, which
\* is active and the one that its work was done for.
OpenStep(q) ==
  tx[q] # Nothing => status[q] = "active" /\ tx[q].child \in members[q] /\ tx[q].seen = q

CampaignOK ==
  /\ DOMAIN status = Quests /\ DOMAIN members = Quests /\ DOMAIN tx = Quests /\ DOMAIN paid = Quests
  /\ \A q \in Quests : OpenStep(q)
  /\ \A p, q \in Quests : status[p] = "active" /\ status[q] = "active" /\ p # q =>
       members[p] \cap members[q] = {}
  /\ \A q \in Quests : status[q] \in {"none", "active"} => paid[q] = NobodyPaid
  /\ expiring \subseteq {q \in Quests : status[q] # "none"}

\* A campaign is completed by its transaction, so that it was active and unpaid,
\* and all its members are paid.
LEMMA PaidAtCompletion ==
  ASSUME CampaignOK, NEW q \in Quests, Finish(q)
  PROVE  /\ CampaignOK'
         /\ \A p \in Quests : paid'[p] # paid[p] =>
              /\ status[p] = "active" /\ paid[p] = NobodyPaid
              /\ paid'[p] = [c \in Children |-> IF c \in members[p] THEN 1 ELSE 0]
<1> USE DEF CampaignOK
<1>1. status[q] = "active" /\ tx[q].child \in members[q] /\ paid[q] = NobodyPaid
  BY DEF Finish, OpenStep
<1>2. UNCHANGED <<members, expiring>> /\ tx' = [tx EXCEPT ![q] = Nothing]
  BY DEF Finish, tasks
<1>3. CASE UNCHANGED <<status, paid>>
  BY <1>1, <1>2, <1>3 DEF OpenStep
<1>4. CASE /\ status' = [status EXCEPT ![q] = "completed"]
           /\ paid' = [paid EXCEPT ![q] = [m \in Children |-> paid[q][m] + IF m \in members[q] THEN 1 ELSE 0]]
  <2>1. paid'[q] = [c \in Children |-> IF c \in members[q] THEN 1 ELSE 0]
    BY <1>1, <1>4 DEF NobodyPaid
  <2>2. CampaignOK'
    BY <1>1, <1>2, <1>4 DEF OpenStep
  <2> QED BY <1>1, <1>4, <2>1, <2>2
<1> QED BY <1>3, <1>4 DEF Finish, Payees

\* A campaign is started for children who are in no active one.
LEMMA StartApart ==
  ASSUME CampaignOK, NEW q \in Quests, NEW group \in SUBSET Children, Start(q, group)
  PROVE  CampaignOK'
<1>1. status' = [status EXCEPT ![q] = "active"] /\ members' = [members EXCEPT ![q] = group]
      /\ UNCHANGED <<tx, expiring, paid>> /\ status[q] = "none"
  BY DEF Start, tasks
<1>2. \A p \in Quests : status[p] = "active" => members[p] \cap group = {}
  BY DEF Start, Free
<1> QED BY <1>1, <1>2 DEF CampaignOK, OpenStep

\* A progress transaction begins on the campaign that its work was done for,
\* or closes it.
LEMMA OpenTheirOwn ==
  ASSUME CampaignOK, NEW c, NEW want, Open(c, want)
  PROVE  CampaignOK' /\ UNCHANGED paid
<1>1. PICK q \in Quests : /\ status[q] = "active" /\ c \in members[q] /\ q = want
                          /\ IF ended[q]
                             THEN status' = [status EXCEPT ![q] = "expired"] /\ UNCHANGED tx
                             ELSE tx' = [tx EXCEPT ![q] = [child |-> c, seen |-> want]] /\ UNCHANGED status
                          /\ tx[q] = Nothing
  BY DEF Open, Membership, ActiveOf, Active, Locked
<1>2. UNCHANGED <<members, expiring, paid>>
  BY DEF Open, tasks
<1> QED BY <1>1, <1>2 DEF CampaignOK, OpenStep

\* The nightly expiry writes what it read as active, whatever it is by now; it
\* waits for a transaction that is open.
LEMMA ExpiryWaits ==
  ASSUME CampaignOK, ExpireRead \/ ExpireWrite
  PROVE  CampaignOK' /\ UNCHANGED paid
<1>1. CASE ExpireRead
  BY <1>1 DEF ExpireRead, PastDue, Active, rows, CampaignOK, OpenStep
<1>2. CASE ExpireWrite
  BY <1>2 DEF ExpireWrite, CampaignOK, OpenStep
<1> QED BY <1>1, <1>2

LEMMA CampaignStep ==
  ASSUME CampaignOK, [CampaignNext]_campaignVars
  PROVE  /\ CampaignOK'
         /\ \A p \in Quests : paid'[p] # paid[p] =>
              /\ status[p] = "active" /\ paid[p] = NobodyPaid
              /\ paid'[p] = [c \in Children |-> IF c \in members[p] THEN 1 ELSE 0]
<1> DEFINE Pays(p) == /\ status[p] = "active" /\ paid[p] = NobodyPaid
                      /\ paid'[p] = [c \in Children |-> IF c \in members[p] THEN 1 ELSE 0]
<1>1. CASE UNCHANGED campaignRows
  BY <1>1 DEF campaignRows, CampaignOK, OpenStep
<1>2. CASE campaignVars' = campaignVars
  BY <1>1, <1>2 DEF campaignVars, rows, tasks, campaignRows
<1>3. ASSUME NEW q \in Quests, NEW group \in SUBSET Children, Start(q, group)
      PROVE  CampaignOK' /\ UNCHANGED paid
  BY <1>3, StartApart DEF Start
<1>4. ASSUME NEW c \in Children, Defer(c) \/ BeginAlone(c) \/ BreakRage(c)
      PROVE  CampaignOK' /\ (UNCHANGED paid \/ UNCHANGED campaignRows)
  <2>1. CASE Defer(c)
    BY <2>1, <1>1 DEF Defer, rows, tasks, campaignRows
  <2>2. CASE BeginAlone(c)
    BY <2>2, OpenTheirOwn DEF BeginAlone
  <2>3. CASE BreakRage(c)
    BY <2>3, <1>1 DEF BreakRage, tasks, campaignRows
  <2> QED BY <1>4, <2>1, <2>2, <2>3
<1>5. ASSUME NEW d \in due, LoseCallback(d) \/ BeginCallback(d) \/ CallbackTooLate(d)
      PROVE  CampaignOK' /\ UNCHANGED paid
  <2>1. CASE BeginCallback(d)
    BY <2>1, OpenTheirOwn DEF BeginCallback
  <2>2. CASE LoseCallback(d) \/ CallbackTooLate(d)
    BY <2>2, <1>1 DEF LoseCallback, CallbackTooLate, rows, tasks, campaignRows
  <2> QED BY <1>5, <2>1, <2>2
<1>6. ASSUME NEW q \in Quests, Fail(q) PROVE CampaignOK' /\ UNCHANGED paid
  BY <1>6 DEF Fail, rows, tasks, CampaignOK, OpenStep
<1>7. ASSUME NEW q \in Quests, PassEnd(q) \/ RageWrite(q) PROVE UNCHANGED campaignRows
  BY <1>7 DEF PassEnd, RageWrite, rows, tasks, campaignRows
<1>8. CASE Midnight
  BY <1>1, <1>8 DEF Midnight, rows, campaignRows
<1> QED BY <1>1, <1>2, <1>3, <1>4, <1>5, <1>6, <1>7, <1>8, PaidAtCompletion, ExpiryWaits DEF CampaignNext, Nightly

LEMMA CampaignAlways == CampaignSpec => []CampaignOK
<1>1. CampaignInit => CampaignOK
  BY DEF CampaignInit, Unread, CampaignOK, OpenStep, NobodyPaid
<1>2. CampaignOK /\ [CampaignNext]_campaignVars => CampaignOK'
  BY CampaignStep
<1> QED BY <1>1, <1>2, PTL DEF CampaignSpec

\* Whoever starts which campaigns, and however late work is credited, a child
\* is in one active campaign at a time.
THEOREM ChildrenHaveOneCampaign == CampaignSpec => []OneActivePerChild
<1>1. CampaignOK => OneActivePerChild
  <2> SUFFICES ASSUME CampaignOK, NEW c \in Children PROVE Cardinality(ActiveOf(c)) <= 1
    BY DEF OneActivePerChild
  <2>1. \A p, q \in ActiveOf(c) : p = q
    BY DEF CampaignOK, ActiveOf, Active
  <2>2. ActiveOf(c) = {} \/ \E q : ActiveOf(c) = {q}
    BY <2>1
  <2>3. Cardinality({}) = 0 /\ \A q : Cardinality({q}) = 1
    BY FS_EmptySet, FS_Singleton
  <2>4. Cardinality(ActiveOf(c)) = 0 \/ Cardinality(ActiveOf(c)) = 1
    BY <2>2, <2>3, Zenon
  <2> QED BY <2>4
<1> QED BY <1>1, CampaignAlways, PTL

\* Work that is credited late, after its campaign ended and another began, is
\* never credited to the other one.
THEOREM LateWorkIsNotMoved == CampaignSpec => []LateWorkStays
<1>1. CampaignOK => LateWorkStays
  BY DEF CampaignOK, OpenStep, LateWorkStays
<1> QED BY <1>1, CampaignAlways, PTL

\* A campaign pays all its members in the step that completes it, and never
\* again, though the nightly expiry may overwrite its status afterwards.
THEOREM MembersArePaidTogether == CampaignSpec => PaidTogether
<1>1. CampaignOK /\ [CampaignNext]_campaignVars =>
        [\A q \in Quests : paid'[q] # paid[q] =>
           /\ status[q] = "active"
           /\ paid[q] = [c \in Children |-> 0]
           /\ paid'[q] = [c \in Children |-> IF c \in members[q] THEN 1 ELSE 0]]_campaignVars
  BY CampaignStep DEF NobodyPaid
<1> QED BY <1>1, CampaignAlways, PTL DEF CampaignSpec, PaidTogether

-----------------------------------------------------------------------------
(* Campaigns: progress and shields.                                        *)

\* What the members did for campaign q adds up to this.
PartSum(q) == MapThenSumSet(LAMBDA c : part[q][c], Children)

\* It is a sum of Sums, before the step and after it.
LEMMA PartSumIs ==
  ASSUME NEW q
  PROVE  PartSum(q) = SumOf(part[q], Children) /\ PartSum(q)' = SumOf(part'[q], Children)
BY Zenon DEF PartSum, SumOf, MapThenSumSet, MapThenFoldSet

\* What ProgressIsSum says, in those sums.
LEMMA SumIsOf ==
  /\ ProgressIsSum <=> \A q \in Quests : progress[q] = SumOf(part[q], Children)
  /\ ProgressIsSum' <=> \A q \in Quests : progress'[q] = SumOf(part'[q], Children)
<1>1. ProgressIsSum <=> \A q \in Quests : progress[q] = PartSum(q)
  BY DEF ProgressIsSum, PartSum
<1>2. ProgressIsSum' <=> \A q \in Quests : progress'[q] = PartSum(q)'
  BY Zenon DEF ProgressIsSum, PartSum, MapThenSumSet, MapThenFoldSet
<1> QED BY <1>1, <1>2, PartSumIs, Zenon

\* Progress is what the members did, and a transaction that is open has room for
\* one more hit.
CountsOK ==
  /\ progress \in [Quests -> 0 .. MaxProgress]
  /\ part \in [Quests -> [Children -> Nat]]
  /\ \A q \in Quests : tx[q] # Nothing => progress[q] < MaxProgress
  /\ \A q \in Quests : progress[q] = SumOf(part[q], Children)

\* Shields stay within their cap, those that the task holds too.
ShieldsOK ==
  /\ rage \in [Quests -> 0 .. Cap] /\ DOMAIN raging = Quests
  /\ \A q \in Quests : raging[q] # Nothing => raging[q].shield \in 0 .. Cap

\* The campaigns' rows.
RowsOK ==
  /\ status \in [Quests -> {"none", "active", "completed", "expired"}]
  /\ members \in [Quests -> SUBSET Children]

\* The smaller of two numbers is one of them.
LEMMA MinOfTwo ==
  ASSUME NEW a \in Int, NEW b \in Int
  PROVE  Min({a, b}) \in {a, b} /\ Min({a, b}) <= a /\ Min({a, b}) <= b
<1>1. \E x \in {a, b} : \A y \in {a, b} : x <= y
  OBVIOUS
<1> QED BY <1>1 DEF Min

\* A shield stays within its cap.
LEMMA ShieldInCap ==
  ASSUME NEW shield \in 0 .. Cap, NEW worked
  PROVE  Shield(shield, worked) \in 0 .. Cap
<1>1. Climb \in Nat /\ Decay \in Nat /\ Cap \in Nat
  BY CampaignConstants
<1>2. Min({shield + Climb, Cap}) \in 0 .. Cap
  <2>1. shield + Climb \in Nat /\ shield + Climb \in Int /\ Cap \in Int
    BY <1>1
  <2> DEFINE low == Min({shield + Climb, Cap})
  <2>2. low \in {shield + Climb, Cap} /\ low <= Cap
    BY <2>1, MinOfTwo
  <2>3. low \in 0 .. Cap
    <3> HIDE DEF low
    <3> QED BY <1>1, <2>1, <2>2
  <2> QED BY <2>3
<1> QED BY <1>1, <1>2 DEF Shield

\* One more hit: the campaign's row and the member's row, under the same locks.
LEMMA HitAddsUp ==
  ASSUME CampaignOK, RowsOK, CountsOK, NEW q \in Quests, Finish(q)
  PROVE  RowsOK' /\ CountsOK'
<1> DEFINE c == tx[q].child
<1>1. tx[q] # Nothing /\ c \in Children /\ progress[q] \in Nat /\ progress[q] < MaxProgress
  BY DEF Finish, CampaignOK, OpenStep, RowsOK, CountsOK
<1>2. /\ progress' = [progress EXCEPT ![q] = progress[q] + 1]
      /\ part' = [part EXCEPT ![q] = [part[q] EXCEPT ![c] = part[q][c] + 1]]
      /\ tx' = [tx EXCEPT ![q] = Nothing] /\ members' = members
      /\ status' = status \/ status' = [status EXCEPT ![q] = "completed"]
  BY DEF Finish
<1>3. part[q] \in [Children -> Nat] /\ part[q][c] + 1 \in Nat
  BY <1>1 DEF CountsOK
<1> DEFINE old == part[q]
           new == part'[q]
<1>4. new = [old EXCEPT ![c] = old[c] + 1]
  BY <1>2 DEF CountsOK
<1>5. /\ new \in [Children -> Nat] /\ new[c] = old[c] + 1 /\ old[c] \in Nat
      /\ \A d \in Children \ {c} : new[d] = old[d]
      /\ \A d \in Children : old[d] \in Int /\ new[d] \in Int
  BY <1>1, <1>3, <1>4
<1>6. SumOf(new, Children) = SumOf(old, Children) + 1
  <2>1. IsFiniteSet(Children)
    BY CampaignConstants
  <2>2. SumOf(old, Children) \in Int
    BY <1>5, <2>1, SumInt
  <2> HIDE DEF old, new, c
  <2>3. SumOf(new, Children) = SumOf(old, Children) + new[c] - old[c]
    BY <1>1, <1>5, <2>1, SumMoved
  <2> QED BY <1>5, <2>2, <2>3
<1>7. /\ part' \in [Quests -> [Children -> Nat]] /\ \A p \in Quests \ {q} : part'[p] = part[p]
      /\ progress' \in [Quests -> 0 .. MaxProgress] /\ progress'[q] = progress[q] + 1
      /\ \A p \in Quests \ {q} : progress'[p] = progress[p] /\ tx'[p] = tx[p]
      /\ tx'[q] = Nothing
  <2>1. progress[q] + 1 \in 0 .. MaxProgress
    BY <1>1, CampaignConstants
  <2>2. [old EXCEPT ![c] = old[c] + 1] \in [Children -> Nat]
    BY <1>4, <1>5
  <2> HIDE DEF c
  <2> QED BY <1>2, <2>1, <2>2 DEF CountsOK, CampaignOK
<1>8. RowsOK'
  BY <1>2 DEF RowsOK
<1>9. \A p \in Quests : progress'[p] = SumOf(part'[p], Children)
  BY <1>6, <1>7 DEF CountsOK
<1> QED BY <1>7, <1>8, <1>9 DEF CountsOK

\* A step that leaves the counts alone, and opens a transaction where there is room.
LEMMA CountsStay ==
  ASSUME CountsOK, UNCHANGED <<progress, part>>,
         \A q \in Quests : tx'[q] # Nothing => progress[q] < MaxProgress
  PROVE  CountsOK'
BY DEF CountsOK

\* Work that begins.
LEMMA OpenHasRoom ==
  ASSUME CampaignOK, RowsOK, CountsOK, NEW c, NEW want, Open(c, want)
  PROVE  RowsOK' /\ CountsOK' /\ UNCHANGED <<rage, raging>>
<1>1. PICK q \in Quests : /\ progress[q] < MaxProgress
                          /\ IF ended[q]
                             THEN status' = [status EXCEPT ![q] = "expired"] /\ UNCHANGED tx
                             ELSE tx' = [tx EXCEPT ![q] = [child |-> c, seen |-> want]] /\ UNCHANGED status
  BY DEF Open, Membership, ActiveOf, Active
<1>2. UNCHANGED <<members, progress, part, rage, raging>>
  BY DEF Open, tasks
<1>3. \A p \in Quests : tx'[p] # Nothing => progress[p] < MaxProgress
  BY <1>1 DEF CountsOK, CampaignOK
<1> QED BY <1>1, <1>2, <1>3, CountsStay DEF RowsOK

\* The shields move in three steps: read at midnight, written later, or broken.
LEMMA ShieldStep ==
  ASSUME ShieldsOK,
         Midnight \/ (\E q \in Quests : RageWrite(q)) \/ (\E c \in Children : BreakRage(c))
         \/ UNCHANGED <<rage, raging>>
  PROVE  ShieldsOK'
<1>0. Cap \in Nat
  BY CampaignConstants
<1>1. CASE Midnight
  <2>1. \A q \in Quests : raging'[q] # Nothing => raging'[q].shield = rage[q]
    BY <1>1 DEF Midnight
  <2>2. DOMAIN raging' = Quests /\ rage' = rage
    BY <1>1 DEF Midnight, rows
  <2> QED BY <2>1, <2>2 DEF ShieldsOK
<1>2. ASSUME NEW q \in Quests, RageWrite(q) PROVE ShieldsOK'
  <2> DEFINE new == Shield(raging[q].shield, q \in touched)
  <2>1. new \in 0 .. Cap
    BY <1>2, ShieldInCap DEF RageWrite, ShieldsOK
  <2>2. raging' = [raging EXCEPT ![q] = Nothing]
        /\ rage' = [rage EXCEPT ![q] = IF new = raging[q].shield THEN rage[q] ELSE new]
    BY <1>2 DEF RageWrite
  <2> HIDE DEF new
  <2> QED BY <2>1, <2>2 DEF ShieldsOK
<1>3. ASSUME NEW c \in Children, BreakRage(c) PROVE ShieldsOK'
  <2>1. PICK q \in Quests : rage' = [rage EXCEPT ![q] = 0]
    BY <1>3 DEF BreakRage, ActiveOf, Active
  <2>2. raging' = raging
    BY <1>3 DEF BreakRage, tasks
  <2> QED BY <1>0, <2>1, <2>2 DEF ShieldsOK
<1>4. CASE UNCHANGED <<rage, raging>>
  BY <1>4 DEF ShieldsOK
<1> QED BY <1>1, <1>2, <1>3, <1>4

\* The counts, the rows and the shields over every step.
LEMMA CountsStep ==
  ASSUME CampaignOK, RowsOK, CountsOK, ShieldsOK, [CampaignNext]_campaignVars
  PROVE  RowsOK' /\ CountsOK' /\ ShieldsOK'
<1> DEFINE Kept == RowsOK' /\ CountsOK' /\ UNCHANGED <<rage, raging>>
           SameCounts == UNCHANGED <<progress, part, tx, status, members>>
<1>0. ASSUME SameCounts PROVE RowsOK' /\ CountsOK'
  BY <1>0 DEF RowsOK, CountsOK
<1>1. CASE campaignVars' = campaignVars
  BY <1>1, <1>0, ShieldStep DEF campaignVars, rows, tasks
<1>2. ASSUME NEW q \in Quests, NEW group \in SUBSET Children, Start(q, group) PROVE Kept
  <2>1. UNCHANGED <<progress, part, tx, rage, raging>> /\ RowsOK'
    BY <1>2 DEF Start, tasks, RowsOK
  <2> QED BY <2>1 DEF CountsOK
<1>3. ASSUME NEW c \in Children, Defer(c) \/ BeginAlone(c) PROVE Kept
  <2>1. CASE Defer(c)
    BY <2>1, <1>0 DEF Defer, rows, tasks
  <2>2. CASE BeginAlone(c)
    BY <2>2, OpenHasRoom DEF BeginAlone
  <2> QED BY <1>3, <2>1, <2>2
<1>4. ASSUME NEW c \in Children, BreakRage(c) PROVE SameCounts
  BY <1>4 DEF BreakRage
<1>5. ASSUME NEW d \in due, LoseCallback(d) \/ BeginCallback(d) \/ CallbackTooLate(d) PROVE Kept
  <2>1. CASE BeginCallback(d)
    BY <2>1, OpenHasRoom DEF BeginCallback
  <2>2. CASE LoseCallback(d) \/ CallbackTooLate(d)
    BY <2>2, <1>0 DEF LoseCallback, CallbackTooLate, rows, tasks
  <2> QED BY <1>5, <2>1, <2>2
<1>6. ASSUME NEW q \in Quests, Finish(q) PROVE Kept
  BY <1>6, HitAddsUp DEF Finish, tasks
<1>7. ASSUME NEW q \in Quests, Fail(q) PROVE Kept
  <2>1. UNCHANGED <<status, members, progress, part, rage, raging>> /\ tx' = [tx EXCEPT ![q] = Nothing]
    BY <1>7 DEF Fail, rows, tasks
  <2>2. \A p \in Quests : tx'[p] # Nothing => progress[p] < MaxProgress
    BY <2>1 DEF CountsOK, CampaignOK
  <2> QED BY <2>1, <2>2, CountsStay DEF RowsOK
<1>8. ASSUME NEW q \in Quests, PassEnd(q) PROVE Kept
  BY <1>8, <1>0 DEF PassEnd, rows, tasks
<1>9. ASSUME NEW q \in Quests, RageWrite(q) PROVE SameCounts
  BY <1>9 DEF RageWrite
<1>10. CASE ExpireRead
  BY <1>10, <1>0, ShieldStep DEF ExpireRead, rows
<1>11. CASE ExpireWrite
  <2>1. UNCHANGED <<members, progress, part, rage, raging, tx>> /\ RowsOK'
    BY <1>11 DEF ExpireWrite, RowsOK
  <2> QED BY <2>1, ShieldStep DEF CountsOK
<1>12. CASE Midnight
  BY <1>12, <1>0, ShieldStep DEF Midnight, rows
<1> HIDE DEF SameCounts
<1>13. (\E c \in Children : BreakRage(c)) \/ (\E q \in Quests : RageWrite(q)) => RowsOK' /\ CountsOK' /\ ShieldsOK'
  BY <1>0, <1>4, <1>9, ShieldStep
<1> QED BY <1>1, <1>2, <1>3, <1>5, <1>6, <1>7, <1>8, <1>10, <1>11, <1>12, <1>13, ShieldStep DEF CampaignNext, Nightly

\* Nothing is done yet.
LEMMA CountsInit == CampaignInit => RowsOK /\ CountsOK /\ ShieldsOK
<1> SUFFICES ASSUME CampaignInit PROVE RowsOK /\ CountsOK /\ ShieldsOK
  OBVIOUS
<1>1. /\ status = [q \in Quests |-> "none"] /\ members = [q \in Quests |-> {}]
      /\ progress = [q \in Quests |-> 0] /\ rage = [q \in Quests |-> 0]
      /\ part = [q \in Quests |-> [c \in Children |-> 0]]
      /\ tx = [q \in Quests |-> Nothing] /\ raging = [q \in Quests |-> Nothing]
  BY DEF CampaignInit, Unread
<1>2. MaxProgress \in Nat /\ Cap \in Nat /\ IsFiniteSet(Children)
  BY CampaignConstants
<1>3. ASSUME NEW q \in Quests PROVE SumOf(part[q], Children) = 0
  <2>1. \A c \in Children : part[q][c] = 0
    BY <1>1
  <2> QED BY <1>2, <2>1, SumZero
<1> QED BY <1>1, <1>2, <1>3 DEF RowsOK, CountsOK, ShieldsOK

\* Two starters, callbacks that come late or never, repairs and the nightly
\* tasks: a child is in one active campaign, and a campaign's progress is what
\* its members did (record_progress).
THEOREM CampaignsAddUp == CampaignSpec => []CampaignInv
<1> DEFINE Inv == RowsOK /\ CountsOK /\ ShieldsOK
<1>1. CampaignInit => Inv
  BY CountsInit
<1>2. CampaignOK /\ Inv /\ [CampaignNext]_campaignVars => Inv'
  BY CountsStep
<1>3. CampaignOK /\ Inv => CampaignTypeOK /\ ProgressIsSum
  BY SumIsOf DEF CampaignOK, OpenStep, RowsOK, CountsOK, ShieldsOK, CampaignTypeOK
<1> QED BY <1>1, <1>2, <1>3, CampaignAlways, ChildrenHaveOneCampaign, PTL DEF CampaignSpec, CampaignInv
=============================================================================
