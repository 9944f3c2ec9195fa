-------------------------- MODULE GreenlightProofs --------------------------
(***************************************************************************)
(* Proofs about PayWeek and Greenlight, for every number of entries, weeks,*)
(* voids, statements and confirmations: one timer runs and no closed one   *)
(* runs again; a week, a confirmation key and a bank reference are each    *)
(* paid once; a statement row agrees with its payout for good, and         *)
(* reconciling never rewrites what a payout has settled; a card's hours    *)
(* are its ledger rows; an approved exchange is covered by the balance it  *)
(* read, a goal by a balance that is real; and all of it implements        *)
(* PayPromise.                                                             *)
(***************************************************************************)
EXTENDS Greenlight, Sums, TLAPS

-----------------------------------------------------------------------------
(* Timers.                                                                 *)

LEMMA LongestDuration == Max(Durations) \in Durations
BY PayWeekConstants DEF Max

\* A timer is started only when none runs, and nothing else makes an entry run.
LEMMA EntryStep ==
  ASSUME TimersOK, [Next]_vars
  PROVE  /\ TimersOK'
         /\ \A e \in Entries : entry[e].status \in {"completed", "voided"} => entry'[e].status # "active"
<1> DEFINE Closed == \A e \in Entries :
                       entry[e].status \in {"completed", "voided"} => entry'[e].status # "active"
<1>1. CASE UNCHANGED <<week, timers>>
  BY <1>1 DEF TimersOK, timers
<1>2. ASSUME UNCHANGED <<week, autoRow, voidRow>>, NEW e \in Entries, NEW r \in EntryRow,
             entry' = [entry EXCEPT ![e] = r],
             r.status # "active" \/ \A f \in Entries : entry[f].status # "active",
             entry[e].status \in {"completed", "voided"} => r.status # "active"
      PROVE  TimersOK' /\ Closed
  BY <1>2 DEF TimersOK
<1>3. ASSUME NEW e \in Entries, NEW p \in Projects, ClockIn(e, p) PROVE TimersOK' /\ Closed
  <2>1. [status |-> "active", project |-> p, week |-> week, hours |-> 0] \in EntryRow
    BY <1>3, PayWeekConstants DEF ClockIn, EntryRow, Weeks
  <2> QED BY <1>2, <1>3, <2>1 DEF ClockIn, clock
<1>4. ASSUME NEW e \in Entries, NEW h \in Durations, ClockOut(e, h) PROVE TimersOK' /\ Closed
  <2>1. [entry[e] EXCEPT !.status = "completed", !.hours = h] \in EntryRow
    <3>1. entry[e] \in EntryRow
      BY DEF TimersOK
    <3> QED BY <3>1 DEF EntryRow
  <2>2. [entry[e] EXCEPT !.status = "completed", !.hours = h].status = "completed"
    BY DEF TimersOK, EntryRow
  <2>3. entry' = [entry EXCEPT ![e] = [entry[e] EXCEPT !.status = "completed", !.hours = h]]
    BY <1>4 DEF ClockOut, TimersOK
  <2> QED BY <1>2, <1>4, <2>1, <2>2, <2>3 DEF ClockOut, clock
<1>5. ASSUME NEW e \in Entries, AutoRead(e) PROVE TimersOK' /\ Closed
  BY <1>5 DEF AutoRead, TimersOK, clock
<1>6. ASSUME NEW e \in Entries, AutoSave(e) PROVE TimersOK' /\ Closed
  <2> DEFINE r == [autoRow[e] EXCEPT !.status = "completed", !.hours = Max(Durations)]
  <2>1. autoRow[e] \in EntryRow
    BY <1>6 DEF AutoSave, TimersOK
  <2>2. r \in EntryRow /\ r.status = "completed"
    BY <2>1, LongestDuration DEF EntryRow
  <2>3. entry' = [entry EXCEPT ![e] = r] /\ autoRow' = [autoRow EXCEPT ![e] = None] /\ UNCHANGED <<week, voidRow>>
    BY <1>6 DEF AutoSave, clock
  <2> HIDE DEF r
  <2> QED BY <2>2, <2>3 DEF TimersOK
<1>7. ASSUME NEW e \in Entries, NEW v \in Voids, VoidRead(v, e) PROVE TimersOK' /\ Closed
  BY <1>7 DEF VoidRead, TimersOK, clock
<1>8. ASSUME NEW v \in Voids, VoidSave(v) PROVE TimersOK' /\ Closed
  <2> DEFINE e == voidRow[v].of
             r == [voidRow[v].row EXCEPT !.status = "voided"]
  <2>1. e \in Entries /\ voidRow[v].row \in EntryRow
    BY <1>8 DEF VoidSave, TimersOK
  <2>2. r \in EntryRow /\ r.status = "voided"
    BY <2>1 DEF EntryRow
  <2>3. entry' = [entry EXCEPT ![e] = r] /\ voidRow' = [voidRow EXCEPT ![v] = None] /\ UNCHANGED <<week, autoRow>>
    BY <1>8 DEF VoidSave, clock
  <2> HIDE DEF e, r
  <2> QED BY <2>1, <2>2, <2>3 DEF TimersOK
<1>9. ASSUME NEW e \in Entries, VoidByTool(e) PROVE TimersOK' /\ Closed
  <2>1. [entry[e] EXCEPT !.status = "voided"] \in EntryRow /\ [entry[e] EXCEPT !.status = "voided"].status = "voided"
    BY DEF TimersOK, EntryRow
  <2>2. entry' = [entry EXCEPT ![e] = [entry[e] EXCEPT !.status = "voided"]]
    BY <1>9 DEF VoidByTool, TimersOK
  <2> QED BY <1>2, <1>9, <2>1, <2>2 DEF VoidByTool, clock
<1>10. CASE NextWeek
  BY <1>10, PayWeekConstants DEF NextWeek, TimersOK, timers, Weeks
<1>11. CASE Sunday \/ CardStep \/ MoneyStep \/ UNCHANGED vars
  BY <1>1, <1>11 DEF Sunday, CardStep, GenerateByTool, Approve, Close, Dispute, MarkPaid, MoneyStep, Adjust,
     AdjustByTool, ReadGoal, SettleGoal, CompleteProject, RequestExchange, ReadBalance, Ends, ApproveExchange,
     RollBack, RejectExchange, vars, clock
<1> QED BY <1>3, <1>4, <1>5, <1>6, <1>7, <1>8, <1>9, <1>10, <1>11 DEF Next, TimerStep, VoidDone

LEMMA TimersInit == Init => TimersOK
<1> SUFFICES ASSUME Init PROVE TimersOK
  OBVIOUS
<1>1. NoEntry \in EntryRow /\ NoEntry.status = "none"
  BY PayWeekConstants DEF NoEntry, EntryRow
<1>2. week \in 1 .. LastWeek + 1
  BY PayWeekConstants DEF Init
<1> QED BY <1>1, <1>2 DEF Init, TimersOK

\* At most one timer of the child runs, and what the scheduler and the void view
\* hold in hand are rows of entries (one_active_entry_per_user).
THEOREM OneTimerRuns == Spec => []TimersOK
<1>1. TimersOK /\ [Next]_vars => TimersOK'
  BY EntryStep
<1> QED BY <1>1, TimersInit, PTL DEF Spec

LEMMA ClosedStaysClosed ==
  TimersOK /\ [Next]_vars =>
    [\A e \in Entries : entry[e].status \in {"completed", "voided"} => entry'[e].status # "active"]_vars
BY EntryStep

\* No save of a row that was read earlier makes a closed timer run again.
THEOREM ClosedTimersStayClosed == Spec => NeverReopened
<1>1. Spec => []TimersOK
  BY OneTimerRuns
<1> QED BY <1>1, ClosedStaysClosed, PTL DEF Spec, NeverReopened
-----------------------------------------------------------------------------
(* Payouts, cards and statement rows.                                      *)

GreenlightInv == StatementAgrees /\ RepeatsPayOnce

LEMMA WeeksAreNumbers == 0 \notin Weeks /\ Weeks \subseteq Nat
BY PayWeekConstants DEF Weeks

\* No row changes.
LEMMA RowsUnchanged ==
  ASSUME GreenlightInv, UNCHANGED <<payouts, card, matched>>
  PROVE  GreenlightInv'
BY DEF GreenlightInv, StatementAgrees, RowsOK, IsTransfer, Matches, RepeatsPayOnce, ReferencePaysOnce,
       KeyPaysOnce, PaidInFullOnce, HasPayout, TotalOf

\* A decision, or a new count of hours, on a card that has no payout.
LEMMA CardStepKeeps ==
  ASSUME GreenlightInv, UNCHANGED <<payouts, matched>>, NEW w \in Weeks, ~HasPayout(w),
         NEW s, NEW h, NEW b, card' = [card EXCEPT ![w] = [status |-> s, hourly |-> h, bonus |-> b]],
         s # "paid", s = "closed" => h + b = 0
  PROVE  GreenlightInv'
<1>1. card = [v \in Weeks |-> [status |-> card[v].status, hourly |-> card[v].hourly, bonus |-> card[v].bonus]]
  BY DEF GreenlightInv, StatementAgrees, RowsOK
<1>2. card'[w] = [status |-> s, hourly |-> h, bonus |-> b] /\ \A v \in Weeks \ {w} : card'[v] = card[v]
  BY <1>1
<1>3. card' = [v \in Weeks |-> [status |-> card'[v].status, hourly |-> card'[v].hourly, bonus |-> card'[v].bonus]]
  BY <1>1, <1>2
<1>4. StatementAgrees' /\ ReferencePaysOnce' /\ KeyPaysOnce'
  BY <1>3 DEF GreenlightInv, StatementAgrees, RowsOK, IsTransfer, Matches, RepeatsPayOnce, ReferencePaysOnce,
              KeyPaysOnce
<1>5. PaidInFullOnce'
  <2> SUFFICES ASSUME NEW v \in Weeks PROVE PaidInFullOnce!(v)'
    BY DEF PaidInFullOnce
  <2>1. CASE v = w
    <3>1. card'[w].status = s /\ TotalOf(w)' = h + b
      BY <1>2 DEF TotalOf
    <3>2. \A i \in DOMAIN payouts : payouts[i].card # w
      BY DEF HasPayout
    <3> QED BY <2>1, <3>1, <3>2 DEF HasPayout
  <2>2. CASE v # w
    BY <1>2, <2>2 DEF GreenlightInv, RepeatsPayOnce, PaidInFullOnce, HasPayout, TotalOf
  <2> QED BY <2>1, <2>2
<1> QED BY <1>4, <1>5 DEF GreenlightInv, RepeatsPayOnce

LEMMA GenerateKeeps ==
  ASSUME GreenlightInv, UNCHANGED matched, NEW w \in Weeks, Generate(w)
  PROVE  GreenlightInv'
<1> DEFINE s == IF card[w].status = "none" THEN "pending" ELSE card[w].status
<1>1. ~HasPayout(w) /\ ~Decided(w) /\ UNCHANGED payouts
  BY DEF Generate, Skips
<1>2. card' = [card EXCEPT ![w] = [status |-> s, hourly |-> HoursOf(w), bonus |-> BonusOf(w)]]
  BY DEF Generate
<1>3. s \notin {"paid", "closed"}
  BY <1>1 DEF Decided
<1> QED BY ONLY GreenlightInv, UNCHANGED matched, <1>1, <1>2, <1>3, CardStepKeeps

LEMMA DecisionKeeps ==
  ASSUME GreenlightInv, UNCHANGED matched, NEW w \in Weeks, Approve(w) \/ Close(w) \/ Dispute(w)
  PROVE  GreenlightInv'
<1>1. PICK s \in {"approved", "closed", "disputed"} :
        SetStatus(w, s) /\ (s = "closed" => TotalOf(w) = 0) /\ ~HasPayout(w) /\ UNCHANGED payouts
  BY DEF Approve, Close, Dispute, ledger
<1>2. card[w] = [status |-> card[w].status, hourly |-> card[w].hourly, bonus |-> card[w].bonus]
  BY DEF GreenlightInv, StatementAgrees, RowsOK
<1>3. card' = [card EXCEPT ![w] = [status |-> s, hourly |-> card[w].hourly, bonus |-> card[w].bonus]]
  <2>1. PICK t, h, b : card[w] = [status |-> t, hourly |-> h, bonus |-> b]
    BY <1>2
  <2>2. [card[w] EXCEPT !.status = s] = [status |-> s, hourly |-> h, bonus |-> b]
    BY <2>1
  <2>3. card' = [card EXCEPT ![w] = [card[w] EXCEPT !.status = s]]
    BY <1>1 DEF SetStatus
  <2> QED BY <2>1, <2>2, <2>3
<1>4. s = "closed" => card[w].hourly + card[w].bonus = 0
  BY <1>1 DEF TotalOf
<1>5. s # "paid"
  OBVIOUS
<1> QED BY ONLY GreenlightInv, UNCHANGED matched, <1>1, <1>3, <1>4, <1>5, CardStepKeeps

\* A payout is written: under a key and a reference that are new, for no card or
\* for an approved one that has none.
LEMMA RecordKeeps ==
  ASSUME GreenlightInv, NEW w \in {0} \cup Weeks, NEW a, NEW how,
         PayRow(w, a, how) \in PayoutRow, payouts' = Append(payouts, PayRow(w, a, how)),
         ~Known(how), how.key = None => how.ref = None,
         \/ w = 0 /\ card' = card
         \/ w \in Weeks /\ ~HasPayout(w) /\ a = TotalOf(w) /\ SetStatus(w, "paid"),
         \/ matched' = matched
         \/ \E r \in CsvRows : /\ how = [key |-> StatementKey(r), ref |-> r.ref, on |-> r.on] /\ a = r.amount
                               /\ \A m \in matched : m.fp # Fingerprint(r)
                               /\ Remember(Len(payouts'), r)
  PROVE  GreenlightInv'
<1> DEFINE row == PayRow(w, a, how)
           n == Len(payouts) + 1
<1>1. /\ row.card = w /\ row.amount = a /\ row.key = how.key /\ row.ref = how.ref /\ row.on = how.on
      /\ row \in PayoutRow
  BY DEF PayRow
<1>2. payouts \in Seq(PayoutRow)
  BY DEF GreenlightInv, StatementAgrees, RowsOK
<1>3. /\ payouts' \in Seq(PayoutRow) /\ Len(payouts') = n /\ n \in Nat
      /\ DOMAIN payouts' = DOMAIN payouts \cup {n} /\ n \notin DOMAIN payouts
      /\ payouts'[n] = row /\ \A i \in DOMAIN payouts : payouts'[i] = payouts[i]
  BY <1>1, <1>2
<1> HIDE DEF row, n
<1>4. RowsOK'
  <2>1. card' = [v \in Weeks |-> [status |-> card'[v].status, hourly |-> card'[v].hourly, bonus |-> card'[v].bonus]]
    BY DEF GreenlightInv, StatementAgrees, RowsOK, SetStatus
  <2>2. \A i \in DOMAIN payouts' : payouts'[i].key = None => payouts'[i].ref = None
    BY <1>1, <1>3 DEF GreenlightInv, StatementAgrees, RowsOK, IsTransfer
  <2> QED BY <1>3, <2>1, <2>2 DEF RowsOK, IsTransfer
<1>5. StatementAgrees'
  <2>1. \A m \in matched : /\ m.payout \in DOMAIN payouts /\ payouts[m.payout].key # None
                           /\ payouts[m.payout].amount = m.row.amount /\ payouts[m.payout].on = m.row.on
                           /\ m.row.ref # None => payouts[m.payout].ref = m.row.ref
    BY DEF GreenlightInv, StatementAgrees, IsTransfer, Matches
  <2>2. \A m, k \in matched : m.payout = k.payout \/ m.fp = k.fp => m = k
    BY DEF GreenlightInv, StatementAgrees
  <2>3. CASE matched' = matched
    BY <1>3, <1>4, <2>1, <2>2, <2>3 DEF StatementAgrees, IsTransfer, Matches
  <2>4. ASSUME NEW r \in CsvRows, how = [key |-> StatementKey(r), ref |-> r.ref, on |-> r.on], a = r.amount,
               \A m \in matched : m.fp # Fingerprint(r), Remember(Len(payouts'), r)
        PROVE  StatementAgrees'
    <3> DEFINE new == [fp |-> Fingerprint(r), payout |-> n, row |-> r]
    <3>1. matched' = matched \cup {new}
      BY <1>3, <2>4 DEF Remember
    <3>2. new.fp = Fingerprint(r) /\ new.payout = n /\ new.row = r
      OBVIOUS
    <3>3. row.key # None /\ row.amount = r.amount /\ row.on = r.on /\ row.ref = r.ref
      BY <1>1, <2>4, GreenlightConstants
    <3> HIDE DEF new
    <3>4. \A m, k \in matched' : m.payout = k.payout \/ m.fp = k.fp => m = k
      BY <1>3, <2>1, <2>2, <2>4, <3>1, <3>2
    <3>5. \A m \in matched' : /\ m.payout \in DOMAIN payouts' /\ payouts'[m.payout].key # None
                              /\ payouts'[m.payout].amount = m.row.amount /\ payouts'[m.payout].on = m.row.on
                              /\ m.row.ref # None => payouts'[m.payout].ref = m.row.ref
      BY <1>3, <2>1, <3>1, <3>2, <3>3
    <3> QED BY <1>4, <3>4, <3>5 DEF StatementAgrees, IsTransfer, Matches
  <2> QED BY <2>3, <2>4
<1>6. ReferencePaysOnce' /\ KeyPaysOnce'
  <2>1. \A i \in DOMAIN payouts : /\ row.ref # None => payouts[i].ref # row.ref
                                  /\ row.key # None => payouts[i].key # row.key
    BY <1>1 DEF Known
  <2> QED BY <1>3, <2>1 DEF GreenlightInv, RepeatsPayOnce, ReferencePaysOnce, KeyPaysOnce
<1>7. PaidInFullOnce'
  <2> SUFFICES ASSUME NEW v \in Weeks PROVE PaidInFullOnce!(v)'
    BY DEF PaidInFullOnce
  <2>1. PaidInFullOnce!(v)
    BY DEF GreenlightInv, RepeatsPayOnce, PaidInFullOnce
  <2>2. CASE v = w
    <3>1. ~HasPayout(w) /\ a = TotalOf(w) /\ SetStatus(w, "paid")
      BY <2>2, WeeksAreNumbers
    <3>2. card'[w].status = "paid" /\ TotalOf(w)' = TotalOf(w)
      BY <2>2, <3>1 DEF SetStatus, TotalOf, GreenlightInv, StatementAgrees, RowsOK
    <3>3. \A i \in DOMAIN payouts' : payouts'[i].card = w => i = n /\ payouts'[i].amount = a
      BY <1>1, <1>3, <3>1 DEF HasPayout
    <3> QED BY <1>1, <1>3, <2>2, <3>1, <3>2, <3>3 DEF HasPayout
  <2>3. CASE v # w
    <3>1. card'[v] = card[v]
      BY <2>3 DEF SetStatus, GreenlightInv, StatementAgrees, RowsOK
    <3>2. HasPayout(v)' <=> HasPayout(v)
      BY <1>1, <1>3, <2>3 DEF HasPayout
    <3> QED BY <1>1, <1>3, <2>1, <2>3, <3>1, <3>2 DEF TotalOf
  <2> QED BY <2>2, <2>3
<1> QED BY <1>5, <1>6, <1>7 DEF GreenlightInv, RepeatsPayOnce
-----------------------------------------------------------------------------
(* Matching a statement row with a payout that is there.                   *)

\* What MatchExisting makes of the payout i for the row r.
MatchedRow(i, r) ==
  IF IsTransfer(i) THEN [payouts[i] EXCEPT !.ref = r.ref]
  ELSE [payouts[i] EXCEPT !.key = StatementKey(r), !.ref = r.ref, !.on = r.on]

\* The payout keeps its card and its amount, and is the row's from then on; a key
\* and a reference that it had it keeps.
LEMMA MatchedRowFacts ==
  ASSUME GreenlightInv, NEW i \in DOMAIN payouts, NEW r \in CsvRows, MatchExisting(i, r)
  PROVE  /\ payouts' = [payouts EXCEPT ![i] = MatchedRow(i, r)]
         /\ MatchedRow(i, r) \in PayoutRow
         /\ MatchedRow(i, r).card = payouts[i].card /\ MatchedRow(i, r).amount = payouts[i].amount
         /\ MatchedRow(i, r).amount = r.amount /\ MatchedRow(i, r).on = r.on /\ MatchedRow(i, r).ref = r.ref
         /\ MatchedRow(i, r).key # None
         /\ \/ MatchedRow(i, r).key = payouts[i].key
            \/ \A j \in DOMAIN payouts : payouts[j].key # MatchedRow(i, r).key
         /\ payouts[i].key # None => MatchedRow(i, r).key = payouts[i].key /\ payouts[i].on = r.on
         /\ payouts[i].ref # None => payouts[i].ref = r.ref
         /\ \A m \in matched : m.payout # i
<1> DEFINE p == payouts[i]
<1>1. payouts \in Seq(PayoutRow) /\ p \in PayoutRow /\ (p.key = None => p.ref = None)
  BY DEF GreenlightInv, StatementAgrees, RowsOK, IsTransfer
<1>2. payouts' = [payouts EXCEPT ![i] = MatchedRow(i, r)]
  BY <1>1 DEF MatchExisting, MatchedRow
<1>3. p.amount = r.amount
  BY DEF MatchExisting
<1>4. /\ r.ref \in {None} \cup {how.ref : how \in Details \cup CsvRows}
      /\ r.on \in {None} \cup {how.on : how \in Details \cup CsvRows}
      /\ StatementKey(r) \in {None} \cup {how.key : how \in Details} \cup {StatementKey(x) : x \in CsvRows}
  OBVIOUS
<1>5. CASE IsTransfer(i)
  <2>1. p.key # None /\ p.on = r.on /\ p.ref \in {None, r.ref} /\ \A m \in matched : m.payout # i
    BY <1>5 DEF MatchExisting, IsTransfer, Matches
  <2>2. MatchedRow(i, r) = [p EXCEPT !.ref = r.ref]
    BY <1>5 DEF MatchedRow
  <2> HIDE DEF p
  <2>3. /\ MatchedRow(i, r) \in PayoutRow
        /\ MatchedRow(i, r).card = p.card /\ MatchedRow(i, r).amount = p.amount
        /\ MatchedRow(i, r).key = p.key /\ MatchedRow(i, r).on = p.on /\ MatchedRow(i, r).ref = r.ref
    BY <1>1, <1>4, <2>2 DEF PayoutRow
  <2> QED BY <1>2, <1>3, <2>1, <2>3 DEF p
<1>6. CASE ~IsTransfer(i)
  <2>1. p.key = None /\ p.ref = None /\ \A j \in DOMAIN payouts : payouts[j].key # StatementKey(r)
    BY <1>1, <1>6 DEF MatchExisting, IsTransfer, KeyIsFree
  <2>2. MatchedRow(i, r) = [p EXCEPT !.key = StatementKey(r), !.ref = r.ref, !.on = r.on]
    BY <1>6 DEF MatchedRow
  <2>3. \A m \in matched : m.payout # i
    BY <1>6 DEF GreenlightInv, StatementAgrees
  <2>4. StatementKey(r) # None
    BY GreenlightConstants
  <2> HIDE DEF p
  <2>5. /\ MatchedRow(i, r) \in PayoutRow
        /\ MatchedRow(i, r).card = p.card /\ MatchedRow(i, r).amount = p.amount
        /\ MatchedRow(i, r).key = StatementKey(r) /\ MatchedRow(i, r).on = r.on /\ MatchedRow(i, r).ref = r.ref
    BY <1>1, <1>4, <2>2 DEF PayoutRow
  <2> QED BY <1>2, <1>3, <2>1, <2>3, <2>4, <2>5 DEF p
<1> QED BY <1>5, <1>6

LEMMA MatchKeeps ==
  ASSUME GreenlightInv, NEW r \in CsvRows, NEW i \in DOMAIN payouts,
         \A m \in matched : m.fp # Fingerprint(r),
         ReferenceAllows(r, i), MatchExisting(i, r), Remember(i, r)
  PROVE  GreenlightInv'
<1> DEFINE p == MatchedRow(i, r)
           new == [fp |-> Fingerprint(r), payout |-> i, row |-> r]
<1>1. /\ payouts' = [payouts EXCEPT ![i] = p] /\ p \in PayoutRow
      /\ p.card = payouts[i].card /\ p.amount = payouts[i].amount
      /\ p.amount = r.amount /\ p.on = r.on /\ p.ref = r.ref /\ p.key # None
      /\ p.key = payouts[i].key \/ \A j \in DOMAIN payouts : payouts[j].key # p.key
      /\ \A m \in matched : m.payout # i
  BY MatchedRowFacts
<1>2. matched' = matched \cup {new} /\ new.fp = Fingerprint(r) /\ new.payout = i /\ new.row = r
  BY DEF Remember
<1>3. payouts \in Seq(PayoutRow) /\ card' = card
  BY DEF GreenlightInv, StatementAgrees, RowsOK, MatchExisting
<1>4. \A j \in DOMAIN payouts : j # i => (r.ref # None => payouts[j].ref # r.ref)
  BY DEF ReferenceAllows
<1> HIDE DEF p, new
<1>5. /\ payouts' \in Seq(PayoutRow) /\ DOMAIN payouts' = DOMAIN payouts
      /\ payouts'[i] = p /\ \A j \in DOMAIN payouts : j # i => payouts'[j] = payouts[j]
  BY <1>1, <1>3
<1>6. RowsOK'
  BY <1>1, <1>3, <1>5 DEF GreenlightInv, StatementAgrees, RowsOK, IsTransfer
<1>7. StatementAgrees'
  <2>1. \A m \in matched : /\ m.payout \in DOMAIN payouts /\ payouts[m.payout].key # None
                           /\ payouts[m.payout].amount = m.row.amount /\ payouts[m.payout].on = m.row.on
                           /\ m.row.ref # None => payouts[m.payout].ref = m.row.ref
    BY DEF GreenlightInv, StatementAgrees, IsTransfer, Matches
  <2>2. \A m, k \in matched : m.payout = k.payout \/ m.fp = k.fp => m = k
    BY DEF GreenlightInv, StatementAgrees
  <2>3. \A m, k \in matched' : m.payout = k.payout \/ m.fp = k.fp => m = k
    BY <1>1, <1>2, <2>2
  <2>4. \A m \in matched' : /\ m.payout \in DOMAIN payouts' /\ payouts'[m.payout].key # None
                            /\ payouts'[m.payout].amount = m.row.amount /\ payouts'[m.payout].on = m.row.on
                            /\ m.row.ref # None => payouts'[m.payout].ref = m.row.ref
    BY <1>1, <1>2, <1>5, <2>1
  <2> QED BY <1>6, <2>3, <2>4 DEF StatementAgrees, IsTransfer, Matches
<1>8. ReferencePaysOnce' /\ KeyPaysOnce'
  BY <1>1, <1>4, <1>5 DEF GreenlightInv, RepeatsPayOnce, ReferencePaysOnce, KeyPaysOnce
<1>9. PaidInFullOnce'
  <2>1. \A j \in DOMAIN payouts : payouts'[j].card = payouts[j].card /\ payouts'[j].amount = payouts[j].amount
    BY <1>1, <1>5
  <2>2. \A v : TotalOf(v)' = TotalOf(v) /\ (HasPayout(v)' <=> HasPayout(v))
    BY <1>3, <1>5, <2>1 DEF TotalOf, HasPayout
  <2> QED BY <1>3, <1>5, <2>1, <2>2 DEF GreenlightInv, RepeatsPayOnce, PaidInFullOnce
<1> QED BY <1>7, <1>8, <1>9 DEF GreenlightInv, RepeatsPayOnce

-----------------------------------------------------------------------------
(* Every step.                                                             *)

\* A confirmation, by hand or for a statement row, in the form RecordKeeps takes.
LEMMA ConfirmKeeps ==
  ASSUME GreenlightInv, NEW w \in {0} \cup Weeks, NEW a, NEW how, ConfirmTransfer(w, a, how),
         how.key # None,
         how.key \in {d.key : d \in Details} \cup {StatementKey(r) : r \in CsvRows},
         how.ref \in {d.ref : d \in Details \cup CsvRows},
         how.on \in {d.on : d \in Details \cup CsvRows},
         \/ matched' = matched
         \/ \E r \in CsvRows : /\ how = [key |-> StatementKey(r), ref |-> r.ref, on |-> r.on] /\ a = r.amount
                               /\ \A m \in matched : m.fp # Fingerprint(r)
                               /\ Remember(Len(payouts'), r)
  PROVE  GreenlightInv'
<1>1. a \in Int
  BY DEF ConfirmTransfer
<1>2. PayRow(w, a, how) \in PayoutRow
  BY <1>1 DEF PayRow, PayoutRow
<1>3. ~Known(how) /\ payouts' = Append(payouts, PayRow(w, a, how))
  BY DEF ConfirmTransfer, Record
<1>4. \/ w = 0 /\ card' = card
      \/ w \in Weeks /\ ~HasPayout(w) /\ a = TotalOf(w) /\ SetStatus(w, "paid")
  BY DEF ConfirmTransfer
<1> QED BY <1>2, <1>3, <1>4, RecordKeeps

LEMMA MarkPaidKeeps ==
  ASSUME GreenlightInv, UNCHANGED matched, NEW w \in Weeks, MarkPaid(w)
  PROVE  GreenlightInv'
<1> DEFINE a == TotalOf(w)
<1>1. a \in Int
  BY DEF MarkPaid
<1>2. NoTransfer.key = None /\ NoTransfer.ref = None /\ NoTransfer.on = None
  BY DEF NoTransfer
<1>3. PayRow(w, a, NoTransfer) \in PayoutRow
  BY <1>1, <1>2 DEF PayRow, PayoutRow
<1>4. payouts' = Append(payouts, PayRow(w, a, NoTransfer)) /\ ~HasPayout(w) /\ SetStatus(w, "paid")
  BY DEF MarkPaid, Record
<1>5. ~Known(NoTransfer)
  BY <1>2 DEF Known
<1> HIDE DEF a
<1>6. a = TotalOf(w)
  BY DEF a
<1> QED BY ONLY GreenlightInv, UNCHANGED matched, w \in {0} \cup Weeks, w \in Weeks,
           <1>2, <1>3, <1>4, <1>5, <1>6, RecordKeeps

LEMMA PayWeekKeeps ==
  ASSUME GreenlightInv, UNCHANGED matched, Next
  PROVE  GreenlightInv'
<1>1. CASE TimerStep \/ VoidDone \/ NextWeek
  BY <1>1, RowsUnchanged DEF TimerStep, VoidDone, NextWeek, ClockIn, ClockOut, AutoRead, AutoSave, VoidRead,
     VoidByTool, VoidSave, ledger
<1>2. CASE MoneyStep
  BY <1>2, RowsUnchanged DEF MoneyStep, Adjust, AdjustByTool, ReadGoal, SettleGoal, CompleteProject,
     RequestExchange, ReadBalance, Ends, ApproveExchange, RollBack, RejectExchange, MoveSide, ledger
<1>3. CASE Sunday
  <2>1. CASE UNCHANGED <<card, ledger>>
    BY <2>1, RowsUnchanged DEF ledger
  <2>2. CASE week \in Weeks /\ Generate(week)
    BY <2>2, GenerateKeeps
  <2> QED BY <1>3, <2>1, <2>2 DEF Sunday
<1>4. CASE CardStep
  BY <1>4, GenerateKeeps, DecisionKeeps, MarkPaidKeeps DEF CardStep, GenerateByTool
<1> QED BY <1>1, <1>2, <1>3, <1>4 DEF Next

LEMMA ByHandKeeps ==
  ASSUME GreenlightInv, ConfirmByHand
  PROVE  GreenlightInv'
<1>1. PICK how \in Details, w \in {0} \cup Weeks : \E a : ConfirmTransfer(w, a, how) /\ matched' = matched
  BY DEF ConfirmByHand
<1>2. PICK a : ConfirmTransfer(w, a, how) /\ matched' = matched
  BY <1>1
<1>3. how.key # None
  BY GreenlightConstants
<1> QED BY <1>2, <1>3, ConfirmKeeps

LEMMA ReconcileKeeps ==
  ASSUME GreenlightInv, NEW csv \in SUBSET CsvRows, NEW r \in csv, Reconcile(csv, r)
  PROVE  GreenlightInv'
<1>1. r \in CsvRows /\ \A m \in matched : m.fp # Fingerprint(r)
  BY DEF Reconcile
<1>2. ASSUME NEW i \in DOMAIN payouts, ReferenceAllows(r, i), MatchExisting(i, r), Remember(i, r)
      PROVE  GreenlightInv'
  BY <1>1, <1>2, MatchKeeps
<1>3. ASSUME NEW w \in {0} \cup Weeks,
             ConfirmTransfer(w, r.amount, [key |-> StatementKey(r), ref |-> r.ref, on |-> r.on]),
             Remember(Len(payouts'), r)
      PROVE  GreenlightInv'
  <2> DEFINE how == [key |-> StatementKey(r), ref |-> r.ref, on |-> r.on]
  <2>1. how.key = StatementKey(r) /\ how.ref = r.ref /\ how.on = r.on /\ StatementKey(r) # None
    BY <1>1, GreenlightConstants
  <2>2. how = [key |-> StatementKey(r), ref |-> r.ref, on |-> r.on] /\ ConfirmTransfer(w, r.amount, how)
    BY <1>3
  <2> HIDE DEF how
  <2> QED BY <1>1, <1>3, <2>1, <2>2, ConfirmKeeps
<1> QED BY <1>2, <1>3 DEF Reconcile

LEMMA GreenlightInit == GInit => GreenlightInv
<1> SUFFICES ASSUME Init, matched = {} PROVE GreenlightInv
  BY DEF GInit
<1>1. payouts = <<>> /\ DOMAIN payouts = {} /\ payouts \in Seq(PayoutRow)
  BY DEF Init
<1>2. \A w \in Weeks : card[w].status = "none"
  BY DEF Init
<1>3. card = [w \in Weeks |-> [status |-> card[w].status, hourly |-> card[w].hourly, bonus |-> card[w].bonus]]
  BY DEF Init
<1> QED BY <1>1, <1>2, <1>3 DEF GreenlightInv, StatementAgrees, RowsOK, RepeatsPayOnce, ReferencePaysOnce,
        KeyPaysOnce, PaidInFullOnce, HasPayout

LEMMA GreenlightStep == GreenlightInv /\ [GNext]_allVars => GreenlightInv'
<1> SUFFICES ASSUME GreenlightInv, [GNext]_allVars PROVE GreenlightInv'
  OBVIOUS
<1>1. CASE UNCHANGED allVars
  BY <1>1, RowsUnchanged DEF allVars, vars, ledger
<1> QED BY <1>1, PayWeekKeeps, ByHandKeeps, ReconcileKeeps DEF GNext

LEMMA GreenlightAlways == GSpec => []GreenlightInv
BY GreenlightInit, GreenlightStep, PTL DEF GSpec

\* A matched statement row agrees with its payout on amount, date and reference
\* for good, and each stands for one of the other.
THEOREM StatementsAgree == GSpec => []StatementAgrees
BY GreenlightAlways, PTL DEF GreenlightInv

\* However the payment paths are repeated and mixed, a key, a bank reference and a
\* week are each paid once, and a paid week is paid exactly its total.
THEOREM NothingPaidTwice == GSpec => []RepeatsPayOnce
BY GreenlightAlways, PTL DEF GreenlightInv

LEMMA PayWeekStepKeepsRows ==
  ASSUME GreenlightInv, Next \/ UNCHANGED vars
  PROVE  \/ payouts' = payouts
         \/ \E row : payouts' = Append(payouts, row)
<1>1. CASE TimerStep \/ VoidDone \/ NextWeek \/ UNCHANGED vars
  BY <1>1 DEF TimerStep, VoidDone, NextWeek, ClockIn, ClockOut, AutoRead, AutoSave, VoidRead,
     VoidByTool, VoidSave, ledger, vars
<1>2. CASE MoneyStep
  BY <1>2 DEF MoneyStep, Adjust, AdjustByTool, ReadGoal, SettleGoal, CompleteProject, RequestExchange,
     ReadBalance, Ends, ApproveExchange, RollBack, RejectExchange, MoveSide, ledger
<1>3. CASE Sunday \/ CardStep
  BY <1>3 DEF Sunday, CardStep, GenerateByTool, Generate, Approve, Close, Dispute, MarkPaid, Record, ledger
<1> QED BY <1>1, <1>2, <1>3 DEF Next

LEMMA PayoutsKeepTheirPart ==
  GreenlightInv /\ [GNext]_allVars =>
    [\A i \in DOMAIN payouts :
       /\ i \in DOMAIN payouts'
       /\ payouts'[i].amount = payouts[i].amount
       /\ payouts'[i].card = payouts[i].card
       /\ IsTransfer(i) => payouts'[i].key = payouts[i].key /\ payouts'[i].on = payouts[i].on
       /\ payouts[i].ref # None => payouts'[i].ref = payouts[i].ref]_allVars
<1> SUFFICES ASSUME GreenlightInv, [GNext]_allVars, NEW i \in DOMAIN payouts
             PROVE  /\ i \in DOMAIN payouts'
                    /\ payouts'[i].amount = payouts[i].amount
                    /\ payouts'[i].card = payouts[i].card
                    /\ IsTransfer(i) => payouts'[i].key = payouts[i].key /\ payouts'[i].on = payouts[i].on
                    /\ payouts[i].ref # None => payouts'[i].ref = payouts[i].ref
  BY Zenon
<1> DEFINE Kept == i \in DOMAIN payouts' /\ payouts'[i] = payouts[i]
<1>1. payouts \in Seq(PayoutRow)
  BY DEF GreenlightInv, StatementAgrees, RowsOK
<1>2. CASE payouts' = payouts
  BY <1>2
<1>3. ASSUME NEW row, payouts' = Append(payouts, row) PROVE Kept
  BY <1>1, <1>3
<1>4. CASE ConfirmByHand
  BY <1>3, <1>4 DEF ConfirmByHand, ConfirmTransfer, Record
<1>5. ASSUME NEW r \in CsvRows, NEW j \in DOMAIN payouts, MatchExisting(j, r)
      PROVE  /\ i \in DOMAIN payouts'
             /\ payouts'[i].amount = payouts[i].amount
             /\ payouts'[i].card = payouts[i].card
             /\ IsTransfer(i) => payouts'[i].key = payouts[i].key /\ payouts'[i].on = payouts[i].on
             /\ payouts[i].ref # None => payouts'[i].ref = payouts[i].ref
  <2> DEFINE p == MatchedRow(j, r)
  <2>1. /\ payouts' = [payouts EXCEPT ![j] = p] /\ p.card = payouts[j].card /\ p.amount = payouts[j].amount
        /\ p.on = r.on /\ p.ref = r.ref
        /\ payouts[j].key # None => p.key = payouts[j].key /\ payouts[j].on = r.on
        /\ payouts[j].ref # None => payouts[j].ref = r.ref
    BY <1>5, MatchedRowFacts
  <2> HIDE DEF p
  <2> QED BY <1>1, <2>1 DEF IsTransfer
<1>6. ASSUME NEW csv \in SUBSET CsvRows, NEW r \in csv, Reconcile(csv, r)
      PROVE  \/ \E j \in DOMAIN payouts : MatchExisting(j, r)
             \/ Kept
  BY <1>3, <1>6 DEF Reconcile, ConfirmTransfer, Record
<1>7. CASE Next \/ UNCHANGED vars
  BY <1>2, <1>3, <1>7, PayWeekStepKeepsRows
<1> QED BY <1>4, <1>5, <1>6, <1>7 DEF GNext, allVars

\* Reconciling explains payouts and never undoes what one has settled: amount and
\* card for ever, key, date and reference once they are there.
THEOREM ReconcilingKeepsPayments == GSpec => MatchKeepsPayment
<1>1. GSpec => []GreenlightInv
  BY GreenlightAlways
<1> QED BY <1>1, PayoutsKeepTheirPart, PTL DEF GSpec, MatchKeepsPayment

-----------------------------------------------------------------------------
(* Balances as sums.                                                       *)

\* The amounts of payouts q, and their sum over some of them as the model writes it.
AmountsOf(q) == [i \in DOMAIN q |-> q[i].amount]

SumAmounts(q, rows) == MapThenSumSet(LAMBDA i : q[i].amount, rows)

\* The sum of some payouts' amounts is a sum of Sums.
LEMMA SumAmountsIs ==
  ASSUME NEW q, NEW rows, rows \subseteq DOMAIN q
  PROVE  SumAmounts(q, rows) = SumOf(AmountsOf(q), rows)
<1>1. SumAmounts(q, rows) =
        (CHOOSE h : h = [s \in SUBSET rows |-> IF s = {} THEN 0 ELSE q[OneOf(s)].amount + h[s \ {OneOf(s)}]])[rows]
  BY Zenon DEF SumAmounts, MapThenSumSet, MapThenFoldSet, OneOf
<1>2. ASSUME NEW s \in SUBSET rows, s # {} PROVE q[OneOf(s)].amount = AmountsOf(q)[OneOf(s)]
  BY <1>2, OneOfIsIn DEF AmountsOf
<1>3. (CHOOSE h : h = [s \in SUBSET rows |-> IF s = {} THEN 0 ELSE q[OneOf(s)].amount + h[s \ {OneOf(s)}]])
        = CHOOSE h : Iterates(h, AmountsOf(q), rows)
  BY <1>2, Zenon DEF Iterates
<1> QED  BY <1>1, <1>3, SumIsIterate

\* What rows paid, now and after the step.
LEMMA PaidByIs ==
  ASSUME NEW rows
  PROVE  PaidBy(rows) = SumAmounts(payouts, rows) /\ PaidBy(rows)' = SumAmounts(payouts', rows)
BY Zenon DEF PaidBy, SumAmounts, MapThenSumSet, MapThenFoldSet

\* The credit of each week under credits c, and their sum as Owed writes it.
CardSums(c) == [w \in Weeks |-> SumOf(c[w], Projects)]

SumCards(c) == MapThenSumSet(LAMBDA w : SumOf(c[w], Projects), Weeks)

\* The sum of the weeks' credits is a sum of Sums.
LEMMA SumCardsIs == ASSUME NEW c PROVE SumCards(c) = SumOf(CardSums(c), Weeks)
<1>1. SumCards(c) =
        (CHOOSE h : h = [s \in SUBSET Weeks |-> IF s = {} THEN 0 ELSE SumOf(c[OneOf(s)], Projects) + h[s \ {OneOf(s)}]])[Weeks]
  BY Zenon DEF SumCards, MapThenSumSet, MapThenFoldSet, OneOf
<1>2. ASSUME NEW s \in SUBSET Weeks, s # {} PROVE SumOf(c[OneOf(s)], Projects) = CardSums(c)[OneOf(s)]
  BY <1>2, OneOfIsIn DEF CardSums
<1>3. (CHOOSE h : h = [s \in SUBSET Weeks |-> IF s = {} THEN 0 ELSE SumOf(c[OneOf(s)], Projects) + h[s \ {OneOf(s)}]])
        = CHOOSE h : Iterates(h, CardSums(c), Weeks)
  BY <1>2, Zenon DEF Iterates
<1> QED  BY <1>1, <1>3, SumIsIterate

\* A week's credit is the sum over its projects, now and after the step.
LEMMA CreditOfIs ==
  ASSUME NEW w
  PROVE  CreditOf(w) = SumOf(credit[w], Projects) /\ CreditOf(w)' = SumOf(credit'[w], Projects)
BY Zenon DEF CreditOf, SumOf, MapThenSumSet, MapThenFoldSet

\* The balance as a function of the ledger's three parts.
Balance(c, s, q) == SumOf(CardSums(c), Weeks) + s - SumOf(AmountsOf(q), DOMAIN q)

\* Owed is that balance, before the step and after it.
LEMMA OwedIs == Owed = Balance(credit, side, payouts) /\ Owed' = Balance(credit', side', payouts')
<1>1. Owed = SumCards(credit) + side - PaidBy(DOMAIN payouts)
  BY DEF Owed, SumCards, CreditOf, SumOf
<1>2. Owed' = SumCards(credit') + side' - PaidBy(DOMAIN payouts)'
  BY Zenon DEF Owed, SumCards, CreditOf, SumOf, PaidBy, MapThenSumSet, MapThenFoldSet
<1>3. PaidBy(DOMAIN payouts) = SumOf(AmountsOf(payouts), DOMAIN payouts)
  BY SumAmountsIs DEF PaidBy, SumAmounts
<1>4. PaidBy(DOMAIN payouts)' = SumOf(AmountsOf(payouts'), DOMAIN payouts')
  <2>1. PaidBy(DOMAIN payouts)' = SumAmounts(payouts', DOMAIN payouts')
    BY Zenon DEF PaidBy, SumAmounts, MapThenSumSet, MapThenFoldSet
  <2> QED BY <2>1, SumAmountsIs
<1> QED  BY <1>1, <1>2, <1>3, <1>4, SumCardsIs DEF Balance

-----------------------------------------------------------------------------
(* A card's corrections.                                                   *)

\* The hours of some entries as Expected writes their sum.
SumHours(e, rows) == MapThenSumSet(LAMBDA x : e[x].hours, rows)

\* It is a sum of Sums.
LEMMA SumHoursIs ==
  ASSUME NEW e, NEW rows
  PROVE  SumHours(e, rows) = SumOf([x \in rows |-> e[x].hours], rows)
<1> DEFINE hours == [x \in rows |-> e[x].hours]
<1>1. SumHours(e, rows) =
        (CHOOSE h : h = [s \in SUBSET rows |-> IF s = {} THEN 0 ELSE e[OneOf(s)].hours + h[s \ {OneOf(s)}]])[rows]
  BY Zenon DEF SumHours, MapThenSumSet, MapThenFoldSet, OneOf
<1>2. ASSUME NEW s \in SUBSET rows, s # {} PROVE e[OneOf(s)].hours = hours[OneOf(s)]
  BY <1>2, OneOfIsIn
<1> HIDE DEF hours
<1>3. (CHOOSE h : h = [s \in SUBSET rows |-> IF s = {} THEN 0 ELSE e[OneOf(s)].hours + h[s \ {OneOf(s)}]])
        = CHOOSE h : Iterates(h, hours, rows)
  BY <1>2, Zenon DEF Iterates
<1> QED  BY <1>1, <1>3, SumIsIterate DEF hours

\* What is summed over is finite.
LEMMA FiniteParts == IsFiniteSet(Weeks) /\ IsFiniteSet(Projects) /\ IsFiniteSet(Entries)
BY PayWeekConstants, FS_Interval DEF Weeks

\* The hours a card should credit are numbers, and the card's hours are their sum.
LEMMA ExpectedType ==
  ASSUME TimersOK, NEW w \in Weeks
  PROVE  /\ Expected(w) \in [Projects -> Nat] /\ HoursOf(w) = SumOf(Expected(w), Projects)
         /\ HoursOf(w) \in Nat
<1>1. ASSUME NEW p \in Projects PROVE Expected(w)[p] \in Nat
  <2> DEFINE rows == {e \in Worked(w) : entry[e].project = p}
             hours == [x \in rows |-> entry[x].hours]
  <2>1. Expected(w)[p] = SumHours(entry, rows)
    BY DEF Expected, SumHours
  <2>2. rows \subseteq Entries /\ IsFiniteSet(rows)
    BY FiniteParts, FS_Subset DEF Worked
  <2>3. \A x \in rows : hours[x] \in Nat
    <3>1. \A x \in rows : entry[x] \in EntryRow
      BY <2>2 DEF TimersOK
    <3>2. {0} \cup Durations \subseteq Nat
      BY PayWeekConstants
    <3>3. \A r \in EntryRow : r.hours \in Nat
      BY <3>2 DEF EntryRow
    <3> HIDE DEF rows
    <3> QED BY <3>1, <3>3
  <2> HIDE DEF rows, hours
  <2>4. SumOf(hours, rows) \in Nat
    BY <2>2, <2>3, SumNat
  <2> QED BY <2>1, <2>4, SumHoursIs DEF hours
<1>2. Expected(w) = [p \in Projects |-> Expected(w)[p]]
  BY DEF Expected
<1>3. HoursOf(w) = SumOf(Expected(w), Projects)
  BY DEF HoursOf, SumOf
<1>4. Expected(w) \in [Projects -> Nat]
  <2> DEFINE e == Expected(w)
  <2> HIDE DEF e
  <2>1. e = [p \in Projects |-> e[p]] /\ \A p \in Projects : e[p] \in Nat
    BY <1>1, <1>2 DEF e
  <2>2. e \in [Projects -> Nat]
    BY <2>1
  <2> QED BY <2>2 DEF e
<1>5. SumOf(Expected(w), Projects) \in Nat
  <2>1. \A p \in Projects : Expected(w)[p] \in Nat
    BY <1>4
  <2> QED BY <2>1, FiniteParts, SumNat
<1> QED BY <1>3, <1>4, <1>5

-----------------------------------------------------------------------------
(* Corrections.                                                            *)

\* Rows in the order the code writes them, and their second components.
Ascending(rows) == \A i, j \in 1 .. Len(rows) : i < j => rows[i][2] <= rows[j][2]

Second(R) == [r \in R |-> r[2]]

\* A project's correction is the hours it should have less the credit it has.
LEMMA DeltaType ==
  ASSUME TypeOK, NEW w \in Weeks
  PROVE  /\ Delta(w) = [p \in Projects |-> Expected(w)[p] - credit[w][p]]
         /\ \A p \in Projects : /\ Delta(w)[p] \in Int /\ Expected(w)[p] \in Nat /\ credit[w][p] \in Nat
                                /\ Delta(w)[p] = Expected(w)[p] - credit[w][p]
<1>1. Expected(w) \in [Projects -> Nat]
  BY ExpectedType DEF TypeOK
<1>2. credit[w] \in [Projects -> Nat]
  BY DEF TypeOK
<1> QED BY <1>1, <1>2 DEF Delta

\* The corrections: finitely many, one for each project whose credit is off.
LEMMA ChangedFacts ==
  ASSUME TypeOK, NEW w \in Weeks
  PROVE  /\ IsFiniteSet(Changed(w))
         /\ \A r \in Changed(w) : r[2] \in Int /\ Second(Changed(w))[r] = r[2]
         /\ \A p \in Projects : {r \in Changed(w) : r[1] = p} =
              IF Delta(w)[p] = 0 THEN {} ELSE {<<p, Delta(w)[p]>>}
<1> DEFINE moved == {q \in Projects : Delta(w)[q] # 0}
           pair == [p \in moved |-> <<p, Delta(w)[p]>>]
<1>1. IsFiniteSet(moved)
  BY FiniteParts, FS_Subset
<1>2. pair \in Surjection(moved, Changed(w))
  BY DEF Surjection, Changed
<1>3. IsFiniteSet(Changed(w))
  <2> HIDE DEF moved, pair
  <2> QED BY <1>1, <1>2, FS_Surjection
<1>4. \A r \in Changed(w) : \E p \in Projects : Delta(w)[p] # 0 /\ r = <<p, Delta(w)[p]>>
  BY DEF Changed
<1>5. \A r \in Changed(w) : r[2] \in Int
  BY <1>4, DeltaType
<1>6. \A r \in Changed(w) : Second(Changed(w))[r] = r[2]
  BY DEF Second
<1>7. \A p \in Projects : Delta(w)[p] # 0 => <<p, Delta(w)[p]>> \in Changed(w)
  BY DEF Changed
<1> HIDE DEF moved, pair
<1>8. ASSUME NEW p \in Projects
      PROVE  {r \in Changed(w) : r[1] = p} = IF Delta(w)[p] = 0 THEN {} ELSE {<<p, Delta(w)[p]>>}
  BY <1>4, <1>7
<1> QED BY <1>3, <1>5, <1>6, <1>8

\* The order that is chosen exists: Corrections lists every correction once, smallest
\* first.
LEMMA CorrectionsAre ==
  ASSUME TypeOK, NEW w \in Weeks
  PROVE  /\ Lists(Corrections(w), Changed(w), Second(Changed(w)))
         /\ Len(Corrections(w)) = Cardinality(Changed(w)) /\ Len(Corrections(w)) \in Nat
         /\ ToSet(Corrections(w)) = Changed(w)
         /\ \A i \in 1 .. Len(Corrections(w)) : Corrections(w)[i] \in Changed(w)
<1> DEFINE C == Changed(w)
           n == Cardinality(C)
<1>1. IsFiniteSet(C) /\ n \in Nat /\ \A r \in C : r[2] \in Int /\ Second(C)[r] = r[2]
  BY ChangedFacts, FS_CardinalityType
<1>2. \A rows \in [1 .. n -> C] : Len(rows) = n /\ DOMAIN rows = 1 .. n
  BY <1>1
<1>3. \A rows : Lists(rows, C, Second(C)) <=> rows \in SetToSeqs(C) /\ Ascending(rows)
  BY <1>1, <1>2 DEF Lists, SetToSeqs, Ascending
<1>4. \E rows \in SetToSeqs(C) : Ascending(rows)
  <2>1. \E rows : Lists(rows, C, Second(C))
    <3> HIDE DEF C
    <3> QED BY <1>1, ListingThere
  <2> QED BY <1>3, <2>1
<1>5. Corrections(w) = CHOOSE rows \in SetToSeqs(C) : Ascending(rows)
  BY DEF Corrections, IsSorted, Ascending
<1> HIDE DEF C, n
<1>6. Corrections(w) \in SetToSeqs(C) /\ Ascending(Corrections(w))
  BY <1>4, <1>5
<1>7. Lists(Corrections(w), C, Second(C))
  BY <1>3, <1>6
<1>8. Corrections(w) \in [1 .. n -> C]
  BY <1>7 DEF Lists, n
<1>9. ToSet(Corrections(w)) = C
  <2>1. {Corrections(w)[i] : i \in 1 .. Cardinality(C)} = C
    BY <1>1, <1>7, ListingCovers
  <2> QED BY <1>2, <1>8, <2>1 DEF ToSet, n
<1> QED BY <1>1, <1>2, <1>7, <1>8, <1>9 DEF C, n

-----------------------------------------------------------------------------
(* What Generate makes of the credits, and of the balance.                 *)

\* The sum of corrections as Corrected writes it.
SumSecond(R) == MapThenSumSet(LAMBDA r : r[2], R)

\* It is a sum of Sums.
LEMMA SumSecondIs == ASSUME NEW R PROVE SumSecond(R) = SumOf(Second(R), R)
<1>1. SumSecond(R) =
        (CHOOSE h : h = [s \in SUBSET R |-> IF s = {} THEN 0 ELSE OneOf(s)[2] + h[s \ {OneOf(s)}]])[R]
  BY Zenon DEF SumSecond, MapThenSumSet, MapThenFoldSet, OneOf
<1>2. ASSUME NEW s \in SUBSET R, s # {} PROVE OneOf(s)[2] = Second(R)[OneOf(s)]
  BY <1>2, OneOfIsIn DEF Second
<1>3. (CHOOSE h : h = [s \in SUBSET R |-> IF s = {} THEN 0 ELSE OneOf(s)[2] + h[s \ {OneOf(s)}]])
        = CHOOSE h : Iterates(h, Second(R), R)
  BY <1>2, Zenon DEF Iterates
<1> QED  BY <1>1, <1>3, SumIsIterate

\* A sum over one element.
LEMMA SumOne == ASSUME NEW f, NEW x, f[x] \in Int PROVE SumOf(f, {x}) = f[x]
<1>1. {} \cup {x} = {x}
  OBVIOUS
<1>2. SumOf(f, {} \cup {x}) = SumOf(f, {}) + f[x]
  BY FS_EmptySet, SumGrown
<1> QED BY <1>1, <1>2, SumEmpty

\* The corrections leave exactly the hours worked on every project: none is missed,
\* none is written twice.
LEMMA CorrectedIs ==
  ASSUME TypeOK, NEW w \in Weeks
  PROVE  Corrected(w) = Expected(w)
<1>1. ASSUME NEW p \in Projects PROVE Corrected(w)[p] = Expected(w)[p]
  <2> DEFINE rows == {r \in ToSet(Corrections(w)) : r[1] = p}
  <2>1. Corrected(w)[p] = credit[w][p] + SumSecond(rows)
    BY DEF Corrected, SumSecond
  <2>2. rows = IF Delta(w)[p] = 0 THEN {} ELSE {<<p, Delta(w)[p]>>}
    BY CorrectionsAre, ChangedFacts
  <2>3. Delta(w)[p] \in Int /\ Delta(w)[p] = Expected(w)[p] - credit[w][p]
        /\ Expected(w)[p] \in Nat /\ credit[w][p] \in Nat
    BY DeltaType
  <2>4. CASE Delta(w)[p] = 0
    <3>1. rows = {}
      BY <2>2, <2>4
    <3>2. SumSecond(rows) = 0
      <4> HIDE DEF rows
      <4> QED BY <3>1, SumSecondIs, SumEmpty
    <3> QED BY <2>1, <2>3, <2>4, <3>2
  <2>5. CASE Delta(w)[p] # 0
    <3> DEFINE x == <<p, Delta(w)[p]>>
    <3>1. rows = {x} /\ Second({x})[x] = Delta(w)[p]
      BY <2>2, <2>5 DEF Second
    <3> HIDE DEF rows, x
    <3>2. SumSecond(rows) = Delta(w)[p]
      BY <2>3, <3>1, SumSecondIs, SumOne
    <3> QED BY <2>1, <2>3, <3>2
  <2> QED BY <2>4, <2>5
<1>2. Corrected(w) = [p \in Projects |-> Corrected(w)[p]]
  BY DEF Corrected
<1>3. Expected(w) \in [Projects -> Nat]
  BY ExpectedType DEF TypeOK
<1> DEFINE e == Expected(w)
           c == Corrected(w)
<1> HIDE DEF e, c
<1>4. c = [p \in Projects |-> c[p]] /\ e \in [Projects -> Nat] /\ \A p \in Projects : c[p] = e[p]
  BY <1>1, <1>2, <1>3 DEF e, c
<1>5. c = e
  BY <1>4
<1> QED BY <1>5 DEF e, c

\* The corrections add up to what the week's credit changes by.
LEMMA CorrectionsAddUp ==
  ASSUME TypeOK, NEW w \in Weeks
  PROVE  /\ CreditOf(w) \in Nat
         /\ SumOf([i \in 1 .. Len(Corrections(w)) |-> Corrections(w)[i][2]], 1 .. Len(Corrections(w)))
              = HoursOf(w) - CreditOf(w)
<1> DEFINE rows == Corrections(w)
           n == Len(rows)
           C == Changed(w)
           moved == {p \in Projects : Delta(w)[p] # 0}
           pair == [p \in moved |-> <<p, Delta(w)[p]>>]
<1>1. n \in Nat /\ IsFiniteSet(1 .. n) /\ IsFiniteSet(C) /\ IsFiniteSet(moved)
  BY CorrectionsAre, ChangedFacts, FiniteParts, FS_Interval, FS_Subset
<1>2. SumOf([i \in 1 .. n |-> Second(C)[rows[i]]], 1 .. n) = SumOf(Second(C), C)
  <2>1. \A i, j \in 1 .. n : rows[i] = rows[j] => i = j
    BY CorrectionsAre DEF Lists
  <2>2. \A i \in 1 .. n : Second(C)[rows[i]] \in Int
    BY CorrectionsAre, ChangedFacts
  <2>3. {rows[i] : i \in 1 .. n} = C
    BY CorrectionsAre, ListingCovers, <1>1
  <2> DEFINE D == 1 .. n
             f == Second(C)
  <2>4. IsFiniteSet(D) /\ (\A i, j \in D : rows[i] = rows[j] => i = j) /\ \A i \in D : f[rows[i]] \in Int
    BY <1>1, <2>1, <2>2
  <2>5. {rows[i] : i \in D} = C
    BY <2>3
  <2> HIDE DEF rows, n, C, D, f
  <2>6. SumOf([i \in D |-> f[rows[i]]], D) = SumOf(f, C)
    BY <2>4, <2>5, SumRenamed
  <2> QED BY <2>6 DEF D, f
<1>3. \A i \in 1 .. n : Second(C)[rows[i]] = rows[i][2]
  BY CorrectionsAre, ChangedFacts
<1>4. SumOf([p \in moved |-> Second(C)[pair[p]]], moved) = SumOf(Second(C), C)
  <2>1. \A p, q \in moved : pair[p] = pair[q] => p = q
    OBVIOUS
  <2>2. \A p \in moved : Second(C)[pair[p]] \in Int
    BY ChangedFacts DEF Changed
  <2>3. {pair[p] : p \in moved} = C
    BY DEF Changed
  <2> HIDE DEF moved, pair, C
  <2> QED BY <1>1, <2>1, <2>2, <2>3, SumRenamed
<1>5. \A p \in moved : Second(C)[pair[p]] = Delta(w)[p]
  BY DEF Second, Changed
<1>6. SumOf(Delta(w), moved) = SumOf(Delta(w), Projects)
  <2>1. SumOf(Delta(w), Projects) = SumOf(Delta(w), moved) + SumOf(Delta(w), Projects \ moved)
    <3>1. \A p \in Projects : Delta(w)[p] \in Int
      BY DeltaType
    <3> QED BY <3>1, FiniteParts, SumSplit
  <2>2. SumOf(Delta(w), Projects \ moved) = 0
    <3>1. \A p \in Projects \ moved : Delta(w)[p] = 0
      OBVIOUS
    <3> QED BY <3>1, FiniteParts, FS_Subset, SumZero
  <2>3. SumOf(Delta(w), moved) \in Int
    <3>1. \A p \in moved : Delta(w)[p] \in Int
      BY DeltaType
    <3> QED BY <1>1, <3>1, SumInt
  <2> HIDE DEF moved
  <2> QED BY <2>1, <2>2, <2>3
<1>7. SumOf(Delta(w), Projects) = HoursOf(w) - CreditOf(w)
  <2>1. Delta(w) = [p \in Projects |-> Expected(w)[p] - credit[w][p]]
        /\ \A p \in Projects : Expected(w)[p] \in Int /\ credit[w][p] \in Int
    BY DeltaType
  <2>2. SumOf(Delta(w), Projects) = SumOf(Expected(w), Projects) - SumOf(credit[w], Projects)
    BY <2>1, FiniteParts, SumMinus
  <2> QED BY <2>2, ExpectedType, CreditOfIs DEF TypeOK
<1>8. SumOf(credit[w], Projects) \in Nat
  <2>1. \A p \in Projects : credit[w][p] \in Nat
    BY DeltaType
  <2> QED BY <2>1, FiniteParts, SumNat
<1> DEFINE listed == [i \in 1 .. n |-> rows[i][2]]
           second == [i \in 1 .. n |-> Second(C)[rows[i]]]
           change == [p \in moved |-> Second(C)[pair[p]]]
<1>9. SumOf(listed, 1 .. n) = SumOf(second, 1 .. n)
  <2>1. \A i \in 1 .. n : listed[i] = second[i]
    BY <1>3
  <2> HIDE DEF listed, second, rows, n, C
  <2> QED BY <1>1, <2>1, SumSame
<1>10. SumOf(change, moved) = SumOf(Delta(w), moved)
  <2>1. \A p \in moved : change[p] = Delta(w)[p]
    BY <1>5
  <2> HIDE DEF change, moved
  <2> QED BY <1>1, <2>1, SumSame
<1>11. SumOf(listed, 1 .. n) = HoursOf(w) - CreditOf(w)
  <2> HIDE DEF rows, n, C, moved, pair
  <2> QED BY <1>2, <1>4, <1>6, <1>7, <1>9, <1>10
<1> QED BY <1>8, <1>11, CreditOfIs

-----------------------------------------------------------------------------
(* The invariant of the money.                                             *)

\* One approval at a time has read the balance, and what it read covers its request:
\* until it commits only adjustments move the balance, and late counts them.
ApprovalsOK == \A x \in Exchanges : late[x] # None =>
    /\ exchange[x].status = "pending"
    /\ Owed >= late[x] + exchange[x].amount
    /\ \A y \in Exchanges : late[y] # None => x = y

\* PayInv says nothing of what an approval under way may rely on, and the sums need
\* typed payouts.
MoneyInv == PayInv /\ payouts \in Seq(PayoutRow) /\ ApprovalsOK

\* The step of GoalOnRealBalance.
GoalIsReal ==
    ~reached /\ reached' /\ <<credit, payouts>>' # <<credit, payouts>> => Owed >= Target \/ Owed' >= Target

\* Payouts have whole amounts, and so has their sum.
LEMMA PayoutFacts ==
  ASSUME NEW q \in Seq(PayoutRow)
  PROVE  /\ IsFiniteSet(DOMAIN q) /\ Len(q) \in Nat /\ DOMAIN q = 1 .. Len(q)
         /\ \A i \in DOMAIN q : AmountsOf(q)[i] \in Int /\ AmountsOf(q)[i] = q[i].amount
         /\ SumOf(AmountsOf(q), DOMAIN q) \in Int
<1>1. IsFiniteSet(DOMAIN q) /\ Len(q) \in Nat /\ DOMAIN q = 1 .. Len(q)
  BY FS_Interval
<1>2. \A i \in DOMAIN q : AmountsOf(q)[i] \in Int /\ AmountsOf(q)[i] = q[i].amount
  <2>1. \A i \in DOMAIN q : q[i] \in PayoutRow
    OBVIOUS
  <2>2. \A i \in DOMAIN q : q[i].amount \in Int
    BY <2>1 DEF PayoutRow
  <2> QED BY <2>2 DEF AmountsOf
<1> QED BY <1>1, <1>2, SumInt

\* Credits are natural numbers, and so are their sums.
LEMMA CardSumFacts ==
  ASSUME NEW c \in [Weeks -> [Projects -> Nat]]
  PROVE  /\ \A w \in Weeks : CardSums(c)[w] \in Nat /\ CardSums(c)[w] = SumOf(c[w], Projects)
         /\ SumOf(CardSums(c), Weeks) \in Nat
<1>1. \A w \in Weeks : SumOf(c[w], Projects) \in Nat
  <2> SUFFICES ASSUME NEW w \in Weeks PROVE SumOf(c[w], Projects) \in Nat
    OBVIOUS
  <2>1. \A p \in Projects : c[w][p] \in Nat
    OBVIOUS
  <2> QED BY <2>1, FiniteParts, SumNat
<1>2. \A w \in Weeks : CardSums(c)[w] \in Nat /\ CardSums(c)[w] = SumOf(c[w], Projects)
  BY <1>1 DEF CardSums
<1> QED BY <1>2, FiniteParts, SumNat

\* The balance is a number.
LEMMA OwedFacts ==
  ASSUME TypeOK, payouts \in Seq(PayoutRow)
  PROVE  Owed \in Int
BY OwedIs, PayoutFacts, CardSumFacts DEF TypeOK, Balance

\* The balance after a payout.
LEMMA OwedAfterRecord ==
  ASSUME TypeOK, payouts \in Seq(PayoutRow), NEW r \in PayoutRow,
         payouts' = Append(payouts, r), UNCHANGED <<credit, side>>
  PROVE  payouts' \in Seq(PayoutRow) /\ Owed' = Owed - r.amount /\ Owed \in Int /\ r.amount \in Int
<1> DEFINE n == Len(payouts) + 1
           f == AmountsOf(payouts)
           g == AmountsOf(payouts')
           D == DOMAIN payouts
<1>1. /\ payouts' \in Seq(PayoutRow) /\ DOMAIN payouts' = D \cup {n} /\ n \notin D
      /\ payouts'[n] = r /\ \A i \in D : payouts'[i] = payouts[i]
  OBVIOUS
<1>2. IsFiniteSet(D) /\ (\A i \in D : f[i] \in Int) /\ SumOf(f, D) \in Int
  BY PayoutFacts
<1>3. (\A i \in D \cup {n} : g[i] \in Int) /\ g[n] = r.amount
  BY <1>1, PayoutFacts DEF AmountsOf
<1>4. \A i \in D : f[i] = g[i]
  BY <1>1 DEF AmountsOf
<1>5. r.amount \in Int
  BY DEF PayoutRow
<1> HIDE DEF n, f, g, D
<1>6. SumOf(f, D) = SumOf(g, D)
  BY <1>2, <1>4, SumSame
<1>7. SumOf(g, D \cup {n}) = SumOf(g, D) + g[n]
  BY <1>1, <1>2, <1>3, SumGrown
<1>8. SumOf(AmountsOf(payouts'), DOMAIN payouts') = SumOf(AmountsOf(payouts), DOMAIN payouts) + r.amount
  BY <1>1, <1>3, <1>6, <1>7 DEF f, g, D
<1>9. SumOf(CardSums(credit), Weeks) \in Int
  BY CardSumFacts DEF TypeOK
<1>10. side \in Int /\ side' = side /\ credit' = credit
  BY DEF TypeOK
<1>11. /\ Owed = SumOf(CardSums(credit), Weeks) + side - SumOf(f, D)
       /\ Owed' = SumOf(CardSums(credit), Weeks) + side - (SumOf(f, D) + r.amount)
  BY OwedIs, <1>8, <1>10 DEF Balance, f, D
<1>12. Owed \in Int /\ Owed' = Owed - r.amount
  BY ONLY <1>2, <1>5, <1>9, <1>10, <1>11
<1> QED BY <1>1, <1>5, <1>12

\* The balance after a week's credits change.
LEMMA OwedAfterCredit ==
  ASSUME TypeOK, payouts \in Seq(PayoutRow), UNCHANGED <<payouts, side>>,
         NEW w \in Weeks, NEW e \in [Projects -> Nat], credit' = [credit EXCEPT ![w] = e]
  PROVE  /\ Owed' = Owed + SumOf(e, Projects) - CreditOf(w)
         /\ CreditOf(w)' = SumOf(e, Projects) /\ \A v \in Weeks \ {w} : CreditOf(v)' = CreditOf(v)
         /\ credit' \in [Weeks -> [Projects -> Nat]]
         /\ Owed \in Int /\ SumOf(e, Projects) \in Nat /\ CreditOf(w) \in Nat
<1> DEFINE f == CardSums(credit)
           g == CardSums(credit')
<1>1. credit \in [Weeks -> [Projects -> Nat]] /\ side \in Int
  BY DEF TypeOK
<1>2. credit' \in [Weeks -> [Projects -> Nat]] /\ credit'[w] = e /\ \A v \in Weeks \ {w} : credit'[v] = credit[v]
  BY <1>1
<1>3. /\ \A v \in Weeks : f[v] \in Nat /\ f[v] = SumOf(credit[v], Projects)
      /\ \A v \in Weeks : g[v] \in Nat /\ g[v] = SumOf(credit'[v], Projects)
      /\ SumOf(f, Weeks) \in Nat
  BY <1>1, <1>2, CardSumFacts
<1> HIDE DEF f, g
<1>4. \A v \in Weeks \ {w} : g[v] = f[v]
  BY <1>2, <1>3
<1>5. SumOf(g, Weeks) = SumOf(f, Weeks) + g[w] - f[w]
  BY <1>3, <1>4, FiniteParts, SumMoved
<1>6. SumOf(AmountsOf(payouts), DOMAIN payouts) \in Int
  BY PayoutFacts
<1>7. Owed' = Owed + g[w] - f[w]
  <2>1. Owed = SumOf(f, Weeks) + side - SumOf(AmountsOf(payouts), DOMAIN payouts)
    BY OwedIs DEF Balance, f
  <2>2. Owed' = SumOf(g, Weeks) + side - SumOf(AmountsOf(payouts), DOMAIN payouts)
    BY OwedIs DEF Balance, g
  <2> DEFINE out == SumOf(AmountsOf(payouts), DOMAIN payouts)
  <2>3. out \in Int /\ Owed = SumOf(f, Weeks) + side - out /\ Owed' = SumOf(g, Weeks) + side - out
    BY <1>6, <2>1, <2>2
  <2> HIDE DEF out
  <2> QED BY <1>1, <1>3, <1>5, <2>3
<1>8. CreditOf(w) = f[w] /\ CreditOf(w)' = g[w]
  BY <1>3, CreditOfIs
<1>9. \A v \in Weeks \ {w} : CreditOf(v)' = CreditOf(v)
  BY <1>3, <1>4, CreditOfIs
<1>10. g[w] = SumOf(e, Projects)
  BY <1>2, <1>3
<1> QED BY <1>2, <1>3, <1>7, <1>8, <1>9, <1>10, OwedFacts

\* A prefix sum as Running writes it.
RunningSum(f, n) == MapThenSumSet(LAMBDA i : f[i], 1 .. n)

\* The corrections complete the goal only on a balance before or after them all.
LEMMA GoalOnSum ==
  ASSUME TypeOK, Owed \in Int, NEW w \in Weeks, NEW after \in Int,
         after = Owed + HoursOf(w) - CreditOf(w), Save(Running(Corrections(w))), ~reached, reached'
  PROVE  Owed >= Target \/ after >= Target
<1> DEFINE rows == Corrections(w)
           n == Len(rows)
           f == [i \in 1 .. n |-> rows[i][2]]
<1>1. n \in Nat /\ \A i \in 1 .. n : f[i] \in Int
  BY CorrectionsAre, ChangedFacts
<1>2. \A i, j \in 1 .. n : i < j => f[i] <= f[j]
  BY CorrectionsAre, ChangedFacts DEF Lists
<1>3. SumOf(f, 1 .. n) = HoursOf(w) - CreditOf(w) /\ CreditOf(w) \in Nat /\ HoursOf(w) \in Nat
  BY CorrectionsAddUp, ExpectedType DEF TypeOK
<1>4. \A k \in 1 .. n : MapThenSumSet(LAMBDA i : rows[i][2], 1 .. k) = SumOf(f, 1 .. k)
  <2> SUFFICES ASSUME NEW k \in 1 .. n PROVE MapThenSumSet(LAMBDA i : rows[i][2], 1 .. k) = SumOf(f, 1 .. k)
    OBVIOUS
  <2> DEFINE S == 1 .. k
  <2>1. MapThenSumSet(LAMBDA i : rows[i][2], S) =
          (CHOOSE h : h = [s \in SUBSET S |-> IF s = {} THEN 0 ELSE rows[OneOf(s)][2] + h[s \ {OneOf(s)}]])[S]
    BY Zenon DEF MapThenSumSet, MapThenFoldSet, OneOf
  <2>2. ASSUME NEW s \in SUBSET S, s # {} PROVE rows[OneOf(s)][2] = f[OneOf(s)]
    BY <1>1, <2>2, OneOfIsIn
  <2> HIDE DEF S, f, n
  <2>3. (CHOOSE h : h = [s \in SUBSET S |-> IF s = {} THEN 0 ELSE rows[OneOf(s)][2] + h[s \ {OneOf(s)}]])
          = CHOOSE h : Iterates(h, f, S)
    BY <2>2, Zenon DEF Iterates
  <2> QED BY <2>1, <2>3, SumIsIterate DEF S
<1>5. Running(rows) = {Owed + SumOf(f, 1 .. k) : k \in 1 .. n}
  BY <1>4 DEF Running
<1>6. Target \in Nat
  BY PayWeekConstants
<1>7. PICK k \in 1 .. n : Owed + SumOf(f, 1 .. k) >= Target
  <2>1. \E b \in Running(rows) : b >= Target
    BY Zenon DEF Save
  <2> QED BY <1>5, <2>1
<1> HIDE DEF rows, n, f
<1>8. SumOf(f, 1 .. k) \in Int
  <2>1. k \in Int /\ 1 .. k \subseteq 1 .. n
    BY <1>1
  <2>2. \A i \in 1 .. k : f[i] \in Int
    BY <1>1, <2>1
  <2>3. IsFiniteSet(1 .. k)
    BY <2>1, FS_Interval
  <2> QED BY <2>2, <2>3, SumInt
<1>9. CASE SumOf(f, 1 .. k) > 0
  <2>1. SumOf(f, 1 .. k) <= SumOf(f, 1 .. n)
    BY <1>1, <1>2, <1>9, AscendingGrows
  <2> QED BY <1>3, <1>6, <1>7, <1>8, <2>1
<1>10. CASE ~(SumOf(f, 1 .. k) > 0)
  BY <1>6, <1>7, <1>8, <1>10
<1> QED BY <1>9, <1>10

\* Generating a card: the card's hours are its ledger credit again, and the goal
\* completes only if the balance before or after all corrections covers it.
LEMMA GenerateMoney ==
  ASSUME MoneyInv, NEW w \in Weeks, Generate(w)
  PROVE  /\ card' \in [Weeks -> CardRow] /\ credit' \in [Weeks -> [Projects -> Nat]]
         /\ reached' \in BOOLEAN /\ UNCHANGED <<payouts, side>>
         /\ CardMatchesLedger' /\ GoalIsReal
<1>1. TypeOK /\ CardMatchesLedger /\ payouts \in Seq(PayoutRow) /\ TimersOK
  BY DEF MoneyInv, PayInv, TypeOK
<1>2. Expected(w) \in [Projects -> Nat] /\ HoursOf(w) = SumOf(Expected(w), Projects) /\ HoursOf(w) \in Nat
  BY <1>1, ExpectedType
<1>3. credit' = [credit EXCEPT ![w] = Expected(w)] /\ UNCHANGED <<payouts, side>> /\ Save(Running(Corrections(w)))
  <2>1. Corrected(w) = Expected(w)
    BY <1>1, CorrectedIs
  <2> QED BY <2>1 DEF Generate
<1>4. /\ Owed' = Owed + HoursOf(w) - CreditOf(w)
      /\ CreditOf(w)' = HoursOf(w) /\ \A v \in Weeks \ {w} : CreditOf(v)' = CreditOf(v)
      /\ credit' \in [Weeks -> [Projects -> Nat]]
      /\ Owed \in Int /\ CreditOf(w) \in Nat
  <2> DEFINE e == Expected(w)
  <2>1. e \in [Projects -> Nat] /\ credit' = [credit EXCEPT ![w] = e] /\ HoursOf(w) = SumOf(e, Projects)
    BY <1>2, <1>3
  <2> HIDE DEF e
  <2> QED BY <1>1, <1>3, <2>1, OwedAfterCredit
<1>5. Owed' \in Int
  BY <1>2, <1>4
<1> DEFINE after == Owed'
<1>6. ASSUME ~reached, reached' PROVE Owed >= Target \/ after >= Target
  <2>1. after \in Int /\ after = Owed + HoursOf(w) - CreditOf(w)
    BY <1>4, <1>5
  <2> HIDE DEF after
  <2> QED BY <1>1, <1>3, <1>4, <1>6, <2>1, GoalOnSum
<1>7. GoalIsReal /\ reached' \in BOOLEAN
  <2>1. GoalIsReal
    BY Zenon, <1>6 DEF GoalIsReal
  <2>2. reached' \in BOOLEAN
    BY Zenon, <1>1, <1>3 DEF Save, TypeOK
  <2> QED BY <2>1, <2>2
<1> DEFINE s == IF card[w].status = "none" THEN "pending" ELSE card[w].status
           new == [status |-> s, hourly |-> HoursOf(w), bonus |-> BonusOf(w)]
<1>8. BonusOf(w) \in Nat
  <2>1. Cardinality({p \in Projects : doneIn[p] = w}) \in Nat
    BY FiniteParts, FS_Subset, FS_CardinalityType
  <2> QED BY <2>1, PayWeekConstants DEF BonusOf
<1>9. new \in CardRow /\ new.hourly = HoursOf(w)
  <2>1. s \in {"none", "pending", "approved", "paid", "closed", "disputed"}
    BY <1>1 DEF TypeOK, CardRow
  <2> HIDE DEF s
  <2> QED BY <1>2, <1>8, <2>1 DEF CardRow
<1>10. card' = [card EXCEPT ![w] = new]
  BY DEF Generate
<1> HIDE DEF new
<1>11. card' \in [Weeks -> CardRow] /\ card'[w].hourly = HoursOf(w) /\ \A v \in Weeks \ {w} : card'[v] = card[v]
  BY <1>1, <1>9, <1>10 DEF TypeOK
<1>12. \A v \in Weeks : CreditOf(v)' = card'[v].hourly
  BY <1>1, <1>4, <1>11 DEF CardMatchesLedger
<1>13. CardMatchesLedger'
  BY <1>12 DEF CardMatchesLedger
<1> QED BY <1>3, <1>4, <1>7, <1>11, <1>13

-----------------------------------------------------------------------------
(* Accounts.                                                               *)

\* The part of MoneyInv about the cards and the ledger.
AccountsOK ==
    /\ card \in [Weeks -> CardRow] /\ credit \in [Weeks -> [Projects -> Nat]]
    /\ payouts \in Seq(PayoutRow) /\ Len(payouts) <= MaxRows
    /\ side \in Int /\ reached \in BOOLEAN
    /\ CardMatchesLedger

\* The part of MoneyInv that no balance enters.
RestOK ==
    /\ ran \in BOOLEAN
    /\ doneIn \in [Projects -> 0 .. LastWeek]
    /\ exchange \in [Exchanges -> ExchangeRow]
    /\ late \in [Exchanges -> Int \cup {None}]
    /\ covered \in BOOLEAN

\* The two parts, with the timers' and the approvals', are MoneyInv.
LEMMA MoneyParts == MoneyInv <=> TimersOK /\ RestOK /\ AccountsOK /\ ApprovalsOK
BY DEF MoneyInv, PayInv, TypeOK, AccountsOK, RestOK

\* The same after a step.
LEMMA MoneyPartsNext == TimersOK' /\ RestOK' /\ AccountsOK' /\ ApprovalsOK' => MoneyInv'
BY DEF MoneyInv, PayInv, TypeOK, AccountsOK, RestOK

\* A new status is all that a card gets.
LEMMA StatusType ==
  ASSUME card \in [Weeks -> CardRow], NEW w \in Weeks,
         NEW s \in {"none", "pending", "approved", "paid", "closed", "disputed"}, SetStatus(w, s)
  PROVE  /\ card' \in [Weeks -> CardRow]
         /\ \A v \in Weeks : card'[v].hourly = card[v].hourly /\ card'[v].bonus = card[v].bonus
         /\ card'[w].status = s /\ \A v \in Weeks \ {w} : card'[v] = card[v]
<1> DEFINE new == [card[w] EXCEPT !.status = s]
<1>1. card[w] \in CardRow
  OBVIOUS
<1>2. new \in CardRow /\ new.hourly = card[w].hourly /\ new.bonus = card[w].bonus /\ new.status = s
  BY <1>1 DEF CardRow
<1>3. card' = [card EXCEPT ![w] = new]
  BY DEF SetStatus
<1> HIDE DEF new
<1> QED BY <1>2, <1>3

\* The cards keep their hours, and the ledger its rows.
LEMMA LedgerStays ==
  ASSUME MoneyInv, UNCHANGED <<credit, payouts, side, reached>>,
         card' = card \/ \E w \in Weeks : \E s \in {"approved", "closed", "disputed"} : SetStatus(w, s)
  PROVE  AccountsOK' /\ GoalIsReal /\ Owed' = Owed
<1>1. AccountsOK
  BY MoneyParts
<1>2. card' \in [Weeks -> CardRow] /\ \A v \in Weeks : card'[v].hourly = card[v].hourly
  BY <1>1, StatusType DEF AccountsOK
<1>3. Owed' = Owed
  BY OwedIs
<1>4. \A w \in Weeks : CreditOf(w)' = CreditOf(w)
  BY CreditOfIs
<1>5. CardMatchesLedger'
  BY <1>1, <1>2, <1>4 DEF AccountsOK, CardMatchesLedger
<1>6. GoalIsReal
  BY DEF GoalIsReal
<1> QED BY <1>1, <1>2, <1>3, <1>5, <1>6 DEF AccountsOK

\* Generating a card keeps the accounts.
LEMMA GenerateAccounts ==
  ASSUME MoneyInv, NEW w \in Weeks, Generate(w)
  PROVE  AccountsOK' /\ GoalIsReal
BY GenerateMoney, MoneyParts DEF AccountsOK

\* The goal completes on the balance that the savings check sees.
LEMMA GoalOnBalance ==
  ASSUME NEW b, Save({b}), Owed' = b, reached \in BOOLEAN
  PROVE  GoalIsReal /\ reached' \in BOOLEAN
<1>1. GoalIsReal
  BY Zenon DEF Save, GoalIsReal
<1>2. reached' \in BOOLEAN
  BY Zenon DEF Save
<1> QED BY <1>1, <1>2

\* A payout keeps the accounts and takes its amount from the balance.
LEMMA RecordAccounts ==
  ASSUME MoneyInv, NEW w \in {0} \cup Weeks, NEW a, NEW how, PayRow(w, a, how) \in PayoutRow,
         Record(w, a, how), card' = card \/ \E v \in Weeks : SetStatus(v, "paid")
  PROVE  AccountsOK' /\ GoalIsReal /\ Owed' = Owed - a /\ Owed \in Int /\ a \in Int
<1>1. AccountsOK /\ TypeOK
  BY MoneyParts DEF MoneyInv, PayInv
<1> DEFINE r == PayRow(w, a, how)
<1>2. r \in PayoutRow /\ r.amount = a /\ payouts' = Append(payouts, r) /\ UNCHANGED <<credit, side>>
  BY DEF Record, PayRow
<1>3. Len(payouts) < MaxRows /\ Save({Owed - a})
  BY DEF Record
<1> HIDE DEF r
<1>4. payouts' \in Seq(PayoutRow) /\ Owed' = Owed - a /\ Owed \in Int /\ a \in Int
  BY <1>1, <1>2, OwedAfterRecord DEF AccountsOK
<1>5. GoalIsReal /\ reached' \in BOOLEAN
  BY <1>1, <1>3, <1>4, GoalOnBalance DEF AccountsOK
<1>6. Len(payouts') <= MaxRows
  <2>1. Len(payouts') = Len(payouts) + 1 /\ Len(payouts) \in Nat
    BY <1>1, <1>2 DEF AccountsOK
  <2> QED BY <1>3, <2>1, PayWeekConstants
<1>7. card' \in [Weeks -> CardRow] /\ \A v \in Weeks : card'[v].hourly = card[v].hourly
  BY <1>1, StatusType DEF AccountsOK
<1>8. \A v \in Weeks : CreditOf(v)' = CreditOf(v)
  BY <1>2, CreditOfIs
<1>9. CardMatchesLedger'
  BY <1>1, <1>7, <1>8 DEF AccountsOK, CardMatchesLedger
<1> QED BY <1>1, <1>2, <1>4, <1>5, <1>6, <1>7, <1>9 DEF AccountsOK

\* Every other money row moves the balance by its amount; of a payout or a correction
\* there is none.
LEMMA SideAccounts ==
  ASSUME MoneyInv, NEW d \in Int, side' = side + d, UNCHANGED <<card, credit, payouts>>, reached' \in BOOLEAN
  PROVE  AccountsOK' /\ GoalIsReal /\ Owed' = Owed + d /\ Owed \in Int
<1>1. AccountsOK /\ TypeOK
  BY MoneyParts DEF MoneyInv, PayInv
<1>2. Owed \in Int /\ Owed' = Owed + d
  <2>1. SumOf(CardSums(credit), Weeks) \in Int /\ SumOf(AmountsOf(payouts), DOMAIN payouts) \in Int /\ side \in Int
    BY <1>1, CardSumFacts, PayoutFacts DEF AccountsOK
  <2>2. Owed' = SumOf(CardSums(credit), Weeks) + (side + d) - SumOf(AmountsOf(payouts), DOMAIN payouts)
    BY OwedIs DEF Balance
  <2>3. Owed = SumOf(CardSums(credit), Weeks) + side - SumOf(AmountsOf(payouts), DOMAIN payouts)
    BY OwedIs DEF Balance
  <2> DEFINE in == SumOf(CardSums(credit), Weeks)
             out == SumOf(AmountsOf(payouts), DOMAIN payouts)
  <2>4. in \in Int /\ out \in Int /\ Owed' = in + (side + d) - out /\ Owed = in + side - out
    BY <2>1, <2>2, <2>3
  <2> HIDE DEF in, out
  <2> QED BY <2>1, <2>4
<1>3. CardMatchesLedger'
  <2>1. \A v \in Weeks : CreditOf(v)' = CreditOf(v)
    BY CreditOfIs
  <2> QED BY <1>1, <2>1 DEF AccountsOK, CardMatchesLedger
<1>4. GoalIsReal
  BY DEF GoalIsReal
<1>5. side' \in Int
  BY <1>1 DEF AccountsOK
<1> QED BY <1>1, <1>2, <1>3, <1>4, <1>5 DEF AccountsOK

\* So does one whose savings check is part of the step.
LEMMA MoveAccounts ==
  ASSUME MoneyInv, NEW d \in Int, MoveSide(d), card' = card
  PROVE  AccountsOK' /\ GoalIsReal /\ Owed' = Owed + d /\ Owed \in Int
<1>1. reached \in BOOLEAN
  BY MoneyParts DEF AccountsOK
<1>2. reached' \in BOOLEAN
  BY Zenon, <1>1 DEF MoveSide, Save
<1> QED BY <1>2, SideAccounts DEF MoveSide

-----------------------------------------------------------------------------
(* Every step of the money.                                                *)

\* An exchange goes through only on what its approval read, and late counts what
\* was adjusted since.
CoveredNow == \A x \in Exchanges :
    exchange[x].status = "pending" /\ exchange'[x].status = "approved" => Owed' >= late[x]

\* What every step does.
MoneyDone == RestOK' /\ AccountsOK' /\ ApprovalsOK' /\ GoalIsReal /\ CoveredNow

\* A step that leaves projects and exchanges alone.
LEMMA RestStays ==
  ASSUME RestOK, UNCHANGED <<ran, doneIn, trades>>
  PROVE  RestOK'
BY DEF RestOK, trades

\* What waits for the child's row finds no approval under way, and starts none.
LEMMA NoneUnderWay ==
  ASSUME Free, UNCHANGED <<exchange, late>>
  PROVE  ApprovalsOK' /\ CoveredNow
BY DEF Free, ApprovalsOK, CoveredNow

\* What does not wait leaves the balance alone, and the exchanges.
LEMMA ApprovalsStay ==
  ASSUME ApprovalsOK, UNCHANGED <<exchange, late>>, Owed' = Owed
  PROVE  ApprovalsOK' /\ CoveredNow
BY DEF ApprovalsOK, CoveredNow

\* Timers, voids and the passing of a week move no money.
LEMMA TimerMoney ==
  ASSUME MoneyInv, TimerStep \/ VoidDone \/ NextWeek
  PROVE  MoneyDone
<1>1. UNCHANGED <<card, ledger, doneIn, trades>> /\ ran' \in {ran, FALSE}
  BY DEF TimerStep, VoidDone, NextWeek, ClockIn, ClockOut, AutoRead, AutoSave, VoidRead, VoidByTool, VoidSave, clock
<1>2. AccountsOK' /\ GoalIsReal /\ Owed' = Owed
  BY <1>1, LedgerStays DEF ledger
<1>3. RestOK'
  BY <1>1, MoneyParts DEF RestOK, trades
<1>4. ApprovalsOK' /\ CoveredNow
  BY <1>1, <1>2, MoneyParts, ApprovalsStay DEF trades
<1> QED BY <1>2, <1>3, <1>4 DEF MoneyDone

\* The Sunday task.
LEMMA SundayMoney ==
  ASSUME MoneyInv, Sunday
  PROVE  MoneyDone
<1>1. Free /\ UNCHANGED <<doneIn, trades>> /\ ran' = TRUE /\ week \in Weeks
  BY DEF Sunday
<1>2. AccountsOK' /\ GoalIsReal
  <2>1. CASE Skips(week)
    <3>1. UNCHANGED <<card, ledger>>
      BY <2>1 DEF Sunday
    <3> QED BY <3>1, LedgerStays DEF ledger
  <2>2. CASE ~Skips(week)
    <3>1. Generate(week)
      BY <2>2 DEF Sunday
    <3> QED BY <1>1, <3>1, GenerateAccounts
  <2> QED BY <2>1, <2>2
<1>3. RestOK'
  BY <1>1, MoneyParts DEF RestOK, trades
<1>4. ApprovalsOK' /\ CoveredNow
  BY <1>1, NoneUnderWay DEF trades
<1> QED BY <1>2, <1>3, <1>4 DEF MoneyDone

\* The steps on a card.
LEMMA CardMoney ==
  ASSUME MoneyInv, NEW w \in Weeks, GenerateByTool(w) \/ Approve(w) \/ Close(w) \/ Dispute(w) \/ MarkPaid(w)
  PROVE  MoneyDone
<1>1. Free /\ UNCHANGED <<ran, doneIn, trades>>
  BY DEF GenerateByTool, Generate, Approve, Close, Dispute, MarkPaid, clock
<1>2. RestOK' /\ ApprovalsOK' /\ CoveredNow
  BY <1>1, MoneyParts, RestStays, NoneUnderWay DEF trades
<1>3. CASE GenerateByTool(w)
  BY <1>2, <1>3, GenerateAccounts DEF GenerateByTool, MoneyDone
<1>4. CASE Approve(w) \/ Close(w) \/ Dispute(w)
  <2>1. UNCHANGED ledger /\ \E s \in {"approved", "closed", "disputed"} : SetStatus(w, s)
    BY <1>4 DEF Approve, Close, Dispute
  <2> QED BY <1>2, <2>1, LedgerStays DEF ledger, MoneyDone
<1>5. CASE MarkPaid(w)
  <2>1. Record(w, TotalOf(w), NoTransfer) /\ SetStatus(w, "paid") /\ TotalOf(w) \in Int
    BY <1>5 DEF MarkPaid
  <2>2. PayRow(w, TotalOf(w), NoTransfer) \in PayoutRow
    BY <2>1 DEF PayRow, NoTransfer, PayoutRow
  <2> QED BY <1>2, <2>1, <2>2, RecordAccounts DEF MoneyDone
<1> QED BY <1>3, <1>4, <1>5

\* A correction that waits for nothing: an approval under way counts it.
LEMMA AdjustMoney ==
  ASSUME MoneyInv, NEW d \in Int, Adjust(d)
  PROVE  MoneyDone
<1>1. RestOK /\ AccountsOK /\ ApprovalsOK
  BY MoneyParts
<1>2. /\ UNCHANGED <<ran, card, credit, payouts, reached, doneIn, exchange, covered>> /\ side' = side + d
      /\ late' = [x \in Exchanges |-> IF late[x] = None THEN None ELSE late[x] + d]
  BY DEF Adjust, clock
<1>3. AccountsOK' /\ GoalIsReal /\ Owed' = Owed + d /\ Owed \in Int
  BY <1>1, <1>2, SideAccounts DEF AccountsOK
<1>4. \A x \in Exchanges : late[x] # None => late[x] \in Int
  BY <1>1 DEF RestOK
<1>5. RestOK'
  BY <1>1, <1>2, <1>4 DEF RestOK
<1>6. \A x \in Exchanges : exchange[x].amount \in Nat
  <2>1. \A x \in Exchanges : exchange[x] \in ExchangeRow
    BY <1>1 DEF RestOK
  <2> QED BY <2>1 DEF ExchangeRow
<1>7. ApprovalsOK'
  <2>1. \A x \in Exchanges : late'[x] # None => late[x] # None /\ late'[x] = late[x] + d
    BY <1>2
  <2>2. \A x \in Exchanges : late[x] # None => Owed' >= (late[x] + d) + exchange[x].amount
    BY <1>1, <1>3, <1>4, <1>6 DEF ApprovalsOK
  <2> QED BY <1>1, <1>2, <2>1, <2>2 DEF ApprovalsOK
<1>8. CoveredNow
  BY <1>2 DEF CoveredNow
<1> QED BY <1>3, <1>5, <1>7, <1>8 DEF MoneyDone

\* An approval reads the balance while nothing else holds the child's row.
LEMMA ReadMoney ==
  ASSUME MoneyInv, NEW x \in Exchanges, ReadBalance(x)
  PROVE  MoneyDone
<1>1. RestOK /\ AccountsOK /\ TypeOK
  BY MoneyParts DEF MoneyInv, PayInv
<1>2. /\ UNCHANGED <<ran, card, ledger, doneIn, exchange, covered>> /\ late' = [late EXCEPT ![x] = 0]
      /\ exchange[x].status = "pending" /\ Owed >= exchange[x].amount /\ \A y \in Exchanges : late[y] = None
  BY DEF ReadBalance, Free, clock
<1>3. AccountsOK' /\ GoalIsReal /\ Owed' = Owed
  BY <1>2, LedgerStays DEF ledger
<1>4. RestOK' /\ CoveredNow
  BY <1>1, <1>2 DEF RestOK, CoveredNow
<1>5. late'[x] = 0 /\ \A y \in Exchanges \ {x} : late'[y] = None
  BY <1>1, <1>2 DEF RestOK
<1>6. exchange[x].amount \in Nat
  <2>1. exchange[x] \in ExchangeRow
    BY <1>1 DEF RestOK
  <2> QED BY <2>1 DEF ExchangeRow
<1>7. ApprovalsOK'
  BY <1>2, <1>3, <1>5, <1>6 DEF ApprovalsOK
<1> QED BY <1>3, <1>4, <1>7 DEF MoneyDone

\* The approval ends, with its debit or without.
LEMMA EndsMoney ==
  ASSUME MoneyInv, NEW x \in Exchanges, Ends(x)
  PROVE  MoneyDone
<1>1. RestOK /\ AccountsOK /\ ApprovalsOK
  BY MoneyParts
<1>2. late[x] # None /\ late' = [late EXCEPT ![x] = None] /\ UNCHANGED <<ran, card, doneIn, covered>>
  BY DEF Ends, ApproveExchange, RollBack, clock
<1>3. late[x] \in Int /\ \A y \in Exchanges : late'[y] = None
  BY <1>1, <1>2 DEF RestOK, ApprovalsOK
<1>4. ApprovalsOK'
  BY <1>3 DEF ApprovalsOK
<1>5. CASE RollBack(x)
  <2>1. UNCHANGED <<ledger, exchange>>
    BY <1>5 DEF RollBack
  <2>2. AccountsOK' /\ GoalIsReal
    BY <1>2, <2>1, LedgerStays DEF ledger
  <2>3. RestOK' /\ CoveredNow
    BY <1>1, <1>2, <2>1 DEF RestOK, CoveredNow
  <2> QED BY <1>4, <2>2, <2>3 DEF MoneyDone
<1>6. CASE ApproveExchange(x)
  <2> DEFINE new == [exchange[x] EXCEPT !.status = "approved"]
             d == -exchange[x].amount
  <2>1. exchange[x] \in ExchangeRow
    BY <1>1 DEF RestOK
  <2>2. exchange[x].amount \in Nat /\ new \in ExchangeRow
    BY <2>1 DEF ExchangeRow
  <2>3. exchange' = [exchange EXCEPT ![x] = new] /\ MoveSide(d) /\ d \in Int
    BY <1>6, <2>2 DEF ApproveExchange
  <2> HIDE DEF new
  <2>4. AccountsOK' /\ GoalIsReal /\ Owed' = Owed + d /\ Owed \in Int
    <3> HIDE DEF d
    <3> QED BY <1>2, <2>3, MoveAccounts
  <2>5. Owed' >= late[x]
    <3>1. Owed >= late[x] + exchange[x].amount
      BY <1>1, <1>2 DEF ApprovalsOK
    <3> QED BY <1>3, <2>2, <2>4, <3>1
  <2>6. CoveredNow
    BY <1>1, <2>3, <2>5 DEF RestOK, CoveredNow
  <2>7. RestOK'
    BY <1>1, <1>2, <2>2, <2>3 DEF RestOK
  <2> QED BY <1>4, <2>4, <2>6, <2>7 DEF MoneyDone
<1> QED BY <1>5, <1>6 DEF Ends

\* Requests and refusals.
LEMMA RequestMoney ==
  ASSUME MoneyInv, NEW x \in Exchanges, RejectExchange(x) \/ \E a \in Amounts : RequestExchange(x, a)
  PROVE  MoneyDone
<1>1. RestOK /\ AccountsOK /\ ApprovalsOK
  BY MoneyParts
<1>2. PICK new \in ExchangeRow : /\ exchange' = [exchange EXCEPT ![x] = new]
                                 /\ ~(exchange[x].status = "pending" /\ new.status = "approved")
  <2>1. ASSUME NEW a \in Amounts, RequestExchange(x, a)
        PROVE  LET r == [status |-> "pending", amount |-> a]
               IN  r \in ExchangeRow /\ exchange' = [exchange EXCEPT ![x] = r] /\ r.status = "pending"
    BY <2>1, PayWeekConstants DEF RequestExchange, ExchangeRow
  <2>2. ASSUME RejectExchange(x)
        PROVE  LET r == [exchange[x] EXCEPT !.status = "denied"]
               IN  r \in ExchangeRow /\ exchange' = [exchange EXCEPT ![x] = r] /\ r.status = "denied"
    <3>1. exchange[x] \in ExchangeRow
      BY <1>1 DEF RestOK
    <3>2. exchange' = [exchange EXCEPT ![x] = [exchange[x] EXCEPT !.status = "denied"]]
      BY <2>2 DEF RejectExchange
    <3> QED BY <3>1, <3>2 DEF ExchangeRow
  <2> QED BY <2>1, <2>2
<1>3. UNCHANGED <<ran, card, ledger, doneIn, late, covered>> /\ late[x] = None
  <2>1. UNCHANGED <<ran, card, ledger, doneIn, late, covered>>
    BY DEF RejectExchange, RequestExchange, clock
  <2>2. exchange[x].status = "none" \/ \A y \in Exchanges : late[y] = None
    BY DEF RejectExchange, RequestExchange, Free
  <2> QED BY <1>1, <2>1, <2>2 DEF ApprovalsOK
<1>4. AccountsOK' /\ GoalIsReal /\ Owed' = Owed
  BY <1>3, LedgerStays DEF ledger
<1>5. exchange'[x] = new /\ \A y \in Exchanges \ {x} : exchange'[y] = exchange[y]
  BY <1>1, <1>2 DEF RestOK
<1>6. RestOK' /\ CoveredNow
  BY <1>1, <1>2, <1>3, <1>5 DEF RestOK, CoveredNow
<1>7. ApprovalsOK'
  BY <1>1, <1>3, <1>4, <1>5 DEF ApprovalsOK
<1> QED BY <1>4, <1>6, <1>7 DEF MoneyDone

\* Adjustments, bonuses, savings checks and exchanges.
LEMMA OtherMoney ==
  ASSUME MoneyInv, MoneyStep
  PROVE  MoneyDone
<1>1. RestOK /\ AccountsOK /\ ApprovalsOK
  BY MoneyParts
<1>2. ASSUME NEW a \in Amounts, NEW sign \in {1, -1}, Adjust(sign * a) \/ AdjustByTool(sign * a)
      PROVE  MoneyDone
  <2> DEFINE d == sign * a
  <2>1. d \in Int
    BY PayWeekConstants
  <2>2. Adjust(d) \/ AdjustByTool(d)
    BY <1>2
  <2> HIDE DEF d
  <2>3. CASE AdjustByTool(d)
    <3>1. Free /\ UNCHANGED <<ran, card, doneIn, trades>> /\ MoveSide(d)
      BY <2>3 DEF AdjustByTool, clock
    <3> QED BY <1>1, <2>1, <3>1, MoveAccounts, RestStays, NoneUnderWay DEF MoneyDone, trades
  <2> QED BY <2>1, <2>2, <2>3, AdjustMoney
<1>3. ASSUME NEW p \in Projects, CompleteProject(p)
      PROVE  MoneyDone
  <2>1. Free /\ UNCHANGED <<ran, card, trades>> /\ doneIn' = [doneIn EXCEPT ![p] = week] /\ week \in 0 .. LastWeek
    BY <1>3, PayWeekConstants DEF CompleteProject, clock, Weeks
  <2>2. RestOK'
    BY <1>1, <2>1 DEF RestOK, trades
  <2>3. UNCHANGED ledger \/ MoveSide(Bonus)
    BY <1>3 DEF CompleteProject
  <2>4. Bonus \in Int
    BY PayWeekConstants
  <2>5. AccountsOK' /\ GoalIsReal
    BY <2>1, <2>3, <2>4, MoveAccounts, LedgerStays DEF ledger
  <2> QED BY <2>1, <2>2, <2>5, NoneUnderWay DEF MoneyDone, trades
<1>4. ASSUME ReadGoal \/ \E done \in BOOLEAN : SettleGoal(done)
      PROVE  MoneyDone
  <2>1. UNCHANGED <<ran, card, credit, payouts, side, doneIn, exchange, late>> /\ covered' \in BOOLEAN
    BY <1>4 DEF ReadGoal, SettleGoal, ledger, clock
  <2>2. reached' \in BOOLEAN
    BY Zenon, <1>1, <1>4 DEF ReadGoal, SettleGoal, ledger, AccountsOK
  <2>3. side' = side + 0
    BY <1>1, <2>1 DEF AccountsOK
  <2>4. AccountsOK' /\ GoalIsReal /\ Owed' = Owed + 0 /\ Owed \in Int
    BY <2>1, <2>2, <2>3, SideAccounts
  <2>5. RestOK'
    BY <1>1, <2>1 DEF RestOK
  <2>6. Owed' = Owed
    BY <2>4
  <2> QED BY <1>1, <2>1, <2>4, <2>5, <2>6, ApprovalsStay DEF MoneyDone
<1> QED BY <1>2, <1>3, <1>4, ReadMoney, EndsMoney, RequestMoney DEF MoneyStep

\* Every step keeps MoneyInv, completes a goal only on a real balance and approves an
\* exchange only on what its approval read.
LEMMA MoneyKeeps ==
  ASSUME MoneyInv, [Next]_vars
  PROVE  MoneyInv' /\ GoalIsReal /\ CoveredNow
<1>1. TimersOK'
  BY EntryStep, MoneyParts
<1>2. MoneyDone
  <2>1. CASE UNCHANGED vars
    <3>1. UNCHANGED <<ran, card, ledger, doneIn, trades>>
      BY <2>1 DEF vars, clock
    <3>2. AccountsOK' /\ GoalIsReal /\ Owed' = Owed
      BY <3>1, LedgerStays DEF ledger
    <3> QED BY <3>1, <3>2, MoneyParts, RestStays, ApprovalsStay DEF trades, MoneyDone
  <2>2. CASE TimerStep \/ VoidDone \/ NextWeek
    BY <2>2, TimerMoney
  <2>3. CASE Sunday
    BY <2>3, SundayMoney
  <2>4. CASE CardStep
    BY <2>4, CardMoney DEF CardStep
  <2>5. CASE MoneyStep
    BY <2>5, OtherMoney
  <2> QED BY <2>1, <2>2, <2>3, <2>4, <2>5 DEF Next
<1> QED BY <1>1, <1>2, MoneyPartsNext DEF MoneyDone

\* Nothing is owed at the start, and no approval is under way.
LEMMA MoneyInit == Init => MoneyInv
<1> SUFFICES ASSUME Init PROVE MoneyInv
  OBVIOUS
<1>1. TimersOK
  BY TimersInit
<1>2. RestOK
  <2> DEFINE row == [status |-> "none", amount |-> 0]
  <2>1. row \in ExchangeRow
    BY DEF ExchangeRow
  <2>2. /\ exchange = [x \in Exchanges |-> row] /\ ran = FALSE /\ doneIn = [p \in Projects |-> 0]
        /\ late = [x \in Exchanges |-> None] /\ covered = FALSE
    BY DEF Init
  <2>3. 0 \in 0 .. LastWeek
    BY PayWeekConstants
  <2> HIDE DEF row
  <2> QED BY <2>1, <2>2, <2>3 DEF RestOK
<1> DEFINE none == [status |-> "none", hourly |-> 0, bonus |-> 0]
           zeros == [p \in Projects |-> 0]
<1>3. card = [w \in Weeks |-> none] /\ credit = [w \in Weeks |-> zeros]
  BY DEF Init
<1>4. none \in CardRow /\ none.hourly = 0 /\ zeros \in [Projects -> Nat] /\ \A p \in Projects : zeros[p] = 0
  BY DEF CardRow
<1> HIDE DEF none, zeros
<1>5. card \in [Weeks -> CardRow] /\ credit \in [Weeks -> [Projects -> Nat]]
  BY <1>3, <1>4
<1>6. payouts = <<>> /\ side = 0 /\ reached = FALSE
  BY DEF Init
<1>7. SumOf(zeros, Projects) = 0
  BY <1>4, FiniteParts, SumZero
<1>8. CardMatchesLedger
  <2> SUFFICES ASSUME NEW w \in Weeks PROVE CreditOf(w) = card[w].hourly
    BY DEF CardMatchesLedger
  <2>1. credit[w] = zeros /\ card[w].hourly = 0
    BY <1>3, <1>4
  <2> QED BY <1>7, <2>1, CreditOfIs
<1>9. ApprovalsOK
  BY DEF Init, ApprovalsOK
<1>10. payouts \in Seq(PayoutRow) /\ Len(payouts) <= MaxRows
  BY <1>6, PayWeekConstants
<1>11. AccountsOK
  <2>1. side \in Int
    BY <1>6
  <2>2. reached \in BOOLEAN
    BY Zenon, <1>6
  <2> QED BY Zenon, <1>5, <1>8, <1>10, <2>1, <2>2 DEF AccountsOK
<1> QED BY <1>1, <1>2, <1>9, <1>11, MoneyParts

\* The hours on every card are the sum of its hourly ledger rows, whatever timers are
\* voided, saved from stale reads or generated again (generate_weekly_timecard).
THEOREM CardsMatchLedger == Spec => []PayInv
<1>1. MoneyInv /\ [Next]_vars => MoneyInv'
  BY MoneyKeeps
<1>2. MoneyInv => PayInv
  BY DEF MoneyInv
<1> QED BY <1>1, <1>2, MoneyInit, PTL DEF Spec

\* The invariant holds in every state.
LEMMA MoneyAlways == Spec => []MoneyInv
<1>1. MoneyInv /\ [Next]_vars => MoneyInv'
  BY MoneyKeeps
<1> QED BY <1>1, MoneyInit, PTL DEF Spec

\* No two exchanges, payouts or corrections spend the same dollars: an exchange leaves
\* a child in debt only by what an adjustment, which waits for nobody, took after the
\* approval had read the balance (ExchangeService.approve).
THEOREM ExchangesAreCovered == Spec => ExchangeCovered
<1>1. MoneyInv /\ [Next]_vars => [\A x \in Exchanges :
        exchange[x].status = "pending" /\ exchange'[x].status = "approved" => Owed' >= late[x]]_vars
  BY MoneyKeeps DEF CoveredNow
<1> QED BY <1>1, MoneyAlways, PTL DEF Spec, ExchangeCovered

\* A payout, or the corrections of a week, completes the savings goal only on a balance
\* that stands before or after all of it, not on one seen between a card's corrections
\* (record_entry, generate_weekly_timecard).
THEOREM GoalsAreReal == Spec => GoalOnRealBalance
<1>1. MoneyInv /\ [Next]_vars =>
        [~reached /\ reached' /\ <<credit, payouts>>' # <<credit, payouts>>
           => Owed >= Target \/ Owed' >= Target]_vars
  BY MoneyKeeps DEF GoalIsReal
<1> QED BY <1>1, MoneyAlways, PTL DEF Spec, GoalOnRealBalance

-----------------------------------------------------------------------------
(* The promise.                                                            *)

\* What payouts q paid for a week, or for none when v is 0.
PaidFor(q, v) == SumOf(AmountsOf(q), {i \in DOMAIN q : q[i].card = v})

\* The values that PayPromise's variables take here.
Phases == [w \in Weeks |-> PhaseOf(w)]
Credits == [w \in Weeks |-> CreditOf(w)]
Paids == [w \in Weeks |-> PaidBy(RowsFor(w))]
Spent == PaidBy(RowsFor(0))

\* What was paid for a week, before the step and after it.
LEMMA PaidForIs ==
  ASSUME NEW v
  PROVE  PaidBy(RowsFor(v)) = PaidFor(payouts, v) /\ PaidBy(RowsFor(v))' = PaidFor(payouts', v)
<1>1. PaidBy(RowsFor(v)) = SumAmounts(payouts, {i \in DOMAIN payouts : payouts[i].card = v})
  BY Zenon DEF PaidBy, SumAmounts, RowsFor, MapThenSumSet, MapThenFoldSet
<1>2. PaidBy(RowsFor(v))' = SumAmounts(payouts', {i \in DOMAIN payouts' : payouts'[i].card = v})
  BY Zenon DEF PaidBy, SumAmounts, RowsFor, MapThenSumSet, MapThenFoldSet
<1>3. ASSUME NEW q
      PROVE  SumAmounts(q, {i \in DOMAIN q : q[i].card = v}) = PaidFor(q, v)
  <2>1. {i \in DOMAIN q : q[i].card = v} \subseteq DOMAIN q
    OBVIOUS
  <2> QED BY <2>1, SumAmountsIs DEF PaidFor
<1> QED BY <1>1, <1>2, <1>3

\* What was paid, in those terms.
LEMMA PaidsAre ==
  /\ Paids = [w \in Weeks |-> PaidFor(payouts, w)] /\ Paids' = [w \in Weeks |-> PaidFor(payouts', w)]
  /\ Spent = PaidFor(payouts, 0) /\ Spent' = PaidFor(payouts', 0)
BY PaidForIs DEF Paids, Spent

\* A new payout adds to its own week alone.
LEMMA PaidForRecord ==
  ASSUME NEW q \in Seq(PayoutRow), NEW r \in PayoutRow
  PROVE  /\ PaidFor(Append(q, r), r.card) = PaidFor(q, r.card) + r.amount
         /\ \A v : v # r.card => PaidFor(Append(q, r), v) = PaidFor(q, v)
         /\ \A v : PaidFor(q, v) \in Int
<1> DEFINE n == Len(q) + 1
           more == Append(q, r)
           f == AmountsOf(q)
           g == AmountsOf(more)
           for(v) == {i \in DOMAIN q : q[i].card = v}
           forMore(v) == {i \in DOMAIN more : more[i].card = v}
<1>1. /\ more \in Seq(PayoutRow) /\ DOMAIN more = DOMAIN q \cup {n} /\ n \notin DOMAIN q
      /\ more[n] = r /\ \A i \in DOMAIN q : more[i] = q[i]
  OBVIOUS
<1>2. forMore(r.card) = for(r.card) \cup {n} /\ \A v : v # r.card => forMore(v) = for(v)
  <2> HIDE DEF more, n
  <2> QED BY <1>1
<1>3. \A v : IsFiniteSet(for(v)) /\ for(v) \subseteq DOMAIN q /\ n \notin for(v)
  BY <1>1, PayoutFacts, FS_Subset
<1>4. \A i \in DOMAIN q : f[i] \in Int /\ f[i] = q[i].amount
  BY PayoutFacts
<1>5. \A i \in DOMAIN more : g[i] \in Int /\ g[i] = more[i].amount
  <2> HIDE DEF more
  <2> QED BY <1>1, PayoutFacts
<1> HIDE DEF n, more, f, g, for, forMore
<1>6. \A i \in DOMAIN q : f[i] = g[i]
  BY <1>1, <1>4, <1>5
<1>7. \A v : SumOf(f, for(v)) = SumOf(g, for(v)) /\ SumOf(f, for(v)) \in Int
  <2> SUFFICES ASSUME NEW v PROVE SumOf(f, for(v)) = SumOf(g, for(v)) /\ SumOf(f, for(v)) \in Int
    OBVIOUS
  <2>1. IsFiniteSet(for(v)) /\ \A i \in for(v) : f[i] = g[i] /\ f[i] \in Int
    BY <1>3, <1>4, <1>6
  <2> QED BY <2>1, SumSame, SumInt
<1>8. SumOf(g, for(r.card) \cup {n}) = SumOf(g, for(r.card)) + r.amount
  <2>1. g[n] = r.amount /\ \A i \in for(r.card) \cup {n} : g[i] \in Int
    BY <1>1, <1>3, <1>5
  <2> QED BY <1>3, <2>1, SumGrown
<1>9. \A v : PaidFor(q, v) = SumOf(f, for(v)) /\ PaidFor(more, v) = SumOf(g, forMore(v))
  BY DEF PaidFor, f, g, for, forMore
<1>10. /\ PaidFor(more, r.card) = PaidFor(q, r.card) + r.amount
       /\ \A v : v # r.card => PaidFor(more, v) = PaidFor(q, v)
       /\ \A v : PaidFor(q, v) \in Int
  BY <1>2, <1>7, <1>8, <1>9
<1> QED BY <1>10 DEF more

\* A payout that keeps its card and its amount is the same to the balances.
LEMMA SamePayouts ==
  ASSUME NEW q \in Seq(PayoutRow), NEW u \in Seq(PayoutRow), DOMAIN u = DOMAIN q,
         \A i \in DOMAIN q : u[i].card = q[i].card /\ u[i].amount = q[i].amount
  PROVE  AmountsOf(u) = AmountsOf(q) /\ \A v : PaidFor(u, v) = PaidFor(q, v)
<1>1. AmountsOf(u) = AmountsOf(q)
  BY DEF AmountsOf
<1>2. \A v : {i \in DOMAIN u : u[i].card = v} = {i \in DOMAIN q : q[i].card = v}
  OBVIOUS
<1> QED BY <1>1, <1>2 DEF PaidFor

\* What was paid, in all, is what was paid for the weeks and for none.
LEMMA PaidSplits ==
  ASSUME payouts \in Seq(PayoutRow)
  PROVE  /\ SumOf(AmountsOf(payouts), DOMAIN payouts) = SumOf(Paids, Weeks) + Spent
         /\ SumOf(Paids, Weeks) \in Int /\ Spent \in Int /\ \A w \in Weeks : Paids[w] \in Int
<1> DEFINE f == AmountsOf(payouts)
           D == DOMAIN payouts
           of == [i \in D |-> payouts[i].card]
           G == {0} \cup Weeks
           by == [v \in G |-> SumOf(f, {i \in D : of[i] = v})]
<1>1. IsFiniteSet(D) /\ \A i \in D : f[i] \in Int
  BY PayoutFacts
<1>2. \A i \in D : of[i] \in G
  <2>1. \A i \in D : payouts[i] \in PayoutRow
    OBVIOUS
  <2>2. \A i \in D : payouts[i].card \in G
    BY <2>1 DEF PayoutRow
  <2> HIDE DEF D, G
  <2> QED BY <2>2
<1>3. IsFiniteSet(G) /\ 0 \notin Weeks
  <2>1. IsFiniteSet(Weeks \cup {0})
    BY FiniteParts, FS_AddElement
  <2>2. Weeks \cup {0} = G
    OBVIOUS
  <2> QED BY <2>1, <2>2, WeeksAreNumbers
<1>4. SumOf(by, G) = SumOf(f, D)
  <2> HIDE DEF f, D, of, G
  <2> QED BY <1>1, <1>2, <1>3, SumGrouped
<1>5. \A v \in G : by[v] = PaidFor(payouts, v)
  <2>1. \A v \in G : {i \in D : of[i] = v} = {i \in DOMAIN payouts : payouts[i].card = v}
    OBVIOUS
  <2> QED BY <2>1 DEF PaidFor
<1>6. \A v \in G : PaidFor(payouts, v) \in Int
  <2>1. \A v \in G : IsFiniteSet({i \in D : payouts[i].card = v})
    BY <1>1, FS_Subset
  <2> QED BY <1>1, <2>1, SumInt DEF PaidFor
<1>7. Paids = [w \in Weeks |-> PaidFor(payouts, w)] /\ Spent = PaidFor(payouts, 0)
  BY PaidsAre
<1> HIDE DEF by, f, D, of
<1>8. \A w \in Weeks : by[w] = Paids[w] /\ Paids[w] \in Int
  BY <1>5, <1>6, <1>7
<1>9. by[0] = Spent /\ Spent \in Int
  BY <1>5, <1>6, <1>7
<1>10. SumOf(by, Weeks) = SumOf(Paids, Weeks) /\ SumOf(Paids, Weeks) \in Int
  BY <1>8, FiniteParts, SumSame, SumInt
<1>11. SumOf(by, Weeks \cup {0}) = SumOf(by, Weeks) + by[0]
  BY <1>3, <1>8, <1>9, FiniteParts, SumGrown
<1>12. Weeks \cup {0} = G
  OBVIOUS
<1> QED BY <1>4, <1>8, <1>9, <1>10, <1>11, <1>12 DEF f, D

-----------------------------------------------------------------------------
(* What a payout may take.                                                 *)

\* The credits that are withheld, and the weeks they are withheld for.
Positive == [w \in Weeks |-> IF CreditOf(w) > 0 THEN CreditOf(w) ELSE 0]
Undecided == {w \in Weeks : ~Decided(w)}

\* What the code withholds is their sum ...
LEMMA PendingIs == Pending = SumOf(Positive, Undecided)
<1> DEFINE F(w) == IF CreditOf(w) > 0 THEN CreditOf(w) ELSE 0
           S == Undecided
<1>1. Pending =
        (CHOOSE h : h = [s \in SUBSET S |-> IF s = {} THEN 0 ELSE F(OneOf(s)) + h[s \ {OneOf(s)}]])[S]
  BY Zenon DEF Pending, MapThenSumSet, MapThenFoldSet, OneOf, Undecided
<1>2. ASSUME NEW s \in SUBSET S, s # {} PROVE F(OneOf(s)) = Positive[OneOf(s)]
  BY <1>2, OneOfIsIn DEF Positive, Undecided
<1> HIDE DEF F, S
<1>3. (CHOOSE h : h = [s \in SUBSET S |-> IF s = {} THEN 0 ELSE F(OneOf(s)) + h[s \ {OneOf(s)}]])
        = CHOOSE h : Iterates(h, Positive, S)
  BY <1>2, Zenon DEF Iterates
<1> QED BY <1>1, <1>3, SumIsIterate DEF S

\* ... and so is what the promise holds back.
LEMMA HeldIs == Promise!Held = SumOf(Positive, Undecided)
<1> DEFINE F(w) == Promise!Atop0([v \in Weeks |-> CreditOf(v)][w])
           S == {c \in Weeks : [w \in Weeks |-> PhaseOf(w)][c] = "open"}
<1>1. Promise!Held =
        (CHOOSE h : h = [s \in SUBSET S |-> IF s = {} THEN 0 ELSE F(OneOf(s)) + h[s \ {OneOf(s)}]])[S]
  BY Zenon DEF Promise!Held, Promise!MapThenSumSet, Promise!MapThenFoldSet, OneOf
<1>2. S = Undecided
  BY DEF Undecided, PhaseOf, Decided
<1>3. ASSUME NEW s \in SUBSET S, s # {} PROVE F(OneOf(s)) = Positive[OneOf(s)]
  <2>1. OneOf(s) \in Weeks
    BY <1>3, OneOfIsIn
  <2> HIDE DEF S
  <2> QED BY <2>1 DEF Positive, Promise!Atop0
<1> HIDE DEF F, S
<1>4. (CHOOSE h : h = [s \in SUBSET S |-> IF s = {} THEN 0 ELSE F(OneOf(s)) + h[s \ {OneOf(s)}]])
        = CHOOSE h : Iterates(h, Positive, S)
  BY <1>3, Zenon DEF Iterates
<1> QED BY <1>1, <1>2, <1>4, SumIsIterate

\* The promise's balance is the ledger's.
LEMMA PromisedOwed ==
  ASSUME MoneyInv
  PROVE  Promise!Owed = Owed
<1>1. AccountsOK
  BY MoneyParts
<1>2. Promise!Owed = SumOf(Credits, Weeks) + side - SumOf(Paids, Weeks) - Spent
  BY Zenon DEF Promise!Owed, Promise!Total, Promise!MapThenSumSet, Promise!MapThenFoldSet,
               SumOf, MapThenSumSet, MapThenFoldSet, Credits, Paids, Spent
<1>3. SumOf(Credits, Weeks) = SumOf(CardSums(credit), Weeks) /\ SumOf(Credits, Weeks) \in Int
  <2>1. \A w \in Weeks : Credits[w] = CardSums(credit)[w]
    BY CreditOfIs DEF Credits, CardSums
  <2> QED BY <1>1, <2>1, FiniteParts, SumSame, CardSumFacts DEF AccountsOK
<1>4. Owed = SumOf(Credits, Weeks) + side - (SumOf(Paids, Weeks) + Spent)
  BY <1>1, <1>3, PaidSplits, OwedIs DEF Balance, AccountsOK
<1> DEFINE in == SumOf(Credits, Weeks)
           out == SumOf(Paids, Weeks)
<1>5. in \in Int /\ out \in Int /\ Spent \in Int /\ side \in Int
  BY <1>1, <1>3, PaidSplits DEF AccountsOK
<1>6. Promise!Owed = in + side - out - Spent /\ Owed = in + side - (out + Spent)
  BY <1>2, <1>4
<1> HIDE DEF in, out
<1> QED BY <1>5, <1>6

\* The most that the code pays out is free by the promise.
LEMMA FreeCovers ==
  ASSUME MoneyInv
  PROVE  Promise!Free \in Nat /\ Payable <= Promise!Free /\ Payable \in Int
<1>1. AccountsOK /\ TypeOK
  BY MoneyParts DEF MoneyInv, PayInv
<1>2. Owed \in Int
  BY <1>1, OwedFacts DEF AccountsOK
<1>3. Pending \in Nat /\ Promise!Held = Pending
  <2>1. \A w \in Undecided : Positive[w] \in Nat
    <3>1. \A w \in Weeks : CreditOf(w) \in Nat
      BY <1>1, CorrectionsAddUp
    <3> QED BY <3>1 DEF Undecided, Positive
  <2>2. IsFiniteSet(Undecided)
    BY FiniteParts, FS_Subset DEF Undecided
  <2> QED BY <2>1, <2>2, SumNat, PendingIs, HeldIs
<1>4. \A m \in Int : Max({0, m}) = IF m > 0 THEN m ELSE 0
  <2> SUFFICES ASSUME NEW m \in Int PROVE Max({0, m}) = IF m > 0 THEN m ELSE 0
    OBVIOUS
  <2>1. \A x \in {0, m} : (\A y \in {0, m} : x >= y) => x = IF m > 0 THEN m ELSE 0
    OBVIOUS
  <2>2. \E x \in {0, m} : \A y \in {0, m} : x >= y
    <3>1. m > 0 \/ ~(m > 0)
      OBVIOUS
    <3> QED BY <3>1
  <2> QED BY <2>1, <2>2 DEF Max
<1>5. \A a \in Int, b \in Nat : Min({a, a - b}) = a - b
  <2> SUFFICES ASSUME NEW a \in Int, NEW b \in Nat PROVE Min({a, a - b}) = a - b
    OBVIOUS
  <2>1. \A x \in {a, a - b} : (\A y \in {a, a - b} : x =< y) => x = a - b
    OBVIOUS
  <2>2. a - b =< a /\ a - b =< a - b
    OBVIOUS
  <2> QED BY <2>1, <2>2 DEF Min
<1>6. Payable = IF Owed - Pending > 0 THEN Owed - Pending ELSE 0
  BY <1>2, <1>3, <1>4, <1>5 DEF Payable
<1>7. Promise!Free = IF Owed - Pending > 0 THEN Owed - Pending ELSE 0
  <2>1. Promise!Free = Promise!Atop0(IF Promise!Held > 0 THEN Promise!Owed - Promise!Held ELSE Promise!Owed)
    BY DEF Promise!Free
  <2>2. Promise!Free = Promise!Atop0(Owed - Pending)
    BY <1>2, <1>3, <2>1, PromisedOwed
  <2> QED BY <2>2 DEF Promise!Atop0
<1> QED BY <1>2, <1>3, <1>6, <1>7

-----------------------------------------------------------------------------
(* Steps of the promise.                                                   *)

\* The promise's state.
PromiseState == <<Phases, Credits, Paids, Spent, side>>

\* What a step leaves alone here it leaves alone there.
LEMMA LedgerMaps ==
  /\ credit' = credit => Credits' = Credits
  /\ payouts' = payouts => Paids' = Paids /\ Spent' = Spent
  /\ card' = card => Phases' = Phases
<1>1. credit' = credit => Credits' = Credits
  BY CreditOfIs DEF Credits
<1>2. payouts' = payouts => Paids' = Paids /\ Spent' = Spent
  BY PaidsAre
<1>3. card' = card => Phases' = Phases
  BY DEF Phases, PhaseOf
<1> QED BY <1>1, <1>2, <1>3

\* A card's status is its week's phase.
LEMMA PhasesAfter ==
  ASSUME AccountsOK, NEW w \in Weeks,
         NEW s \in {"none", "pending", "approved", "paid", "closed", "disputed"}, SetStatus(w, s)
  PROVE  Phases' = [Phases EXCEPT ![w] = IF s = "approved" THEN "released"
                                         ELSE IF s \in {"paid", "closed"} THEN "settled" ELSE "open"]
<1>1. card'[w].status = s /\ \A v \in Weeks \ {w} : card'[v] = card[v]
  BY StatusType DEF AccountsOK
<1> QED BY <1>1 DEF Phases, PhaseOf

\* A decision that pays nothing.
LEMMA DecisionPromise ==
  ASSUME MoneyInv, NEW w \in Weeks, Approve(w) \/ Close(w) \/ Dispute(w)
  PROVE  Promise!Next \/ UNCHANGED PromiseState
<1>1. AccountsOK /\ UNCHANGED <<credit, payouts, side>>
  BY MoneyParts DEF Approve, Close, Dispute, ledger
<1>2. UNCHANGED <<Credits, Paids, Spent, side>>
  BY <1>1, LedgerMaps
<1>3. ASSUME Approve(w) PROVE Promise!Release(w)
  <2>1. Phases[w] = "open" /\ Phases' = [Phases EXCEPT ![w] = "released"]
    BY <1>1, <1>3, PhasesAfter DEF Approve, Phases, PhaseOf
  <2> QED BY <1>2, <2>1 DEF Promise!Release, Phases, Credits, Paids, Spent
<1>4. ASSUME Close(w) PROVE Promise!Settle(w)
  <2>1. Phases[w] = "released" /\ Phases' = [Phases EXCEPT ![w] = "settled"]
    BY <1>1, <1>4, PhasesAfter DEF Close, Phases, PhaseOf
  <2>2. Paids' = [Paids EXCEPT ![w] = Paids'[w]]
    BY <1>2 DEF Paids
  <2>3. Paids'[w] = 0
    <3>1. PaidFor(payouts, w) = SumOf(AmountsOf(payouts), {})
      <4>1. {i \in DOMAIN payouts : payouts[i].card = w} = {}
        BY <1>4 DEF Close, HasPayout
      <4> QED BY <4>1 DEF PaidFor
    <3> QED BY <1>2, <3>1, PaidsAre, SumEmpty
  <2>4. Paids'[w] \in 0 .. Promise!Free
    BY <2>3, FreeCovers
  <2> QED BY <1>2, <2>1, <2>2, <2>4 DEF Promise!Settle, Phases, Credits, Paids, Spent
<1>5. ASSUME Dispute(w) PROVE Promise!Withhold(w) \/ UNCHANGED PromiseState
  <2>1. Phases' = [Phases EXCEPT ![w] = "open"] /\ card[w].status \in {"pending", "approved"}
    BY <1>1, <1>5, PhasesAfter DEF Dispute
  <2>2. CASE card[w].status = "approved"
    <3>1. Phases[w] = "released"
      BY <2>2 DEF Phases, PhaseOf
    <3> QED BY <1>2, <2>1, <3>1 DEF Promise!Withhold, Phases, Credits, Paids, Spent
  <2>3. CASE card[w].status = "pending"
    <3>1. Phases[w] = "open" /\ Phases = [v \in Weeks |-> Phases[v]]
      BY <2>3 DEF Phases, PhaseOf
    <3>2. Phases' = Phases
      BY <2>1, <3>1
    <3> QED BY <1>2, <3>2 DEF PromiseState
  <2> QED BY <2>1, <2>2, <2>3
<1> QED BY <1>3, <1>4, <1>5 DEF Promise!Next

\* A generated card is work that is credited.
LEMMA GeneratePromise ==
  ASSUME MoneyInv, NEW w \in Weeks, Generate(w)
  PROVE  Promise!Next
<1>1. AccountsOK /\ AccountsOK' /\ UNCHANGED <<payouts, side>>
  BY MoneyParts, GenerateAccounts, GenerateMoney
<1>2. ~Decided(w)
  BY DEF Generate, Skips
<1>3. Phases[w] = "open" /\ Phases' = Phases
  <2> DEFINE s == IF card[w].status = "none" THEN "pending" ELSE card[w].status
             new == [status |-> s, hourly |-> HoursOf(w), bonus |-> BonusOf(w)]
  <2>1. card' = [card EXCEPT ![w] = new] /\ new.status = s
    BY DEF Generate
  <2> HIDE DEF new
  <2>2. card'[w].status = s /\ \A v \in Weeks \ {w} : card'[v] = card[v]
    BY <1>1, <2>1 DEF AccountsOK
  <2>3. PhaseOf(w) = "open" /\ PhaseOf(w)' = "open"
    BY <1>2, <2>2 DEF PhaseOf, Decided
  <2>4. \A v \in Weeks : PhaseOf(v)' = PhaseOf(v)
    BY <2>2, <2>3 DEF PhaseOf
  <2> QED BY <2>3, <2>4 DEF Phases
<1>4. Credits'[w] \in Int /\ Credits' = [Credits EXCEPT ![w] = Credits'[w]]
  <2>1. \A v \in Weeks \ {w} : credit'[v] = credit[v]
    BY <1>1 DEF Generate, AccountsOK
  <2>2. \A v \in Weeks \ {w} : CreditOf(v)' = CreditOf(v)
    BY <2>1, CreditOfIs
  <2>3. CreditOf(w)' \in Int
    <3>1. \A v \in Weeks : CreditOf(v)' = CardSums(credit')[v]
      BY CreditOfIs DEF CardSums
    <3>2. credit' \in [Weeks -> [Projects -> Nat]]
      BY <1>1 DEF AccountsOK
    <3> QED BY <3>1, <3>2, CardSumFacts
  <2> QED BY <2>2, <2>3 DEF Credits
<1>5. UNCHANGED <<Paids, Spent, side>>
  BY <1>1, LedgerMaps
<1>6. Promise!Earn(w)
  BY <1>3, <1>4, <1>5 DEF Promise!Earn, Phases, Credits, Paids, Spent
<1> QED BY <1>6 DEF Promise!Next

\* A payout, for an approved week or for none, takes no more than is free.
LEMMA PayoutPromise ==
  ASSUME MoneyInv, NEW w \in {0} \cup Weeks, NEW a \in 1 .. Payable, NEW how, PayRow(w, a, how) \in PayoutRow,
         Record(w, a, how),
         \/ w = 0 /\ UNCHANGED card
         \/ w \in Weeks /\ card[w].status = "approved" /\ SetStatus(w, "paid") /\ ~HasPayout(w)
  PROVE  Promise!Next
<1> DEFINE r == PayRow(w, a, how)
<1>1. AccountsOK /\ 0 \notin Weeks
  BY MoneyParts, WeeksAreNumbers
<1>2. r \in PayoutRow /\ r.card = w /\ r.amount = a /\ payouts' = Append(payouts, r)
      /\ UNCHANGED <<credit, side>>
  BY DEF Record, PayRow
<1>3. a \in 0 .. Promise!Free
  BY FreeCovers
<1> HIDE DEF r
<1>4. /\ PaidFor(payouts', w) = PaidFor(payouts, w) + a /\ PaidFor(payouts, w) \in Int
      /\ \A v : v # w => PaidFor(payouts', v) = PaidFor(payouts, v)
  BY <1>1, <1>2, PaidForRecord DEF AccountsOK
<1>5. UNCHANGED <<Credits, side>>
  BY <1>2, LedgerMaps
<1>6. CASE w = 0 /\ UNCHANGED card
  <2>1. Spent' - Spent = a
    BY <1>3, <1>4, <1>6, PaidsAre
  <2>2. UNCHANGED <<Phases, Paids>>
    BY <1>1, <1>4, <1>6, PaidsAre, LedgerMaps
  <2>3. Promise!Spend
    BY <1>3, <1>5, <2>1, <2>2 DEF Promise!Spend, Phases, Credits, Paids, Spent
  <2> QED BY <2>3 DEF Promise!Next
<1>7. CASE w \in Weeks /\ card[w].status = "approved" /\ SetStatus(w, "paid") /\ ~HasPayout(w)
  <2>1. Phases[w] = "released" /\ Phases' = [Phases EXCEPT ![w] = "settled"]
    BY <1>1, <1>7, PhasesAfter DEF Phases, PhaseOf
  <2>2. PaidFor(payouts, w) = 0
    <3>1. {i \in DOMAIN payouts : payouts[i].card = w} = {}
      BY <1>7 DEF HasPayout
    <3> QED BY <3>1, SumEmpty DEF PaidFor
  <2>3. Paids'[w] = a /\ Paids' = [Paids EXCEPT ![w] = Paids'[w]] /\ Spent' = Spent
    <3>1. \A v \in Weeks : Paids'[v] = IF v = w THEN a ELSE Paids[v]
      BY <1>3, <1>4, <1>7, <2>2, PaidsAre
    <3>2. Paids' = [v \in Weeks |-> Paids'[v]] /\ Paids = [v \in Weeks |-> Paids[v]]
      BY PaidsAre
    <3>3. Spent' = Spent
      BY <1>1, <1>4, <1>7, PaidsAre
    <3> QED BY <1>7, <3>1, <3>2, <3>3
  <2>4. Paids'[w] \in 0 .. Promise!Free
    BY <1>3, <2>3
  <2>5. Promise!Settle(w)
    BY <1>5, <2>1, <2>3, <2>4 DEF Promise!Settle, Phases, Credits, Paids, Spent
  <2> QED BY <1>7, <2>5 DEF Promise!Next
<1> QED BY <1>6, <1>7

\* Adjustments, bonuses and exchanges move the promise's side sum, or nothing.
LEMMA OtherPromise ==
  ASSUME MoneyInv, MoneyStep
  PROVE  Promise!Next \/ UNCHANGED PromiseState
<1>1. card' = card
  BY DEF MoneyStep, Adjust, AdjustByTool, ReadGoal, SettleGoal, CompleteProject, RequestExchange, ReadBalance,
     Ends, ApproveExchange, RollBack, RejectExchange
<1>2. AccountsOK'
  BY OtherMoney DEF MoneyDone
<1>3. UNCHANGED <<credit, payouts>>
  BY DEF MoneyStep, Adjust, AdjustByTool, ReadGoal, SettleGoal, CompleteProject, RequestExchange, ReadBalance,
     Ends, ApproveExchange, RollBack, RejectExchange, MoveSide, ledger
<1>4. UNCHANGED <<Phases, Credits, Paids, Spent>> /\ side' \in Int
  BY <1>1, <1>2, <1>3, LedgerMaps DEF AccountsOK
<1>5. Promise!Move
  BY <1>4 DEF Promise!Move, Phases, Credits, Paids, Spent
<1> QED BY <1>5 DEF Promise!Next

-----------------------------------------------------------------------------
(* Statements and confirmations.                                           *)

\* Matching a row rewrites a payout's transfer, and no balance sees it.
LEMMA MatchMoney ==
  ASSUME MoneyInv, GreenlightInv, NEW i \in DOMAIN payouts, NEW r \in CsvRows, MatchExisting(i, r)
  PROVE  MoneyInv' /\ UNCHANGED PromiseState
<1> DEFINE p == MatchedRow(i, r)
<1>1. /\ payouts' = [payouts EXCEPT ![i] = p] /\ p \in PayoutRow
      /\ p.card = payouts[i].card /\ p.amount = payouts[i].amount
  BY MatchedRowFacts
<1>2. Free /\ UNCHANGED <<clock, timers, card, credit, side, reached, doneIn, trades>>
  BY DEF MatchExisting
<1>3. TimersOK /\ RestOK /\ AccountsOK
  BY MoneyParts
<1> HIDE DEF p
<1>4. payouts \in Seq(PayoutRow)
  BY <1>3 DEF AccountsOK
<1>5. /\ payouts' \in Seq(PayoutRow) /\ DOMAIN payouts' = DOMAIN payouts /\ Len(payouts') = Len(payouts)
      /\ \A j \in DOMAIN payouts : payouts'[j].card = payouts[j].card /\ payouts'[j].amount = payouts[j].amount
  BY <1>1, <1>4
<1>6. AmountsOf(payouts') = AmountsOf(payouts) /\ \A v : PaidFor(payouts', v) = PaidFor(payouts, v)
  BY <1>4, <1>5, SamePayouts
<1>7. Owed' = Owed /\ \A w \in Weeks : CreditOf(w)' = CreditOf(w)
  BY <1>2, <1>5, <1>6, OwedIs, CreditOfIs DEF Balance
<1>8. CardMatchesLedger'
  BY <1>2, <1>3, <1>7 DEF AccountsOK, CardMatchesLedger
<1>9. AccountsOK'
  BY <1>2, <1>3, <1>5, <1>8 DEF AccountsOK
<1>10. TimersOK' /\ RestOK' /\ ApprovalsOK'
  BY <1>2, <1>3, NoneUnderWay DEF clock, timers, trades, TimersOK, RestOK
<1>11. UNCHANGED PromiseState
  BY <1>2, <1>6, PaidsAre, LedgerMaps DEF PromiseState
<1> QED BY <1>9, <1>10, <1>11, MoneyPartsNext

\* A transfer, confirmed by hand or from a statement, is a payout that was free.
LEMMA ConfirmMoney ==
  ASSUME MoneyInv, NEW w \in {0} \cup Weeks, NEW a, NEW how, ConfirmTransfer(w, a, how),
         how.key \in {None} \cup {d.key : d \in Details} \cup {StatementKey(r) : r \in CsvRows},
         how.ref \in {None} \cup {d.ref : d \in Details \cup CsvRows},
         how.on \in {None} \cup {d.on : d \in Details \cup CsvRows}
  PROVE  MoneyInv' /\ Promise!Next
<1>1. /\ Free /\ a \in 1 .. Payable /\ Record(w, a, how) /\ UNCHANGED <<clock, timers, doneIn, trades>>
      /\ \/ w = 0 /\ UNCHANGED card
         \/ w \in Weeks /\ card[w].status = "approved" /\ SetStatus(w, "paid") /\ ~HasPayout(w)
  BY DEF ConfirmTransfer
<1>2. PayRow(w, a, how) \in PayoutRow
  <2>1. a \in Int
    BY <1>1
  <2> QED BY <2>1 DEF PayRow, PayoutRow
<1>3. Promise!Next
  BY <1>1, <1>2, PayoutPromise
<1>4. AccountsOK'
  BY <1>1, <1>2, RecordAccounts
<1>5. TimersOK' /\ RestOK' /\ ApprovalsOK'
  BY <1>1, MoneyParts, NoneUnderWay DEF clock, timers, trades, TimersOK, RestOK
<1> QED BY <1>3, <1>4, <1>5, MoneyPartsNext

\* Every step of PayWeek is a step of the promise, or none.
LEMMA PayWeekPromise ==
  ASSUME MoneyInv, Next \/ UNCHANGED vars
  PROVE  Promise!Next \/ UNCHANGED PromiseState
<1>1. CASE TimerStep \/ VoidDone \/ NextWeek \/ UNCHANGED vars
  <2>1. UNCHANGED <<card, ledger>>
    BY <1>1 DEF TimerStep, VoidDone, NextWeek, ClockIn, ClockOut, AutoRead, AutoSave, VoidRead, VoidByTool,
       VoidSave, vars
  <2> QED BY <2>1, LedgerMaps DEF ledger, PromiseState
<1>2. CASE Sunday
  <2>1. CASE Skips(week)
    <3>1. UNCHANGED <<card, ledger>>
      BY <1>2, <2>1 DEF Sunday
    <3> QED BY <3>1, LedgerMaps DEF ledger, PromiseState
  <2>2. CASE ~Skips(week)
    BY <1>2, <2>2, GeneratePromise DEF Sunday
  <2> QED BY <2>1, <2>2
<1>3. ASSUME NEW w \in Weeks, GenerateByTool(w) \/ Approve(w) \/ Close(w) \/ Dispute(w) \/ MarkPaid(w)
      PROVE  Promise!Next \/ UNCHANGED PromiseState
  <2>1. CASE GenerateByTool(w)
    BY <2>1, GeneratePromise DEF GenerateByTool
  <2>2. CASE Approve(w) \/ Close(w) \/ Dispute(w)
    BY <2>2, DecisionPromise
  <2>3. CASE MarkPaid(w)
    <3>1. /\ TotalOf(w) \in 1 .. Payable /\ Record(w, TotalOf(w), NoTransfer)
          /\ card[w].status = "approved" /\ SetStatus(w, "paid") /\ ~HasPayout(w)
      BY <2>3 DEF MarkPaid
    <3>2. PayRow(w, TotalOf(w), NoTransfer) \in PayoutRow
      <4>1. TotalOf(w) \in Int
        BY <3>1
      <4> QED BY <4>1 DEF PayRow, NoTransfer, PayoutRow
    <3> QED BY <3>1, <3>2, PayoutPromise
  <2> QED BY <1>3, <2>1, <2>2, <2>3
<1>4. CASE MoneyStep
  BY <1>4, OtherPromise
<1> QED BY <1>1, <1>2, <1>3, <1>4 DEF Next, CardStep

\* So is every step of Greenlight.
LEMMA GreenlightMoney ==
  ASSUME MoneyInv, GreenlightInv, [GNext]_allVars
  PROVE  MoneyInv' /\ (Promise!Next \/ UNCHANGED PromiseState)
<1>1. CASE Next \/ UNCHANGED vars
  <2>1. MoneyInv'
    BY <1>1, MoneyKeeps
  <2> QED BY <1>1, <2>1, PayWeekPromise
<1>2. CASE ConfirmByHand
  <2>1. PICK how \in Details, w \in {0} \cup Weeks : \E a : ConfirmTransfer(w, a, how)
    BY <1>2 DEF ConfirmByHand
  <2> QED BY <2>1, ConfirmMoney
<1>3. ASSUME NEW csv \in SUBSET CsvRows, NEW r \in csv, Reconcile(csv, r)
      PROVE  MoneyInv' /\ (Promise!Next \/ UNCHANGED PromiseState)
  <2> DEFINE how == [key |-> StatementKey(r), ref |-> r.ref, on |-> r.on]
  <2>1. \/ \E i \in DOMAIN payouts : MatchExisting(i, r)
        \/ \E w \in {0} \cup Weeks : ConfirmTransfer(w, r.amount, how)
    BY <1>3 DEF Reconcile
  <2>2. /\ how.key \in {None} \cup {d.key : d \in Details} \cup {StatementKey(x) : x \in CsvRows}
        /\ how.ref \in {None} \cup {d.ref : d \in Details \cup CsvRows}
        /\ how.on \in {None} \cup {d.on : d \in Details \cup CsvRows}
    OBVIOUS
  <2> HIDE DEF how
  <2> QED BY <2>1, <2>2, ConfirmMoney, MatchMoney
<1> QED BY <1>1, <1>2, <1>3 DEF GNext, allVars

\* The promise starts where the code does.
LEMMA PromiseInit == Init => Promise!Init
<1> SUFFICES ASSUME Init PROVE Promise!Init
  OBVIOUS
<1>1. card = [w \in Weeks |-> [status |-> "none", hourly |-> 0, bonus |-> 0]] /\ payouts = <<>> /\ side = 0
  BY DEF Init
<1>2. Phases = [w \in Weeks |-> "open"]
  BY <1>1 DEF Phases, PhaseOf
<1>3. Credits = [w \in Weeks |-> 0]
  <2>1. \A w \in Weeks : CreditOf(w) = 0
    BY <1>1, MoneyInit, MoneyParts DEF AccountsOK, CardMatchesLedger
  <2> QED BY <2>1 DEF Credits
<1>4. Paids = [w \in Weeks |-> 0] /\ Spent = 0
  <2>1. \A v : PaidFor(payouts, v) = 0
    <3> SUFFICES ASSUME NEW v PROVE PaidFor(payouts, v) = 0
      OBVIOUS
    <3>1. {i \in DOMAIN payouts : payouts[i].card = v} = {}
      BY <1>1
    <3> QED BY <3>1, SumEmpty DEF PaidFor
  <2> QED BY <2>1, PaidsAre
<1> QED BY <1>1, <1>2, <1>3, <1>4 DEF Promise!Init, Phases, Credits, Paids, Spent

\* Cards, ledger and Greenlight bookkeeping together implement PayPromise: a week is
\* open, released, settled, only a released week is paid and only once, and no payout
\* takes what is withheld for an undecided week.
THEOREM MoneyKeepsPromise == GSpec => KeepsPromise
<1> DEFINE Inv == MoneyInv /\ GreenlightInv
<1>1. GInit => Inv /\ Promise!Init
  BY MoneyInit, GreenlightInit, PromiseInit DEF GInit
<1>2. Inv /\ [GNext]_allVars => Inv'
  BY GreenlightMoney, GreenlightStep
<1>3. Inv /\ [GNext]_allVars => [Promise!Next]_(Promise!vars)
  <2>1. PromiseState' = PromiseState => UNCHANGED (Promise!vars)
    BY DEF PromiseState, Promise!vars, Phases, Credits, Paids, Spent
  <2> QED BY <2>1, GreenlightMoney
<1> QED BY <1>1, <1>2, <1>3, PTL DEF GSpec, KeepsPromise, Promise!Spec
=============================================================================
