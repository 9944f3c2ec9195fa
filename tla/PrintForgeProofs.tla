-------------------------- MODULE PrintForgeProofs --------------------------
(***************************************************************************)
(* Proofs about PrintForge, for every set of requests and rows and every   *)
(* number of prints.  Whatever happens, Coins and prints stay together.    *)
(***************************************************************************)
EXTENDS PrintForge, TLAPS

USE ForgeConstants

-----------------------------------------------------------------------------
(* Types.                                                                  *)

Trackers == [job : Jobs \cup {None}, resumed : BOOLEAN, last : Live \cup {"off"}]

\* A tracker that has handled a report has the row it had, or an open one.
LEMMA ResumedFacts ==
  ASSUME TypeOK
  PROVE  /\ Resumed \in Trackers
         /\ Resumed.resumed
         /\ Resumed.job = tracker.job \/ (Resumed.job \in Jobs /\ Open(Resumed.job))
<1> DEFINE j == CHOOSE k \in Jobs : Open(k)
<1>1. CASE tracker.resumed \/ ~\E k \in Jobs : Open(k) /\ SamePrint(k)
  <2>1. Resumed = [tracker EXCEPT !.resumed = TRUE]
    BY <1>1 DEF Resumed
  <2> QED BY <2>1 DEF TypeOK, Trackers
<1>2. CASE ~(tracker.resumed \/ ~\E k \in Jobs : Open(k) /\ SamePrint(k))
  <2>1. j \in Jobs /\ Open(j)
    BY <1>2
  <2>2. Resumed = [job |-> j, resumed |-> TRUE, last |-> job[j].raw]
    BY <1>2 DEF Resumed
  <2>3. job[j].raw \in Live
    BY <2>1 DEF TypeOK, Open, Row
  <2> HIDE DEF j
  <2> QED BY <2>1, <2>2, <2>3 DEF Trackers
<1> QED BY <1>1, <1>2

LEMMA EdgeType ==
  ASSUME NEW last, NEW state \in Ends \cup {"running", "paused"}
  PROVE  Edge(last, state) \in Ends \cup {"running", "paused"}
BY DEF Edge

LEMMA MatchType ==
  ASSUME NEW st
  PROVE  /\ MatchIn(st) \in Requests \cup {None}
         /\ MatchIn(st) # None => st[MatchIn(st)] \in Bindable
BY DEF MatchIn

\* The columns of a row that may change.
LEMMA RowUpdates ==
  ASSUME NEW row \in Row, NEW r \in Requests \cup {None}, NEW b \in BOOLEAN, NEW l \in Live,
         NEW s \in Ends \cup {"running", "paused"}
  PROVE  /\ [row EXCEPT !.link = r] \in Row
         /\ [row EXCEPT !.fresh = b] \in Row
         /\ [row EXCEPT !.debited = b] \in Row
         /\ [row EXCEPT !.state = s] \in Row
         /\ [row EXCEPT !.fresh = b, !.raw = l] \in Row
         /\ [row EXCEPT !.open = b, !.state = s] \in Row
BY DEF Row

LEMMA ClosedRow ==
  ASSUME NEW row \in Row
  PROVE  /\ Closed(row) \in Row
         /\ Closed(row).link = row.link /\ Closed(row).run = row.run
         /\ ~Closed(row).open
         /\ Closed(row).debited <=> row.link # None
BY DEF Closed, Row, Ends

LEMMA OpenJobType ==
  ASSUME TypeOK, NEW t \in Trackers, NEW j \in Jobs, OpenJob(t, j), Printing,
         UNCHANGED <<coins, printer, link, closing, desk>>, told' = TRUE
  PROVE  TypeOK'
<1> DEFINE left == {k \in Jobs : Open(k)}
           st   == [r \in Requests |-> IF \E k \in left : job[k].link = r
                                       THEN "failed" ELSE status[r]]
           m    == MatchIn(st)
           row  == [open |-> TRUE, run |-> printer.run, plate |-> printer.plate, link |-> m,
                    state |-> Edge(t.last, "running"), raw |-> printer.phase,
                    fresh |-> TRUE, debited |-> FALSE]
<1>1. row \in Row
  <2>1. m \in Requests \cup {None}
    BY MatchType
  <2>2. Edge(t.last, "running") \in Ends \cup {"running", "paused"}
    BY EdgeType
  <2>3. printer.run \in 1 .. MaxRuns /\ printer.plate \in Requests \cup {Other} /\ printer.phase \in Live
    BY DEF TypeOK, Printing
  <2> QED BY <2>1, <2>2, <2>3 DEF Row
<1>2. job' \in [Jobs -> Row \cup {None}]
  <2>1. job' = [k \in Jobs |-> IF k = j THEN row ELSE IF k \in left THEN Closed(job[k]) ELSE job[k]]
    BY DEF OpenJob
  <2>2. \A k \in left : job[k] \in Row
    BY DEF Open, TypeOK
  <2>3. \A k \in left : Closed(job[k]) \in Row
    BY <2>2, ClosedRow
  <2> QED BY <1>1, <2>1, <2>3 DEF TypeOK
<1>3. debits' \in [1 .. MaxRuns -> 0 .. 2]
  <2>1. \A n \in 1 .. MaxRuns : Bill(n) \in 0 .. 2
    BY DEF Bill, TypeOK
  <2> QED BY <2>1 DEF OpenJob, TypeOK
<1>4. st \in [Requests -> Statuses]
  BY DEF TypeOK, Statuses, Bindable
<1>5. status' \in [Requests -> Statuses] /\ \A r \in Requests : status'[r] = "quoted" => status[r] = "quoted"
  <2>1. status' = [s \in Requests |-> IF s = m THEN "printing" ELSE st[s]]
    BY DEF OpenJob
  <2> QED BY <1>4, <2>1 DEF Statuses, Bindable
<1>6. started' \in [Requests -> BOOLEAN]
  BY DEF OpenJob, TypeOK
<1>7. tracker' \in Trackers
  BY DEF OpenJob, Trackers, Printing
<1> QED BY <1>2, <1>3, <1>5, <1>6, <1>7 DEF TypeOK, Trackers, Printing

\* A report for a row it has: nothing but the state, the raw state and the
\* freshness of that row can change.
LEMMA ObserveRows ==
  ASSUME TypeOK, NEW t \in Trackers, NEW moved, Observe(t, moved), Printing
  PROVE  /\ job' \in [Jobs -> Row \cup {None}]
         /\ \A k \in Jobs :
              /\ job[k] = None => job'[k] = None
              /\ job[k] # None => /\ job'[k] \in Row
                                  /\ job'[k].open = job[k].open /\ job'[k].run = job[k].run
                                  /\ job'[k].link = job[k].link /\ job'[k].debited = job[k].debited
              /\ k # t.job => job'[k] = job[k]
<1> DEFINE Seen1(k) == [job[k] EXCEPT !.state = Edge(t.last, @)]
           Moved(k) == [Seen1(k) EXCEPT !.fresh = TRUE, !.raw = printer.phase]
<1>1. job' = [k \in Jobs |-> IF k # t.job \/ job[k] = None THEN job[k]
                             ELSE IF moved THEN Moved(k) ELSE Seen1(k)]
  BY DEF Observe
<1>2. ASSUME NEW k \in Jobs, job[k] # None
      PROVE  /\ Seen1(k) \in Row
             /\ Seen1(k).open = job[k].open /\ Seen1(k).run = job[k].run
             /\ Seen1(k).link = job[k].link /\ Seen1(k).debited = job[k].debited
  <2>1. job[k] \in Row
    BY <1>2 DEF TypeOK
  <2>2. job[k].state \in Ends \cup {"running", "paused"}
    BY <2>1 DEF Row
  <2>3. Edge(t.last, job[k].state) \in Ends \cup {"running", "paused"}
    BY <2>2, EdgeType
  <2> QED BY <2>1, <2>3 DEF Row
<1>3. ASSUME NEW row \in Row
      PROVE  LET new == [row EXCEPT !.fresh = TRUE, !.raw = printer.phase] IN
             /\ new \in Row
             /\ new.open = row.open /\ new.run = row.run
             /\ new.link = row.link /\ new.debited = row.debited
  BY DEF Row, Printing
<1> HIDE DEF Seen1
<1>4. ASSUME NEW k \in Jobs, job[k] # None
      PROVE  /\ Moved(k) \in Row
             /\ Moved(k).open = job[k].open /\ Moved(k).run = job[k].run
             /\ Moved(k).link = job[k].link /\ Moved(k).debited = job[k].debited
  BY <1>2, <1>3, <1>4
<1> HIDE DEF Moved
<1> QED BY <1>1, <1>2, <1>4 DEF TypeOK

LEMMA ObserveType ==
  ASSUME TypeOK, NEW t \in Trackers, NEW moved \in BOOLEAN, Observe(t, moved), Printing,
         UNCHANGED <<coins, printer, link, closing, desk>>, told' = TRUE
  PROVE  TypeOK'
<1>1. job' \in [Jobs -> Row \cup {None}]
  BY ObserveRows
<1>2. tracker' \in Trackers
  BY DEF Observe, Trackers, Printing
<1> QED BY <1>1, <1>2 DEF TypeOK, Trackers, Observe, Printing

LEMMA CopyType ==
  ASSUME TypeOK, NEW j \in Jobs, job[j] # None, NEW end \in Ends
  PROVE  Copy(j, end) \in Copies
BY DEF Copy, Copies, TypeOK, Row

LEMMA ReportStoppedType ==
  ASSUME TypeOK, ReportStopped PROVE TypeOK'
<1> DEFINE t == Resumed
<1>1. t \in Trackers
  BY ResumedFacts
<1>2. Outcome \in Ends
  BY DEF Outcome, Ends
<1>3. tracker' = [t EXCEPT !.job = None, !.last = "off"]
      /\ closing' = [closing EXCEPT !["tracker"] =
                       IF t.job # None /\ Open(t.job) THEN Copy(t.job, Outcome) ELSE None]
      /\ told' = TRUE
      /\ UNCHANGED <<status, coins, started, job, printer, link, desk, debits>>
  BY DEF ReportStopped, asked
<1> HIDE DEF t
<1>4. tracker' \in Trackers
  BY <1>1, <1>3 DEF Trackers
<1>5. t.job # None /\ Open(t.job) => Copy(t.job, Outcome) \in Copies
  BY <1>1, <1>2, CopyType DEF Trackers, Open
<1>6. closing' \in [Closers -> Copies \cup {None}]
  BY <1>3, <1>5 DEF TypeOK
<1> QED BY <1>3, <1>4, <1>6 DEF TypeOK, Trackers, Printing

LEMMA CloseType ==
  ASSUME TypeOK, NEW c \in Closers, Step(c) PROVE TypeOK'
<1>1. ASSUME NEW x \in Copies \cup {None}, closing' = [closing EXCEPT ![c] = x]
      PROVE  closing' \in [Closers -> Copies \cup {None}]
  BY <1>1 DEF TypeOK
<1>2. CASE SaveEnd(c)
  <2>1. closing[c] \in Copies /\ job[closing[c].job] \in Row /\ closing[c].job \in Jobs
        /\ closing[c].end \in Ends
    BY <1>2 DEF SaveEnd, TypeOK, Copies
  <2>2. [closing[c] EXCEPT !.saved = TRUE] \in Copies
    BY <2>1 DEF Copies
  <2>3. [job[closing[c].job] EXCEPT !.open = FALSE, !.state = closing[c].end] \in Row
    BY <2>1 DEF Row
  <2>4. closing' = [closing EXCEPT ![c] = [closing[c] EXCEPT !.saved = TRUE]]
    BY <1>2 DEF SaveEnd, TypeOK
  <2>5. job' = [job EXCEPT ![closing[c].job] =
                  [job[closing[c].job] EXCEPT !.open = FALSE, !.state = closing[c].end]]
    BY <1>2 DEF SaveEnd, TypeOK
  <2>6. closing' \in [Closers -> Copies \cup {None}]
    BY <1>1, <2>2, <2>4
  <2>7. job' \in [Jobs -> Row \cup {None}]
    BY <2>3, <2>5 DEF TypeOK
  <2>8. UNCHANGED <<status, coins, started, printer, link, told, tracker, desk, debits>>
    BY <1>2 DEF SaveEnd, asked, machine
  <2> QED BY <2>6, <2>7, <2>8 DEF TypeOK, Printing
<1>3. CASE CloseOut(c)
  <2> DEFINE s == closing[c]
  <2>1. s \in Copies /\ job[s.job] \in Row /\ s.job \in Jobs /\ s.link \in Requests \cup {None}
    BY <1>3 DEF CloseOut, TypeOK, Copies
  <2>2. closing' \in [Closers -> Copies \cup {None}]
    BY <1>1, <1>3 DEF CloseOut
  <2>3. CASE s.link = None \/ s.debited
    BY <1>3, <2>2, <2>3 DEF CloseOut, Settled, TypeOK, machine, Printing
  <2>4. CASE ~(s.link = None \/ s.debited)
    <3>1. job' = [job EXCEPT ![s.job] = [job[s.job] EXCEPT !.debited = TRUE]]
          /\ debits' = [debits EXCEPT ![job[s.job].run] = Bill(job[s.job].run)]
          /\ status' = [status EXCEPT ![s.link] = Verdict(s.end)]
      BY <1>3, <2>1, <2>4 DEF CloseOut, Settled, Becomes, TypeOK
    <3>2. [job[s.job] EXCEPT !.debited = TRUE] \in Row /\ job[s.job].run \in 1 .. MaxRuns
      BY <2>1 DEF Row
    <3>3. Bill(job[s.job].run) \in 0 .. 2
      BY <3>2 DEF Bill, TypeOK
    <3>4. Verdict(s.end) \in Statuses \ {"quoted"}
      BY DEF Verdict, Statuses, Bindable
    <3>5. UNCHANGED <<coins, started, printer, link, told, tracker, desk>>
      BY <1>3 DEF CloseOut, machine
    <3>6. job' \in [Jobs -> Row \cup {None}]
      BY <2>1, <3>1, <3>2 DEF TypeOK
    <3>7. debits' \in [1 .. MaxRuns -> 0 .. 2]
      BY <3>1, <3>2, <3>3 DEF TypeOK
    <3>8. status' \in [Requests -> Statuses] /\ \A r \in Requests : status'[r] = "quoted" => status[r] = "quoted"
      BY <2>1, <2>4, <3>1, <3>4 DEF TypeOK
    <3> QED BY <2>2, <3>5, <3>6, <3>7, <3>8 DEF TypeOK, Printing
  <2> QED BY <2>3, <2>4
<1>4. CASE Abort(c)
  <2>1. closing' \in [Closers -> Copies \cup {None}]
    BY <1>1, <1>4 DEF Abort
  <2> QED BY <1>4, <2>1 DEF Abort, TypeOK, asked, machine, Printing
<1> QED BY <1>2, <1>3, <1>4 DEF Step

\* What the view reads of a row and of its request.
LEMMA SeenType ==
  ASSUME TypeOK, NEW j \in Jobs, job[j] # None
  PROVE  /\ Seen(j) \in [open : BOOLEAN, link : Requests \cup {None}, debited : BOOLEAN, printing : BOOLEAN]
         /\ Seen(j).printing => Seen(j).link # None /\ status[Seen(j).link] = "printing"
<1>1. job[j] \in Row /\ None \notin Requests
  BY ForgeConstants DEF TypeOK
<1> QED BY <1>1 DEF Seen, Row

\* A job's row after its link was set or taken away.
LEMMA Relinked ==
  ASSUME TypeOK, NEW j \in Jobs, job[j] # None, NEW r \in Requests \cup {None},
         job' = [job EXCEPT ![j].link = r]
  PROVE  /\ job' = [job EXCEPT ![j] = [job[j] EXCEPT !.link = r]]
         /\ [job[j] EXCEPT !.link = r].link = r
         /\ job' \in [Jobs -> Row \cup {None}]
<1>1. job[j] \in Row
  BY DEF TypeOK
<1>2. job' = [job EXCEPT ![j] = [job[j] EXCEPT !.link = r]]
  BY DEF TypeOK
<1>3. [job[j] EXCEPT !.link = r] \in Row /\ [job[j] EXCEPT !.link = r].link = r
  BY <1>1 DEF Row
<1> QED BY <1>2, <1>3 DEF TypeOK

\* A link made by hand, or a row deleted, keeps the types.
LEMMA LinkOrDeleteType ==
  ASSUME TypeOK, NEW j \in Jobs, job[j] # None, NEW seen, LinkOrDelete(j, seen),
         desk' = desk \/ desk' = None
  PROVE  TypeOK'
<1>1. ASSUME NEW r \in Requests, LinkJob(j, r, seen) PROVE TypeOK'
  <2>1. job' \in [Jobs -> Row \cup {None}]
    BY <1>1, Relinked DEF LinkJob
  <2>2. status' \in [Requests -> Statuses] /\ \A q \in Requests : status'[q] = "quoted" => status[q] = "quoted"
    BY <1>1 DEF LinkJob, TypeOK, Statuses, Bindable
  <2>3. started' \in [Requests -> BOOLEAN]
    BY <1>1 DEF LinkJob, TypeOK
  <2> QED BY <1>1, <2>1, <2>2, <2>3 DEF LinkJob, TypeOK, machine, Printing
<1>2. CASE DeleteJob(j, seen)
  BY <1>2 DEF DeleteJob, TypeOK, asked, machine, Printing
<1> QED BY <1>1, <1>2 DEF LinkOrDelete

\* So does a link taken away.
LEMMA UnlinkType ==
  ASSUME TypeOK, NEW j \in Jobs, job[j] # None, NEW seen, NEW alone, UnlinkJob(j, seen, alone),
         desk' = desk \/ desk' = None
  PROVE  TypeOK'
<1>1. job' \in [Jobs -> Row \cup {None}]
  BY Relinked DEF UnlinkJob
<1>2. status' \in [Requests -> Statuses] /\ \A q \in Requests : status'[q] = "quoted" => status[q] = "quoted"
  BY DEF UnlinkJob, TypeOK, Statuses, Bindable
<1> QED BY <1>1, <1>2 DEF UnlinkJob, TypeOK, machine, Printing

\* Every step of the desk keeps the types.
LEMMA DeskType ==
  ASSUME TypeOK, Desk PROVE TypeOK'
<1>0. ASSUME desk # None PROVE desk \in Desks /\ desk.job \in Jobs
  BY <1>0 DEF TypeOK, Desks
<1>1. ASSUME NEW j \in Jobs, DeskAtOnce(j) PROVE TypeOK'
  BY <1>1, LinkOrDeleteType, UnlinkType DEF DeskAtOnce
<1>2. ASSUME NEW j \in Jobs, DeskRead(j) PROVE TypeOK'
  <2> DEFINE seen == Seen(j)
  <2>1. /\ seen \in [open : BOOLEAN, link : Requests \cup {None}, debited : BOOLEAN, printing : BOOLEAN]
        /\ seen.printing => seen.link # None
    BY <1>2, SeenType DEF DeskRead
  <2>2. desk' = [job |-> j, held |-> FALSE, alone |-> FALSE, seen |-> seen]
        /\ UNCHANGED <<asked, job, machine, tracker, closing, debits>>
    BY <1>2 DEF DeskRead
  <2> HIDE DEF seen
  <2>3. desk' \in Desks /\ (desk'.seen.printing => desk'.seen.link # None)
    BY <2>1, <2>2 DEF Desks
  <2> QED BY <2>2, <2>3 DEF TypeOK, asked, machine, Printing
<1>3. CASE DeskHold
  <2> DEFINE a == Alone(desk.job, desk.seen.link)
  <2>1. a \in BOOLEAN
    BY DEF Alone
  <2>2. desk # None /\ desk' = [desk EXCEPT !.held = TRUE, !.alone = a]
        /\ UNCHANGED <<asked, job, machine, tracker, closing, debits>>
    BY <1>3 DEF DeskHold
  <2> HIDE DEF a
  <2>3. desk' \in Desks /\ desk'.seen = desk.seen
    BY <1>0, <2>1, <2>2 DEF Desks
  <2> QED BY <2>2, <2>3 DEF TypeOK, asked, machine, Printing
<1>4. CASE DeskAct
  BY <1>0, <1>4, LinkOrDeleteType, UnlinkType DEF DeskAct
<1>5. CASE DeskEnds
  BY <1>5 DEF DeskEnds, TypeOK, asked, machine, Printing
<1> QED BY <1>1, <1>2, <1>3, <1>4, <1>5 DEF Desk

LEMMA WebType ==
  ASSUME TypeOK, NEW r \in Requests,
         \/ \E priced \in BOOLEAN : Approve(r, priced)
         \/ Exchange(r) \/ Reject(r) \/ Cancel(r) \/ DeleteRequest(r)
  PROVE  TypeOK'
<1>1. ASSUME NEW priced \in BOOLEAN, Approve(r, priced) PROVE TypeOK'
  BY <1>1 DEF Approve, Becomes, TypeOK, Statuses, Bindable, machine, Printing
<1>2. CASE Exchange(r)
  BY <1>2 DEF Exchange, Becomes, TypeOK, Statuses, Bindable, machine, Printing
<1>3. CASE Reject(r)
  BY <1>3 DEF Reject, Becomes, TypeOK, Statuses, Bindable, machine, Printing
<1>4. CASE Cancel(r)
  BY <1>4 DEF Cancel, Becomes, TypeOK, Statuses, Bindable, machine, Printing
<1>5. CASE DeleteRequest(r)
  <2>1. \A j \in Jobs : job[j] # None => [job[j] EXCEPT !.link = None] \in Row
    BY DEF TypeOK, Row
  <2>2. job' \in [Jobs -> Row \cup {None}]
    BY <1>5, <2>1 DEF DeleteRequest, TypeOK
  <2> QED BY <1>5, <2>2 DEF DeleteRequest, Becomes, TypeOK, Statuses, Bindable, machine, Printing
<1> QED BY <1>1, <1>2, <1>3, <1>4, <1>5

LEMMA MachineType ==
  ASSUME TypeOK, Machine PROVE TypeOK'
<1>1. ASSUME NEW plate \in Requests \cup {Other}, StartPrint(plate) PROVE TypeOK'
  <2>1. printer.run \in 0 .. MaxRuns /\ printer.run < MaxRuns
    BY <1>1 DEF StartPrint, TypeOK
  <2>2. printer' = [phase |-> "run", run |-> printer.run + 1, plate |-> plate]
    BY <1>1 DEF StartPrint, Turn
  <2>3. printer' \in [phase : Live \cup {"idle", "finish", "failed", "cancel"},
                      run : 0 .. MaxRuns, plate : Requests \cup {Other}]
        /\ printer'.run > 0 /\ told' \in BOOLEAN
    <3>1. printer.run + 1 \in 0 .. MaxRuns /\ printer.run + 1 > 0
      BY <2>1
    <3>2. told' = FALSE
      BY <1>1 DEF StartPrint, Turn
    <3> QED BY <2>2, <3>1, <3>2 DEF Live
  <2>4. UNCHANGED <<status, coins, started, job, link, tracker, closing, desk, debits>>
    BY <1>1 DEF StartPrint, asked
  <2> QED BY <2>3, <2>4 DEF TypeOK, Printing
<1>2. CASE PausePrint
  BY <1>2 DEF PausePrint, Turn, TypeOK, asked, Printing, Live
<1>3. CASE ResumePrint
  BY <1>3 DEF ResumePrint, Turn, TypeOK, asked, Printing, Live
<1>4. ASSUME NEW phase \in {"finish", "failed", "cancel"}, EndPrint(phase) PROVE TypeOK'
  BY <1>4 DEF EndPrint, Turn, TypeOK, asked, Printing, Live
<1>5. CASE LoseLink
  BY <1>5 DEF LoseLink, TypeOK, asked, Printing
<1>6. CASE Reconnect
  BY <1>6 DEF Reconnect, TypeOK, asked, Printing
<1>7. CASE Hours
  <2>1. \A j \in Jobs : job[j] # None => [job[j] EXCEPT !.fresh = FALSE] \in Row
    <3>1. \A row \in Row : [row EXCEPT !.fresh = FALSE] \in Row
      BY DEF Row
    <3> QED BY <3>1 DEF TypeOK
  <2>2. job' \in [Jobs -> Row \cup {None}]
    BY <1>7, <2>1 DEF Hours, TypeOK
  <2> QED BY <1>7, <2>2 DEF Hours, TypeOK, asked, machine, Printing
<1> QED BY <1>1, <1>2, <1>3, <1>4, <1>5, <1>6, <1>7 DEF Machine

LEMMA TypeStep ==
  ASSUME TypeOK, [Next]_vars PROVE TypeOK'
<1>1. CASE UNCHANGED vars
  BY <1>1 DEF vars, asked, machine, TypeOK, Printing
<1>2. CASE Web
  BY <1>2, WebType DEF Web
<1>3. CASE Machine
  BY <1>3, MachineType
<1>4. ASSUME NEW moved \in BOOLEAN, ReportPrinting(moved) PROVE TypeOK'
  <2>1. CASE Resumed.job = None
    <3>1. PICK j \in Jobs : OpenJob(Resumed, j)
      BY <1>4, <2>1 DEF ReportPrinting
    <3> QED BY <1>4, <3>1, ResumedFacts, OpenJobType DEF ReportPrinting
  <2>2. CASE Resumed.job # None
    <3>1. Observe(Resumed, moved)
      BY <1>4, <2>2 DEF ReportPrinting
    <3> QED BY <1>4, <3>1, ResumedFacts, ObserveType DEF ReportPrinting
  <2> QED BY <2>1, <2>2
<1>5. CASE ReportStopped
  BY <1>5, ReportStoppedType
<1>6. CASE Restart
  BY <1>6 DEF Restart, FreshTracker, TypeOK, asked, Printing
<1>7. ASSUME NEW j \in Jobs, SweepRead(j) PROVE TypeOK'
  <2>1. Copy(j, "stopped") \in Copies
    BY <1>7, CopyType DEF SweepRead, Open, Ends
  <2> QED BY <1>7, <2>1 DEF SweepRead, TypeOK, asked, machine, Printing
<1>8. ASSUME NEW c \in Closers, Step(c) PROVE TypeOK'
  BY <1>8, CloseType
<1>9. CASE Desk
  BY <1>9, DeskType
<1> QED BY <1>1, <1>2, <1>3, <1>4, <1>5, <1>6, <1>7, <1>8, <1>9 DEF Next, Tracker, Close

-----------------------------------------------------------------------------
(* Coins.  started is never taken back; it is set with every link, and it  *)
(* is what keeps a request that may still be refunded away from a print.   *)

LinkedStarted == \A j \in Jobs : job[j] # None /\ job[j].link # None => started[job[j].link]

CopiesStarted ==
  \A c \in Closers : closing[c] # None /\ closing[c].link # None => started[closing[c].link]

CoinsMatch == \A r \in Requests :
  /\ started[r] => coins[r] \in {"free", "paid"} /\ status[r] \notin {"pending", "quoted"}
  /\ status[r] = "printing" => started[r]
  /\ status[r] \in Bindable => coins[r] \in {"free", "paid"}
  /\ status[r] = "pending" => coins[r] = "free"
  /\ coins[r] = "refunded" => status[r] = "cancelled"

\* A request that unlink may write back to approved had been printing.
DeskStarted == desk # None /\ desk.seen.printing => started[desk.seen.link]

CoinInv == TypeOK /\ LinkedStarted /\ CopiesStarted /\ CoinsMatch /\ DeskStarted

LEMMA LinkTypes ==
  ASSUME TypeOK
  PROVE  /\ \A j \in Jobs : job[j] # None => job[j] \in Row /\ job[j].link \in Requests \cup {None}
         /\ \A c \in Closers : closing[c] # None =>
              closing[c] \in Copies /\ closing[c].job \in Jobs /\ closing[c].link \in Requests \cup {None}
BY DEF TypeOK, Row, Copies

\* A step that links nothing and takes no start back.
LEMMA NothingLinked ==
  ASSUME LinkedStarted, UNCHANGED started,
         \A j \in Jobs : job'[j] # None /\ job'[j].link # None =>
            job[j] # None /\ job[j].link = job'[j].link
  PROVE  LinkedStarted'
BY DEF LinkedStarted

LEMMA WebCoins ==
  ASSUME CoinInv, NEW r \in Requests,
         \/ \E priced \in BOOLEAN : Approve(r, priced)
         \/ Exchange(r) \/ Reject(r) \/ Cancel(r) \/ DeleteRequest(r)
  PROVE  LinkedStarted' /\ CopiesStarted' /\ CoinsMatch'
<1> USE DEF CoinInv
<1>1. ASSUME NEW priced \in BOOLEAN, Approve(r, priced)
      PROVE  LinkedStarted' /\ CopiesStarted' /\ CoinsMatch'
  BY <1>1 DEF Approve, Becomes, LinkedStarted, CopiesStarted, CoinsMatch, TypeOK, Bindable
<1>2. CASE Exchange(r)
  BY <1>2 DEF Exchange, Becomes, LinkedStarted, CopiesStarted, CoinsMatch, TypeOK, Bindable
<1>3. CASE Reject(r)
  BY <1>3 DEF Reject, Becomes, LinkedStarted, CopiesStarted, CoinsMatch, TypeOK, Bindable
<1>4. CASE Cancel(r)
  <2>1. LinkedStarted' /\ CopiesStarted'
    BY <1>4 DEF Cancel, LinkedStarted, CopiesStarted
  <2>2. status' = [status EXCEPT ![r] = "cancelled"] /\ UNCHANGED started
    BY <1>4 DEF Cancel, Becomes
  <2>3. \/ coins' = coins
        \/ /\ ~started[r]
           /\ coins' = [coins EXCEPT ![r] = "refunded"]
    BY <1>4 DEF Cancel, TypeOK
  <2>4. CoinsMatch'
    BY <2>2, <2>3 DEF CoinsMatch, TypeOK, Bindable
  <2> QED BY <2>1, <2>4
<1>5. CASE DeleteRequest(r)
  <2>1. LinkedStarted'
    <3>1. \A j \in Jobs : job'[j] # None /\ job'[j].link # None => job[j] # None /\ job[j].link = job'[j].link
      <4>1. \A j \in Jobs : job[j] # None => [job[j] EXCEPT !.link = None].link = None
        BY DEF TypeOK, Row
      <4> QED BY <1>5, <4>1 DEF DeleteRequest
    <3> QED BY <1>5, <3>1, NothingLinked DEF DeleteRequest
  <2>2. CopiesStarted' /\ CoinsMatch'
    BY <1>5 DEF DeleteRequest, Becomes, CopiesStarted, CoinsMatch, TypeOK, Bindable
  <2> QED BY <2>1, <2>2
<1> QED BY <1>1, <1>2, <1>3, <1>4, <1>5

LEMMA OpenJobCoins ==
  ASSUME CoinInv, NEW t \in Trackers, NEW j \in Jobs, OpenJob(t, j), UNCHANGED <<coins, closing>>
  PROVE  LinkedStarted' /\ CopiesStarted' /\ CoinsMatch'
<1> USE DEF CoinInv
<1> DEFINE left == {k \in Jobs : Open(k)}
           st   == [r \in Requests |-> IF \E k \in left : job[k].link = r
                                       THEN "failed" ELSE status[r]]
           m    == MatchIn(st)
           row  == [open |-> TRUE, run |-> printer.run, plate |-> printer.plate, link |-> m,
                    state |-> Edge(t.last, "running"), raw |-> printer.phase,
                    fresh |-> TRUE, debited |-> FALSE]
<1>1. /\ job' = [k \in Jobs |-> IF k = j THEN row ELSE IF k \in left THEN Closed(job[k]) ELSE job[k]]
      /\ status' = [s \in Requests |-> IF s = m THEN "printing" ELSE st[s]]
      /\ started' = [s \in Requests |-> started[s] \/ s = m]
  BY DEF OpenJob
<1>2. m \in Requests \cup {None} /\ (m # None => st[m] \in Bindable)
  BY MatchType
<1>3. row.link = m
  OBVIOUS
<1>4. \A k \in left : job[k] # None /\ Closed(job[k]).link = job[k].link
  BY LinkTypes, ClosedRow DEF Open
<1> HIDE DEF m, row
<1>5. LinkedStarted'
  <2> SUFFICES ASSUME NEW k \in Jobs, job'[k] # None, job'[k].link # None
               PROVE  started'[job'[k].link]
    BY DEF LinkedStarted
  <2>1. CASE k = j
    BY <1>1, <1>2, <1>3, <2>1
  <2>2. CASE k # j
    <3>1. job[k] # None /\ job'[k].link = job[k].link
      BY <1>1, <1>4, <2>2
    <3> QED BY <1>1, <3>1, LinkTypes DEF LinkedStarted
  <2> QED BY <2>1, <2>2
<1>6. CopiesStarted'
  BY <1>1, LinkTypes DEF CopiesStarted
<1>7. \A r \in Requests : st[r] = status[r] \/ (st[r] = "failed" /\ started[r])
  BY DEF LinkedStarted, Open
<1>8. CoinsMatch'
  <2> SUFFICES ASSUME NEW r \in Requests
               PROVE  /\ started'[r] => coins'[r] \in {"free", "paid"} /\ status'[r] \notin {"pending", "quoted"}
                      /\ status'[r] = "printing" => started'[r]
                      /\ status'[r] \in Bindable => coins'[r] \in {"free", "paid"}
                      /\ status'[r] = "pending" => coins'[r] = "free"
                      /\ coins'[r] = "refunded" => status'[r] = "cancelled"
    BY DEF CoinsMatch
  <2>0. /\ started[r] => coins[r] \in {"free", "paid"} /\ status[r] \notin {"pending", "quoted"}
        /\ status[r] = "printing" => started[r]
        /\ status[r] \in Bindable => coins[r] \in {"free", "paid"}
        /\ status[r] = "pending" => coins[r] = "free"
        /\ coins[r] = "refunded" => status[r] = "cancelled"
    BY DEF CoinsMatch
  <2>1. st[r] \in Bindable => coins[r] \in {"free", "paid"}
    BY <1>7, <2>0
  <2>2. CASE r = m
    <3>1. st[r] \in Bindable /\ status'[r] = "printing" /\ started'[r]
      BY <1>1, <1>2, <2>2
    <3> QED BY <2>1, <3>1
  <2>3. CASE r # m
    <3>1. status'[r] = st[r] /\ started'[r] = started[r]
      BY <1>1, <2>3 DEF TypeOK
    <3> HIDE DEF st
    <3> QED BY <1>7, <2>0, <3>1
  <2> QED BY <2>2, <2>3
<1> QED BY <1>5, <1>6, <1>8

LEMMA ObserveCoins ==
  ASSUME CoinInv, NEW t \in Trackers, NEW moved, Observe(t, moved), Printing, UNCHANGED <<coins, closing>>
  PROVE  LinkedStarted' /\ CopiesStarted' /\ CoinsMatch'
<1> USE DEF CoinInv
<1>1. \A k \in Jobs : job'[k] # None => job[k] # None /\ job'[k].link = job[k].link
  BY ObserveRows
<1>2. LinkedStarted'
  BY <1>1, NothingLinked DEF Observe
<1> QED BY <1>2 DEF Observe, CopiesStarted, CoinsMatch

LEMMA CopyCoins ==
  ASSUME CoinInv, NEW c \in Closers, NEW j \in Jobs, job[j] # None, NEW end \in Ends,
         closing' = [closing EXCEPT ![c] = Copy(j, end)], UNCHANGED started
  PROVE  CopiesStarted'
BY DEF Copy, CoinInv, CopiesStarted, LinkedStarted, TypeOK

LEMMA CloseCoins ==
  ASSUME CoinInv, NEW c \in Closers, Step(c)
  PROVE  LinkedStarted' /\ CopiesStarted' /\ CoinsMatch'
<1> USE DEF CoinInv
<1>1. CASE SaveEnd(c)
  <2>1. closing[c] \in Copies /\ closing[c].job \in Jobs /\ job[closing[c].job] \in Row
    BY <1>1, LinkTypes DEF SaveEnd
  <2>2. job' = [job EXCEPT ![closing[c].job] =
                  [job[closing[c].job] EXCEPT !.open = FALSE, !.state = closing[c].end]]
        /\ closing' = [closing EXCEPT ![c] = [closing[c] EXCEPT !.saved = TRUE]]
        /\ UNCHANGED <<status, coins, started>>
    BY <1>1 DEF SaveEnd, TypeOK, asked
  <2>3. [job[closing[c].job] EXCEPT !.open = FALSE, !.state = closing[c].end].link = job[closing[c].job].link
        /\ job[closing[c].job] # None
    BY <1>1, <2>1 DEF Row, SaveEnd
  <2>4. [closing[c] EXCEPT !.saved = TRUE].link = closing[c].link
    BY <2>1 DEF Copies
  <2>5. LinkedStarted'
    BY <2>1, <2>2, <2>3, NothingLinked DEF TypeOK
  <2>6. CopiesStarted'
    BY <1>1, <2>2, <2>4 DEF CopiesStarted, TypeOK, SaveEnd
  <2> QED BY <2>2, <2>5, <2>6 DEF CoinsMatch
<1>2. CASE CloseOut(c)
  <2> DEFINE s == closing[c]
  <2>1. s \in Copies /\ s.job \in Jobs /\ job[s.job] \in Row /\ s.link \in Requests \cup {None}
        /\ s # None /\ job[s.job] # None
    BY <1>2, LinkTypes DEF CloseOut
  <2>2. closing' = [closing EXCEPT ![c] = None] /\ UNCHANGED <<coins, started>>
    BY <1>2 DEF CloseOut
  <2>3. CopiesStarted'
    BY <2>2 DEF CopiesStarted, TypeOK
  <2>4. CASE s.link = None \/ s.debited
    <3>1. UNCHANGED <<status, job>>
      BY <1>2, <2>4 DEF CloseOut, Settled
    <3> QED BY <2>2, <2>3, <3>1 DEF LinkedStarted, CoinsMatch
  <2>5. CASE ~(s.link = None \/ s.debited)
    <3>1. job' = [job EXCEPT ![s.job] = [job[s.job] EXCEPT !.debited = TRUE]]
          /\ status' = [status EXCEPT ![s.link] = Verdict(s.end)]
      BY <1>2, <2>1, <2>5 DEF CloseOut, Settled, Becomes, TypeOK
    <3>2. [job[s.job] EXCEPT !.debited = TRUE].link = job[s.job].link
      BY <2>1 DEF Row
    <3>3. LinkedStarted'
      BY <2>1, <2>2, <3>1, <3>2, NothingLinked DEF TypeOK
    <3>4. started[s.link] /\ s.link \in Requests
      BY <2>1, <2>5 DEF CopiesStarted
    <3>5. coins[s.link] \in {"free", "paid"} /\ Verdict(s.end) \in Bindable
      BY <3>4 DEF CoinsMatch, Verdict, Bindable
    <3>6. CoinsMatch'
      BY <2>2, <3>1, <3>4, <3>5 DEF CoinsMatch, TypeOK, Bindable
    <3> QED BY <2>3, <3>3, <3>6
  <2> QED BY <2>4, <2>5
<1>3. CASE Abort(c)
  BY <1>3 DEF Abort, asked, LinkedStarted, CopiesStarted, CoinsMatch, TypeOK
<1> QED BY <1>1, <1>2, <1>3 DEF Step

LEMMA LinkOrDeleteCoins ==
  ASSUME CoinInv, NEW j \in Jobs, job[j] # None, NEW seen, LinkOrDelete(j, seen)
  PROVE  LinkedStarted' /\ CopiesStarted' /\ CoinsMatch'
<1> USE DEF CoinInv
<1>1. ASSUME NEW r \in Requests, LinkJob(j, r, seen)
      PROVE  LinkedStarted' /\ CopiesStarted' /\ CoinsMatch'
  <2>1. job' = [job EXCEPT ![j] = [job[j] EXCEPT !.link = r]] /\ [job[j] EXCEPT !.link = r].link = r
    BY <1>1, Relinked DEF LinkJob
  <2>2. started' = [started EXCEPT ![r] = TRUE] /\ status[r] \in Bindable /\ UNCHANGED <<coins, closing>>
    BY <1>1 DEF LinkJob
  <2>3. status' = status \/ status' = [status EXCEPT ![r] = "printing"]
    BY <1>1 DEF LinkJob, TypeOK
  <2>4. LinkedStarted'
    BY <2>1, <2>2, LinkTypes DEF LinkedStarted, TypeOK
  <2>5. CopiesStarted'
    BY <2>2, LinkTypes DEF CopiesStarted, TypeOK
  <2>6. CoinsMatch'
    BY <2>2, <2>3 DEF CoinsMatch, TypeOK, Bindable
  <2> QED BY <2>4, <2>5, <2>6
<1>2. CASE DeleteJob(j, seen)
  <2>1. LinkedStarted'
    BY <1>2, NothingLinked DEF DeleteJob, TypeOK, asked
  <2> QED BY <1>2, <2>1 DEF DeleteJob, asked, CopiesStarted, CoinsMatch
<1> QED BY <1>1, <1>2 DEF LinkOrDelete

\* An unlink that writes back over whatever the request has become: its print
\* had begun, so its Coins were never given back.
LEMMA UnlinkCoins ==
  ASSUME CoinInv, NEW j \in Jobs, job[j] # None, NEW seen, NEW alone,
         UnlinkJob(j, seen, alone), seen.printing => started[seen.link]
  PROVE  LinkedStarted' /\ CopiesStarted' /\ CoinsMatch'
<1> USE DEF CoinInv
<1>1. job' = [job EXCEPT ![j] = [job[j] EXCEPT !.link = None]] /\ [job[j] EXCEPT !.link = None].link = None
  BY Relinked DEF UnlinkJob
<1>2. UNCHANGED <<coins, started, closing>>
  BY DEF UnlinkJob
<1>3. \A r \in Requests : status'[r] = status[r] \/ (started[r] /\ status'[r] = "approved")
  BY DEF UnlinkJob, TypeOK
<1>4. LinkedStarted'
  BY <1>1, <1>2, NothingLinked DEF TypeOK
<1>5. CoinsMatch'
  BY <1>2, <1>3 DEF CoinsMatch, TypeOK, Bindable
<1> QED BY <1>2, <1>4, <1>5 DEF CopiesStarted

\* What the desk knows, and what it writes from it.
LEMMA DeskCoins ==
  ASSUME CoinInv, Desk
  PROVE  LinkedStarted' /\ CopiesStarted' /\ CoinsMatch' /\ DeskStarted'
<1> USE DEF CoinInv
<1>1. ASSUME NEW j \in Jobs, DeskAtOnce(j)
      PROVE  LinkedStarted' /\ CopiesStarted' /\ CoinsMatch' /\ DeskStarted'
  <2>1. job[j] # None /\ (Seen(j).printing => Seen(j).link \in Requests /\ started[Seen(j).link])
    BY <1>1, SeenType DEF DeskAtOnce, CoinsMatch
  <2>2. LinkedStarted' /\ CopiesStarted' /\ CoinsMatch'
    BY <1>1, <2>1, LinkOrDeleteCoins, UnlinkCoins DEF DeskAtOnce
  <2>3. desk' = desk /\ \A r \in Requests : started[r] => started'[r]
    BY <1>1 DEF DeskAtOnce, LinkOrDelete, LinkJob, UnlinkJob, DeleteJob, asked, TypeOK
  <2>4. DeskStarted'
    BY <2>3 DEF DeskStarted, TypeOK, Desks
  <2> QED BY <2>2, <2>4
<1>2. ASSUME NEW j \in Jobs, DeskRead(j)
      PROVE  LinkedStarted' /\ CopiesStarted' /\ CoinsMatch' /\ DeskStarted'
  <2>1. job[j] # None /\ (Seen(j).printing => Seen(j).link \in Requests /\ started[Seen(j).link])
    BY <1>2, SeenType DEF DeskRead, CoinsMatch
  <2>2. DeskStarted'
    BY <1>2, <2>1 DEF DeskRead, DeskStarted, asked
  <2> QED BY <1>2, <2>2 DEF DeskRead, asked, LinkedStarted, CopiesStarted, CoinsMatch
<1>3. CASE DeskHold
  <2>1. desk'.seen = desk.seen /\ UNCHANGED <<asked, job, closing>> /\ desk # None
    BY <1>3 DEF DeskHold, TypeOK, Desks
  <2> QED BY <2>1 DEF asked, LinkedStarted, CopiesStarted, CoinsMatch, DeskStarted
<1>4. CASE DeskAct
  <2>1. desk # None /\ desk.job \in Jobs /\ job[desk.job] # None /\ desk' = None
    BY <1>4 DEF DeskAct, TypeOK, Desks
  <2>2. LinkedStarted' /\ CopiesStarted' /\ CoinsMatch'
    BY <1>4, <2>1, LinkOrDeleteCoins, UnlinkCoins DEF DeskAct, DeskStarted
  <2> QED BY <2>1, <2>2 DEF DeskStarted
<1>5. CASE DeskEnds
  BY <1>5 DEF DeskEnds, asked, LinkedStarted, CopiesStarted, CoinsMatch, DeskStarted
<1> QED BY <1>1, <1>2, <1>3, <1>4, <1>5 DEF Desk

\* The others leave the desk alone and take no start back.
LEMMA DeskLeftAlone ==
  ASSUME CoinInv, UNCHANGED desk, \A r \in Requests : started[r] => started'[r]
  PROVE  DeskStarted'
BY DEF CoinInv, DeskStarted, TypeOK, Desks

LEMMA DeskStep ==
  ASSUME CoinInv, [Next]_vars PROVE DeskStarted'
<1> USE DEF CoinInv, TypeOK
<1>1. CASE UNCHANGED vars
  BY <1>1, DeskLeftAlone DEF vars, asked
<1>2. CASE Web
  BY <1>2, DeskLeftAlone DEF Web, Approve, Exchange, Reject, Cancel, DeleteRequest
<1>3. CASE Machine
  BY <1>3, DeskLeftAlone DEF Machine, StartPrint, PausePrint, ResumePrint, EndPrint, LoseLink, Reconnect, Hours, asked
<1>4. ASSUME NEW moved \in BOOLEAN, ReportPrinting(moved) PROVE DeskStarted'
  <2>1. desk' = desk
    BY <1>4 DEF ReportPrinting
  <2>2. (\E j \in Jobs : OpenJob(Resumed, j)) \/ Observe(Resumed, moved)
    BY <1>4 DEF ReportPrinting
  <2>3. \A r \in Requests : started[r] => started'[r]
    BY <2>2 DEF OpenJob, Observe
  <2> QED BY <2>1, <2>3, DeskLeftAlone
<1>5. CASE ReportStopped \/ Restart
  BY <1>5, DeskLeftAlone DEF ReportStopped, Restart, asked
<1>6. CASE Close
  BY <1>6, DeskLeftAlone DEF Close, SweepRead, Step, SaveEnd, CloseOut, Abort, asked
<1>7. CASE Desk
  BY <1>7, DeskCoins
<1> QED BY <1>1, <1>2, <1>3, <1>4, <1>5, <1>6, <1>7 DEF Next, Tracker

LEMMA CoinStep ==
  ASSUME CoinInv, [Next]_vars PROVE CoinInv'
<1> USE DEF CoinInv
<1> SUFFICES LinkedStarted' /\ CopiesStarted' /\ CoinsMatch'
  BY TypeStep, DeskStep
<1>1. CASE UNCHANGED vars
  BY <1>1 DEF vars, asked, LinkedStarted, CopiesStarted, CoinsMatch
<1>2. CASE Web
  BY <1>2, WebCoins DEF Web
<1>3. CASE Machine
  <2>1. CASE UNCHANGED <<asked, job, closing>>
    BY <2>1 DEF asked, LinkedStarted, CopiesStarted, CoinsMatch
  <2>2. CASE Hours
    <3>1. \A j \in Jobs : job[j] # None => [job[j] EXCEPT !.fresh = FALSE].link = job[j].link
      BY DEF TypeOK, Row
    <3>2. LinkedStarted'
      BY <2>2, <3>1, NothingLinked DEF Hours, asked
    <3> QED BY <2>2, <3>2 DEF Hours, asked, CopiesStarted, CoinsMatch
  <2> QED BY <1>3, <2>1, <2>2 DEF Machine, StartPrint, PausePrint, ResumePrint, EndPrint, LoseLink, Reconnect
<1>4. ASSUME NEW moved \in BOOLEAN, ReportPrinting(moved) PROVE LinkedStarted' /\ CopiesStarted' /\ CoinsMatch'
  <2>1. CASE Resumed.job = None
    <3>1. PICK j \in Jobs : OpenJob(Resumed, j)
      BY <1>4, <2>1 DEF ReportPrinting
    <3> QED BY <1>4, <3>1, ResumedFacts, OpenJobCoins DEF ReportPrinting
  <2>2. CASE Resumed.job # None
    <3>1. Observe(Resumed, moved)
      BY <1>4, <2>2 DEF ReportPrinting
    <3> QED BY <1>4, <3>1, ResumedFacts, ObserveCoins DEF ReportPrinting
  <2> QED BY <2>1, <2>2
<1>5. CASE ReportStopped
  <2> DEFINE t == Resumed
  <2>1. UNCHANGED <<status, coins, started, job>>
        /\ closing' = [closing EXCEPT !["tracker"] =
                         IF t.job # None /\ Open(t.job) THEN Copy(t.job, Outcome) ELSE None]
    BY <1>5 DEF ReportStopped, asked
  <2>2. CASE t.job # None /\ Open(t.job)
    <3>1. t.job \in Jobs /\ job[t.job] # None /\ Outcome \in Ends
      BY <2>2, ResumedFacts DEF Trackers, Open, Outcome, Ends
    <3>2. closing' = [closing EXCEPT !["tracker"] = Copy(t.job, Outcome)]
      BY <2>1, <2>2
    <3>3. CopiesStarted'
      BY <2>1, <3>1, <3>2, CopyCoins DEF Closers
    <3> QED BY <2>1, <3>3 DEF LinkedStarted, CoinsMatch
  <2>3. CASE ~(t.job # None /\ Open(t.job))
    <3>1. closing' = [closing EXCEPT !["tracker"] = None]
      BY <2>1, <2>3
    <3> QED BY <2>1, <3>1 DEF LinkedStarted, CopiesStarted, CoinsMatch, TypeOK
  <2> QED BY <2>2, <2>3
<1>6. CASE Restart
  BY <1>6 DEF Restart, asked, LinkedStarted, CopiesStarted, CoinsMatch
<1>7. ASSUME NEW j \in Jobs, SweepRead(j) PROVE LinkedStarted' /\ CopiesStarted' /\ CoinsMatch'
  <2>1. CopiesStarted'
    BY <1>7, CopyCoins DEF SweepRead, Open, Ends, Closers, asked
  <2> QED BY <1>7, <2>1 DEF SweepRead, asked, LinkedStarted, CoinsMatch
<1>8. ASSUME NEW c \in Closers, Step(c) PROVE LinkedStarted' /\ CopiesStarted' /\ CoinsMatch'
  BY <1>8, CloseCoins
<1>9. CASE Desk
  BY <1>9, DeskCoins
<1> QED
  BY <1>1, <1>2, <1>3, <1>4, <1>5, <1>6, <1>7, <1>8, <1>9 DEF Next, Tracker, Close

\* Whatever the listener, the sweep and parents at the desk do late, and on
\* firmware of either kind: Coins that were given back never paid for a print,
\* and no print of a priced request is linked to it before the exchange.
THEOREM CoinsStay == Spec => []CoinsFollowPrints
<1>1. Init => CoinInv
  BY DEF Init, CoinInv, TypeOK, LinkedStarted, CopiesStarted, CoinsMatch, DeskStarted, FreshTracker,
         Printing, Live, Statuses, Bindable
<1>2. CoinInv /\ [Next]_vars => CoinInv'
  BY CoinStep
<1>3. CoinInv => CoinsFollowPrints
  BY LinkTypes DEF CoinInv, LinkedStarted, CoinsMatch, CoinsFollowPrints, RefundedNeverPrinted, PaidBeforePrint
<1> QED BY <1>1, <1>2, <1>3, PTL DEF Spec

-----------------------------------------------------------------------------
(* The tracker alone, on firmware that reports gcode_start_time: restarts, *)
(* pauses and a connection that drops, but no sweep, no crash inside a     *)
(* close and no links made by hand.                                        *)

TrackerAlone == ReportsRun /\ Events \subseteq {"pause", "restart", "loss"}

NobodyElse == desk = None /\ closing["sweep"] = None

OneOpen == \A j, k \in Jobs : Open(j) /\ Open(k) => j = k

RunsBehind == \A j \in Jobs : job[j] # None => job[j].run <= printer.run

\* While it prints, the row of its run is open, and a tracker that has looked
\* for its row has one.
RunningRow == \A j \in Jobs : job[j] # None /\ job[j].run = printer.run /\ Printing =>
  job[j].open /\ (tracker.resumed => tracker.job # None)

HeldIsOpen == tracker.job # None => Open(tracker.job) /\ closing["tracker"] = None

\* What is open prints, and nothing is debited before it is closed.
OpenRows == \A j \in Jobs : Open(j) =>
  ~job[j].debited /\ (job[j].link # None => status[job[j].link] = "printing")

\* The row that is being closed is the only one open, its print is over, and
\* the copy agrees with it, unless its request has been deleted.
ClosingRow == closing["tracker"] # None =>
  LET s == closing["tracker"] IN
  /\ job[s.job] # None /\ ~job[s.job].debited /\ ~s.debited
  /\ job[s.job].open <=> ~s.saved
  /\ \A j \in Jobs : Open(j) => j = s.job
  /\ ~Printing \/ job[s.job].run < printer.run
  /\ job[s.job].link \in {None, s.link}
  /\ s.link # None => \/ status[s.link] = "gone"
                      \/ status[s.link] = "printing" /\ job[s.job].link = s.link

BilledRows == \A n \in 1 .. MaxRuns :
  /\ debits[n] <= 1
  /\ debits[n] > 0 => \E j \in Jobs : job[j] # None /\ job[j].run = n /\ job[j].debited

TrackInv ==
  /\ NobodyElse /\ OneOpen /\ RunsBehind /\ OneRowPerRun /\ RunningRow
  /\ HeldIsOpen /\ OpenRows /\ ClosingRow /\ PrintingHasOpenJob /\ BilledRows

\* A step that opens, closes, links and debits nothing.
LEMMA SameRows ==
  ASSUME TypeOK, TrackInv,
         \A j \in Jobs : /\ job'[j] = None <=> job[j] = None
                         /\ job[j] # None => /\ job'[j].open = job[j].open /\ job'[j].run = job[j].run
                                             /\ job'[j].link = job[j].link /\ job'[j].debited = job[j].debited,
         UNCHANGED <<status, closing, debits, desk>>,
         printer'.run \in Int, printer'.run >= printer.run,
         printer'.run = printer.run /\ Printing' => Printing,
         \/ UNCHANGED tracker
         \/ tracker'.job = None /\ ~tracker'.resumed
         \/ tracker'.job \in Jobs /\ Open(tracker'.job) /\ closing["tracker"] = None
  PROVE  TrackInv'
<1> USE DEF TrackInv
<1>1. \A j \in Jobs : Open(j)' <=> Open(j)
  BY DEF Open
<1>2. printer.run \in Int /\ \A j \in Jobs : job[j] # None => job[j].run \in Int
  BY DEF TypeOK, Row
<1>3. None \notin Jobs
  OBVIOUS
<1>4. NobodyElse' /\ OneOpen' /\ OneRowPerRun'
  BY <1>1 DEF NobodyElse, OneOpen, OneRowPerRun
<1>5. RunsBehind'
  BY <1>2 DEF RunsBehind
<1>6. RunningRow'
  <2> SUFFICES ASSUME NEW j \in Jobs, job'[j] # None, job'[j].run = printer'.run, Printing'
               PROVE  job'[j].open /\ (tracker'.resumed => tracker'.job # None)
    BY DEF RunningRow
  <2>1. job[j] # None /\ job[j].run = printer'.run /\ job[j].run <= printer.run /\ job'[j].open = job[j].open
    BY DEF RunsBehind
  <2>2. printer'.run = printer.run
    BY <1>2, <2>1
  <2>3. job[j].open /\ (tracker.resumed => tracker.job # None)
    BY <2>1, <2>2 DEF RunningRow
  <2> QED BY <1>3, <2>1, <2>3
<1>7. HeldIsOpen'
  <2>1. CASE UNCHANGED tracker
    <3>1. tracker.job # None => tracker.job \in Jobs
      BY DEF TypeOK
    <3> QED BY <1>1, <2>1, <3>1 DEF HeldIsOpen
  <2>2. CASE tracker'.job = None
    BY <2>2 DEF HeldIsOpen
  <2>3. CASE tracker'.job \in Jobs /\ Open(tracker'.job) /\ closing["tracker"] = None
    BY <2>3 DEF HeldIsOpen, Open
  <2> QED BY <2>1, <2>2, <2>3
<1>8. OpenRows'
  BY <1>1 DEF OpenRows, Open
<1>9. ClosingRow'
  <2> SUFFICES ASSUME closing["tracker"] # None PROVE ClosingRow'
    BY DEF ClosingRow
  <2> DEFINE s == closing["tracker"]
  <2>1. s.job \in Jobs /\ job[s.job] # None
    BY LinkTypes DEF ClosingRow, Closers
  <2>2. /\ ~job[s.job].debited /\ ~s.debited
        /\ job[s.job].open <=> ~s.saved
        /\ \A j \in Jobs : Open(j) => j = s.job
        /\ ~Printing \/ job[s.job].run < printer.run
        /\ job[s.job].link \in {None, s.link}
        /\ s.link # None => \/ status[s.link] = "gone"
                            \/ status[s.link] = "printing" /\ job[s.job].link = s.link
    BY DEF ClosingRow
  <2>3. job[s.job].run <= printer.run /\ job[s.job].run \in Int
    BY <1>2, <2>1 DEF RunsBehind
  <2>4. ~Printing' \/ job'[s.job].run < printer'.run
    BY <1>2, <2>1, <2>2, <2>3
  <2>5. /\ job'[s.job] # None /\ ~job'[s.job].debited /\ ~s.debited
        /\ job'[s.job].open <=> ~s.saved
        /\ job'[s.job].link \in {None, s.link}
        /\ s.link # None => \/ status[s.link] = "gone"
                            \/ status[s.link] = "printing" /\ job'[s.job].link = s.link
    BY <2>1, <2>2
  <2>6. \A j \in Jobs : Open(j)' => j = s.job
    BY <1>1, <2>2
  <2> QED BY <2>4, <2>5, <2>6 DEF ClosingRow
<1>10. PrintingHasOpenJob'
  <2>1. \A r : OpenFor(r)' = OpenFor(r)
    BY <1>1 DEF OpenFor, Open
  <2> QED BY <2>1 DEF PrintingHasOpenJob
<1>11. BilledRows'
  BY DEF BilledRows
<1> QED BY <1>4, <1>5, <1>6, <1>7, <1>8, <1>9, <1>10, <1>11

LEMMA MachineTrack ==
  ASSUME TypeOK, TrackInv, Machine PROVE TrackInv'
<1>1. printer \in [phase : Live \cup {"idle", "finish", "failed", "cancel"},
                   run : 0 .. MaxRuns, plate : Requests \cup {Other}]
  BY DEF TypeOK
<1>2. CASE /\ UNCHANGED <<asked, job, tracker, closing, desk, debits>>
           /\ printer'.run \in Int /\ printer'.run >= printer.run
           /\ printer'.run = printer.run /\ Printing' => Printing
  BY <1>2, SameRows DEF asked
<1>3. ASSUME NEW plate \in Requests \cup {Other}, StartPrint(plate) PROVE TrackInv'
  <2>1. printer'.run = printer.run + 1
    BY <1>3 DEF StartPrint, Turn
  <2> QED BY <1>1, <1>2, <1>3, <2>1 DEF StartPrint
<1>4. CASE PausePrint
  BY <1>1, <1>2, <1>4 DEF PausePrint, Turn, Printing, Live
<1>5. CASE ResumePrint
  BY <1>1, <1>2, <1>5 DEF ResumePrint, Turn, Printing, Live
<1>6. ASSUME NEW phase \in {"finish", "failed", "cancel"}, EndPrint(phase) PROVE TrackInv'
  BY <1>1, <1>2, <1>6 DEF EndPrint, Turn, Printing, Live
<1>7. CASE LoseLink
  BY <1>1, <1>2, <1>7 DEF LoseLink, Printing
<1>8. CASE Reconnect
  BY <1>1, <1>2, <1>8 DEF Reconnect, Printing
<1>9. CASE Hours
  <2>1. \A row \in Row : LET old == [row EXCEPT !.fresh = FALSE] IN
           /\ old \in Row
           /\ old.open = row.open /\ old.run = row.run /\ old.link = row.link /\ old.debited = row.debited
    BY DEF Row
  <2>2. \A j \in Jobs : job[j] # None => job[j] \in Row
    BY DEF TypeOK
  <2>3. job' = [j \in Jobs |-> IF job[j] = None THEN None ELSE [job[j] EXCEPT !.fresh = FALSE]]
        /\ UNCHANGED <<status, printer, tracker, closing, desk, debits>>
    BY <1>9 DEF Hours, asked, machine
  <2>4. \A j \in Jobs :
           /\ job'[j] = None <=> job[j] = None
           /\ job[j] # None => /\ job'[j].open = job[j].open /\ job'[j].run = job[j].run
                               /\ job'[j].link = job[j].link /\ job'[j].debited = job[j].debited
    BY <2>1, <2>2, <2>3
  <2>5. printer.run \in Int /\ (Printing' <=> Printing)
    BY <1>1, <2>3 DEF Printing
  <2> QED BY <2>3, <2>4, <2>5, SameRows
<1> QED BY <1>3, <1>4, <1>5, <1>6, <1>7, <1>8, <1>9 DEF Machine

\* Decisions touch no request that prints or whose print is ending.
LEMMA DecisionTrack ==
  ASSUME TypeOK, TrackInv, NEW r \in Requests, status[r] \in {"pending", "quoted", "approved"},
         NEW s \in {"quoted", "approved", "rejected", "cancelled"}, status' = [status EXCEPT ![r] = s],
         UNCHANGED <<job, printer, tracker, closing, desk, debits>>
  PROVE  TrackInv'
<1> USE DEF TrackInv
<1>1. \A q \in Requests : status[q] \in {"printing", "gone"} => status'[q] = status[q]
  BY DEF TypeOK
<1>2. NobodyElse' /\ OneOpen' /\ OneRowPerRun' /\ RunsBehind' /\ RunningRow' /\ HeldIsOpen' /\ BilledRows'
  BY DEF NobodyElse, OneOpen, OneRowPerRun, RunsBehind, RunningRow, HeldIsOpen, BilledRows, Open, Printing
<1>3. OpenRows'
  BY <1>1, LinkTypes DEF OpenRows, Open
<1>4. ClosingRow'
  <2>1. closing["tracker"] # None => closing["tracker"].link \in Requests \cup {None}
    BY LinkTypes DEF Closers
  <2> QED BY <1>1, <2>1 DEF ClosingRow, Open, Printing
<1>5. PrintingHasOpenJob'
  BY DEF PrintingHasOpenJob, OpenFor, Open, TypeOK
<1> QED BY <1>2, <1>3, <1>4, <1>5

LEMMA DeleteTrack ==
  ASSUME TypeOK, TrackInv, NEW r \in Requests, DeleteRequest(r) PROVE TrackInv'
<1> USE DEF TrackInv
<1>1. /\ status' = [status EXCEPT ![r] = "gone"]
      /\ job' = [j \in Jobs |-> IF job[j] # None /\ job[j].link = r
                                THEN [job[j] EXCEPT !.link = None] ELSE job[j]]
      /\ UNCHANGED <<printer, tracker, closing, desk, debits>>
  BY DEF DeleteRequest, Becomes, machine
<1>2. \A j \in Jobs :
        /\ job'[j] = None <=> job[j] = None
        /\ job[j] # None => /\ job'[j].open = job[j].open /\ job'[j].run = job[j].run
                            /\ job'[j].debited = job[j].debited
                            /\ job'[j].link = IF job[j].link = r THEN None ELSE job[j].link
  <2>1. \A row \in Row : LET new == [row EXCEPT !.link = None] IN
           new \in Row /\ new.open = row.open /\ new.run = row.run /\ new.debited = row.debited /\ new.link = None
    BY DEF Row
  <2> QED BY <1>1, <2>1, LinkTypes
<1>3. \A j \in Jobs : Open(j)' <=> Open(j)
  BY <1>2 DEF Open
<1>4. \A q \in Requests : status'[q] = IF q = r THEN "gone" ELSE status[q]
  BY <1>1 DEF TypeOK
<1>5. NobodyElse' /\ OneOpen' /\ OneRowPerRun' /\ RunsBehind'
  BY <1>1, <1>2, <1>3 DEF NobodyElse, OneOpen, OneRowPerRun, RunsBehind
<1>6. RunningRow' /\ BilledRows'
  BY <1>1, <1>2 DEF RunningRow, BilledRows, Printing
<1>7. HeldIsOpen'
  BY <1>1, <1>3 DEF HeldIsOpen, TypeOK
<1>8. OpenRows'
  BY <1>2, <1>3, <1>4, LinkTypes DEF OpenRows, Open
<1>9. ClosingRow'
  <2> SUFFICES ASSUME closing["tracker"] # None PROVE ClosingRow'
    BY <1>1 DEF ClosingRow
  <2> DEFINE s == closing["tracker"]
  <2>1. s.job \in Jobs /\ job[s.job] # None /\ s.link \in Requests \cup {None}
    BY LinkTypes DEF ClosingRow, Closers
  <2>2. /\ ~job[s.job].debited /\ ~s.debited
        /\ job[s.job].open <=> ~s.saved
        /\ \A j \in Jobs : Open(j) => j = s.job
        /\ ~Printing \/ job[s.job].run < printer.run
        /\ job[s.job].link \in {None, s.link}
        /\ s.link # None => \/ status[s.link] = "gone"
                            \/ status[s.link] = "printing" /\ job[s.job].link = s.link
    BY DEF ClosingRow
  <2>3. /\ job'[s.job] # None /\ ~job'[s.job].debited
        /\ job'[s.job].open <=> ~s.saved
        /\ job'[s.job].link \in {None, s.link}
        /\ ~Printing' \/ job'[s.job].run < printer'.run
    BY <1>1, <1>2, <2>1, <2>2 DEF Printing
  <2>4. s.link # None => \/ status'[s.link] = "gone"
                         \/ status'[s.link] = "printing" /\ job'[s.job].link = s.link
    BY <1>2, <1>4, <2>1, <2>2
  <2>5. \A j \in Jobs : Open(j)' => j = s.job
    BY <1>3, <2>2
  <2> QED BY <1>1, <2>2, <2>3, <2>4, <2>5 DEF ClosingRow
<1>10. PrintingHasOpenJob'
  <2> SUFFICES ASSUME NEW q \in Requests, status'[q] = "printing"
               PROVE  OpenFor(q)' # {} \/ \E c \in Closers : closing'[c] # None /\ closing'[c].link = q
    BY DEF PrintingHasOpenJob
  <2>1. q # r /\ status[q] = "printing"
    BY <1>4
  <2>2. \A j \in OpenFor(q) : j \in OpenFor(q)'
    BY <1>2, <1>3, <2>1 DEF OpenFor, Open
  <2> QED BY <1>1, <2>1, <2>2 DEF PrintingHasOpenJob
<1> QED BY <1>5, <1>6, <1>7, <1>8, <1>9, <1>10

LEMMA WebTrack ==
  ASSUME TypeOK, TrackInv, NEW r \in Requests,
         \/ \E priced \in BOOLEAN : Approve(r, priced)
         \/ Exchange(r) \/ Reject(r) \/ Cancel(r) \/ DeleteRequest(r)
  PROVE  TrackInv'
<1>1. ASSUME NEW priced \in BOOLEAN, Approve(r, priced) PROVE TrackInv'
  BY <1>1, DecisionTrack DEF Approve, Becomes, machine
<1>2. CASE Exchange(r)
  BY <1>2, DecisionTrack DEF Exchange, Becomes, machine
<1>3. CASE Reject(r)
  BY <1>3, DecisionTrack DEF Reject, Becomes, machine
<1>4. CASE Cancel(r)
  BY <1>4, DecisionTrack DEF Cancel, Becomes, machine
<1> QED BY <1>1, <1>2, <1>3, <1>4, DeleteTrack

\* A tracker that finds no row, in firmware that reports the run, is at a run
\* without one.
LEMMA NewRun ==
  ASSUME TypeOK, TrackInv, ReportsRun, Printing, Resumed.job = None
  PROVE  \A j \in Jobs : job[j] # None => job[j].run # printer.run
<1> SUFFICES ASSUME NEW j \in Jobs, job[j] # None, job[j].run = printer.run PROVE FALSE
  OBVIOUS
<1>1. job[j].open /\ (tracker.resumed => tracker.job # None)
  BY DEF TrackInv, RunningRow
<1>2. Open(j) /\ SamePrint(j)
  BY <1>1 DEF Open, SamePrint
<1>3. CASE tracker.resumed
  <2>1. Resumed.job = tracker.job
    BY <1>3 DEF Resumed, TypeOK
  <2> QED BY <1>1, <1>3, <2>1
<1>4. CASE ~tracker.resumed
  <2>1. (CHOOSE k \in Jobs : Open(k)) \in Jobs
    BY <1>2
  <2>2. Resumed.job = CHOOSE k \in Jobs : Open(k)
    BY <1>2, <1>4 DEF Resumed
  <2> QED BY <2>1, <2>2
<1> QED BY <1>3, <1>4

LEMMA OpenJobTrack ==
  ASSUME TypeOK, TrackInv, NEW t \in Trackers, NEW j \in Jobs, OpenJob(t, j), Printing,
         t.resumed, closing["tracker"] = None, UNCHANGED <<printer, closing, desk>>,
         \A k \in Jobs : job[k] # None => job[k].run # printer.run
  PROVE  TrackInv'
<1> USE DEF TrackInv
<1> DEFINE left == {k \in Jobs : Open(k)}
           st   == [r \in Requests |-> IF \E k \in left : job[k].link = r
                                       THEN "failed" ELSE status[r]]
           m    == MatchIn(st)
           row  == [open |-> TRUE, run |-> printer.run, plate |-> printer.plate, link |-> m,
                    state |-> Edge(t.last, "running"), raw |-> printer.phase,
                    fresh |-> TRUE, debited |-> FALSE]
           BilledNow(n) == \E k \in left : job[k].run = n /\ job[k].link # None
<1>1. /\ job[j] = None
      /\ job' = [k \in Jobs |-> IF k = j THEN row ELSE IF k \in left THEN Closed(job[k]) ELSE job[k]]
      /\ status' = [s \in Requests |-> IF s = m THEN "printing" ELSE st[s]]
      /\ debits' = [n \in 1 .. MaxRuns |-> IF BilledNow(n) THEN Bill(n) ELSE debits[n]]
      /\ tracker' = [t EXCEPT !.job = j, !.last = printer.phase]
  BY DEF OpenJob, Unused
<1>2. /\ printer \in [phase : Live \cup {"idle", "finish", "failed", "cancel"},
                      run : 0 .. MaxRuns, plate : Requests \cup {Other}]
      /\ printer.run > 0 /\ printer.phase \in Live
  BY DEF TypeOK, Printing
<1>3. row \in Row /\ row.open /\ row.run = printer.run /\ row.link = m /\ ~row.debited
      /\ m \in Requests \cup {None}
  <2>1. m \in Requests \cup {None}
    BY MatchType
  <2>2. Edge(t.last, "running") \in Ends \cup {"running", "paused"}
    BY EdgeType
  <2> HIDE DEF m
  <2> QED BY <1>2, <2>1, <2>2 DEF Row
<1> HIDE DEF row, m
<1>4. \A k \in left : /\ job[k] \in Row /\ Closed(job[k]) \in Row
                      /\ Closed(job[k]).run = job[k].run /\ ~Closed(job[k]).open
                      /\ Closed(job[k]).debited <=> job[k].link # None
  BY LinkTypes, ClosedRow DEF Open
<1>5. \A k \in Jobs : k # j =>
        /\ job'[k] = None <=> job[k] = None
        /\ job[k] # None => /\ job'[k].run = job[k].run
                            /\ ~job'[k].open
                            /\ job[k].debited => job'[k].debited
  <2>1. \A k \in left : ~job[k].debited
    BY DEF OpenRows
  <2> QED BY <1>1, <1>4, <2>1 DEF Open
<1>6. \A k \in Jobs : Open(k)' <=> k = j
  BY <1>1, <1>3, <1>5 DEF Open
<1>7. NobodyElse' /\ OneOpen'
  BY <1>6 DEF NobodyElse, OneOpen
<1>8. RunsBehind' /\ OneRowPerRun'
  BY <1>1, <1>2, <1>3, <1>5 DEF RunsBehind, OneRowPerRun
<1>9. tracker'.job = j
  BY <1>1 DEF Trackers
<1>10. RunningRow' /\ HeldIsOpen'
  BY <1>1, <1>3, <1>5, <1>6, <1>9 DEF RunningRow, HeldIsOpen
<1>11. OpenRows'
  BY <1>1, <1>3, <1>6 DEF OpenRows
<1>12. ClosingRow'
  BY DEF ClosingRow
<1>13. PrintingHasOpenJob'
  <2> SUFFICES ASSUME NEW q \in Requests, status'[q] = "printing" PROVE OpenFor(q)' # {}
    BY DEF PrintingHasOpenJob
  <2>1. CASE q = m
    BY <1>1, <1>3, <1>6, <2>1 DEF OpenFor
  <2>2. CASE q # m
    <3>1. st[q] = "printing"
      BY <1>1, <2>2
    <3>2. status[q] = "printing" /\ OpenFor(q) = {}
      BY <3>1 DEF OpenFor
    <3>3. \A c \in Closers : closing[c] = None
      BY DEF NobodyElse, Closers
    <3> QED BY <3>2, <3>3 DEF PrintingHasOpenJob
  <2> QED BY <2>1, <2>2
<1>14. BilledRows'
  <2> SUFFICES ASSUME NEW n \in 1 .. MaxRuns
               PROVE  /\ debits'[n] <= 1
                      /\ debits'[n] > 0 => \E k \in Jobs : job'[k] # None /\ job'[k].run = n /\ job'[k].debited
    BY DEF BilledRows
  <2>0. debits[n] \in 0 .. 2
    BY DEF TypeOK
  <2>1. CASE BilledNow(n)
    <3>1. PICK k \in left : job[k].run = n /\ job[k].link # None
      BY <2>1
    <3>2. debits[n] = 0
      <4>1. SUFFICES ASSUME debits[n] > 0 PROVE FALSE
        BY <2>0
      <4>2. PICK i \in Jobs : job[i] # None /\ job[i].run = n /\ job[i].debited
        BY <4>1 DEF BilledRows
      <4>3. i = k
        BY <3>1, <4>2 DEF OneRowPerRun, Open
      <4> QED BY <4>2, <4>3 DEF OpenRows
    <3>3. debits'[n] = 1
      BY <1>1, <2>1, <3>2 DEF Bill
    <3>4. k # j /\ job'[k] = Closed(job[k])
      BY <1>1 DEF Open
    <3> QED BY <1>4, <3>1, <3>3, <3>4
  <2>2. CASE ~BilledNow(n)
    <3>1. debits'[n] = debits[n]
      BY <1>1, <2>2
    <3>2. debits[n] <= 1 /\ (debits[n] > 0 => \E k \in Jobs : job[k] # None /\ job[k].run = n /\ job[k].debited)
      BY DEF BilledRows
    <3> QED BY <1>1, <1>5, <3>1, <3>2
  <2> QED BY <2>1, <2>2
<1> QED BY <1>7, <1>8, <1>10, <1>11, <1>12, <1>13, <1>14

LEMMA ObserveTrack ==
  ASSUME TypeOK, TrackInv, NEW moved, Observe(Resumed, moved), Resumed.job # None, Printing,
         closing["tracker"] = None, UNCHANGED <<printer, closing, desk>>
  PROVE  TrackInv'
<1> DEFINE t == Resumed
<1>1. t.job \in Jobs /\ Open(t.job)
  <2>1. t.job \in Jobs \cup {None}
    BY ResumedFacts DEF Trackers
  <2> QED BY <2>1, ResumedFacts DEF TrackInv, HeldIsOpen
<1>2. tracker'.job = t.job
  BY ResumedFacts DEF Observe, Trackers
<1>3. \A k \in Jobs :
        /\ job'[k] = None <=> job[k] = None
        /\ job[k] # None => /\ job'[k].open = job[k].open /\ job'[k].run = job[k].run
                            /\ job'[k].link = job[k].link /\ job'[k].debited = job[k].debited
  BY ObserveRows, ResumedFacts
<1>4. printer.run \in Int /\ (Printing' <=> Printing)
  BY DEF TypeOK, Printing
<1>5. UNCHANGED <<status, closing, debits, desk, printer>>
  BY DEF Observe
<1> QED BY <1>1, <1>2, <1>3, <1>4, <1>5, SameRows

LEMMA StoppedTrack ==
  ASSUME TypeOK, TrackInv, ReportStopped PROVE TrackInv'
<1> USE DEF TrackInv
<1> DEFINE t == Resumed
<1>1. /\ t \in Trackers /\ t.resumed
      /\ t.job # None => t.job \in Jobs /\ Open(t.job)
  BY ResumedFacts DEF Trackers, HeldIsOpen
<1>2. /\ tracker' = [t EXCEPT !.job = None, !.last = "off"]
      /\ closing' = [closing EXCEPT !["tracker"] =
                       IF t.job # None /\ Open(t.job) THEN Copy(t.job, Outcome) ELSE None]
      /\ ~Printing
      /\ UNCHANGED <<status, job, printer, desk, debits>>
  BY DEF ReportStopped, asked
<1> HIDE DEF t
<1>3. tracker'.job = None /\ ~Printing'
  BY <1>1, <1>2 DEF Trackers, Printing
<1>4. closing'["sweep"] = closing["sweep"]
      /\ closing'["tracker"] = IF t.job # None THEN Copy(t.job, Outcome) ELSE None
  BY <1>1, <1>2 DEF TypeOK, Closers
<1>5. NobodyElse' /\ OneOpen' /\ RunsBehind' /\ OneRowPerRun' /\ RunningRow' /\ HeldIsOpen' /\ OpenRows' /\ BilledRows'
  BY <1>2, <1>3, <1>4 DEF NobodyElse, OneOpen, RunsBehind, OneRowPerRun, RunningRow, HeldIsOpen, OpenRows,
                          BilledRows, Open
<1>6. closing["tracker"] = None
  BY DEF ReportStopped, Listening
<1>7. PrintingHasOpenJob'
  <2>1. \A c \in Closers : closing[c] = None
    BY <1>6 DEF NobodyElse, Closers
  <2> QED BY <1>2, <2>1 DEF PrintingHasOpenJob, OpenFor, Open
<1>8. ClosingRow'
  <2> SUFFICES ASSUME t.job # None PROVE ClosingRow'
    BY <1>4 DEF ClosingRow
  <2>1. closing'["tracker"] = Copy(t.job, Outcome) /\ Open(t.job) /\ t.job \in Jobs
    BY <1>1, <1>4
  <2>2. /\ Copy(t.job, Outcome).job = t.job /\ Copy(t.job, Outcome).link = job[t.job].link
        /\ Copy(t.job, Outcome).debited = job[t.job].debited /\ ~Copy(t.job, Outcome).saved
    BY DEF Copy
  <2>3. /\ job[t.job] # None /\ job[t.job].open /\ ~job[t.job].debited
        /\ job[t.job].link # None => status[job[t.job].link] = "printing"
        /\ \A j \in Jobs : Open(j) => j = t.job
    BY <2>1 DEF Open, OpenRows, OneOpen
  <2> QED BY <1>2, <1>3, <2>1, <2>2, <2>3 DEF ClosingRow, Open
<1> QED BY <1>5, <1>7, <1>8

\* With nobody else about, only the tracker closes rows.
LEMMA CloseTrack ==
  ASSUME TypeOK, TrackInv, TrackerAlone, NEW c \in Closers, Step(c) PROVE TrackInv'
<1> USE DEF TrackInv
<1> DEFINE s == closing["tracker"]
<1>1. c = "tracker" /\ s # None
  BY DEF Step, SaveEnd, CloseOut, Abort, Closers, NobodyElse
<1>2. /\ s.job \in Jobs /\ job[s.job] # None /\ job[s.job] \in Row /\ s \in Copies
      /\ s.link \in Requests \cup {None}
  BY <1>1, LinkTypes DEF ClosingRow, Closers
<1>3. /\ ~job[s.job].debited /\ ~s.debited
      /\ job[s.job].open <=> ~s.saved
      /\ \A j \in Jobs : Open(j) => j = s.job
      /\ ~Printing \/ job[s.job].run < printer.run
      /\ job[s.job].link \in {None, s.link}
      /\ s.link # None => \/ status[s.link] = "gone"
                          \/ status[s.link] = "printing" /\ job[s.job].link = s.link
  BY <1>1 DEF ClosingRow
<1>4. tracker.job = None
  BY <1>1 DEF HeldIsOpen
<1>5. CASE SaveEnd(c)
  <2> DEFINE new == [job[s.job] EXCEPT !.open = FALSE, !.state = s.end]
             done == [s EXCEPT !.saved = TRUE]
  <2>1. /\ job' = [job EXCEPT ![s.job] = new] /\ closing' = [closing EXCEPT !["tracker"] = done]
        /\ UNCHANGED <<status, printer, tracker, desk, debits>>
    BY <1>1, <1>5 DEF SaveEnd, TypeOK, asked, machine
  <2>2. s.end \in Ends
    BY <1>2 DEF Copies
  <2>3. /\ new \in Row /\ new # None /\ ~new.open /\ new.run = job[s.job].run /\ new.link = job[s.job].link
        /\ new.debited = job[s.job].debited
    BY <1>2, <2>2 DEF Row
  <2>4. /\ done \in Copies /\ done # None /\ done.saved /\ done.job = s.job /\ done.link = s.link
        /\ done.debited = s.debited
    BY <1>2 DEF Copies
  <2> HIDE DEF new, done
  <2>5. \A j \in Jobs :
          /\ job'[j] = None <=> job[j] = None
          /\ job[j] # None => /\ job'[j].run = job[j].run /\ job'[j].link = job[j].link
                              /\ job'[j].debited = job[j].debited
                              /\ job'[j].open <=> job[j].open /\ j # s.job
    BY <1>2, <2>1, <2>3 DEF TypeOK
  <2>6. \A j \in Jobs : ~Open(j)'
    BY <1>3, <2>5 DEF Open
  <2>7. closing'["sweep"] = closing["sweep"] /\ closing'["tracker"] = done
    BY <2>1 DEF TypeOK, Closers
  <2>8. NobodyElse' /\ OneOpen' /\ RunsBehind' /\ OneRowPerRun' /\ OpenRows' /\ BilledRows'
    BY <2>1, <2>5, <2>6, <2>7 DEF NobodyElse, OneOpen, RunsBehind, OneRowPerRun, OpenRows, BilledRows
  <2>9. HeldIsOpen'
    BY <1>4, <2>1 DEF HeldIsOpen
  <2>10. RunningRow'
    <3> SUFFICES ASSUME NEW j \in Jobs, job'[j] # None, job'[j].run = printer'.run, Printing' PROVE FALSE
      BY DEF RunningRow
    <3>1. job[j] # None /\ job[j].run = printer.run /\ Printing
      BY <2>1, <2>5 DEF Printing
    <3>2. job[j].open
      BY <3>1 DEF RunningRow
    <3>3. j = s.job
      BY <1>3, <3>1, <3>2 DEF Open
    <3>4. job[s.job].run \in Int
      BY <1>2 DEF Row
    <3> QED BY <1>3, <3>1, <3>3, <3>4
  <2>11. ClosingRow'
    BY <1>2, <1>3, <2>1, <2>3, <2>4, <2>5, <2>6, <2>7 DEF ClosingRow, Printing
  <2>12. PrintingHasOpenJob'
    <3> SUFFICES ASSUME NEW q \in Requests, status'[q] = "printing"
                 PROVE  \E x \in Closers : closing'[x] # None /\ closing'[x].link = q
      BY DEF PrintingHasOpenJob
    <3>1. status[q] = "printing"
      BY <2>1
    <3>2. CASE \E x \in Closers : closing[x] # None /\ closing[x].link = q
      BY <2>4, <2>7, <3>2 DEF NobodyElse, Closers
    <3>3. CASE OpenFor(q) # {}
      <4>1. Open(s.job) /\ job[s.job].link = q
        BY <1>3, <3>3 DEF OpenFor
      <4>2. status[s.link] # "gone" => s.link = q
        BY <1>3, <4>1
      <4> QED BY <1>3, <2>4, <2>7, <4>1, <4>2 DEF Closers
    <3> QED BY <3>1, <3>2, <3>3 DEF PrintingHasOpenJob
  <2> QED BY <2>8, <2>9, <2>10, <2>11, <2>12
<1>6. CASE CloseOut(c)
  <2>1. s.saved /\ (s.link # None => status[s.link] = "printing" /\ job[s.job].link = s.link)
        /\ closing' = [closing EXCEPT !["tracker"] = None] /\ UNCHANGED <<printer, tracker, desk>>
    BY <1>1, <1>3, <1>6 DEF CloseOut, machine
  <2>2. \A j \in Jobs : ~Open(j)
    BY <1>3, <2>1 DEF Open
  <2>3. \A x \in Closers : closing'[x] = None
    BY <2>1 DEF TypeOK, Closers, NobodyElse
  <2>4. \A q \in Requests : status[q] = "printing" => q = s.link
    BY <1>1, <2>2 DEF PrintingHasOpenJob, OpenFor, NobodyElse, Closers
  <2>5. NobodyElse' /\ ClosingRow'
    BY <2>1, <2>3 DEF NobodyElse, ClosingRow, Closers
  <2>6. CASE s.link = None
    <3>1. UNCHANGED <<status, job, debits>>
      BY <1>1, <1>6, <2>6 DEF CloseOut, Settled
    <3>2. OneOpen' /\ RunsBehind' /\ OneRowPerRun' /\ RunningRow' /\ HeldIsOpen' /\ OpenRows' /\ BilledRows'
      BY <1>4, <2>1, <3>1 DEF OneOpen, RunsBehind, OneRowPerRun, RunningRow, HeldIsOpen, OpenRows,
                              BilledRows, Open, Printing
    <3>3. PrintingHasOpenJob'
      BY <2>4, <2>6, <3>1 DEF PrintingHasOpenJob
    <3> QED BY <2>5, <3>2, <3>3
  <2>7. CASE s.link # None
    <3> DEFINE n == job[s.job].run
               new == [job[s.job] EXCEPT !.debited = TRUE]
    <3>1. /\ job' = [job EXCEPT ![s.job] = new] /\ debits' = [debits EXCEPT ![n] = Bill(n)]
          /\ status' = [status EXCEPT ![s.link] = Verdict(s.end)]
      BY <1>1, <1>2, <1>3, <1>6, <2>7 DEF CloseOut, Settled, Becomes, TypeOK
    <3>2. /\ new \in Row /\ new # None /\ new.open = job[s.job].open /\ new.run = n /\ new.debited
          /\ n \in 1 .. MaxRuns
      BY <1>2 DEF Row
    <3>3. Verdict(s.end) # "printing"
      BY DEF Verdict
    <3> HIDE DEF new, n
    <3>4. \A j \in Jobs :
            /\ job'[j] = None <=> job[j] = None
            /\ job[j] # None => /\ job'[j].open = job[j].open /\ job'[j].run = job[j].run
                                /\ job[j].debited => job'[j].debited
      BY <1>2, <3>1, <3>2 DEF TypeOK, n
    <3>5. \A j \in Jobs : Open(j)' <=> Open(j)
      BY <3>4 DEF Open
    <3>6. OneOpen' /\ RunsBehind' /\ OneRowPerRun' /\ RunningRow' /\ HeldIsOpen' /\ OpenRows'
      BY <1>4, <2>1, <2>2, <3>4, <3>5 DEF OneOpen, RunsBehind, OneRowPerRun, RunningRow, HeldIsOpen, OpenRows,
                                          Printing
    <3>7. PrintingHasOpenJob'
      BY <2>4, <2>7, <1>2, <3>1, <3>3 DEF PrintingHasOpenJob, TypeOK
    <3>8. debits[n] = 0 /\ Bill(n) = 1
      <4>1. debits[n] \in 0 .. 2
        BY <3>2 DEF TypeOK
      <4>2. SUFFICES ASSUME debits[n] > 0 PROVE FALSE
        BY <4>1 DEF Bill
      <4>3. PICK i \in Jobs : job[i] # None /\ job[i].run = n /\ job[i].debited
        BY <3>2, <4>2 DEF BilledRows
      <4>4. i = s.job
        BY <1>2, <4>3 DEF OneRowPerRun, n
      <4> QED BY <1>3, <4>3, <4>4
    <3>9. BilledRows'
      <4> SUFFICES ASSUME NEW i \in 1 .. MaxRuns
                   PROVE  /\ debits'[i] <= 1
                          /\ debits'[i] > 0 => \E j \in Jobs : job'[j] # None /\ job'[j].run = i /\ job'[j].debited
        BY DEF BilledRows
      <4>1. CASE i = n
        <5>1. debits'[i] = 1
          BY <3>1, <3>8, <4>1 DEF TypeOK
        <5>2. job'[s.job] = new
          BY <1>2, <3>1 DEF TypeOK
        <5> QED BY <1>2, <3>2, <4>1, <5>1, <5>2
      <4>2. CASE i # n
        <5>1. debits'[i] = debits[i]
          BY <3>1, <4>2 DEF TypeOK
        <5> QED BY <3>4, <5>1 DEF BilledRows
      <4> QED BY <4>1, <4>2
    <3> QED BY <2>5, <3>6, <3>7, <3>9
  <2> QED BY <2>6, <2>7
<1>7. CASE Abort(c)
  <2>1. /\ closing' = [closing EXCEPT !["tracker"] = None]
        /\ UNCHANGED <<status, job, printer, tracker, desk, debits>>
        /\ s.link # None /\ status[s.link] = "gone"
    BY <1>1, <1>2, <1>7 DEF Abort, asked, machine, TrackerAlone
  <2>2. \A x \in Closers : closing'[x] = None
    BY <2>1 DEF TypeOK, Closers, NobodyElse
  <2>3. /\ OneOpen' /\ RunsBehind' /\ OneRowPerRun' /\ RunningRow' /\ HeldIsOpen' /\ OpenRows' /\ BilledRows'
        /\ NobodyElse' /\ ClosingRow'
    BY <1>4, <2>1, <2>2 DEF OneOpen, RunsBehind, OneRowPerRun, RunningRow, HeldIsOpen, OpenRows,
                            BilledRows, Open, Printing, NobodyElse, ClosingRow, Closers
  <2>4. PrintingHasOpenJob'
    BY <1>1, <2>1 DEF PrintingHasOpenJob, OpenFor, Open, NobodyElse, Closers
  <2> QED BY <2>3, <2>4
<1> QED BY <1>5, <1>6, <1>7 DEF Step

LEMMA TrackStep ==
  ASSUME TypeOK, TrackInv, TrackerAlone, [Next]_vars PROVE TrackInv'
<1>1. CASE UNCHANGED vars
  <2>1. printer.run \in Int /\ (Printing' <=> Printing)
    BY <1>1 DEF TypeOK, Printing, vars, machine
  <2> QED BY <1>1, <2>1, SameRows DEF vars, asked, machine
<1>2. CASE Web
  BY <1>2, WebTrack DEF Web
<1>3. CASE Machine
  BY <1>3, MachineTrack
<1>4. ASSUME NEW moved \in BOOLEAN, ReportPrinting(moved) PROVE TrackInv'
  <2>1. Printing /\ closing["tracker"] = None /\ UNCHANGED <<printer, closing, desk>>
    BY <1>4 DEF ReportPrinting, Listening
  <2>2. CASE Resumed.job = None
    <3>1. PICK j \in Jobs : OpenJob(Resumed, j)
      BY <1>4, <2>2 DEF ReportPrinting
    <3>2. \A k \in Jobs : job[k] # None => job[k].run # printer.run
      BY <2>1, <2>2, NewRun DEF TrackerAlone
    <3> QED BY <2>1, <3>1, <3>2, ResumedFacts, OpenJobTrack
  <2>3. CASE Resumed.job # None
    <3>1. Observe(Resumed, moved)
      BY <1>4, <2>3 DEF ReportPrinting
    <3> QED BY <2>1, <2>3, <3>1, ObserveTrack
  <2> QED BY <2>2, <2>3
<1>5. CASE ReportStopped
  BY <1>5, StoppedTrack
<1>6. CASE Restart
  <2>1. printer.run \in Int /\ (Printing' <=> Printing)
    BY <1>6 DEF TypeOK, Printing, Restart
  <2> QED BY <1>6, <2>1, SameRows DEF Restart, FreshTracker, asked
<1>7. ASSUME NEW j \in Jobs, SweepRead(j) PROVE TrackInv'
  BY <1>7 DEF SweepRead, TrackerAlone
<1>8. ASSUME NEW c \in Closers, Step(c) PROVE TrackInv'
  BY <1>8, CloseTrack
<1>9. "link" \notin Events
  BY DEF TrackerAlone
<1> QED BY <1>1, <1>2, <1>3, <1>4, <1>5, <1>6, <1>7, <1>8, <1>9 DEF Next, Tracker, Close

\* What a step may not do to requests that were cancelled and rows that are closed.
LEMMA OverStep ==
  ASSUME TypeOK, TrackInv, TrackerAlone, [Next]_vars
  PROVE  /\ \A r \in Requests : status[r] = "cancelled" => status'[r] \in {"cancelled", "gone"}
         /\ \A j \in Jobs : job[j] # None /\ ~job[j].open /\ job'[j] # None => job'[j].state = job[j].state
<1> USE DEF TrackInv
<1>1. CASE UNCHANGED vars
  BY <1>1 DEF vars, asked
<1>2. ASSUME NEW r \in Requests,
             \/ \E priced \in BOOLEAN : Approve(r, priced)
             \/ Exchange(r) \/ Reject(r) \/ Cancel(r) \/ DeleteRequest(r)
      PROVE  /\ \A q \in Requests : status[q] = "cancelled" => status'[q] \in {"cancelled", "gone"}
             /\ \A j \in Jobs : job[j] # None /\ ~job[j].open /\ job'[j] # None => job'[j].state = job[j].state
  <2>1. \A row \in Row : [row EXCEPT !.link = None].state = row.state
    BY DEF Row
  <2>2. \A j \in Jobs : job[j] # None => job'[j].state = job[j].state
    BY <1>2, <2>1, LinkTypes DEF Approve, Exchange, Reject, Cancel, DeleteRequest
  <2>3. \A q \in Requests : status[q] = "cancelled" => status'[q] \in {"cancelled", "gone"}
    BY <1>2 DEF Approve, Exchange, Reject, Cancel, DeleteRequest, Becomes, TypeOK
  <2> QED BY <2>2, <2>3
<1>3. CASE Machine
  <2>1. \A row \in Row : [row EXCEPT !.fresh = FALSE].state = row.state
    BY DEF Row
  <2>2. CASE Hours
    BY <2>1, <2>2, LinkTypes DEF Hours, asked
  <2> QED BY <1>3, <2>2 DEF Machine, StartPrint, PausePrint, ResumePrint, EndPrint, LoseLink, Reconnect, asked
<1>4. ASSUME NEW moved \in BOOLEAN, ReportPrinting(moved)
      PROVE  /\ \A r \in Requests : status[r] = "cancelled" => status'[r] \in {"cancelled", "gone"}
             /\ \A j \in Jobs : job[j] # None /\ ~job[j].open /\ job'[j] # None => job'[j].state = job[j].state
  <2>1. CASE Resumed.job = None
    <3>1. PICK j \in Jobs : OpenJob(Resumed, j)
      BY <1>4, <2>1 DEF ReportPrinting
    <3>2. \A k \in Jobs : job[k] # None /\ ~job[k].open => job'[k] = job[k]
      BY <3>1 DEF OpenJob, Open, Unused
    <3> DEFINE st == [r \in Requests |-> IF \E k \in {i \in Jobs : Open(i)} : job[k].link = r
                                        THEN "failed" ELSE status[r]]
    <3>3. status' = [r \in Requests |-> IF r = MatchIn(st) THEN "printing" ELSE st[r]]
      BY <3>1 DEF OpenJob
    <3>4. ASSUME NEW r \in Requests, status[r] = "cancelled" PROVE status'[r] = "cancelled"
      <4>1. st[r] = "cancelled"
        BY <3>4 DEF OpenRows
      <4>2. r # MatchIn(st)
        BY <4>1, MatchType DEF Bindable
      <4> QED BY <3>3, <4>1, <4>2
    <3> QED BY <3>2, <3>4
  <2>2. CASE Resumed.job # None
    <3>1. Observe(Resumed, moved) /\ Printing
      BY <1>4, <2>2 DEF ReportPrinting
    <3>2. Open(Resumed.job)
      BY <2>2, ResumedFacts DEF HeldIsOpen
    <3>3. \A k \in Jobs : job[k] # None /\ ~job[k].open => job'[k] = job[k]
      BY <3>1, <3>2, ObserveRows, ResumedFacts DEF Open
    <3> QED BY <3>1, <3>3 DEF Observe
  <2> QED BY <2>1, <2>2
<1>5. CASE ReportStopped \/ Restart
  BY <1>5 DEF ReportStopped, Restart, asked
<1>6. ASSUME NEW j \in Jobs, SweepRead(j) PROVE FALSE
  BY <1>6 DEF SweepRead, TrackerAlone
<1>7. ASSUME NEW c \in Closers, Step(c)
      PROVE  /\ \A r \in Requests : status[r] = "cancelled" => status'[r] \in {"cancelled", "gone"}
             /\ \A j \in Jobs : job[j] # None /\ ~job[j].open /\ job'[j] # None => job'[j].state = job[j].state
  <2> DEFINE s == closing["tracker"]
  <2>1. c = "tracker" /\ s # None
    BY <1>7 DEF Step, SaveEnd, CloseOut, Abort, Closers, NobodyElse
  <2>2. s.job \in Jobs /\ job[s.job] \in Row /\ (job[s.job].open <=> ~s.saved) /\ s.link \in Requests \cup {None}
    BY <2>1, LinkTypes DEF ClosingRow, Closers
  <2>3. CASE SaveEnd(c)
    <3>1. job[s.job].open /\ UNCHANGED status /\ \A j \in Jobs : j # s.job => job'[j] = job[j]
      BY <2>1, <2>2, <2>3 DEF SaveEnd, asked, TypeOK
    <3> QED BY <3>1
  <2>4. CASE CloseOut(c)
    <3>1. s.link # None => status[s.link] = "printing"
      BY <2>1, <2>4 DEF CloseOut, ClosingRow
    <3>2. \A r \in Requests : status[r] = "cancelled" => status'[r] = "cancelled"
      BY <2>1, <2>4, <3>1 DEF CloseOut, Settled, Becomes, TypeOK
    <3>3. [job[s.job] EXCEPT !.debited = TRUE].state = job[s.job].state
      BY <2>2 DEF Row
    <3>4. job' = job \/ job' = [job EXCEPT ![s.job] = [job[s.job] EXCEPT !.debited = TRUE]]
      BY <2>1, <2>2, <2>4 DEF CloseOut, Settled, TypeOK
    <3>5. \A j \in Jobs : job[j] # None => job'[j].state = job[j].state
      BY <2>2, <3>3, <3>4 DEF TypeOK
    <3> QED BY <3>2, <3>5
  <2>5. CASE Abort(c)
    BY <2>5 DEF Abort, asked
  <2> QED BY <1>7, <2>3, <2>4, <2>5 DEF Step
<1>8. "link" \notin Events
  BY DEF TrackerAlone
<1> QED BY <1>1, <1>2, <1>3, <1>4, <1>5, <1>6, <1>7, <1>8 DEF Next, Web, Tracker, Close

LEMMA TrackInit ==
  ASSUME Init PROVE TypeOK /\ TrackInv
<1>1. TypeOK
  BY DEF Init, TypeOK, FreshTracker, Printing, Live, Statuses, Bindable
<1>2. TrackInv
  BY DEF Init, TrackInv, NobodyElse, OneOpen, RunsBehind, OneRowPerRun, RunningRow, HeldIsOpen, OpenRows,
         ClosingRow, PrintingHasOpenJob, BilledRows, Open, FreshTracker, Closers
<1> QED BY <1>1, <1>2

\* On firmware that reports the run, the tracker gives each run one row and one
\* debit and leaves no request in printing without a row that will move it on,
\* however often it restarts and the connection drops.
THEOREM TrackerKeepsRows ==
  ASSUME TrackerAlone PROVE Spec => [](ForgeInv /\ RunBilledOnce)
<1>1. Init => TypeOK /\ TrackInv
  BY TrackInit
<1>2. TypeOK /\ TrackInv /\ [Next]_vars => (TypeOK /\ TrackInv)'
  BY TypeStep, TrackStep
<1>3. TypeOK /\ TrackInv => ForgeInv /\ RunBilledOnce
  BY DEF TrackInv, ForgeInv, BilledRows, RunBilledOnce
<1> QED BY <1>1, <1>2, <1>3, PTL DEF Spec

\* With the tracker alone, each run of the printer is debited to the spool at most
\* once, through restarts, reconnections and repeated reports.
THEOREM RunsAreBilledOnce ==
  ASSUME TrackerAlone PROVE Spec => []RunBilledOnce
BY TrackerKeepsRows, PTL

\* With the tracker alone, a request that was cancelled stays cancelled and a
\* row that is closed keeps its state.
THEOREM WhatIsOverStays ==
  ASSUME TrackerAlone PROVE Spec => NothingRevives
<1>1. Init => TypeOK /\ TrackInv
  BY TrackInit
<1>2. TypeOK /\ TrackInv /\ [Next]_vars => (TypeOK /\ TrackInv)'
  BY TypeStep, TrackStep
<1>3. TypeOK /\ TrackInv /\ [Next]_vars =>
        [\A r \in Requests : status[r] = "cancelled" => status'[r] \in {"cancelled", "gone"}]_vars
  BY OverStep
<1>4. TypeOK /\ TrackInv /\ [Next]_vars =>
        [\A j \in Jobs : job[j] # None /\ ~job[j].open /\ job'[j] # None
           => job'[j].state = job[j].state]_vars
  BY OverStep
<1> QED BY <1>1, <1>2, <1>3, <1>4, PTL DEF Spec, NothingRevives, CancelledStays, ClosedKeepsState
=============================================================================
