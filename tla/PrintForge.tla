----------------------------- MODULE PrintForge -----------------------------
(***************************************************************************)
(* The Forge (apps/printing): children's print requests, the printer, the  *)
(* listener that turns its reports into PrintJob rows, the daily sweep for *)
(* rows whose printer went quiet, and the parents' manual links.           *)
(*                                                                         *)
(* Web handlers that decide hold the request's row lock from their first   *)
(* read to their commit, as does the step that opens a job: each is one    *)
(* action.  Closing a job takes no lock and three commits: read the row,   *)
(* save its end, close_out.  Unlinking takes no lock either: the job and   *)
(* its request are read by the view, long before the rows are written.     *)
(* Printer reports are handled in order by one thread, so the printer      *)
(* changes here only after its last change has been handled, unless the    *)
(* connection is down.                                                     *)
(***************************************************************************)
EXTENDS Integers, FiniteSets

CONSTANTS
    Requests,       \* PrintRequest rows; a plate is named after one of them
    Other,          \* a plate that no request's slug names
    Jobs,           \* PrintJob primary keys
    MaxRuns,        \* bound of the model: prints started on the printer
    ReportsRun,     \* the firmware reports gcode_start_time
    Events,         \* which of AllEvents happen in this instance
    None

(***************************************************************************)
(* pause: prints are paused; sweep: the daily task runs; loss: the         *)
(* connection drops; restart: the listener restarts between two reports;   *)
(* crash: it, or the sweep, dies or loses the database inside a close;     *)
(* link: parents link, unlink and delete rows; stale: with rows that they  *)
(* read before other steps.                                                *)
(***************************************************************************)
AllEvents == {"pause", "sweep", "loss", "restart", "crash", "link", "stale"}

VARIABLES
    status,     \* PrintRequest.status; "gone" when deleted
    coins,      \* what the request's Coin price has come to
    started,    \* PrintRequest.started_at is set
    job,        \* job[j]: the PrintJob row, or None
    printer,    \* what the printer is doing
    link,       \* the listener hears the printer
    told,       \* the printer's last change has been handled
    tracker,    \* PrinterJobTracker, in the listener's memory
    closing,    \* closing[c]: the row that the tracker or the sweep is closing
    desk,       \* the rows that a parent's HTTP request has read, or None
    debits      \* history: budget debits of each print run; 2 is many

asked   == <<status, coins, started>>
machine == <<printer, link, told>>
vars    == <<asked, job, machine, tracker, closing, desk, debits>>

Closers == {"tracker", "sweep"}
Live == {"run", "pause"}            \* gcode_state not in NOT_PRINTING_STATES
Bindable == {"approved", "printing", "failed", "completed"}

Statuses == Bindable \cup {"pending", "quoted", "rejected", "cancelled", "gone"}
Ends == {"finished", "cancelled", "stopped"}    \* FAILED and UNKNOWN are one

Row == [open : BOOLEAN, run : 1 .. MaxRuns, plate : Requests \cup {Other},
        link : Requests \cup {None}, state : Ends \cup {"running", "paused"},
        raw : Live, fresh : BOOLEAN, debited : BOOLEAN]

\* A row as a close has read it, and what it will write.
Copies == [job : Jobs, link : Requests \cup {None}, debited : BOOLEAN, end : Ends, saved : BOOLEAN]

\* A job and its request as the view has read them; once held, unlink has
\* written the job, and seen whether another open row has the request.
Desks == [job : Jobs, held : BOOLEAN, alone : BOOLEAN,
          seen : [open : BOOLEAN, link : Requests \cup {None}, debited : BOOLEAN, printing : BOOLEAN]]

ASSUME ForgeConstants ==
    /\ Other \notin Requests
    /\ None \notin Requests \cup Jobs \cup Row \cup Copies
    /\ MaxRuns \in Nat
    /\ ReportsRun \in BOOLEAN
    /\ Events \subseteq AllEvents

Open(j) == job[j] # None /\ job[j].open
OpenFor(r) == {j \in Jobs : Open(j) /\ job[j].link = r}

FreshTracker == [job |-> None, resumed |-> FALSE, last |-> "off"]

Init ==
    /\ status = [r \in Requests |-> "pending"]
    /\ coins = [r \in Requests |-> "free"]
    /\ started = [r \in Requests |-> FALSE]
    /\ job = [j \in Jobs |-> None]
    /\ printer = [phase |-> "idle", run |-> 0, plate |-> Other]
    /\ link = TRUE
    /\ told = TRUE
    /\ tracker = FreshTracker
    /\ closing = [c \in Closers |-> None]
    /\ desk = None
    /\ debits = [n \in 1 .. MaxRuns |-> 0]

-----------------------------------------------------------------------------
(* Decisions about a request, each under its row lock.                     *)

Becomes(r, s) == status' = [status EXCEPT ![r] = s]

\* With a rate the approval is a quote that the child has to exchange.
Approve(r, priced) ==
    /\ status[r] = "pending"
    /\ Becomes(r, IF priced THEN "quoted" ELSE "approved")
    /\ coins' = [coins EXCEPT ![r] = IF priced THEN "owed" ELSE "free"]
    /\ UNCHANGED <<started, job, machine, tracker, closing, desk, debits>>

\* A retry of a paid exchange changes nothing.
Exchange(r) ==
    /\ status[r] = "quoted"
    /\ coins[r] = "owed"
    /\ coins' = [coins EXCEPT ![r] = "paid"]
    /\ Becomes(r, "approved")
    /\ UNCHANGED <<started, job, machine, tracker, closing, desk, debits>>

Reject(r) ==
    /\ status[r] = "pending"
    /\ Becomes(r, "rejected")
    /\ UNCHANGED <<coins, started, job, machine, tracker, closing, desk, debits>>

\* Paid Coins come back only if no print ever started.
Cancel(r) ==
    /\ status[r] \in {"pending", "quoted", "approved"}
    /\ LET begun == started[r] \/ \E j \in Jobs : job[j] # None /\ job[j].link = r
       IN coins' = [coins EXCEPT ![r] = IF @ = "paid" /\ ~begun THEN "refunded" ELSE @]
    /\ Becomes(r, "cancelled")
    /\ UNCHANGED <<started, job, machine, tracker, closing, desk, debits>>

\* DELETE of a request without a price; its jobs lose their link (SET_NULL).
DeleteRequest(r) ==
    /\ coins[r] = "free"
    /\ status[r] # "gone"
    /\ Becomes(r, "gone")
    /\ job' = [j \in Jobs |-> IF job[j] # None /\ job[j].link = r
                              THEN [job[j] EXCEPT !.link = None] ELSE job[j]]
    /\ UNCHANGED <<coins, started, machine, tracker, closing, desk, debits>>

-----------------------------------------------------------------------------
(* The printer and the connection (the environment).                       *)

Printing == printer.phase \in Live

Turn(p) ==
    /\ told \/ ~link
    /\ printer' = p
    /\ told' = FALSE

StartPrint(plate) ==
    /\ ~Printing
    /\ printer.run < MaxRuns
    /\ Turn([phase |-> "run", run |-> printer.run + 1, plate |-> plate])
    /\ UNCHANGED <<asked, job, link, tracker, closing, desk, debits>>

PausePrint ==
    /\ "pause" \in Events
    /\ printer.phase = "run"
    /\ Turn([printer EXCEPT !.phase = "pause"])
    /\ UNCHANGED <<asked, job, link, tracker, closing, desk, debits>>

ResumePrint ==
    /\ printer.phase = "pause"
    /\ Turn([printer EXCEPT !.phase = "run"])
    /\ UNCHANGED <<asked, job, link, tracker, closing, desk, debits>>

\* FINISH, FAILED with the code of a cancellation, or FAILED; a printer that
\* comes back idle from a power cycle ends a row in the same way as FAILED.
EndPrint(phase) ==
    /\ Printing
    /\ Turn([printer EXCEPT !.phase = phase])
    /\ UNCHANGED <<asked, job, link, tracker, closing, desk, debits>>

LoseLink ==
    /\ "loss" \in Events
    /\ link
    /\ link' = FALSE
    /\ UNCHANGED <<asked, job, printer, told, tracker, closing, desk, debits>>

\* The listener asks for a full report when it connects.
Reconnect ==
    /\ ~link
    /\ link' = TRUE
    /\ told' = FALSE
    /\ UNCHANGED <<asked, job, printer, tracker, closing, desk, debits>>

\* STALE_JOB_MINUTES without a new percentage: a long pause, or no reports.
Hours ==
    /\ printer.phase = "pause" \/ ~link
    /\ told \/ ~link
    /\ job' = [j \in Jobs |-> IF job[j] = None THEN None ELSE [job[j] EXCEPT !.fresh = FALSE]]
    /\ UNCHANGED <<asked, machine, tracker, closing, desk, debits>>

-----------------------------------------------------------------------------
(* The tracker.                                                            *)

\* The gcode_start_time decides; without it the name does, for a row that the
\* printer still reported on recently.
SamePrint(j) ==
    IF ReportsRun THEN job[j].run = printer.run
                  ELSE job[j].plate = printer.plate /\ job[j].fresh

\* Mutant of Resumed: a restarted tracker does not look for its row.
NotResumed == [tracker EXCEPT !.resumed = TRUE]

\* The tracker after _resume: the first report after a start adopts the open
\* row if it is of this print, and takes the last state from that row.
Resumed ==
    IF tracker.resumed \/ ~\E j \in Jobs : Open(j) /\ SamePrint(j)
    THEN [tracker EXCEPT !.resumed = TRUE]
    ELSE LET j == CHOOSE k \in Jobs : Open(k)
         IN [job |-> j, resumed |-> TRUE, last |-> job[j].raw]

\* _record_pause_edge, from the state of the report before.
Edge(last, state) ==
    CASE printer.phase = "pause" /\ last # "pause"  -> "paused"
      [] printer.phase = "run" /\ last = "pause"    -> "running"
      [] OTHER                                      -> state

Listening == link /\ closing["tracker"] = None

Bill(n) == IF debits[n] < 2 THEN debits[n] + 1 ELSE debits[n]

\* Mutant of MatchIn: the status of the named request is not looked at.
MatchAny(st) == IF printer.plate \in Requests THEN printer.plate ELSE None

\* find_request, under the lock of the row it finds.
MatchIn(st) ==
    IF printer.plate \in Requests /\ st[printer.plate] \in Bindable
    THEN printer.plate ELSE None

\* _force_close_stale leaves the row of another print closed and closed out,
\* before the request is looked up.
Closed(row) == [row EXCEPT !.open = FALSE, !.state = "stopped", !.debited = row.link # None]

\* A primary key is not given twice: no one still holds a deleted row's.
Unused(j) ==
    /\ job[j] = None
    /\ tracker.job # j
    /\ \A c \in Closers : closing[c] # None => closing[c].job # j
    /\ desk # None => desk.job # j

OpenJob(t, j) ==
    LET left == {k \in Jobs : Open(k)}
        st   == [r \in Requests |-> IF \E k \in left : job[k].link = r
                                    THEN "failed" ELSE status[r]]
        r    == MatchIn(st)
        row  == [open |-> TRUE, run |-> printer.run, plate |-> printer.plate, link |-> r,
                 state |-> Edge(t.last, "running"), raw |-> printer.phase,
                 fresh |-> TRUE, debited |-> FALSE]
    IN  /\ Unused(j)
        /\ job' = [k \in Jobs |-> IF k = j THEN row
                                  ELSE IF k \in left THEN Closed(job[k]) ELSE job[k]]
        /\ debits' = [n \in 1 .. MaxRuns |->
                         IF \E k \in left : job[k].run = n /\ job[k].link # None
                         THEN Bill(n) ELSE debits[n]]
        /\ status' = [s \in Requests |-> IF s = r THEN "printing" ELSE st[s]]
        /\ started' = [s \in Requests |-> started[s] \/ s = r]
        /\ tracker' = [t EXCEPT !.job = j, !.last = printer.phase]

\* A row it already has; the percentage may have moved since the last report.
Observe(t, moved) ==
    /\ job' = [j \in Jobs |->
                  IF j # t.job \/ job[j] = None THEN job[j]
                  ELSE LET seen == [job[j] EXCEPT !.state = Edge(t.last, @)]
                       IN IF moved THEN [seen EXCEPT !.fresh = TRUE, !.raw = printer.phase]
                                   ELSE seen]
    /\ tracker' = [t EXCEPT !.last = printer.phase]
    /\ UNCHANGED <<status, started, debits>>

ReportPrinting(moved) ==
    /\ Listening
    /\ Printing
    /\ moved => printer.phase = "run" \/ ~told
    /\ LET t == Resumed
       IN IF t.job = None THEN \E j \in Jobs : OpenJob(t, j) ELSE Observe(t, moved)
    /\ told' = TRUE
    /\ UNCHANGED <<coins, printer, link, closing, desk>>

Outcome ==
    CASE printer.phase = "finish"   -> "finished"
      [] printer.phase = "cancel"   -> "cancelled"
      [] OTHER                      -> "stopped"

Copy(j, end) == [job |-> j, link |-> job[j].link, debited |-> job[j].debited,
                 end |-> end, saved |-> FALSE]

\* _close_job up to its read of the row.
ReportStopped ==
    /\ Listening
    /\ ~Printing
    /\ LET t == Resumed
       IN /\ tracker' = [t EXCEPT !.job = None, !.last = "off"]
          /\ closing' = [closing EXCEPT !["tracker"] =
                IF t.job # None /\ Open(t.job) THEN Copy(t.job, Outcome) ELSE None]
    /\ told' = TRUE
    /\ UNCHANGED <<asked, job, printer, link, desk, debits>>

Restart ==
    /\ "restart" \in Events
    /\ closing["tracker"] = None
    /\ tracker' = FreshTracker
    /\ told' = FALSE
    /\ UNCHANGED <<asked, job, printer, link, closing, desk, debits>>

-----------------------------------------------------------------------------
(* Closing a row, by the tracker or by the sweep.                          *)

SweepRead(j) ==
    /\ "sweep" \in Events
    /\ closing["sweep"] = None
    /\ Open(j)
    /\ ~job[j].fresh
    /\ closing' = [closing EXCEPT !["sweep"] = Copy(j, "stopped")]
    /\ UNCHANGED <<asked, job, machine, tracker, desk, debits>>

SaveEnd(c) ==
    /\ closing[c] # None
    /\ ~closing[c].saved
    /\ job[closing[c].job] # None
    /\ job' = [job EXCEPT ![closing[c].job] = [@ EXCEPT !.open = FALSE, !.state = closing[c].end]]
    /\ closing' = [closing EXCEPT ![c].saved = TRUE]
    /\ UNCHANGED <<asked, machine, tracker, desk, debits>>

Verdict(end) ==
    CASE end = "finished"   -> "completed"
      [] end = "cancelled"  -> "approved"
      [] OTHER              -> "failed"

\* Mutant of Settled: the end of the print does not reach the request.
SettledNot(c) == UNCHANGED <<status, job, debits>>

\* The debit and the request's status, as the copy has them.
Settled(c) ==
    LET s == closing[c]
    IN IF s.link = None \/ s.debited
       THEN UNCHANGED <<status, job, debits>>
       ELSE /\ job' = [job EXCEPT ![s.job].debited = TRUE]
            /\ debits' = [debits EXCEPT ![job[s.job].run] = Bill(job[s.job].run)]
            /\ Becomes(s.link, Verdict(s.end))

CloseOut(c) ==
    /\ closing[c] # None
    /\ closing[c].saved
    /\ job[closing[c].job] # None
    /\ closing[c].link # None => status[closing[c].link] # "gone"
    /\ Settled(c)
    /\ closing' = [closing EXCEPT ![c] = None]
    /\ UNCHANGED <<coins, started, machine, tracker, desk>>

\* A save of a row that was deleted meanwhile fails; a crash, or a lost
\* database connection, ends the close at either place.
Abort(c) ==
    /\ closing[c] # None
    /\ \/ "crash" \in Events
       \/ job[closing[c].job] = None
       \/ closing[c].link # None /\ status[closing[c].link] = "gone"
    /\ closing' = [closing EXCEPT ![c] = None]
    /\ UNCHANGED <<asked, job, machine, tracker, desk, debits>>

Step(c) == SaveEnd(c) \/ CloseOut(c) \/ Abort(c)

-----------------------------------------------------------------------------
(* Parents' links.  seen is the job and its request as the view read them;  *)
(* neither is locked, the request that a job is linked to is.              *)

\* Mutant of LinkJob: any request can be linked.
LinkAny(j, r, seen) ==
    /\ ~seen.debited
    /\ status[r] # "gone"
    /\ job' = [job EXCEPT ![j].link = r]
    /\ started' = [started EXCEPT ![r] = TRUE]
    /\ status' = [status EXCEPT ![r] = IF seen.open /\ @ = "approved" THEN "printing" ELSE @]
    /\ UNCHANGED <<coins, machine, tracker, closing, debits>>

LinkJob(j, r, seen) ==
    /\ ~seen.debited
    /\ status[r] \in Bindable
    /\ job' = [job EXCEPT ![j].link = r]
    /\ started' = [started EXCEPT ![r] = TRUE]
    /\ status' = [status EXCEPT ![r] = IF seen.open /\ @ = "approved" THEN "printing" ELSE @]
    /\ UNCHANGED <<coins, machine, tracker, closing, debits>>

\* Its commit.  A request that was printing when it was read is written back to
\* approved, whatever it has become; if it is gone the save fails, and with it
\* the unlinking.
UnlinkJob(j, seen, alone) ==
    /\ ~seen.debited
    /\ job' = [job EXCEPT ![j].link = None]
    /\ LET back == seen.printing /\ alone
       IN /\ back => status[seen.link] # "gone"
          /\ status' = [r \in Requests |-> IF back /\ r = seen.link THEN "approved" ELSE status[r]]
    /\ UNCHANGED <<coins, started, machine, tracker, closing, debits>>

\* DELETE of a print that is over and belongs to no request.
DeleteJob(j, seen) ==
    /\ ~seen.open
    /\ seen.link = None
    /\ job' = [job EXCEPT ![j] = None]
    /\ UNCHANGED <<asked, machine, tracker, closing, debits>>

LinkOrDelete(j, seen) ==
    \/ \E r \in Requests : LinkJob(j, r, seen)
    \/ DeleteJob(j, seen)

\* get_object: the job, and with select_related its request.
Seen(j) == [open |-> job[j].open, link |-> job[j].link, debited |-> job[j].debited,
            printing |-> \E r \in Requests : job[j].link = r /\ status[r] = "printing"]

\* No other open row of the request: a fresh query, after the job is written.
Alone(j, r) == OpenFor(r) \ {j} = {}

\* A request of a parent that nobody comes between.
DeskAtOnce(j) ==
    /\ job[j] # None
    /\ \/ LinkOrDelete(j, Seen(j))
       \/ UnlinkJob(j, Seen(j), Alone(j, job[j].link))
    /\ UNCHANGED desk

DeskRead(j) ==
    /\ "stale" \in Events
    /\ desk = None
    /\ job[j] # None
    /\ desk' = [job |-> j, held |-> FALSE, alone |-> FALSE, seen |-> Seen(j)]
    /\ UNCHANGED <<asked, job, machine, tracker, closing, debits>>

\* unlink_job up to its write of the request, which it keeps locked from here.
DeskHold ==
    /\ desk # None
    /\ ~desk.held
    /\ job[desk.job] # None
    /\ desk' = [desk EXCEPT !.held = TRUE, !.alone = Alone(desk.job, desk.seen.link)]
    /\ UNCHANGED <<asked, job, machine, tracker, closing, debits>>

DeskAct ==
    /\ desk # None
    /\ job[desk.job] # None
    /\ IF desk.held THEN UnlinkJob(desk.job, desk.seen, desk.alone)
                    ELSE LinkOrDelete(desk.job, desk.seen)
    /\ desk' = None

\* Refused, failed or given up: nothing is kept.
DeskEnds ==
    /\ desk # None
    /\ desk' = None
    /\ UNCHANGED <<asked, job, machine, tracker, closing, debits>>

Desk == (\E j \in Jobs : DeskAtOnce(j) \/ DeskRead(j)) \/ DeskHold \/ DeskAct \/ DeskEnds

\* Every other write of a job that unlink has written waits for its commit.
HeldJobWaits == desk # None /\ desk.held => desk' = None \/ job'[desk.job] = job[desk.job]

Web ==
    \E r \in Requests :
       \/ \E priced \in BOOLEAN : Approve(r, priced)
       \/ Exchange(r) \/ Reject(r) \/ Cancel(r) \/ DeleteRequest(r)

Machine ==
    \/ \E plate \in Requests \cup {Other} : StartPrint(plate)
    \/ PausePrint \/ ResumePrint
    \/ \E phase \in {"finish", "failed", "cancel"} : EndPrint(phase)
    \/ LoseLink \/ Reconnect \/ Hours

Tracker ==
    \/ \E moved \in BOOLEAN : ReportPrinting(moved)
    \/ ReportStopped \/ Restart

Close ==
    \/ \E j \in Jobs : SweepRead(j)
    \/ \E c \in Closers : Step(c)

Next ==
    /\ Web \/ Machine \/ Tracker \/ Close \/ ("link" \in Events /\ Desk)
    /\ HeldJobWaits

Spec == Init /\ [][Next]_vars

-----------------------------------------------------------------------------

\* Types, and a quote that is open is one that has not been paid.
TypeOK ==
    /\ status \in [Requests -> Statuses]
    /\ coins \in [Requests -> {"free", "owed", "paid", "refunded"}]
    /\ started \in [Requests -> BOOLEAN]
    /\ job \in [Jobs -> Row \cup {None}]
    /\ printer \in [phase : Live \cup {"idle", "finish", "failed", "cancel"},
                   run : 0 .. MaxRuns, plate : Requests \cup {Other}]
    /\ Printing => printer.run > 0
    /\ link \in BOOLEAN /\ told \in BOOLEAN
    /\ tracker \in [job : Jobs \cup {None}, resumed : BOOLEAN, last : Live \cup {"off"}]
    /\ closing \in [Closers -> Copies \cup {None}]
    /\ desk # None => desk \in Desks /\ (desk.seen.printing => desk.seen.link # None)
    /\ debits \in [1 .. MaxRuns -> 0 .. 2]
    /\ \A r \in Requests : status[r] = "quoted" => coins[r] = "owed"

\* Coins that were given back never paid for a print: no row was linked before
\* the refund and none is after it, whatever the listener, the sweep and the
\* parents' links do late (cancel and _ensure_job share the request's lock).
RefundedNeverPrinted ==
    \A r \in Requests : coins[r] = "refunded" =>
        /\ status[r] = "cancelled"
        /\ ~started[r]
        /\ \A j \in Jobs : job[j] # None => job[j].link # r

\* A print of a priced request is linked to it only after the exchange.
PaidBeforePrint ==
    \A j \in Jobs : job[j] # None /\ job[j].link # None /\ coins[job[j].link] # "free"
        => coins[job[j].link] = "paid"

\* Coins and prints stay together on both sides of an exchange, whatever the
\* listener, the sweep and a parent at the desk do late.
CoinsFollowPrints == RefundedNeverPrinted /\ PaidBeforePrint

\* One run of the printer is debited from the budget at most once, across the
\* listener's restarts ("can't double-debit", close_out).
RunBilledOnce == \A n \in 1 .. MaxRuns : debits[n] <= 1

\* One run of the printer has one row, across the listener's restarts.
OneRowPerRun ==
    \A j, k \in Jobs : job[j] # None /\ job[k] # None /\ job[j].run = job[k].run => j = k

\* A request says that it is printing only while a row is open for it or is
\* being closed; otherwise nothing would ever move it on.
PrintingHasOpenJob ==
    \A r \in Requests : status[r] = "printing" =>
        \/ OpenFor(r) # {}
        \/ \E c \in Closers : closing[c] # None /\ closing[c].link = r

\* With the tracker alone, restarts included: rows and runs are one to one and
\* every request in printing has a row that will move it on.
ForgeInv == TypeOK /\ OneRowPerRun /\ PrintingHasOpenJob

\* The sweep closes no row of a printer that the listener is hearing, and whose
\* present state it has handled ("Close jobs whose printer went quiet").
SweptOnlyWhenQuiet ==
    [][closing["sweep"] = None /\ closing'["sweep"] # None => ~(link /\ told)]_vars

\* A row that is closed out and debited stays with its request.
DebitedStaysLinked ==
    [][\A j \in Jobs : job[j] # None /\ job[j].debited /\ job'[j] # None =>
           \/ job'[j].link = job[j].link
           \/ \E r \in Requests : status'[r] = "gone"]_vars

\* Once handled, a report of a print goes to that print's row.
NoAbsorbedRun ==
    Listening /\ told /\ Printing /\ tracker.job # None /\ job[tracker.job] # None
        => job[tracker.job].run = printer.run

\* A request that was cancelled stays so, until it is deleted (cancel, and the
\* test of the status in unlink_job).
CancelledStays ==
    [][\A r \in Requests : status[r] = "cancelled" => status'[r] \in {"cancelled", "gone"}]_vars

\* No report changes the state of a row that is closed.
ClosedKeepsState ==
    [][\A j \in Jobs : job[j] # None /\ ~job[j].open /\ job'[j] # None
           => job'[j].state = job[j].state]_vars

\* What is over stays over: no late report and no late close moves a cancelled
\* request or a closed row (close_out, handle).
NothingRevives == CancelledStays /\ ClosedKeepsState

-----------------------------------------------------------------------------
(* The sweep is a beat task, statements end, and hours pass.  Nothing is     *)
(* assumed of the printer, the connection or people.                       *)

LiveSpec ==
    /\ Spec
    /\ WF_vars(\E j \in Jobs : SweepRead(j))
    /\ \A c \in Closers : WF_vars(Step(c))
    /\ WF_vars(Hours)

\* When the printer has vanished, its request does not stay in printing.
VanishedPrintEnds ==
    \A r \in Requests : (status[r] = "printing" /\ ~link) ~> (link \/ status[r] # "printing")
=============================================================================
