------------------------------- MODULE Ingest -------------------------------
(***************************************************************************)
(* What one listener knows about its printer (apps/printing/listener.py,   *)
(* PrinterListener; report.py, merge).  The network thread puts reports    *)
(* into a bounded queue, a consumer thread merges them, and the            *)
(* supervisor's tick asks for a full report after an overflow or when the  *)
(* printer goes quiet, and rebuilds the connection when it stays quiet.    *)
(*                                                                         *)
(* A report is a delta: it carries only what changed.  pushall makes the   *)
(* printer send all of it.                                                 *)
(***************************************************************************)
EXTENDS Naturals, Sequences

CONSTANTS
    Fields, Values,  \* what a report may carry
    Start,           \* the printer's first state
    Capacity,        \* INGEST_QUEUE_MAX
    Slow,            \* a report can take longer than stop() waits for it
    MaxChanges,      \* bound of the model
    MaxOutages,      \* bound of the model
    Nothing

ASSUME IngestConstants ==
    /\ Start \in [Fields -> Values] /\ Nothing \notin Values
    /\ Capacity \in Nat \ {0} /\ Slow \in BOOLEAN
    /\ MaxChanges \in Nat /\ MaxOutages \in Nat

\* A delta, and the connection that it came by.
Reports == [vals : UNION {[D -> Values] : D \in SUBSET Fields}, by : Nat]

ASSUME NoReportIsNothing == Nothing \notin Reports

VARIABLES
    printer,   \* what the printer is doing
    link,      \* the connection: up, down, or hung: open but dead
    age,       \* since the last message: 0 .. 2, past the nudge, past the rebuild
    asked,     \* the printer has a pushall to answer
    queue,
    reseed,    \* _needs_reseed
    taken,     \* taken[c]: the report that consumer c has taken, or Nothing
    alive,     \* the consumer threads that run
    merged,    \* PrinterState
    seeded,    \* PrinterState.seeded
    changes, outages,
    nth,       \* history: connections made
    seed       \* history: the connection that the last full report came by

wire == <<link, asked, nth>>
mind == <<merged, seeded, seed>>
ingestVars == <<printer, wire, age, queue, reseed, taken, alive, mind, changes, outages>>

Consumers == {1, 2}

IngestInit ==
    /\ printer = Start
    /\ link = "down" /\ age = 0 /\ asked = FALSE /\ nth = 0
    /\ queue = <<>> /\ reseed = FALSE
    /\ taken = [c \in Consumers |-> Nothing] /\ alive = {1}
    /\ merged = [f \in Fields |-> Nothing] /\ seeded = FALSE /\ seed = 0
    /\ changes = MaxChanges /\ outages = MaxOutages

-----------------------------------------------------------------------------
(* The network thread.                                                     *)

Busy == \E c \in Consumers : taken[c] # Nothing

\* Mutant of Overflow: the loss is not noted.
OverflowMute(r) == queue' = Append(Tail(queue), r) /\ UNCHANGED reseed

\* The oldest report goes, and a full one is asked for at the next tick.
Overflow(r) == queue' = Append(Tail(queue), r) /\ reseed' = TRUE

\* The consumer may take the head between the failed put and the get.
Enqueue(vals) ==
    LET r == [vals |-> vals, by |-> nth] IN
    /\ age' = 0
    /\ \/ Len(queue) < Capacity /\ queue' = Append(queue, r) /\ UNCHANGED reseed
       \/ Len(queue) = Capacity /\ Overflow(r)
       \/ Len(queue) = Capacity - 1 /\ queue # <<>> /\ Busy /\ Overflow(r)

Change(f, v) ==
    /\ changes > 0
    /\ printer[f] # v
    /\ changes' = changes - 1
    /\ printer' = [printer EXCEPT ![f] = v]
    /\ IF link = "up" THEN Enqueue([x \in {f} |-> v]) ELSE UNCHANGED <<age, queue, reseed>>
    /\ UNCHANGED <<wire, taken, alive, mind, outages>>

AnswerAll ==
    /\ link = "up" /\ asked
    /\ asked' = FALSE
    /\ Enqueue(printer)
    /\ UNCHANGED <<printer, link, nth, taken, alive, mind, changes, outages>>

Seeds == asked' = TRUE /\ seeded' = FALSE

\* on_connect: what was known is not trusted until the answer is there.
Connect ==
    /\ link = "down"
    /\ link' = "up"
    /\ nth' = nth + 1
    /\ Seeds
    /\ UNCHANGED <<printer, age, queue, reseed, taken, alive, merged, seed, changes, outages>>

Fail ==
    /\ link = "up" /\ outages > 0
    /\ outages' = outages - 1
    /\ link' \in {"down", "hung"}
    /\ asked' = FALSE
    /\ UNCHANGED <<printer, age, queue, reseed, taken, alive, mind, changes, nth>>

\* A printer that is connected answers in time.
Quiet ==
    /\ age = 0 \/ (age = 1 /\ link # "up")
    /\ age' = age + 1
    /\ UNCHANGED <<printer, wire, queue, reseed, taken, alive, mind, changes, outages>>

-----------------------------------------------------------------------------
(* The consumer thread.                                                    *)

Take(c) ==
    /\ c \in alive /\ taken[c] = Nothing
    /\ queue # <<>>
    /\ taken' = [taken EXCEPT ![c] = Head(queue)]
    /\ queue' = Tail(queue)
    /\ UNCHANGED <<printer, wire, age, reseed, alive, mind, changes, outages>>

\* A key that the report leaves out keeps its value.
Merge(old, vals) == [f \in Fields |-> IF f \in DOMAIN vals THEN vals[f] ELSE old[f]]

Process(c) ==
    /\ taken[c] # Nothing
    /\ merged' = Merge(merged, taken[c].vals)
    /\ IF DOMAIN taken[c].vals = Fields
       THEN seeded' = TRUE /\ seed' = taken[c].by
       ELSE UNCHANGED <<seeded, seed>>
    /\ taken' = [taken EXCEPT ![c] = Nothing]
    /\ UNCHANGED <<printer, wire, age, queue, reseed, alive, changes, outages>>

-----------------------------------------------------------------------------
(* The supervisor's tick.                                                  *)

\* Over a dead connection the request is lost.
PushAll == asked' = (asked \/ link = "up")

Reseed ==
    /\ reseed
    /\ reseed' = FALSE
    /\ PushAll
    /\ UNCHANGED <<printer, link, nth, age, queue, taken, alive, mind, changes, outages>>

\* At most once in a window, so not at every tick.
Nudge ==
    /\ ~reseed /\ age = 1
    /\ PushAll
    /\ UNCHANGED <<printer, link, nth, age, queue, reseed, taken, alive, mind, changes, outages>>

\* Mutant of Patience: a quiet connection is kept.
PatienceEver == FALSE

\* A printer that was just connected to answers before the next tick.
Patience == age = 2 /\ link # "up"

\* stop, then start.  stop waits five seconds for the consumer; one that is
\* still at work then finds the flag cleared and goes on beside the new one.
RebuildLink ==
    /\ ~reseed /\ Patience
    /\ link' = "down" /\ asked' = FALSE
    /\ age' = 0
    /\ IF Busy THEN Slow /\ alive' = Consumers ELSE alive' = {1}
    /\ UNCHANGED <<printer, nth, queue, reseed, taken, mind, changes, outages>>

Tick == Reseed \/ Nudge \/ RebuildLink

Work(c) == Take(c) \/ Process(c)
IngestNext ==
    \/ \E f \in Fields, v \in Values : Change(f, v)
    \/ AnswerAll \/ Connect \/ Fail \/ Quiet \/ Tick
    \/ \E c \in Consumers : Work(c)

IngestSpec == IngestInit /\ [][IngestNext]_ingestVars

(* The threads run, the printer answers, paho connects again, and time     *)
(* passes.                                                                 *)
IngestFairSpec ==
    /\ IngestSpec
    /\ \A c \in Consumers : WF_ingestVars(Work(c))
    /\ WF_ingestVars(Reseed) /\ WF_ingestVars(RebuildLink)
    /\ WF_ingestVars(AnswerAll) /\ WF_ingestVars(Connect) /\ WF_ingestVars(Quiet)

-----------------------------------------------------------------------------
IngestTypeOK ==
    /\ printer \in [Fields -> Values]
    /\ link \in {"up", "down", "hung"} /\ age \in 0 .. 2 /\ asked \in BOOLEAN
    /\ queue \in Seq(Reports) /\ Len(queue) <= Capacity
    /\ reseed \in BOOLEAN
    /\ taken \in [Consumers -> Reports \cup {Nothing}]
    /\ alive \in SUBSET Consumers
    /\ merged \in [Fields -> Values \cup {Nothing}] /\ seeded \in BOOLEAN
    /\ changes \in 0 .. MaxChanges /\ outages \in 0 .. MaxOutages
    /\ nth \in Nat /\ seed \in 0 .. nth

\* "A dropped delta leaves our merged state subtly wrong and only a full
\* snapshot fixes that": when everything that was received is merged and no
\* full report is due, the merged state is what the printer is doing.
Settled == link = "up" /\ queue = <<>> /\ ~Busy /\ ~reseed /\ ~asked
SettledIsTrue == Settled => merged = printer /\ seeded

\* What makes that hold, in every state of a connection: a loss is noted, or
\* what the one consumer has taken and what is queued, merged in order, is what
\* the printer is doing, and a full report is among it or was merged before.
Carries(r, f) == r # Nothing /\ f \in DOMAIN r.vals
Whole(r) == r # Nothing /\ DOMAIN r.vals = Fields

\* The value of f once all of that is merged.
Becomes(f, v) ==
    \/ \E i \in DOMAIN queue :
          /\ Carries(queue[i], f) /\ queue[i].vals[f] = v
          /\ \A j \in DOMAIN queue : j > i => ~Carries(queue[j], f)
    \/ /\ \A j \in DOMAIN queue : ~Carries(queue[j], f)
       /\ IF Carries(taken[1], f) THEN taken[1].vals[f] = v ELSE merged[f] = v

OneConsumer == alive = {1} /\ taken[2] = Nothing

ReceivedIsTrue ==
    link = "up" /\ ~asked /\ ~reseed =>
        /\ \A f \in Fields : Becomes(f, printer[f])
        /\ seeded \/ Whole(taken[1]) \/ \E i \in DOMAIN queue : Whole(queue[i])

\* No report is of a connection that is still to come.
ReportsAreDated ==
    /\ \A i \in DOMAIN queue : queue[i].by <= nth
    /\ \A c \in Consumers : taken[c] # Nothing => taken[c].by <= nth

\* The queue keeps its bound, and a report that it drops is made good before
\* the merged state counts as settled.
IngestInv ==
    /\ IngestTypeOK /\ ReportsAreDated /\ SettledIsTrue
    /\ ~Slow => OneConsumer /\ ReceivedIsTrue

\* Through overflows, outages and dead connections, the merged state is the
\* printer's at last, once that stops changing.
CatchesUp == <>[](merged = printer)

\* "Until that lands we must not trust it" (on_status): what is known is
\* trusted only when a full report has come by the present connection.
SeededByThisConnection == link = "up" /\ seeded => seed = nth
=============================================================================
