------------------------------ MODULE Listener ------------------------------
(***************************************************************************)
(* The processes that may talk to one printer (apps/printing/listener.py): *)
(* the lock with a time to live in Redis, the supervisor's passes, and the *)
(* connection that a pass dials, watches, rebuilds and drops.              *)
(*                                                                         *)
(* A pass is Sync, then Refresh with its read and its write, then Watch.   *)
(* The clock counts time in units of LOCK_REFRESH_SECONDS.                 *)
(***************************************************************************)
EXTENDS Naturals

CONSTANTS
    Owners,     \* processes: one, unless someone scales or restarts by hand
    Codes,      \* access codes
    Code,       \* the printer's first one
    Ttl,        \* LOCK_TTL_SECONDS
    Rebuild,    \* STALE_RECONNECT_SECONDS
    MaxFaults,  \* bound of the model: faults and edits
    Events,     \* which of AllEvents happen in this instance
    None

(***************************************************************************)
(* crash, stop: a process dies, or is asked to; pause: it loses the CPU or *)
(* waits for the database for longer than the lock lives; drop: the        *)
(* connection closes; hang: it looks open and is dead; edit: a parent      *)
(* saves another code; clear: saves none; switch: turns the printer off or *)
(* on; rotate: the printer makes a new code.                               *)
(***************************************************************************)
AllEvents == {"crash", "stop", "pause", "drop", "hang", "edit", "clear", "switch", "rotate"}

ASSUME ListenerConstants ==
    /\ Ttl \in Nat \ {0} /\ Rebuild \in Nat \ {0} /\ MaxFaults \in Nat
    /\ Code \in Codes /\ Events \subseteq AllEvents /\ None \notin Owners \cup Codes

VARIABLES
    profile,    \* the PrinterProfile row: is_active, the saved code, last_error
    code,       \* the code that the printer takes
    lock,       \* the Redis key: its owner, or None, and the time it has left
    proc,       \* proc[o]: where the process is in its pass
    conn,       \* conn[o]: its PrinterListener
    faults,
    late,       \* history: a process has been paused
    denied      \* history: the saved code, as it is, has been refused

vars == <<profile, code, lock, proc, conn, faults, late, denied>>

NoLock == [owner |-> None, left |-> 0]
NoConn == [phase |-> "off", mine |-> None, used |-> None, idle |-> 0, note |-> "none"]
\* mine: the printer object's code; used: the one the transport was built with.
Dial(c) == [phase |-> "dialing", mine |-> c, used |-> c, idle |-> 0, note |-> "none"]

Down == [at |-> "down", seen |-> None, due |-> TRUE, lag |-> 0, paused |-> FALSE]

Init ==
    /\ code = Code
    /\ profile \in [on : {TRUE}, saved : Codes, card : {"clear"}]
    /\ lock = NoLock
    /\ proc = [o \in Owners |-> Down]
    /\ conn = [o \in Owners |-> NoConn]
    /\ faults = MaxFaults
    /\ late = FALSE
    /\ denied = FALSE

Tracked(o) == conn[o].phase # "off"
Ready(o, at) == proc[o].at = at /\ ~proc[o].paused
Goes(o, at) == proc' = [proc EXCEPT ![o].at = at]
Card(text) == profile' = [profile EXCEPT !.card = text]

-----------------------------------------------------------------------------
(* A supervisor's pass.                                                    *)

Boot(o) ==
    /\ Ready(o, "down")
    /\ proc' = [proc EXCEPT ![o] = [Down EXCEPT !.at = "idle"]]
    /\ UNCHANGED <<profile, code, lock, conn, faults, late, denied>>

\* cache.add: only when the key is not there, whoever's it is.
Acquire(o) == lock.owner = None /\ lock' = [owner |-> o, left |-> Ttl]

\* _drop: the transport stops, then release reads the key.
Drop(o, next) ==
    /\ conn' = [conn EXCEPT ![o] = NoConn]
    /\ proc' = [proc EXCEPT ![o].at = next, ![o].seen = lock.owner]

\* Mutant of SyncTracked: a printer that was switched off keeps its listener.
SyncKept(o) ==
    /\ Tracked(o)
    /\ conn' = [conn EXCEPT ![o].mine = profile.saved]
    /\ Goes(o, "tick")
    /\ UNCHANGED <<profile, lock>>

SyncTracked(o) ==
    /\ Tracked(o)
    /\ \/ /\ profile.on
          /\ conn' = [conn EXCEPT ![o].mine = profile.saved]
          /\ Goes(o, "tick")
       \/ /\ ~profile.on
          /\ Drop(o, "free")
    /\ UNCHANGED <<profile, lock>>

SyncNew(o) ==
    /\ ~Tracked(o)
    /\ Goes(o, "tick")
    /\ \/ /\ profile.on /\ profile.saved # None
          /\ Acquire(o)
          /\ conn' = [conn EXCEPT ![o] = Dial(profile.saved)]
          /\ UNCHANGED profile
       \/ /\ profile.on /\ profile.saved = None
          /\ Card("missing")
          /\ UNCHANGED <<lock, conn>>
       \/ /\ ~profile.on \/ (profile.saved # None /\ lock.owner # None)
          /\ UNCHANGED <<profile, lock, conn>>

Sync(o) ==
    /\ Ready(o, "idle")
    /\ SyncTracked(o) \/ SyncNew(o)
    /\ UNCHANGED <<code, faults, late, denied>>

Passed(o) == [proc[o] EXCEPT !.at = "idle", !.lag = 0, !.seen = None]

\* Mutant of RefreshRead: no refresh.
RefreshNever(o) ==
    /\ Ready(o, "tick")
    /\ proc' = [proc EXCEPT ![o] = IF Tracked(o) THEN [@ EXCEPT !.at = "watch"] ELSE Passed(o)]
    /\ UNCHANGED <<profile, code, lock, conn, faults, late, denied>>

\* tick computes whether a refresh is due; refresh reads the key.
RefreshRead(o) ==
    /\ Ready(o, "tick")
    /\ LET turn == [proc[o] EXCEPT !.due = FALSE] IN
       proc' = [proc EXCEPT ![o] =
           IF ~Tracked(o) THEN [turn EXCEPT !.at = "idle", !.lag = 0]
           ELSE IF proc[o].due THEN [turn EXCEPT !.at = "set", !.seen = lock.owner]
           ELSE [turn EXCEPT !.at = "watch"]]
    /\ UNCHANGED <<profile, code, lock, conn, faults, late, denied>>

\* Mutant of RefreshWrite: the key is stamped whatever was read.
RefreshOver(o) ==
    /\ Ready(o, "set")
    /\ lock' = [owner |-> o, left |-> Ttl]
    /\ Goes(o, "watch")
    /\ UNCHANGED <<profile, code, conn, faults, late, denied>>

\* refresh writes; a listener that lost its lock is dropped and releases nothing.
RefreshWrite(o) ==
    /\ Ready(o, "set")
    /\ IF proc[o].seen \in {None, o}
       THEN /\ lock' = [owner |-> o, left |-> Ttl]
            /\ Goes(o, "watch")
            /\ UNCHANGED conn
       ELSE /\ conn' = [conn EXCEPT ![o] = NoConn]
            /\ proc' = [proc EXCEPT ![o] = Passed(o)]
            /\ UNCHANGED lock
    /\ UNCHANGED <<profile, code, faults, late, denied>>

\* What the connection's last callback puts on the printer card.
Flush(o) == IF conn[o].note = "none" THEN UNCHANGED profile
            ELSE Card(IF conn[o].note = "denied" THEN "denied" ELSE "clear")

\* Mutant of Rebuilt: the stream is only nudged.
Nudged(o) == [conn[o] EXCEPT !.note = "none"]

\* stop, then start: build_transport raises when the code was cleared.
Rebuilt(o) ==
    IF conn[o].phase # "broken" /\ conn[o].idle > Rebuild
    THEN IF conn[o].mine # None THEN Dial(conn[o].mine)
         ELSE [conn[o] EXCEPT !.phase = "broken", !.note = "none", !.used = None, !.idle = 0]
    ELSE [conn[o] EXCEPT !.note = "none"]

\* A refused connection is dropped; the others have their watchdog's turn.
Watch(o) ==
    /\ Ready(o, "watch")
    /\ IF conn[o].phase = "refused"
       THEN Drop(o, "free") /\ UNCHANGED profile
       ELSE /\ Flush(o)
            /\ conn' = [conn EXCEPT ![o] = Rebuilt(o)]
            /\ proc' = [proc EXCEPT ![o] = Passed(o)]
    /\ UNCHANGED <<code, lock, faults, late, denied>>

\* release deletes the key that it read as its own.
ReleaseKey(o) == lock' = IF proc[o].seen = o THEN NoLock ELSE lock

Free(o) ==
    /\ Ready(o, "free") \/ Ready(o, "quit")
    /\ ReleaseKey(o)
    /\ proc' = [proc EXCEPT ![o] = IF @.at = "quit" THEN Down ELSE Passed(o)]
    /\ UNCHANGED <<profile, code, conn, faults, late, denied>>

Pass(o) == Boot(o) \/ Sync(o) \/ RefreshRead(o) \/ RefreshWrite(o) \/ Watch(o) \/ Free(o)

-----------------------------------------------------------------------------
(* The connection, from paho's network thread.                             *)

\* The broker takes the code or refuses it, which stops paho's own retries.
Answer(o) ==
    /\ conn[o].phase = "dialing"
    /\ LET taken == conn[o].used = code IN
       /\ conn' = [conn EXCEPT ![o].phase = IF taken THEN "up" ELSE "refused",
                               ![o].note = IF taken THEN "up" ELSE "denied"]
       /\ denied' = (denied \/ (~taken /\ conn[o].used = profile.saved))
    /\ UNCHANGED <<profile, code, lock, proc, faults, late>>

Report(o) ==
    /\ conn[o].phase = "up"
    /\ conn[o].idle > 0
    /\ conn' = [conn EXCEPT ![o].idle = 0]
    /\ UNCHANGED <<profile, code, lock, proc, faults, late, denied>>

(* Time: a pass takes less than one unit, and so do an answer and a report, *)
(* unless the process is paused or the connection is dead.  The read and   *)
(* the write of the key follow each other at once.                         *)
Prompt(o) ==
    /\ \/ proc[o].at = "down" \/ proc[o].paused
       \/ proc[o].lag = 0 /\ proc[o].at \notin {"set", "free", "quit"}
    /\ conn[o].phase \in {"dialing", "up"} => conn[o].idle = 0

Aged(o) == IF ~Tracked(o) \/ conn[o].phase = "broken" THEN conn[o]
           ELSE [conn[o] EXCEPT !.idle = IF @ > Rebuild THEN @ ELSE @ + 1]

Clock ==
    /\ \A o \in Owners : Prompt(o)
    /\ lock' = IF lock.left <= 1 THEN NoLock ELSE [lock EXCEPT !.left = @ - 1]
    /\ proc' = [o \in Owners |-> IF proc[o].at = "down" THEN proc[o]
                                 ELSE [proc[o] EXCEPT !.lag = 1, !.due = TRUE]]
    /\ conn' = [o \in Owners |-> Aged(o)]
    /\ UNCHANGED <<profile, code, faults, late, denied>>

-----------------------------------------------------------------------------
(* Faults, and what parents do.                                            *)

Happens(e) == e \in Events /\ faults > 0 /\ faults' = faults - 1

Crash(o) ==
    /\ Happens("crash")
    /\ proc[o].at # "down"
    /\ proc' = [proc EXCEPT ![o] = Down]
    /\ conn' = [conn EXCEPT ![o] = NoConn]
    /\ UNCHANGED <<profile, code, lock, late, denied>>

\* SIGTERM: run_forever ends and drops what it has.
Stop(o) ==
    /\ Happens("stop")
    /\ Ready(o, "idle") /\ Tracked(o)
    /\ Drop(o, "quit")
    /\ UNCHANGED <<profile, code, lock, late, denied>>

Pause(o) ==
    /\ Happens("pause")
    /\ proc[o].at # "down" /\ ~proc[o].paused
    /\ proc' = [proc EXCEPT ![o].paused = TRUE]
    /\ late' = TRUE
    /\ UNCHANGED <<profile, code, lock, conn, denied>>

Resume(o) ==
    /\ proc[o].paused
    /\ proc' = [proc EXCEPT ![o].paused = FALSE, ![o].lag = 0]
    /\ UNCHANGED <<profile, code, lock, conn, faults, late, denied>>

\* paho dials again by itself, with the code it has.
Lose(o) ==
    /\ conn[o].phase = "up"
    /\ \/ Happens("drop") /\ conn' = [conn EXCEPT ![o].phase = "dialing", ![o].note = "down"]
       \/ Happens("hang") /\ conn' = [conn EXCEPT ![o].phase = "hung"]
    /\ UNCHANGED <<profile, code, lock, proc, late, denied>>

\* PATCH refuses to clear the code; the admin can take away what it belongs to.
Edit ==
    /\ \E c \in Codes \cup {None} :
          /\ c # profile.saved
          /\ Happens(IF c = None THEN "clear" ELSE "edit")
          /\ profile' = [profile EXCEPT !.saved = c, !.card = IF c = None THEN @ ELSE "clear"]
    /\ denied' = FALSE
    /\ UNCHANGED <<code, lock, proc, conn, late>>

Switch ==
    /\ Happens("switch")
    /\ profile' = [profile EXCEPT !.on = ~@, !.card = "clear"]
    /\ UNCHANGED <<code, lock, proc, conn, late, denied>>

Rotate ==
    /\ Happens("rotate")
    /\ code' \in Codes \ {code}
    /\ denied' = FALSE
    /\ UNCHANGED <<profile, lock, proc, conn, late>>

Network(o) == Answer(o) \/ Report(o)
Faults(o) == Crash(o) \/ Stop(o) \/ Pause(o) \/ Lose(o)
Next ==
    \/ \E o \in Owners : Pass(o) \/ Network(o) \/ Resume(o) \/ Faults(o)
    \/ Clock \/ Edit \/ Switch \/ Rotate

Spec == Init /\ [][Next]_vars

(* The operating system schedules and restarts the processes and wakes a   *)
(* paused one; the broker answers; time passes.                            *)
FairSpec ==
    /\ Spec
    /\ \A o \in Owners : WF_vars(Pass(o)) /\ WF_vars(Network(o)) /\ WF_vars(Resume(o))
    /\ WF_vars(Clock)

-----------------------------------------------------------------------------
TypeOK ==
    /\ profile \in [on : BOOLEAN, saved : Codes \cup {None},
                    card : {"clear", "missing", "denied"}]
    /\ code \in Codes
    /\ lock \in [owner : Owners, left : 1 .. Ttl] \cup {NoLock}
    /\ proc \in [Owners -> [at : {"down", "idle", "tick", "set", "watch", "free", "quit"},
                            seen : Owners \cup {None}, due : BOOLEAN, lag : 0 .. 1,
                            paused : BOOLEAN]]
    /\ conn \in [Owners -> [phase : {"off", "dialing", "up", "hung", "refused", "broken"},
                            mine : Codes \cup {None}, used : Codes \cup {None},
                            idle : 0 .. Rebuild + 1, note : {"none", "up", "down", "denied"}]]
    /\ faults \in 0 .. MaxFaults
    /\ late \in BOOLEAN /\ denied \in BOOLEAN

Connected == {o \in Owners : conn[o].phase \in {"dialing", "up", "hung"}}
Two == \E o, p \in Connected : o # p

\* As long as no process is paused for longer than its passes take, the
\* printer has one connection, through crashes, restarts and hand-overs: the
\* "exactly one MQTT connection per printer" of the module's head.
OneConnection == Two => late

\* The key lives at most its time to live, and no two processes are connected
\* unless one of them was paused past it.
ListenerInv == TypeOK /\ OneConnection

\* When a paused process wakes up beside its successor, one of the two sees
\* the other's key at its next refresh and hangs up.
TwoBecomeOne == Two ~> ~Two

\* While the printer is on and its saved code is the right one, some process
\* is connected to it at last and stays so: after crashes (the lock's time
\* to live), dead connections (the watchdog), refusals and new codes.
Fit == profile.on /\ profile.saved = code
StreamReturns == <>[]Fit => <>[](\E o \in Owners : conn[o].phase = "up")

\* A printer that was switched off is left alone.
OffIsLeftAlone == <>[]~profile.on => <>[](Connected = {})

\* "A hard stop on 'not authorized' is not optional" (transports/cloud.py):
\* a code that was refused is not dialled again until someone changes it.
RefusedIsNotDialled ==
    [][denied => \A o \in Owners : conn'[o].phase = "dialing" =>
                    conn[o].phase \in {"dialing", "up", "hung"}]_vars

\* "The listener surfaces the auth failure on the printer card" (ditto).
RefusalIsShown == <>[](profile.on /\ profile.saved \notin {None, code}) => []<>(profile.card = "denied")
=============================================================================
