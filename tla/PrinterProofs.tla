---------------------------- MODULE PrinterProofs ----------------------------
(***************************************************************************)
(* Proofs about Listener, for any number of processes, codes and faults:   *)
(* a process that is never paused has the key as long as it listens, and   *)
(* so the printer has one connection; and about Ingest, for every set of   *)
(* fields and values, every capacity and any number of changes and         *)
(* outages: the queue keeps its bound, and, when a report never outlasts   *)
(* the wait of stop(), what counts as settled is what the printer is doing.*)
(***************************************************************************)
EXTENDS Listener, Ingest, TLAPS

USE ListenerConstants

-----------------------------------------------------------------------------
(* The inductive invariant.                                                *)

\* LOCK_TTL_SECONDS is three times LOCK_REFRESH_SECONDS: a key may see two
\* ticks of the clock before the process that owns it has written it again.
ThreeRefreshes == Ttl >= 3

\* How much older than its full time the key of a listening process may be: it
\* is new after a pass without a tick, and two ticks fit between two writes.
Spent(p) == IF p.at = "set" \/ (p.due /\ p.at # "watch" /\ p.lag = 1) THEN 2
            ELSE IF p.due THEN 1 ELSE 0

\* A process p with connection c that was not paused has the key while it
\* listens, and deletes no key but its own.
Kept(o, p, c, key) ==
  /\ ~p.paused
  /\ c.phase # "off" => p.at \in {"idle", "tick", "set", "watch"} /\ key.owner = o /\ key.left + Spent(p) >= Ttl
  /\ p.at \in {"set", "watch"} => c.phase # "off"
  /\ p.at = "watch" /\ p.due => p.lag = 1
  /\ p.at = "set" => ~p.due
  /\ p.at \in {"free", "quit"} /\ p.seen = o => key.owner = o

KeyIsKept == \A o \in Owners : Kept(o, proc[o], conn[o], lock)

ListenerIInv == TypeOK /\ (late \/ KeyIsKept)

ProcRow == [at : {"down", "idle", "tick", "set", "watch", "free", "quit"},
            seen : Owners \cup {None}, due : BOOLEAN, lag : 0 .. 1, paused : BOOLEAN]
ConnRow == [phase : {"off", "dialing", "up", "hung", "refused", "broken"},
            mine : Codes \cup {None}, used : Codes \cup {None},
            idle : 0 .. Rebuild + 1, note : {"none", "up", "down", "denied"}]
ProfileRow == [on : BOOLEAN, saved : Codes \cup {None}, card : {"clear", "missing", "denied"}]
Keys == [owner : Owners, left : 1 .. Ttl] \cup {NoLock}

-----------------------------------------------------------------------------
(* One process moves.                                                      *)

LEMMA TypeFacts ==
  TypeOK <=> /\ profile \in ProfileRow /\ code \in Codes /\ lock \in Keys
             /\ proc \in [Owners -> ProcRow] /\ conn \in [Owners -> ConnRow]
             /\ faults \in 0 .. MaxFaults /\ late \in BOOLEAN /\ denied \in BOOLEAN
BY DEF TypeOK, ProfileRow, Keys, ProcRow, ConnRow

LEMMA KeyFacts ==
  ASSUME lock \in Keys
  PROVE  /\ lock.owner \in Owners \cup {None} /\ lock.left \in Nat
         /\ lock.owner = None => lock = NoLock
         /\ lock.owner # None => lock.left \in 1 .. Ttl
BY DEF Keys, NoLock

LEMMA NewKey ==
  ASSUME NEW o \in Owners, NEW key, key = [owner |-> o, left |-> Ttl]
  PROVE  key \in Keys /\ key.owner = o /\ key.left = Ttl
BY DEF Keys

LEMMA NoKey == NoLock \in Keys /\ NoLock.owner = None
BY DEF Keys, NoLock

LEMMA NoConnFacts == NoConn \in ConnRow /\ NoConn.phase = "off"
BY DEF NoConn, ConnRow

LEMMA DownFacts == /\ Down \in ProcRow /\ Down.at = "down" /\ ~Down.paused
                   /\ Down.due /\ Down.lag = 0 /\ Down.seen = None
BY DEF Down, ProcRow

LEMMA DialFacts ==
  ASSUME NEW c \in Codes \cup {None}
  PROVE  Dial(c) \in ConnRow /\ Dial(c).phase = "dialing"
BY DEF Dial, ConnRow

\* The key of o is of no concern to a process that keeps its own.
LEMMA Elsewhere ==
  ASSUME NEW o \in Owners, NEW p \in Owners \ {o}, NEW row, NEW c, NEW key, NEW new,
         Kept(p, row, c, key),
         \/ new = key
         \/ key.owner \in {None, o}
  PROVE  Kept(p, row, c, new)
BY DEF Kept

LEMMA OneMoves ==
  ASSUME TypeOK, KeyIsKept, NEW o \in Owners, NEW row \in ProcRow, NEW c \in ConnRow, NEW new \in Keys,
         proc' = [proc EXCEPT ![o] = row], conn' = [conn EXCEPT ![o] = c], lock' = new,
         new = lock \/ lock.owner \in {None, o},
         Kept(o, row, c, new)
  PROVE  KeyIsKept'
<1>1. proc \in [Owners -> ProcRow] /\ conn \in [Owners -> ConnRow]
  BY TypeFacts
<1>2. proc'[o] = row /\ conn'[o] = c
  BY <1>1
<1>3. ASSUME NEW p \in Owners \ {o}
      PROVE  Kept(p, proc'[p], conn'[p], lock')
  <2>1. proc'[p] = proc[p] /\ conn'[p] = conn[p] /\ Kept(p, proc[p], conn[p], lock)
    BY <1>1 DEF KeyIsKept
  <2>2. Kept(p, proc[p], conn[p], new)
    BY <2>1, Elsewhere
  <2> QED BY <2>1, <2>2
<1>4. \A p \in Owners : Kept(p, proc'[p], conn'[p], lock')
  BY <1>2, <1>3
<1> QED BY <1>4 DEF KeyIsKept

\* Types and, unless a process was paused, the keys, from what one process does.
LEMMA OneKeeps ==
  ASSUME ListenerIInv, NEW o \in Owners, NEW row \in ProcRow, NEW c \in ConnRow, NEW new \in Keys,
         proc' = [proc EXCEPT ![o] = row], conn' = [conn EXCEPT ![o] = c], lock' = new,
         profile' \in ProfileRow, denied' \in BOOLEAN, faults' \in 0 .. MaxFaults,
         code' = code, late' = late,
         KeyIsKept /\ ~late => (new = lock \/ lock.owner \in {None, o}) /\ Kept(o, row, c, new)
  PROVE  ListenerIInv'
<1>1. TypeOK'
  BY TypeFacts DEF ListenerIInv, TypeOK, ProfileRow, Keys, ProcRow, ConnRow
<1>2. late' \/ KeyIsKept'
  BY OneMoves DEF ListenerIInv
<1> QED BY <1>1, <1>2 DEF ListenerIInv

LEMMA RowFacts ==
  ASSUME TypeOK, NEW o \in Owners
  PROVE  /\ proc[o] \in ProcRow /\ conn[o] \in ConnRow /\ lock \in Keys /\ profile \in ProfileRow
         /\ proc = [proc EXCEPT ![o] = proc[o]] /\ conn = [conn EXCEPT ![o] = conn[o]]
         /\ profile.saved \in Codes \cup {None}
         /\ faults \in 0 .. MaxFaults /\ denied \in BOOLEAN
         /\ KeyIsKept => Kept(o, proc[o], conn[o], lock)
BY TypeFacts DEF KeyIsKept, ProfileRow

-----------------------------------------------------------------------------
(* The steps of a pass.                                                    *)

Steps == {"down", "idle", "tick", "set", "watch", "free", "quit"}

\* The row of a process that goes to another step of its pass.
LEMMA Going ==
  ASSUME NEW row \in ProcRow, NEW at \in Steps
  PROVE  /\ [row EXCEPT !.at = at] \in ProcRow
         /\ [row EXCEPT !.at = at].at = at
         /\ [row EXCEPT !.at = at].lag = row.lag
         /\ [row EXCEPT !.at = at].due = row.due
         /\ [row EXCEPT !.at = at].paused = row.paused
BY DEF ProcRow, Steps

LEMMA Seeing ==
  ASSUME NEW row \in ProcRow, NEW seen \in Owners \cup {None}
  PROVE  /\ [row EXCEPT !.seen = seen] \in ProcRow
         /\ [row EXCEPT !.seen = seen].seen = seen
         /\ [row EXCEPT !.seen = seen].at = row.at
         /\ [row EXCEPT !.seen = seen].lag = row.lag
         /\ [row EXCEPT !.seen = seen].due = row.due
         /\ [row EXCEPT !.seen = seen].paused = row.paused
BY DEF ProcRow

LEMMA Rested ==
  ASSUME NEW row \in ProcRow
  PROVE  /\ [row EXCEPT !.lag = 0] \in ProcRow
         /\ [row EXCEPT !.lag = 0].lag = 0
         /\ [row EXCEPT !.lag = 0].at = row.at
         /\ [row EXCEPT !.lag = 0].due = row.due
         /\ [row EXCEPT !.lag = 0].paused = row.paused
BY DEF ProcRow

\* A pass that ends leaves the process idle; only a tick makes a write due.
LEMMA PassedFacts ==
  ASSUME TypeOK, NEW o \in Owners
  PROVE  /\ Passed(o) \in ProcRow /\ Passed(o).at = "idle" /\ Passed(o).lag = 0 /\ Passed(o).seen = None
         /\ Passed(o).due = proc[o].due /\ Passed(o).paused = proc[o].paused
<1> DEFINE back == [proc[o] EXCEPT !.at = "idle"]
           fresh == [back EXCEPT !.lag = 0]
           done == [fresh EXCEPT !.seen = None]
<1>1. Passed(o) = done
  BY DEF Passed
<1>2. proc[o] \in ProcRow /\ "idle" \in Steps
  BY RowFacts DEF Steps
<1>3. /\ back \in ProcRow /\ back.at = "idle"
      /\ back.due = proc[o].due /\ back.paused = proc[o].paused
  BY <1>2, Going
<1> HIDE DEF back
<1>4. /\ fresh \in ProcRow /\ fresh.at = "idle" /\ fresh.lag = 0
      /\ fresh.due = proc[o].due /\ fresh.paused = proc[o].paused
  BY <1>3, Rested
<1> HIDE DEF fresh
<1>5. /\ done \in ProcRow /\ done.at = "idle" /\ done.lag = 0 /\ done.seen = None
      /\ done.due = proc[o].due /\ done.paused = proc[o].paused
  BY <1>4, Seeing
<1> HIDE DEF done
<1> QED BY <1>1, <1>5

LEMMA Turning ==
  ASSUME NEW row \in ProcRow, NEW seen \in Owners \cup {None}
  PROVE  LET turn == [row EXCEPT !.due = FALSE]
             idle == [turn EXCEPT !.at = "idle", !.lag = 0]
             set == [turn EXCEPT !.at = "set", !.seen = seen]
             watch == [turn EXCEPT !.at = "watch"]
         IN  /\ idle \in ProcRow /\ idle.at = "idle" /\ idle.paused = row.paused
             /\ set \in ProcRow /\ set.at = "set" /\ set.paused = row.paused /\ ~set.due
             /\ watch \in ProcRow /\ watch.at = "watch" /\ watch.paused = row.paused /\ ~watch.due
<1> DEFINE turn == [row EXCEPT !.due = FALSE]
           back == [turn EXCEPT !.at = "idle"]
           idle == [back EXCEPT !.lag = 0]
           wait == [turn EXCEPT !.at = "set"]
           set == [wait EXCEPT !.seen = seen]
           watch == [turn EXCEPT !.at = "watch"]
<1>1. turn \in ProcRow /\ turn.paused = row.paused /\ ~turn.due
  BY DEF ProcRow
<1> HIDE DEF turn
<1>2. "idle" \in Steps /\ "set" \in Steps /\ "watch" \in Steps
  BY DEF Steps
<1>3. /\ back \in ProcRow /\ back.at = "idle" /\ back.paused = row.paused
      /\ wait \in ProcRow /\ wait.at = "set" /\ wait.paused = row.paused /\ ~wait.due
      /\ watch \in ProcRow /\ watch.at = "watch" /\ watch.paused = row.paused /\ ~watch.due
  BY <1>1, <1>2, Going
<1> HIDE DEF back, wait
<1>4. /\ idle \in ProcRow /\ idle.at = "idle" /\ idle.paused = row.paused
      /\ set \in ProcRow /\ set.at = "set" /\ set.paused = row.paused /\ ~set.due
  <2>1. idle \in ProcRow /\ idle.at = "idle" /\ idle.paused = row.paused
    BY <1>3, Rested
  <2>2. set \in ProcRow /\ set.at = "set" /\ set.paused = row.paused /\ ~set.due
    BY <1>3, Seeing
  <2> QED BY <2>1, <2>2
<1> QED BY <1>3, <1>4, Zenon DEF turn, back, wait

LEMMA BootKeeps ==
  ASSUME ListenerIInv, NEW o \in Owners, Boot(o)
  PROVE  ListenerIInv'
<1> DEFINE row == [Down EXCEPT !.at = "idle"]
<1>1. TypeOK
  BY DEF ListenerIInv
<1>2. row \in ProcRow /\ row.at = "idle" /\ ~row.paused
  <2>1. "idle" \in Steps
    BY DEF Steps
  <2> QED BY <2>1, DownFacts, Going
<1>3. proc' = [proc EXCEPT ![o] = row] /\ UNCHANGED <<profile, code, lock, conn, faults, late, denied>>
  BY DEF Boot
<1>4. KeyIsKept => Kept(o, row, conn[o], lock)
  <2>1. proc[o].at = "down"
    BY DEF Boot, Ready
  <2> HIDE DEF row
  <2> QED BY <1>1, <1>2, <2>1, RowFacts DEF Kept
<1> HIDE DEF row
<1> QED BY <1>1, <1>2, <1>3, <1>4, RowFacts, OneKeeps

\* _drop: what is read as the key's owner is its owner until it is deleted.
LEMMA DropKeeps ==
  ASSUME ListenerIInv, NEW o \in Owners, NEW at \in {"free", "quit"}, Drop(o, at),
         faults' \in 0 .. MaxFaults, UNCHANGED <<profile, code, lock, late, denied>>
  PROVE  ListenerIInv'
<1> DEFINE there == [proc[o] EXCEPT !.at = at]
           row == [there EXCEPT !.seen = lock.owner]
<1>1. TypeOK /\ lock.owner \in Owners \cup {None}
  BY KeyFacts, RowFacts DEF ListenerIInv
<1>2. proc' = [proc EXCEPT ![o] = row] /\ conn' = [conn EXCEPT ![o] = NoConn]
  BY <1>1 DEF Drop, TypeOK
<1>3. row \in ProcRow /\ row.at = at /\ row.seen = lock.owner /\ row.paused = proc[o].paused
  <2>1. proc[o] \in ProcRow /\ at \in Steps
    BY <1>1, RowFacts DEF Steps
  <2>2. there \in ProcRow /\ there.at = at /\ there.paused = proc[o].paused
    BY <2>1, Going
  <2> HIDE DEF there
  <2> QED BY <1>1, <2>2, Seeing
<1> HIDE DEF row
<1>4. KeyIsKept => Kept(o, row, NoConn, lock)
  BY <1>1, <1>3, RowFacts, NoConnFacts DEF Kept
<1> QED BY <1>1, <1>2, <1>3, <1>4, RowFacts, NoConnFacts, OneKeeps

LEMMA SyncTrackedKeeps ==
  ASSUME ListenerIInv, NEW o \in Owners, Sync(o), SyncTracked(o)
  PROVE  ListenerIInv'
<1>1. TypeOK /\ Tracked(o) /\ proc[o].at = "idle"
  BY DEF ListenerIInv, Sync, SyncTracked, Ready
<1>2. UNCHANGED <<profile, code, lock, faults, late, denied>>
  BY DEF Sync, SyncTracked
<1>3. CASE conn' = [conn EXCEPT ![o].mine = profile.saved] /\ Goes(o, "tick")
  <2> DEFINE row == [proc[o] EXCEPT !.at = "tick"]
             c == [conn[o] EXCEPT !.mine = profile.saved]
  <2>1. /\ row \in ProcRow /\ row.at = "tick" /\ row.lag = proc[o].lag
        /\ row.due = proc[o].due /\ row.paused = proc[o].paused
    <3>1. proc[o] \in ProcRow /\ "tick" \in Steps
      BY <1>1, RowFacts DEF Steps
    <3> QED BY <3>1, Going
  <2>2. c \in ConnRow /\ c.phase = conn[o].phase
    BY <1>1, RowFacts DEF ConnRow
  <2>3. proc' = [proc EXCEPT ![o] = row] /\ conn' = [conn EXCEPT ![o] = c]
    BY <1>3 DEF Goes
  <2> HIDE DEF row, c
  <2>4. KeyIsKept => Kept(o, row, c, lock)
    BY <1>1, <2>1, <2>2, RowFacts DEF Kept, Spent, Tracked
  <2> QED BY <1>1, <1>2, <2>1, <2>2, <2>3, <2>4, RowFacts, OneKeeps
<1>4. CASE Drop(o, "free")
  BY <1>1, <1>2, <1>4, RowFacts, DropKeeps
<1> QED BY <1>3, <1>4 DEF SyncTracked

\* cache.add takes the key only when there is none.
LEMMA SyncNewKeeps ==
  ASSUME ListenerIInv, NEW o \in Owners, Sync(o), SyncNew(o)
  PROVE  ListenerIInv'
<1> DEFINE row == [proc[o] EXCEPT !.at = "tick"]
<1>1. TypeOK /\ ~Tracked(o) /\ proc[o].at = "idle"
  BY DEF ListenerIInv, Sync, SyncNew, Ready
<1>2. UNCHANGED <<code, faults, late, denied>> /\ proc' = [proc EXCEPT ![o] = row]
  BY DEF Sync, SyncNew, Goes
<1>3. /\ row \in ProcRow /\ row.at = "tick" /\ row.lag = proc[o].lag
      /\ row.due = proc[o].due /\ row.paused = proc[o].paused
  <2>1. proc[o] \in ProcRow /\ "tick" \in Steps
    BY <1>1, RowFacts DEF Steps
  <2> QED BY <2>1, Going
<1> HIDE DEF row
<1>4. CASE Acquire(o) /\ conn' = [conn EXCEPT ![o] = Dial(profile.saved)] /\ UNCHANGED profile
  <2> DEFINE c == Dial(profile.saved)
             new == [owner |-> o, left |-> Ttl]
  <2>1. lock' = new /\ lock.owner = None /\ new \in Keys /\ new.owner = o /\ new.left = Ttl
    BY <1>4, NewKey DEF Acquire
  <2>2. c \in ConnRow /\ c.phase = "dialing"
    BY <1>1, RowFacts, DialFacts
  <2> HIDE DEF c, new
  <2>3. KeyIsKept => Kept(o, row, c, new)
    BY <1>1, <1>3, <2>1, <2>2, RowFacts DEF Kept, Spent
  <2>4. conn' = [conn EXCEPT ![o] = c]
    BY <1>4 DEF c
  <2> QED BY <1>1, <1>2, <1>3, <1>4, <2>1, <2>2, <2>3, <2>4, RowFacts, OneKeeps
<1>5. CASE UNCHANGED <<lock, conn>> /\ (UNCHANGED profile \/ Card("missing"))
  <2>1. profile' \in ProfileRow
    <3>1. profile \in ProfileRow
      BY <1>1, RowFacts
    <3> QED BY <1>5, <3>1 DEF Card, ProfileRow
  <2>2. KeyIsKept => Kept(o, row, conn[o], lock)
    BY <1>1, <1>3, RowFacts DEF Kept, Tracked
  <2>3. conn' = [conn EXCEPT ![o] = conn[o]] /\ lock' = lock
    BY <1>1, <1>5, RowFacts
  <2> QED BY <1>1, <1>2, <1>3, <2>1, <2>2, <2>3, RowFacts, OneKeeps
<1> QED BY <1>4, <1>5 DEF SyncNew

LEMMA RefreshReadKeeps ==
  ASSUME ListenerIInv, NEW o \in Owners, RefreshRead(o)
  PROVE  ListenerIInv'
<1> DEFINE turn == [proc[o] EXCEPT !.due = FALSE]
           idle == [turn EXCEPT !.at = "idle", !.lag = 0]
           set == [turn EXCEPT !.at = "set", !.seen = lock.owner]
           watch == [turn EXCEPT !.at = "watch"]
           row == IF ~Tracked(o) THEN idle ELSE IF proc[o].due THEN set ELSE watch
<1>1. TypeOK /\ proc[o].at = "tick" /\ proc[o] \in ProcRow /\ lock.owner \in Owners \cup {None}
  BY RowFacts, KeyFacts DEF ListenerIInv, RefreshRead, Ready
<1>2. proc' = [proc EXCEPT ![o] = row] /\ UNCHANGED <<profile, code, lock, conn, faults, late, denied>>
  BY DEF RefreshRead
<1>3. /\ idle \in ProcRow /\ idle.at = "idle" /\ idle.paused = proc[o].paused
      /\ set \in ProcRow /\ set.at = "set" /\ set.paused = proc[o].paused /\ ~set.due
      /\ watch \in ProcRow /\ watch.at = "watch" /\ watch.paused = proc[o].paused /\ ~watch.due
  BY <1>1, Turning, Zenon
<1> HIDE DEF idle, set, watch
<1>4. row \in ProcRow
  BY <1>3
<1>5. KeyIsKept => Kept(o, row, conn[o], lock)
  <2> SUFFICES ASSUME KeyIsKept PROVE Kept(o, row, conn[o], lock)
    OBVIOUS
  <2>1. Kept(o, proc[o], conn[o], lock) /\ proc[o].lag \in 0 .. 1
    BY <1>1, RowFacts DEF ProcRow
  <2>2. lock.left \in Nat
    BY <1>1, RowFacts, KeyFacts
  <2>3. CASE ~Tracked(o)
    BY <1>3, <2>1, <2>3 DEF Kept, Tracked
  <2>4. CASE Tracked(o) /\ proc[o].due
    BY <1>1, <1>3, <2>1, <2>2, <2>4 DEF Kept, Tracked, Spent
  <2>5. CASE Tracked(o) /\ ~proc[o].due
    BY <1>1, <1>3, <2>1, <2>2, <2>5 DEF Kept, Tracked, Spent
  <2> QED BY <2>3, <2>4, <2>5
<1> HIDE DEF row
<1> QED BY <1>1, <1>2, <1>4, <1>5, RowFacts, OneKeeps

LEMMA RefreshWriteKeeps ==
  ASSUME ListenerIInv, NEW o \in Owners, RefreshWrite(o)
  PROVE  ListenerIInv'
<1>1. TypeOK /\ proc[o].at = "set"
  BY DEF ListenerIInv, RefreshWrite, Ready
<1>2. UNCHANGED <<profile, code, faults, late, denied>>
  BY DEF RefreshWrite
<1>3. CASE lock' = [owner |-> o, left |-> Ttl] /\ Goes(o, "watch") /\ UNCHANGED conn
  <2> DEFINE row == [proc[o] EXCEPT !.at = "watch"]
             new == [owner |-> o, left |-> Ttl]
  <2>1. /\ row \in ProcRow /\ row.at = "watch" /\ row.lag = proc[o].lag
        /\ row.due = proc[o].due /\ row.paused = proc[o].paused
    <3>1. proc[o] \in ProcRow /\ "watch" \in Steps
      BY <1>1, RowFacts DEF Steps
    <3> QED BY <3>1, Going
  <2>2. new \in Keys /\ new.owner = o /\ new.left = Ttl
    BY NewKey
  <2>3. proc' = [proc EXCEPT ![o] = row] /\ lock' = new /\ conn' = [conn EXCEPT ![o] = conn[o]]
    BY <1>1, <1>3, RowFacts DEF Goes
  <2> HIDE DEF row, new
  <2>4. KeyIsKept => lock.owner = o /\ Kept(o, row, conn[o], new)
    <3> SUFFICES ASSUME KeyIsKept PROVE lock.owner = o /\ Kept(o, row, conn[o], new)
      OBVIOUS
    <3>1. ~proc[o].paused /\ conn[o].phase # "off" /\ lock.owner = o /\ ~proc[o].due
      BY <1>1, RowFacts DEF Kept
    <3>2. Spent(row) \in Nat
      BY DEF Spent
    <3> QED BY <2>1, <2>2, <3>1, <3>2 DEF Kept
  <2> QED BY <1>1, <1>2, <2>1, <2>2, <2>3, <2>4, RowFacts, OneKeeps
<1>4. CASE conn' = [conn EXCEPT ![o] = NoConn] /\ proc' = [proc EXCEPT ![o] = Passed(o)] /\ UNCHANGED lock
  <2>1. KeyIsKept => Kept(o, Passed(o), NoConn, lock)
    BY <1>1, RowFacts, PassedFacts, NoConnFacts DEF Kept
  <2> QED BY <1>1, <1>2, <1>4, <2>1, RowFacts, PassedFacts, NoConnFacts, OneKeeps
<1> QED BY <1>3, <1>4 DEF RefreshWrite

-----------------------------------------------------------------------------
(* The watchdog, the release and the network.                              *)

LEMMA ConnEdits ==
  ASSUME NEW c \in ConnRow
  PROVE  /\ \A v \in {"none", "up", "down", "denied"} :
              [c EXCEPT !.note = v] \in ConnRow /\ [c EXCEPT !.note = v].phase = c.phase
         /\ \A v \in {"off", "dialing", "up", "hung", "refused", "broken"} :
              [c EXCEPT !.phase = v] \in ConnRow /\ [c EXCEPT !.phase = v].phase = v
         /\ [c EXCEPT !.used = None] \in ConnRow /\ [c EXCEPT !.used = None].phase = c.phase
         /\ \A n \in 0 .. Rebuild + 1 :
              [c EXCEPT !.idle = n] \in ConnRow /\ [c EXCEPT !.idle = n].phase = c.phase
BY DEF ConnRow

LEMMA RebuiltType ==
  ASSUME TypeOK, NEW o \in Owners
  PROVE  Rebuilt(o) \in ConnRow
<1>1. conn[o] \in ConnRow
  BY RowFacts
<1>2. conn[o].mine \in Codes \cup {None}
  BY <1>1 DEF ConnRow
<1> DEFINE noted == [conn[o] EXCEPT !.note = "none"]
           broken == [conn[o] EXCEPT !.phase = "broken"]
           quiet == [broken EXCEPT !.note = "none"]
           unused == [quiet EXCEPT !.used = None]
           new == [unused EXCEPT !.idle = 0]
<1>3. Rebuilt(o) \in {Dial(conn[o].mine), new, noted}
  BY Zenon DEF Rebuilt
<1>4. noted \in ConnRow /\ broken \in ConnRow
  BY <1>1, ConnEdits
<1> HIDE DEF noted, broken
<1>5. quiet \in ConnRow
  BY <1>4, ConnEdits
<1> HIDE DEF quiet
<1>6. unused \in ConnRow
  BY <1>5, ConnEdits
<1> HIDE DEF unused
<1>7. new \in ConnRow
  <2>1. 0 \in 0 .. Rebuild + 1
    OBVIOUS
  <2> QED BY <1>6, <2>1, ConnEdits
<1> HIDE DEF new
<1> QED BY <1>2, <1>3, <1>4, <1>7, DialFacts

LEMMA WatchKeeps ==
  ASSUME ListenerIInv, NEW o \in Owners, Watch(o)
  PROVE  ListenerIInv'
<1>1. TypeOK /\ proc[o].at = "watch" /\ UNCHANGED <<code, lock, faults, late, denied>>
  BY DEF ListenerIInv, Watch, Ready
<1>2. CASE Drop(o, "free") /\ UNCHANGED profile
  <2>1. faults' \in 0 .. MaxFaults /\ UNCHANGED <<profile, code, lock, late, denied>>
    BY <1>1, <1>2, RowFacts
  <2> QED BY <1>2, <2>1, DropKeeps
<1>3. CASE Flush(o) /\ conn' = [conn EXCEPT ![o] = Rebuilt(o)] /\ proc' = [proc EXCEPT ![o] = Passed(o)]
  <2>1. profile' \in ProfileRow
    <3>1. profile \in ProfileRow
      BY <1>1, RowFacts
    <3> QED BY <1>3, <3>1 DEF Flush, Card, ProfileRow
  <2>2. KeyIsKept => Kept(o, Passed(o), Rebuilt(o), lock)
    <3> SUFFICES ASSUME KeyIsKept PROVE Kept(o, Passed(o), Rebuilt(o), lock)
      OBVIOUS
    <3>1. ~proc[o].paused /\ lock.owner = o /\ lock.left + Spent(proc[o]) >= Ttl
      BY <1>1, RowFacts DEF Kept
    <3>2. Spent(proc[o]) = IF proc[o].due THEN 1 ELSE 0
      BY <1>1 DEF Spent
    <3>3. /\ Passed(o).at = "idle" /\ Passed(o).lag = 0 /\ Passed(o).due = proc[o].due
          /\ Passed(o).paused = proc[o].paused
      BY <1>1, PassedFacts
    <3>4. Spent(Passed(o)) = IF proc[o].due THEN 1 ELSE 0
      BY <3>3 DEF Spent
    <3> QED BY <3>1, <3>2, <3>3, <3>4 DEF Kept
  <2> QED BY <1>1, <1>3, <2>1, <2>2, RowFacts, PassedFacts, RebuiltType, OneKeeps
<1> QED BY <1>2, <1>3 DEF Watch

\* release deletes what it has read as its own, and that is still its own.
LEMMA FreeKeeps ==
  ASSUME ListenerIInv, NEW o \in Owners, Free(o)
  PROVE  ListenerIInv'
<1> DEFINE row == IF proc[o].at = "quit" THEN Down ELSE Passed(o)
           new == IF proc[o].seen = o THEN NoLock ELSE lock
<1>1. TypeOK /\ proc[o].at \in {"free", "quit"} /\ UNCHANGED <<profile, code, conn, faults, late, denied>>
  BY DEF ListenerIInv, Free, Ready
<1>2. proc' = [proc EXCEPT ![o] = row] /\ lock' = new
  BY <1>1, TypeFacts DEF Free, ReleaseKey
<1>3. row \in ProcRow /\ row.at \in {"down", "idle"} /\ (row.paused => proc[o].paused)
  BY <1>1, PassedFacts, DownFacts
<1>4. new \in Keys
  BY <1>1, RowFacts, NoKey
<1>5. KeyIsKept => (new = lock \/ lock.owner \in {None, o}) /\ Kept(o, row, conn[o], new)
  <2>1. KeyIsKept => /\ ~proc[o].paused /\ conn[o].phase = "off"
                     /\ proc[o].seen = o => lock.owner = o
    BY <1>1, RowFacts DEF Kept
  <2> HIDE DEF row
  <2> QED BY <1>3, <2>1 DEF Kept
<1> HIDE DEF row, new
<1> QED BY <1>1, <1>2, <1>3, <1>4, <1>5, RowFacts, OneKeeps

\* What paho's thread does changes neither the key nor whether the process listens.
LEMMA NetworkKeeps ==
  ASSUME ListenerIInv, NEW o \in Owners, NEW c \in ConnRow, conn' = [conn EXCEPT ![o] = c],
         conn[o].phase # "off", c.phase # "off", UNCHANGED <<profile, code, lock, proc, late>>,
         denied' \in BOOLEAN, faults' \in 0 .. MaxFaults
  PROVE  ListenerIInv'
<1>1. TypeOK
  BY DEF ListenerIInv
<1>2. KeyIsKept => Kept(o, proc[o], c, lock)
  <2>1. KeyIsKept => Kept(o, proc[o], conn[o], lock)
    BY <1>1, RowFacts
  <2> QED BY <2>1 DEF Kept
<1> QED BY <1>1, <1>2, RowFacts, OneKeeps

LEMMA AnswerKeeps ==
  ASSUME ListenerIInv, NEW o \in Owners, Answer(o)
  PROVE  ListenerIInv'
<1> DEFINE accepted == conn[o].used = code
           answered == [conn[o] EXCEPT !.phase = IF accepted THEN "up" ELSE "refused"]
           c == [answered EXCEPT !.note = IF accepted THEN "up" ELSE "denied"]
<1>1. TypeOK /\ conn[o] \in ConnRow /\ denied \in BOOLEAN
  BY RowFacts DEF ListenerIInv
<1>2. conn' = [conn EXCEPT ![o] = c]
  BY <1>1, TypeFacts DEF Answer
<1>3. answered \in ConnRow /\ answered.phase # "off"
  <2>1. (IF accepted THEN "up" ELSE "refused") \in {"off", "dialing", "up", "hung", "refused", "broken"}
    OBVIOUS
  <2> QED BY <1>1, <2>1, ConnEdits
<1>4. c \in ConnRow /\ c.phase # "off"
  <2>1. (IF accepted THEN "up" ELSE "denied") \in {"none", "up", "down", "denied"}
    OBVIOUS
  <2>2. PICK v \in {"none", "up", "down", "denied"} : v = IF accepted THEN "up" ELSE "denied"
    BY <2>1
  <2>3. [answered EXCEPT !.note = v] \in ConnRow /\ [answered EXCEPT !.note = v].phase = answered.phase
    <3> HIDE DEF answered
    <3> QED BY ONLY <1>3, ConnEdits
  <2>4. c = [answered EXCEPT !.note = v]
    BY <2>2
  <2> HIDE DEF answered, c
  <2> QED BY <1>3, <2>3, <2>4
<1>5. /\ conn[o].phase # "off" /\ UNCHANGED <<profile, code, lock, proc, faults, late>>
      /\ denied' \in BOOLEAN
  BY <1>1 DEF Answer
<1> HIDE DEF c
<1> QED BY <1>1, <1>2, <1>4, <1>5, RowFacts, NetworkKeeps

LEMMA ReportKeeps ==
  ASSUME ListenerIInv, NEW o \in Owners, Report(o)
  PROVE  ListenerIInv'
<1> DEFINE c == [conn[o] EXCEPT !.idle = 0]
<1>1. TypeOK /\ conn[o] \in ConnRow
  BY RowFacts DEF ListenerIInv
<1>2. c \in ConnRow /\ c.phase = conn[o].phase
  <2>1. 0 \in 0 .. Rebuild + 1
    OBVIOUS
  <2> QED BY <1>1, <2>1, ConnEdits
<1>3. conn' = [conn EXCEPT ![o] = c] /\ conn[o].phase # "off"
      /\ UNCHANGED <<profile, code, lock, proc, faults, late, denied>>
  BY DEF Report
<1> HIDE DEF c
<1> QED BY <1>1, <1>2, <1>3, RowFacts, NetworkKeeps

-----------------------------------------------------------------------------
(* The clock.                                                              *)

LEMMA Ticking ==
  ASSUME NEW row \in ProcRow
  PROVE  LET new == [row EXCEPT !.lag = 1, !.due = TRUE]
         IN  /\ new \in ProcRow /\ new.at = row.at /\ new.seen = row.seen /\ new.lag = 1
             /\ new.due /\ new.paused = row.paused
<1> DEFINE late1 == [row EXCEPT !.lag = 1]
           new == [late1 EXCEPT !.due = TRUE]
<1>1. /\ late1 \in ProcRow /\ late1.at = row.at /\ late1.seen = row.seen /\ late1.lag = 1
      /\ late1.paused = row.paused
  BY DEF ProcRow
<1> HIDE DEF late1
<1>2. /\ new \in ProcRow /\ new.at = row.at /\ new.seen = row.seen /\ new.lag = 1
      /\ new.due /\ new.paused = row.paused
  BY <1>1 DEF ProcRow
<1> QED BY <1>2, Zenon DEF late1

LEMMA AgedFacts ==
  ASSUME TypeOK, NEW o \in Owners
  PROVE  Aged(o) \in ConnRow /\ Aged(o).phase = conn[o].phase
<1>1. conn[o] \in ConnRow
  BY RowFacts
<1>2. conn[o].idle \in 0 .. Rebuild + 1
  BY <1>1 DEF ConnRow
<1> DEFINE n == IF conn[o].idle > Rebuild THEN conn[o].idle ELSE conn[o].idle + 1
<1>3. n \in 0 .. Rebuild + 1
  BY <1>2
<1>4. Aged(o) = conn[o] \/ Aged(o) = [conn[o] EXCEPT !.idle = n]
  BY DEF Aged
<1> HIDE DEF n
<1>5. [conn[o] EXCEPT !.idle = n] \in ConnRow /\ [conn[o] EXCEPT !.idle = n].phase = conn[o].phase
  BY <1>1, <1>3, ConnEdits
<1> QED BY <1>1, <1>4, <1>5

\* A tick finds every process that is up with its last pass done, so it
\* takes the key of none below one third of its time.
LEMMA ClockKeeps ==
  ASSUME ThreeRefreshes, ListenerIInv, Clock
  PROVE  ListenerIInv'
<1> DEFINE new(o) == IF proc[o].at = "down" THEN proc[o] ELSE [proc[o] EXCEPT !.lag = 1, !.due = TRUE]
<1>1. TypeOK /\ lock \in Keys
  BY TypeFacts DEF ListenerIInv
<1>2. /\ proc' = [o \in Owners |-> new(o)] /\ conn' = [o \in Owners |-> Aged(o)]
      /\ lock' = IF lock.left <= 1 THEN NoLock ELSE [lock EXCEPT !.left = lock.left - 1]
      /\ UNCHANGED <<profile, code, faults, late, denied>>
  BY DEF Clock
<1>3. ASSUME NEW o \in Owners
      PROVE  /\ new(o) \in ProcRow /\ new(o).at = proc[o].at /\ new(o).seen = proc[o].seen
             /\ proc[o].at # "down" => new(o).lag = 1 /\ new(o).due
             /\ new(o).paused = proc[o].paused
  <2>1. proc[o] \in ProcRow
    BY <1>1, RowFacts
  <2>2. LET row == [proc[o] EXCEPT !.lag = 1, !.due = TRUE]
        IN  /\ row \in ProcRow /\ row.at = proc[o].at /\ row.seen = proc[o].seen /\ row.lag = 1
            /\ row.due /\ row.paused = proc[o].paused
    BY <2>1, Ticking, Zenon
  <2> QED BY <2>1, <2>2, Zenon
<1> HIDE DEF new
<1>4. /\ lock' \in Keys
      /\ lock.left > 1 => lock'.owner = lock.owner /\ lock'.left = lock.left - 1
  <2>1. CASE lock.left <= 1
    BY <1>1, <1>2, <2>1, NoKey, KeyFacts
  <2>2. CASE ~(lock.left <= 1)
    <3>1. lock' = [lock EXCEPT !.left = lock.left - 1] /\ lock.left \in Nat
      BY <1>1, <1>2, <2>2, KeyFacts
    <3>2. lock \in [owner : Owners, left : 1 .. Ttl]
      BY <1>1, <2>2 DEF Keys, NoLock
    <3>3. lock' \in [owner : Owners, left : 1 .. Ttl] /\ lock'.owner = lock.owner /\ lock'.left = lock.left - 1
      BY <2>2, <3>1, <3>2
    <3> QED BY <3>3 DEF Keys
  <2> QED BY <2>1, <2>2
<1>5. TypeOK'
  <2>1. proc' \in [Owners -> ProcRow] /\ conn' \in [Owners -> ConnRow]
    BY <1>1, <1>2, <1>3, AgedFacts
  <2> QED BY <1>1, <1>2, <1>4, <2>1 DEF TypeOK, Keys, ProcRow, ConnRow
<1>6. ASSUME KeyIsKept, NEW o \in Owners
      PROVE  Kept(o, new(o), Aged(o), lock')
  <2>1. Kept(o, proc[o], conn[o], lock) /\ proc[o].lag \in 0 .. 1 /\ lock.left \in Nat
    <3>1. proc[o] \in ProcRow
      BY <1>1, RowFacts
    <3> QED BY <1>1, <1>6, <3>1, RowFacts, KeyFacts DEF ProcRow
  <2>2. proc[o].at = "down" \/ (proc[o].lag = 0 /\ proc[o].at \notin {"set", "free", "quit"})
    BY <2>1 DEF Clock, Prompt, Kept
  <2>3. Aged(o).phase = conn[o].phase
    BY <1>1, AgedFacts
  <2>4. CASE conn[o].phase = "off"
    BY <1>3, <2>1, <2>2, <2>3, <2>4 DEF Kept
  <2>5. CASE conn[o].phase # "off"
    <3>1. proc[o].at \in {"idle", "tick", "watch"} /\ proc[o].lag = 0 /\ lock.owner = o
      BY <2>1, <2>2, <2>5 DEF Kept
    <3>2. Spent(proc[o]) <= 1 /\ (proc[o].at = "watch" => Spent(proc[o]) = 0)
      BY <2>1, <3>1 DEF Kept, Spent
    <3>3. lock.left + Spent(proc[o]) >= Ttl
      BY <2>1, <2>5 DEF Kept
    <3>4. Spent(proc[o]) \in Nat
      BY DEF Spent
    <3>5. lock.left > 1 /\ lock'.owner = o /\ lock'.left = lock.left - 1
      BY <1>4, <2>1, <3>1, <3>2, <3>3, <3>4 DEF ThreeRefreshes
    <3>6. Spent(new(o)) = IF proc[o].at = "watch" THEN 1 ELSE 2
      BY <1>3, <3>1 DEF Spent
    <3>7. lock'.left + Spent(new(o)) >= Ttl
      BY <2>1, <3>2, <3>3, <3>4, <3>5, <3>6
    <3>8. /\ ~proc[o].paused /\ new(o).paused = proc[o].paused /\ new(o).lag = 1
          /\ new(o).at \in {"idle", "tick", "watch"} /\ Aged(o).phase # "off"
      BY <1>3, <2>1, <2>3, <2>5, <3>1 DEF Kept
    <3> QED BY <3>5, <3>7, <3>8 DEF Kept
  <2> QED BY <2>4, <2>5
<1>7. KeyIsKept => KeyIsKept'
  BY <1>2, <1>6 DEF KeyIsKept
<1> QED BY <1>2, <1>5, <1>7 DEF ListenerIInv

-----------------------------------------------------------------------------
(* Faults and edits.                                                       *)

LEMMA CrashKeeps ==
  ASSUME ListenerIInv, NEW o \in Owners, Crash(o)
  PROVE  ListenerIInv'
<1>1. TypeOK /\ faults' \in 0 .. MaxFaults
  BY RowFacts DEF ListenerIInv, Crash, Happens
<1>2. Kept(o, Down, NoConn, lock)
  BY DownFacts, NoConnFacts DEF Kept
<1>3. /\ proc' = [proc EXCEPT ![o] = Down] /\ conn' = [conn EXCEPT ![o] = NoConn]
      /\ UNCHANGED <<profile, code, lock, late, denied>>
  BY DEF Crash
<1> QED BY <1>1, <1>2, <1>3, RowFacts, DownFacts, NoConnFacts, OneKeeps

LEMMA StopKeeps ==
  ASSUME ListenerIInv, NEW o \in Owners, Stop(o)
  PROVE  ListenerIInv'
<1>1. TypeOK /\ faults' \in 0 .. MaxFaults
  BY RowFacts DEF ListenerIInv, Stop, Happens
<1> QED BY <1>1, DropKeeps DEF Stop

LEMMA PauseKeeps ==
  ASSUME ListenerIInv, NEW o \in Owners, Pause(o)
  PROVE  ListenerIInv'
<1> DEFINE row == [proc[o] EXCEPT !.paused = TRUE]
<1>1. TypeOK /\ faults' \in 0 .. MaxFaults /\ proc[o] \in ProcRow
  BY RowFacts DEF ListenerIInv, Pause, Happens
<1>2. row \in ProcRow
  BY <1>1 DEF ProcRow
<1>3. proc' = [proc EXCEPT ![o] = row] /\ late' = TRUE /\ UNCHANGED <<profile, code, lock, conn, denied>>
  BY DEF Pause
<1> HIDE DEF row
<1>4. TypeOK'
  BY <1>1, <1>2, <1>3 DEF TypeOK, ProcRow
<1> QED BY <1>3, <1>4 DEF ListenerIInv

\* Only a process that was paused wakes up.
LEMMA ResumeKeeps ==
  ASSUME ListenerIInv, NEW o \in Owners, Resume(o)
  PROVE  ListenerIInv'
<1> DEFINE awake == [proc[o] EXCEPT !.paused = FALSE]
           row == [awake EXCEPT !.lag = 0]
<1>1. TypeOK /\ proc[o] \in ProcRow
  BY RowFacts DEF ListenerIInv
<1>2. awake \in ProcRow
  BY <1>1 DEF ProcRow
<1>3. row \in ProcRow
  <2> HIDE DEF awake
  <2> QED BY <1>2, Rested
<1>4. proc' = [proc EXCEPT ![o] = row] /\ UNCHANGED <<profile, code, lock, conn, faults, late, denied>>
  BY <1>1, TypeFacts DEF Resume
<1>5. ~KeyIsKept
  BY DEF Resume, KeyIsKept, Kept
<1> HIDE DEF row
<1> QED BY <1>1, <1>3, <1>4, <1>5, RowFacts, OneKeeps

LEMMA LoseKeeps ==
  ASSUME ListenerIInv, NEW o \in Owners, Lose(o)
  PROVE  ListenerIInv'
<1>1. TypeOK /\ faults' \in 0 .. MaxFaults /\ conn[o] \in ConnRow /\ denied \in BOOLEAN
  BY RowFacts DEF ListenerIInv, Lose, Happens
<1>2. conn[o].phase # "off" /\ UNCHANGED <<profile, code, lock, proc, late, denied>>
  BY DEF Lose
<1>3. CASE conn' = [conn EXCEPT ![o].phase = "dialing", ![o].note = "down"]
  <2> DEFINE dialing == [conn[o] EXCEPT !.phase = "dialing"]
             c == [dialing EXCEPT !.note = "down"]
  <2>1. dialing \in ConnRow /\ dialing.phase = "dialing"
    BY <1>1, ConnEdits
  <2>2. conn' = [conn EXCEPT ![o] = c]
    BY <1>1, <1>3, TypeFacts
  <2> HIDE DEF dialing
  <2>3. c \in ConnRow /\ c.phase = "dialing"
    BY <2>1, ConnEdits
  <2> HIDE DEF c
  <2> QED BY <1>1, <1>2, <2>2, <2>3, NetworkKeeps
<1>4. CASE conn' = [conn EXCEPT ![o].phase = "hung"]
  <2> DEFINE c == [conn[o] EXCEPT !.phase = "hung"]
  <2>1. c \in ConnRow /\ c.phase = "hung"
    BY <1>1, ConnEdits
  <2>2. conn' = [conn EXCEPT ![o] = c]
    BY <1>4
  <2> HIDE DEF c
  <2> QED BY <1>1, <1>2, <2>1, <2>2, NetworkKeeps
<1> QED BY <1>3, <1>4 DEF Lose

\* What a parent or the printer changes is not what keeps connections apart.
LEMMA OutsideKeeps ==
  ASSUME ListenerIInv, Edit \/ Switch \/ Rotate
  PROVE  ListenerIInv'
<1>1. TypeOK /\ profile \in ProfileRow /\ faults \in 0 .. MaxFaults
  BY TypeFacts DEF ListenerIInv
<1>2. UNCHANGED <<lock, proc, conn, late>> /\ faults' \in 0 .. MaxFaults
  <2>1. faults > 0 /\ faults' = faults - 1
    BY DEF Edit, Switch, Rotate, Happens
  <2>2. UNCHANGED <<lock, proc, conn, late>>
    BY DEF Edit, Switch, Rotate
  <2> QED BY <1>1, <2>1, <2>2
<1>3. profile' \in ProfileRow /\ code' \in Codes /\ denied' \in BOOLEAN
  <2>1. CASE Edit
    <3>1. PICK c \in Codes \cup {None} :
            profile' = [profile EXCEPT !.saved = c, !.card = IF c = None THEN @ ELSE "clear"]
      BY <2>1 DEF Edit
    <3> DEFINE saved == [profile EXCEPT !.saved = c]
               text == IF c = None THEN saved.card ELSE "clear"
    <3>2. profile' = [saved EXCEPT !.card = text]
      BY ONLY <3>1, Zenon
    <3>3. saved \in ProfileRow
      BY ONLY <1>1, c \in Codes \cup {None} DEF ProfileRow
    <3> HIDE DEF saved
    <3>4. [saved EXCEPT !.card = text] \in ProfileRow
      BY ONLY <3>3 DEF ProfileRow
    <3>5. UNCHANGED code /\ denied' = FALSE /\ code \in Codes
      BY <1>1, <2>1 DEF Edit, TypeOK
    <3> QED BY ONLY <3>2, <3>4, <3>5
  <2>2. CASE Switch
    <3> DEFINE on == [profile EXCEPT !.on = ~profile.on]
    <3>1. profile' = [on EXCEPT !.card = "clear"]
      BY <2>2 DEF Switch
    <3>2. on \in ProfileRow
      BY ONLY <1>1 DEF ProfileRow
    <3> HIDE DEF on
    <3>3. profile' \in ProfileRow
      BY ONLY <3>1, <3>2 DEF ProfileRow
    <3> QED BY <1>1, <2>2, <3>3 DEF Switch, TypeOK
  <2>3. CASE Rotate
    BY <1>1, <2>3 DEF Rotate, TypeOK
  <2> QED BY <2>1, <2>2, <2>3
<1>4. TypeOK'
  BY <1>1, <1>2, <1>3 DEF TypeOK, ProfileRow
<1>5. KeyIsKept => KeyIsKept'
  BY <1>2 DEF KeyIsKept
<1> QED BY <1>2, <1>4, <1>5 DEF ListenerIInv

-----------------------------------------------------------------------------
(* The specification.                                                      *)

LEMMA InitKeeps ==
  ASSUME Init
  PROVE  ListenerIInv
<1>1. proc \in [Owners -> ProcRow] /\ conn \in [Owners -> ConnRow] /\ lock \in Keys
  BY DownFacts, NoConnFacts, NoKey DEF Init
<1>2. profile \in ProfileRow
  BY DEF Init, ProfileRow
<1>3. code \in Codes /\ faults \in 0 .. MaxFaults /\ late \in BOOLEAN /\ denied \in BOOLEAN
  <2>1. code = Code /\ faults = MaxFaults /\ late = FALSE /\ denied = FALSE
    BY DEF Init
  <2>2. late \in BOOLEAN /\ denied \in BOOLEAN
    BY <2>1, Zenon
  <2>3. code \in Codes /\ faults \in 0 .. MaxFaults
    <3>1. code = Code /\ faults = MaxFaults
      BY <2>1
    <3> QED BY ONLY <3>1, ListenerConstants
  <2> QED BY <2>2, <2>3
<1>4. KeyIsKept
  BY DownFacts, NoConnFacts DEF Init, KeyIsKept, Kept
<1>5. TypeOK
  BY <1>1, <1>2, <1>3, TypeFacts
<1> QED BY <1>4, <1>5 DEF ListenerIInv

LEMMA StepKeeps ==
  ASSUME ThreeRefreshes, ListenerIInv, [Next]_vars
  PROVE  ListenerIInv'
<1>1. ASSUME NEW o \in Owners, Pass(o)
      PROVE  ListenerIInv'
  <2>1. CASE Boot(o)
    BY <2>1, BootKeeps
  <2>2. CASE Sync(o)
    BY <2>2, SyncTrackedKeeps, SyncNewKeeps DEF Sync
  <2>3. CASE RefreshRead(o)
    BY <2>3, RefreshReadKeeps
  <2>4. CASE RefreshWrite(o)
    BY <2>4, RefreshWriteKeeps
  <2>5. CASE Watch(o)
    BY <2>5, WatchKeeps
  <2>6. CASE Free(o)
    BY <2>6, FreeKeeps
  <2> QED BY <1>1, <2>1, <2>2, <2>3, <2>4, <2>5, <2>6 DEF Pass
<1>2. ASSUME NEW o \in Owners, Network(o) \/ Resume(o) \/ Faults(o)
      PROVE  ListenerIInv'
  BY <1>2, AnswerKeeps, ReportKeeps, ResumeKeeps, CrashKeeps, StopKeeps, PauseKeeps, LoseKeeps DEF Network, Faults
<1>3. CASE Clock
  BY <1>3, ClockKeeps
<1>4. CASE Edit \/ Switch \/ Rotate
  BY <1>4, OutsideKeeps
<1>5. CASE UNCHANGED vars
  BY <1>5 DEF vars, ListenerIInv, TypeOK, KeyIsKept
<1> QED BY <1>1, <1>2, <1>3, <1>4, <1>5 DEF Next

\* While no process is paused longer than its passes take, the printer has at
\* most one connection, whoever crashes, is stopped, loses its connection or
\* gets another code: the "exactly one MQTT connection per printer" at the head
\* of listener.py, for any number of processes (PrinterLock, tick).
THEOREM OnePrinterConnection == ASSUME ThreeRefreshes PROVE Spec => []ListenerInv
<1>1. ListenerIInv /\ [Next]_vars => ListenerIInv'
  BY StepKeeps
<1>2. ListenerIInv => ListenerInv
  <2> SUFFICES ASSUME ListenerIInv, Two, ~late PROVE FALSE
    BY DEF ListenerIInv, ListenerInv, OneConnection
  <2>1. PICK o \in Connected, p \in Connected : o # p
    BY DEF Two
  <2>2. o \in Owners /\ p \in Owners /\ conn[o].phase # "off" /\ conn[p].phase # "off"
    BY DEF Connected
  <2>3. lock.owner = o /\ lock.owner = p
    BY <2>2 DEF ListenerIInv, KeyIsKept, Kept
  <2> QED BY <2>1, <2>3
<1>3. Init => ListenerIInv
  BY InitKeeps
<1> QED BY <1>1, <1>2, <1>3, PTL DEF Spec

HIDE ListenerConstants

USE IngestConstants, NoReportIsNothing

-----------------------------------------------------------------------------
(* Reports and queues.                                                     *)

LEMMA ReportFacts ==
  ASSUME NEW r \in Reports
  PROVE  /\ r # Nothing /\ r.by \in Nat
         /\ DOMAIN r.vals \subseteq Fields
         /\ \A f \in DOMAIN r.vals : r.vals[f] \in Values
<1>1. r.vals \in UNION {[D -> Values] : D \in SUBSET Fields} /\ r.by \in Nat /\ r # Nothing
  BY DEF Reports
<1>2. PICK D \in SUBSET Fields : r.vals \in [D -> Values]
  BY <1>1
<1> QED BY <1>1, <1>2

LEMMA NewReport ==
  ASSUME NEW D \in SUBSET Fields, NEW vals \in [D -> Values], NEW n \in Nat
  PROVE  [vals |-> vals, by |-> n] \in Reports
<1>1. vals \in UNION {[E -> Values] : E \in SUBSET Fields}
  OBVIOUS
<1> QED BY <1>1 DEF Reports

LEMMA AppendFacts ==
  ASSUME NEW q \in Seq(Reports), NEW r \in Reports
  PROVE  /\ Append(q, r) \in Seq(Reports) /\ Len(Append(q, r)) = Len(q) + 1
         /\ DOMAIN q = 1 .. Len(q) /\ Len(q) \in Nat
         /\ DOMAIN Append(q, r) = 1 .. Len(q) + 1
         /\ \A i \in 1 .. Len(q) : Append(q, r)[i] = q[i]
         /\ Append(q, r)[Len(q) + 1] = r
OBVIOUS

LEMMA TailFacts ==
  ASSUME NEW q \in Seq(Reports), q # <<>>
  PROVE  /\ Tail(q) \in Seq(Reports) /\ Len(Tail(q)) = Len(q) - 1
         /\ DOMAIN q = 1 .. Len(q) /\ Len(q) \in Nat \ {0}
         /\ DOMAIN Tail(q) = 1 .. Len(q) - 1
         /\ \A i \in 1 .. Len(q) - 1 : Tail(q)[i] = q[i + 1]
         /\ Head(q) = q[1] /\ Head(q) \in Reports
OBVIOUS

-----------------------------------------------------------------------------
(* Types.                                                                  *)

LEMMA EnqueueType ==
  ASSUME IngestTypeOK, ReportsAreDated, NEW D \in SUBSET Fields, NEW vals \in [D -> Values],
         Enqueue(vals), UNCHANGED <<taken, nth>>
  PROVE  /\ age' \in 0 .. 2 /\ reseed' \in BOOLEAN
         /\ queue' \in Seq(Reports) /\ Len(queue') <= Capacity
         /\ ReportsAreDated'
<1> DEFINE r == [vals |-> vals, by |-> nth]
<1>1. nth \in Nat /\ r \in Reports /\ r.by = nth
  BY NewReport DEF IngestTypeOK
<1>2. queue \in Seq(Reports) /\ Len(queue) <= Capacity
  BY DEF IngestTypeOK
<1>3. CASE Len(queue) < Capacity /\ queue' = Append(queue, r) /\ UNCHANGED reseed
  BY <1>1, <1>2, <1>3, AppendFacts DEF IngestTypeOK, ReportsAreDated, Enqueue
<1>4. CASE queue # <<>> /\ queue' = Append(Tail(queue), r) /\ reseed' = TRUE
  <2>1. Tail(queue) \in Seq(Reports) /\ Len(Tail(queue)) = Len(queue) - 1
    BY <1>2, <1>4, TailFacts
  <2>2. \A i \in DOMAIN Tail(queue) : Tail(queue)[i].by <= nth
    BY <1>2, <1>4, TailFacts DEF ReportsAreDated
  <2>3. queue' \in Seq(Reports) /\ Len(queue') <= Capacity
    BY <1>1, <1>2, <1>4, <2>1, AppendFacts
  <2>4. \A i \in DOMAIN queue' : queue'[i].by <= nth
    BY <1>1, <1>4, <2>1, <2>2, AppendFacts
  <2> QED BY <1>4, <2>3, <2>4 DEF Enqueue, ReportsAreDated
<1>5. Len(queue) = Capacity => queue # <<>>
  BY <1>2
<1> QED BY <1>3, <1>4, <1>5 DEF Enqueue, Overflow

\* The type invariant and the dates need nothing else, so they hold also when
\* two consumers run.
LEMMA TypeStep ==
  ASSUME IngestTypeOK, ReportsAreDated, [IngestNext]_ingestVars
  PROVE  IngestTypeOK' /\ ReportsAreDated'
<1>1. ASSUME NEW f \in Fields, NEW v \in Values, Change(f, v) PROVE IngestTypeOK' /\ ReportsAreDated'
  <2>1. printer' \in [Fields -> Values] /\ changes' \in 0 .. MaxChanges
    BY <1>1 DEF Change, IngestTypeOK
  <2>2. CASE link = "up"
    <3>1. {f} \in SUBSET Fields /\ [x \in {f} |-> v] \in [{f} -> Values]
      OBVIOUS
    <3>2. Enqueue([x \in {f} |-> v]) /\ UNCHANGED <<taken, nth>>
      BY <1>1, <2>2 DEF Change, wire
    <3>3. /\ age' \in 0 .. 2 /\ reseed' \in BOOLEAN
          /\ queue' \in Seq(Reports) /\ Len(queue') <= Capacity /\ ReportsAreDated'
      BY <3>1, <3>2, EnqueueType
    <3> QED BY <1>1, <2>1, <3>3 DEF Change, IngestTypeOK, wire, mind
  <2>3. CASE link # "up"
    BY <1>1, <2>1, <2>3 DEF Change, IngestTypeOK, ReportsAreDated, wire, mind
  <2> QED BY <2>2, <2>3
<1>2. ASSUME AnswerAll PROVE IngestTypeOK' /\ ReportsAreDated'
  <2>1. Enqueue(printer) /\ UNCHANGED <<taken, nth>> /\ printer \in [Fields -> Values]
    BY <1>2 DEF AnswerAll, IngestTypeOK
  <2>2. /\ age' \in 0 .. 2 /\ reseed' \in BOOLEAN
        /\ queue' \in Seq(Reports) /\ Len(queue') <= Capacity /\ ReportsAreDated'
    BY <2>1, EnqueueType
  <2> QED BY <1>2, <2>2 DEF AnswerAll, IngestTypeOK, mind
<1>3. ASSUME NEW c \in Consumers, Take(c) PROVE IngestTypeOK' /\ ReportsAreDated'
  <2>1. /\ queue' \in Seq(Reports) /\ Len(queue') <= Capacity
        /\ taken' \in [Consumers -> Reports \cup {Nothing}]
    BY <1>3, TailFacts DEF Take, IngestTypeOK
  <2>2. ReportsAreDated'
    BY <1>3, TailFacts DEF Take, IngestTypeOK, ReportsAreDated, wire
  <2> QED BY <1>3, <2>1, <2>2 DEF Take, IngestTypeOK, wire, mind
<1>4. ASSUME NEW c \in Consumers, Process(c) PROVE IngestTypeOK' /\ ReportsAreDated'
  <2>1. taken[c] \in Reports /\ taken[c].by \in 0 .. nth
    BY <1>4, ReportFacts DEF Process, IngestTypeOK, ReportsAreDated
  <2>2. merged' \in [Fields -> Values \cup {Nothing}]
    BY <1>4, <2>1, ReportFacts DEF Process, Merge, IngestTypeOK
  <2>3. seeded' \in BOOLEAN /\ seed' \in 0 .. nth
    BY <1>4, <2>1 DEF Process, IngestTypeOK
  <2>4. taken' \in [Consumers -> Reports \cup {Nothing}] /\ ReportsAreDated'
    BY <1>4 DEF Process, IngestTypeOK, ReportsAreDated, wire
  <2> QED BY <1>4, <2>2, <2>3, <2>4 DEF Process, IngestTypeOK, wire
<1>5. ASSUME Connect \/ Fail \/ Quiet \/ Reseed \/ Nudge \/ RebuildLink PROVE IngestTypeOK' /\ ReportsAreDated'
  <2>1. IngestTypeOK'
    <3>1. CASE Connect
      <4>1. nth' \in Nat /\ seed' \in 0 .. nth'
        BY <3>1 DEF Connect, IngestTypeOK
      <4> QED BY <3>1, <4>1 DEF Connect, Seeds, IngestTypeOK
    <3>2. CASE Fail
      <4>1. outages' \in 0 .. MaxOutages
        BY <3>2 DEF Fail, IngestTypeOK
      <4> QED BY <3>2, <4>1 DEF Fail, IngestTypeOK, mind
    <3>3. CASE Quiet
      BY <3>3 DEF Quiet, IngestTypeOK, wire, mind
    <3>4. CASE Reseed \/ Nudge
      BY <3>4 DEF Reseed, Nudge, PushAll, IngestTypeOK, mind
    <3>5. CASE RebuildLink
      <4>1. alive' \in SUBSET Consumers /\ age' \in 0 .. 2
        BY <3>5 DEF RebuildLink, Consumers
      <4> QED BY <3>5, <4>1 DEF RebuildLink, IngestTypeOK, mind
    <3> QED BY <1>5, <3>1, <3>2, <3>3, <3>4, <3>5
  <2>2. UNCHANGED <<queue, taken>> /\ nth \in Nat /\ nth' \in Nat /\ nth <= nth'
    BY <1>5 DEF Connect, Fail, Quiet, Reseed, Nudge, RebuildLink, IngestTypeOK, wire
  <2>3. /\ \A i \in DOMAIN queue : queue[i] \in Reports
        /\ \A c \in Consumers : taken[c] # Nothing => taken[c] \in Reports
    BY DEF IngestTypeOK
  <2> QED BY <2>1, <2>2, <2>3, ReportFacts DEF ReportsAreDated
<1>6. CASE UNCHANGED ingestVars
  BY <1>6 DEF ingestVars, wire, mind, IngestTypeOK, ReportsAreDated
<1> QED BY <1>1, <1>2, <1>3, <1>4, <1>5, <1>6 DEF IngestNext, Tick, Work

-----------------------------------------------------------------------------
(* One consumer: what is received, merged in order, is the printer's state. *)

LEMMA OneConsumerStep ==
  ASSUME ~Slow, OneConsumer, IngestTypeOK, [IngestNext]_ingestVars
  PROVE  OneConsumer'
<1>1. ASSUME RebuildLink PROVE OneConsumer'
  BY <1>1 DEF RebuildLink, OneConsumer, Busy
<1>2. ASSUME NEW c \in Consumers, Work(c) PROVE OneConsumer'
  BY <1>2 DEF Work, Take, Process, OneConsumer, IngestTypeOK, Consumers
<1>3. ASSUME UNCHANGED <<taken, alive>> PROVE OneConsumer'
  BY <1>3 DEF OneConsumer
<1> QED BY <1>1, <1>2, <1>3 DEF IngestNext, Tick, Change, AnswerAll, Connect, Fail, Quiet, Reseed, Nudge, ingestVars

\* A report that is queued decides the fields that it carries, and no other.
LEMMA QueuedDecides ==
  ASSUME IngestTypeOK, NEW r \in Reports, queue' = Append(queue, r), UNCHANGED <<taken, merged>>,
         NEW f \in Fields, NEW v
  PROVE  /\ f \in DOMAIN r.vals /\ r.vals[f] = v => Becomes(f, v)'
         /\ f \notin DOMAIN r.vals /\ Becomes(f, v) => Becomes(f, v)'
         /\ (\E i \in DOMAIN queue : Whole(queue[i])) => \E i \in DOMAIN queue' : Whole(queue'[i])
         /\ Whole(r) => \E i \in DOMAIN queue' : Whole(queue'[i])
<1> DEFINE n == Len(queue) + 1
<1>1. /\ DOMAIN queue = 1 .. Len(queue) /\ Len(queue) \in Nat
      /\ DOMAIN queue' = 1 .. n /\ queue'[n] = r /\ r # Nothing
      /\ \A i \in 1 .. Len(queue) : queue'[i] = queue[i]
  BY AppendFacts, ReportFacts DEF IngestTypeOK
<1> HIDE DEF n
<1>2. ASSUME f \in DOMAIN r.vals, r.vals[f] = v PROVE Becomes(f, v)'
  BY <1>1, <1>2 DEF Becomes, Carries, n
<1>3. ASSUME f \notin DOMAIN r.vals, Becomes(f, v) PROVE Becomes(f, v)'
  <2>1. CASE \E i \in DOMAIN queue : /\ Carries(queue[i], f) /\ queue[i].vals[f] = v
                                     /\ \A j \in DOMAIN queue : j > i => ~Carries(queue[j], f)
    BY <1>1, <1>3, <2>1 DEF Becomes, Carries, n
  <2>2. CASE \A j \in DOMAIN queue : ~Carries(queue[j], f)
    BY <1>1, <1>3, <2>2 DEF Becomes, Carries, n
  <2> QED BY <1>3, <2>1, <2>2 DEF Becomes
<1> QED BY <1>1, <1>2, <1>3 DEF Whole, n

\* Taking a report and merging it changes nothing of what is to come of a field.
LEMMA TakeDecidesNothing ==
  ASSUME IngestTypeOK, taken[2] = Nothing, Take(1), NEW f \in Fields, NEW v, Becomes(f, v)
  PROVE  Becomes(f, v)'
<1>1. /\ queue # <<>> /\ queue' = Tail(queue) /\ merged' = merged /\ taken[1] = Nothing
      /\ taken'[1] = Head(queue) /\ queue \in Seq(Reports)
  BY DEF Take, IngestTypeOK, Consumers, mind
<1>2. /\ DOMAIN queue = 1 .. Len(queue) /\ Len(queue) \in Nat \ {0}
      /\ DOMAIN queue' = 1 .. Len(queue) - 1
      /\ \A i \in 1 .. Len(queue) - 1 : queue'[i] = queue[i + 1]
      /\ taken'[1] = queue[1]
  BY <1>1, TailFacts
<1>3. ASSUME NEW i \in DOMAIN queue, Carries(queue[i], f), queue[i].vals[f] = v,
             \A j \in DOMAIN queue : j > i => ~Carries(queue[j], f)
      PROVE  Becomes(f, v)'
  <2>1. CASE i = 1
    BY <1>2, <1>3, <2>1 DEF Becomes, Carries
  <2>2. CASE i > 1
    <3>1. i - 1 \in DOMAIN queue' /\ queue'[i - 1] = queue[i]
      BY <1>2, <2>2
    <3>2. \A j \in DOMAIN queue' : j > i - 1 => ~Carries(queue'[j], f)
      BY <1>2, <1>3, <2>2
    <3> QED BY <1>3, <3>1, <3>2 DEF Becomes, Carries
  <2> QED BY <1>2, <2>1, <2>2
<1>4. CASE \A j \in DOMAIN queue : ~Carries(queue[j], f)
  <2>1. \A j \in DOMAIN queue' : ~Carries(queue'[j], f)
    BY <1>2, <1>4
  <2>2. ~Carries(taken'[1], f) /\ merged[f] = v
    BY <1>1, <1>2, <1>4 DEF Becomes, Carries
  <2> QED BY <1>1, <2>1, <2>2 DEF Becomes, Carries
<1> QED BY <1>3, <1>4 DEF Becomes

LEMMA MergeDecidesNothing ==
  ASSUME IngestTypeOK, Process(1), NEW f \in Fields, NEW v, Becomes(f, v)
  PROVE  Becomes(f, v)'
<1>1. /\ taken[1] # Nothing /\ taken'[1] = Nothing /\ queue' = queue
      /\ merged'[f] = IF f \in DOMAIN taken[1].vals THEN taken[1].vals[f] ELSE merged[f]
  BY DEF Process, Merge, IngestTypeOK, Consumers
<1> QED BY <1>1 DEF Becomes, Carries

\* A queue that takes in a report, with no loss, brings the merged state to
\* what it was to become, changed as the report says.
LEMMA EnqueueKeeps ==
  ASSUME IngestTypeOK, NEW D \in SUBSET Fields, NEW vals \in [D -> Values], Enqueue(vals),
         UNCHANGED <<taken, merged, seeded, nth>>, ~reseed',
         D = Fields \/ (ReceivedIsTrue /\ link = "up" /\ ~asked),
         \A f \in D : vals[f] = printer'[f],
         \A f \in Fields \ D : printer'[f] = printer[f]
  PROVE  ReceivedIsTrue'
<1> DEFINE r == [vals |-> vals, by |-> nth]
<1>1. r \in Reports /\ r.vals = vals /\ DOMAIN vals = D
  BY NewReport DEF IngestTypeOK
<1>2. queue' = Append(queue, r) /\ ~reseed
  BY DEF Enqueue, Overflow, IngestTypeOK
<1> HIDE DEF r
<1>3. ASSUME NEW f \in Fields, NEW v, v = printer'[f] PROVE Becomes(f, v)'
  <2>1. CASE f \in D
    BY <1>1, <1>2, <1>3, <2>1, QueuedDecides
  <2>2. CASE f \notin D
    <3>1. Becomes(f, v)
      BY <1>1, <1>2, <1>3, <2>2 DEF ReceivedIsTrue
    <3> QED BY <1>1, <1>2, <2>2, <3>1, QueuedDecides
  <2> QED BY <2>1, <2>2
<1>4. D = Fields \/ seeded \/ Whole(taken[1]) \/ \E i \in DOMAIN queue : Whole(queue[i])
  BY <1>2 DEF ReceivedIsTrue
<1>5. seeded' \/ Whole(taken'[1]) \/ \E i \in DOMAIN queue' : Whole(queue'[i])
  <2>1. ASSUME D = Fields PROVE \E i \in DOMAIN queue' : Whole(queue'[i])
    <3>1. Whole(r)
      BY <1>1, <2>1, ReportFacts DEF Whole
    <3> QED BY <1>1, <1>2, <3>1, QueuedDecides
  <2>2. ASSUME \E i \in DOMAIN queue : Whole(queue[i]) PROVE \E i \in DOMAIN queue' : Whole(queue'[i])
    BY <1>1, <1>2, <2>2, QueuedDecides
  <2> QED BY <1>4, <2>1, <2>2
<1> QED BY <1>3, <1>5 DEF ReceivedIsTrue, Whole

LEMMA ReceivedStep ==
  ASSUME IngestTypeOK, OneConsumer, ReceivedIsTrue, [IngestNext]_ingestVars
  PROVE  ReceivedIsTrue'
<1>1. ASSUME NEW f \in Fields, NEW v \in Values, Change(f, v) PROVE ReceivedIsTrue'
  <2>1. CASE link = "up" /\ ~asked /\ ~reseed'
    <3>1. Enqueue([x \in {f} |-> v]) /\ UNCHANGED <<taken, merged, seeded, nth>>
      BY <1>1, <2>1 DEF Change, wire, mind
    <3>2. \A g \in Fields : printer'[g] = IF g = f THEN v ELSE printer[g]
      BY <1>1 DEF Change, IngestTypeOK
    <3>3. [x \in {f} |-> v] \in [{f} -> Values] /\ {f} \in SUBSET Fields
      OBVIOUS
    <3> QED BY <2>1, <3>1, <3>2, <3>3, EnqueueKeeps
  <2>2. CASE ~(link = "up" /\ ~asked /\ ~reseed')
    BY <1>1, <2>2 DEF Change, ReceivedIsTrue, wire
  <2> QED BY <2>1, <2>2
<1>2. ASSUME AnswerAll PROVE ReceivedIsTrue'
  <2>1. CASE ~reseed'
    <3>1. /\ Enqueue(printer) /\ UNCHANGED <<printer, taken, merged, seeded, nth>>
          /\ printer \in [Fields -> Values] /\ Fields \in SUBSET Fields
      BY <1>2 DEF AnswerAll, IngestTypeOK, mind
    <3>2. /\ \A f \in Fields : printer[f] = printer'[f]
          /\ \A f \in Fields \ Fields : printer'[f] = printer[f]
      BY <3>1
    <3>3. ~reseed'
      BY <2>1
    <3> QED BY <3>1, <3>2, <3>3, EnqueueKeeps
  <2>2. CASE reseed'
    BY <2>2 DEF ReceivedIsTrue
  <2> QED BY <2>1, <2>2 DEF IngestTypeOK
<1>3. ASSUME NEW c \in Consumers, Take(c) PROVE ReceivedIsTrue'
  <2>1. c = 1 /\ taken[2] = Nothing
    BY <1>3 DEF Take, OneConsumer
  <2>2. ASSUME NEW f \in Fields, NEW v, Becomes(f, v) PROVE Becomes(f, v)'
    BY <1>3, <2>1, <2>2, TakeDecidesNothing
  <2>3. /\ DOMAIN queue = 1 .. Len(queue) /\ Len(queue) \in Nat \ {0}
        /\ DOMAIN queue' = 1 .. Len(queue) - 1
        /\ \A i \in 1 .. Len(queue) - 1 : queue'[i] = queue[i + 1]
        /\ taken'[1] = queue[1] /\ taken[1] = Nothing
    BY <1>3, <2>1, TailFacts DEF Take, IngestTypeOK
  <2>4. ASSUME NEW i \in DOMAIN queue, Whole(queue[i])
        PROVE  Whole(taken'[1]) \/ \E k \in DOMAIN queue' : Whole(queue'[k])
    <3>1. CASE i = 1
      BY <2>3, <2>4, <3>1
    <3>2. CASE i > 1
      <4>1. i - 1 \in DOMAIN queue' /\ queue'[i - 1] = queue[i]
        BY <2>3, <3>2
      <4> QED BY <2>4, <4>1
    <3> QED BY <2>3, <3>1, <3>2
  <2>5. ~Whole(taken[1])
    BY <2>3 DEF Whole
  <2> QED BY <1>3, <2>2, <2>4, <2>5 DEF Take, ReceivedIsTrue, Whole, wire, mind
<1>4. ASSUME NEW c \in Consumers, Process(c) PROVE ReceivedIsTrue'
  <2>1. c = 1
    BY <1>4 DEF Process, OneConsumer, Consumers
  <2>2. ASSUME NEW f \in Fields, NEW v, Becomes(f, v) PROVE Becomes(f, v)'
    BY <1>4, <2>1, <2>2, MergeDecidesNothing
  <2>3. seeded \/ Whole(taken[1]) => seeded'
    BY <1>4, <2>1 DEF Process, Whole
  <2> QED BY <1>4, <2>2, <2>3 DEF Process, ReceivedIsTrue, Whole, wire
<1>5. ASSUME Connect \/ Fail \/ RebuildLink PROVE ReceivedIsTrue'
  BY <1>5 DEF Connect, Seeds, Fail, RebuildLink, ReceivedIsTrue
<1>6. ASSUME UNCHANGED <<printer, queue, taken, mind, link>>,
             ~asked' /\ ~reseed' /\ link = "up" => ~asked /\ ~reseed
      PROVE  ReceivedIsTrue'
  BY <1>6 DEF ReceivedIsTrue, Becomes, Carries, Whole, mind
<1>7. ASSUME Quiet \/ Reseed \/ Nudge \/ UNCHANGED ingestVars PROVE ReceivedIsTrue'
  <2>1. CASE Quiet \/ UNCHANGED ingestVars
    BY <1>6, <2>1 DEF Quiet, ingestVars, wire
  <2>2. CASE Reseed
    BY <1>6, <2>2 DEF Reseed, PushAll
  <2>3. CASE Nudge
    BY <1>6, <2>3 DEF Nudge, PushAll
  <2> QED BY <1>7, <2>1, <2>2, <2>3
<1> QED BY <1>1, <1>2, <1>3, <1>4, <1>5, <1>7 DEF IngestNext, Tick, Work

-----------------------------------------------------------------------------
(* The theorems.                                                           *)

LEMMA SettledFollows ==
  ASSUME IngestTypeOK, ReceivedIsTrue
  PROVE  SettledIsTrue
<1> SUFFICES ASSUME Settled PROVE merged = printer /\ seeded
  BY DEF SettledIsTrue
<1>1. queue = <<>> /\ DOMAIN queue = {} /\ taken[1] = Nothing
  BY DEF Settled, Busy, Consumers
<1>2. \A f \in Fields : merged[f] = printer[f]
  BY <1>1 DEF Settled, ReceivedIsTrue, Becomes, Carries
<1>3. merged = printer
  BY <1>2 DEF IngestTypeOK
<1>4. seeded
  BY <1>1 DEF Settled, ReceivedIsTrue, Whole
<1> QED BY <1>3, <1>4

LEMMA TypeInit == IngestInit => IngestTypeOK /\ ReportsAreDated
<1> SUFFICES ASSUME IngestInit PROVE IngestTypeOK /\ ReportsAreDated
  OBVIOUS
<1>1. queue \in Seq(Reports) /\ Len(queue) <= Capacity /\ DOMAIN queue = {}
  BY DEF IngestInit
<1>2. nth \in Nat /\ seed \in 0 .. nth /\ age \in 0 .. 2
      /\ changes \in 0 .. MaxChanges /\ outages \in 0 .. MaxOutages
  BY DEF IngestInit
<1> QED BY <1>1, <1>2 DEF IngestInit, IngestTypeOK, ReportsAreDated, Consumers

\* The ingest queue never holds more than INGEST_QUEUE_MAX reports and carries
\* only reports, also while two consumers run.
THEOREM QueueBounded == IngestSpec => [](IngestTypeOK /\ ReportsAreDated)
<1>1. IngestTypeOK /\ ReportsAreDated /\ [IngestNext]_ingestVars => (IngestTypeOK /\ ReportsAreDated)'
  BY TypeStep
<1> QED BY <1>1, TypeInit, PTL DEF IngestSpec

\* Through overflows, drops, dead connections and rebuilds: when everything that
\* was received is merged and no full report is due, the merged state is what
\* the printer is doing.  The assumption is that no report outlasts the wait of
\* stop(); the configuration two_consumers shows that it is needed.
THEOREM SettledStateIsTrue ==
  ASSUME ~Slow
  PROVE  IngestSpec => []IngestInv
<1> DEFINE Inv == IngestTypeOK /\ ReportsAreDated /\ OneConsumer /\ ReceivedIsTrue
<1>1. IngestInit => Inv
  BY TypeInit DEF IngestInit, OneConsumer, ReceivedIsTrue, Consumers
<1>2. Inv /\ [IngestNext]_ingestVars => Inv'
  BY TypeStep, OneConsumerStep, ReceivedStep
<1>3. Inv => IngestInv
  BY SettledFollows DEF IngestInv
<1> QED BY <1>1, <1>2, <1>3, PTL DEF IngestSpec
=============================================================================
