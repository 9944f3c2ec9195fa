--------------------------- MODULE HouseholdProofs ---------------------------
(***************************************************************************)
(* Proofs about Household, for every family, every set of shared work and  *)
(* any number of requests: an open family keeps an active contact, no      *)
(* foreign key dangles, no credential outlives its password, a departure   *)
(* takes only the leaver's own work, and a closure closes what was shown.  *)
(***************************************************************************)
EXTENDS Household, FiniteSetTheorems, TLAPS

Inv == HouseholdInv /\ SessionsFollowPasswords

-----------------------------------------------------------------------------
(* The contact.                                                            *)

\* Among any parents one joined first: ranks are numbers, so they cannot fall
\* for ever (a rank n stands for the finite set 0 .. n).
LEMMA SomeoneJoinedFirst ==
  ASSUME NEW T \in SUBSET Parents, T # {}
  PROVE  \E p \in T : \A q \in T : Oldest[p] <= Oldest[q]
<1> DEFINE Initial == {0 .. Oldest[p] : p \in T}
<1>1. IsWellFoundedOn(StrictSubsetOrdering(Nat), FiniteSubsetsOf(Nat))
  BY FS_StrictSubsetOrderingWellFounded
<1>2. Initial \subseteq FiniteSubsetsOf(Nat) /\ Initial # {}
  <2>1. ASSUME NEW p \in T PROVE 0 .. Oldest[p] \in FiniteSubsetsOf(Nat)
    <3>1. Oldest[p] \in Int /\ 0 .. Oldest[p] \subseteq Nat
      BY OldestRanks
    <3>2. IsFiniteSet(0 .. Oldest[p])
      BY <3>1, FS_Interval
    <3> QED BY <3>1, <3>2 DEF FiniteSubsetsOf
  <2> QED BY <2>1
<1>3. PICK least \in Initial : \A i \in Initial : <<i, least>> \notin StrictSubsetOrdering(Nat)
  BY <1>1, <1>2, WFMin, Zenon
<1>4. PICK p \in T : least = 0 .. Oldest[p]
  OBVIOUS
<1>5. ASSUME NEW q \in T PROVE Oldest[p] <= Oldest[q]
  <2>1. <<0 .. Oldest[q], 0 .. Oldest[p]>> \notin StrictSubsetOrdering(Nat)
    BY <1>3, <1>4
  <2>2. 0 .. Oldest[q] \subseteq 0 .. Oldest[p] => 0 .. Oldest[q] = 0 .. Oldest[p]
    BY <2>1, OldestRanks DEF StrictSubsetOrdering
  <2> QED BY <2>2, OldestRanks
<1> QED BY <1>5

\* promote_next_primary_parent finds an active parent when one is left.
LEMMA NextContactIsActive ==
  ASSUME ContactIsActiveParent, family.open, NEW m,
         m \in Parents => ActiveParents \ {m} # {}
  PROVE  NextContact(m) \in ActiveParents \ {m}
<1>1. CASE family.contact # m
  BY <1>1 DEF NextContact, ContactIsActiveParent
<1>2. CASE family.contact = m
  <2> DEFINE left == ActiveParents \ {m}
  <2>1. left # {} /\ left \in SUBSET Parents
    BY <1>2 DEF ContactIsActiveParent, ActiveParents
  <2>2. \E p \in left : \A q \in left : Oldest[p] <= Oldest[q]
    BY <2>1, SomeoneJoinedFirst
  <2>3. (CHOOSE p \in left : \A q \in left : Oldest[p] <= Oldest[q]) \in left
    BY <2>2
  <2> QED BY <1>2, <2>1, <2>3 DEF NextContact
<1> QED BY <1>1, <1>2

\* What was allowed is still allowed while nobody changes the family.
LEMMA AllowedKept ==
  ASSUME NEW r \in Requests, UNCHANGED <<family, people>>,
         req'[r].op = req[r].op, req'[r].actor = req[r].actor, req'[r].target = req[r].target,
         req'[r].key = req[r].key, req'[r].pw = req[r].pw, req'[r].seen = req[r].seen
  PROVE  Allowed(r)' = Allowed(r)
BY DEF Allowed, Trusted, SafeToRemove, Successor, Closable, ActiveParents, In, Version, people

-----------------------------------------------------------------------------
(* Requests that come and go.                                              *)

\* The locks that a request holds follow from what it carries and from the work
\* there is.
LEMMA LocksKept ==
  ASSUME NEW q \in Requests, req'[q] = req[q], UNCHANGED <<state, work>>
  PROVE  /\ Holds(q)' = Holds(q) /\ Past(q)' = Past(q)
         /\ Writes(q)' = Writes(q) /\ Refers(q)' = Refers(q) /\ Leaving(q)' = Leaving(q)
         /\ Cascade(Leaving(q))' = Cascade(Leaving(q))
         /\ Shared(req[q].actor)' = Shared(req[q].actor)
<1>1. Holds(q)' = Holds(q) /\ Past(q)' = Past(q) /\ Writes(q)' = Writes(q) 
  BY DEF Holds, Past, Writes
<1>2. Refers(q)' = Refers(q)
  BY DEF Refers, Checked
<1>3. Leaving(q)' = Leaving(q)
  BY DEF Leaving, In
<1>4. Cascade(Leaving(q))' = Cascade(Leaving(q))
  BY <1>3 DEF Cascade
<1>5. Shared(req[q].actor)' = Shared(req[q].actor)
  BY DEF Shared
<1> QED BY <1>1, <1>2, <1>3, <1>4, <1>5

\* A step of r that changes what r carries and nothing else.
LEMMA LocalStep ==
  ASSUME Inv, NEW r \in Requests, NEW n \in Request, req' = [req EXCEPT ![r] = n],
         UNCHANGED <<family, people, work>>,
         n.pc \in {"staged", "checked", "read"} => n.copy.st = "live",
         n.pc \notin {"handed", "read", "staged", "checked"} => n.rows = {},
         Holds(r)' => /\ Allowed(r)'
                      /\ n.op \in {"depart", "remove", "close"} /\ (n.pc = "handed" => n.op = "depart")
                      /\ \A q \in Requests \ {r} : ~Holds(q),
         \A q \in Requests \ {r} : Writes(r)' \cap Writes(q) = {},
         \A m \in Refers(r)' : In(m),
         \A q \in Requests \ {r} : Past(q) =>
            Refers(r)' \cap Leaving(q) = {} /\ Writes(r)' \cap Cascade(Leaving(q)) = {},
         Past(r)' => \A q \in Requests \ {r} : /\ Refers(q) \cap Leaving(r)' = {}
                                               /\ Writes(q) \cap Cascade(Leaving(r))' = {},
         n.pc = "handed" => n.rows = Shared(n.actor),
         n.pc = "flow" => /\ n.actor \in Members /\ n.since <= changed[n.actor]
                          /\ n.since = changed[n.actor] => n.pw = passwd[n.actor]
  PROVE  Inv'
<1>1. req'[r] = n /\ \A q \in Requests \ {r} : req'[q] = req[q]
  BY DEF Inv, HouseholdInv, RequestsOK
<1>2. TypeOK' /\ ContactIsActiveParent' /\ SessionsFollowPasswords'
  BY DEF Inv, HouseholdInv, TypeOK, ContactIsActiveParent, SessionsFollowPasswords, ActiveParents, In, people
<1>3. RequestsOK'
  BY <1>1 DEF Inv, HouseholdInv, RequestsOK
<1>4. FamilyHeld'
  <2>1. \A q \in Requests \ {r} : Allowed(q)' = Allowed(q) /\ (Holds(q)' <=> Holds(q))
    BY <1>1, AllowedKept, LocksKept DEF people
  <2> QED BY <1>1, <2>1 DEF Inv, HouseholdInv, FamilyHeld
<1>5. WorkHeld'
  <2>1. \A q \in Requests \ {r} :
          /\ Writes(q)' = Writes(q) /\ Refers(q)' = Refers(q) /\ Leaving(q)' = Leaving(q)
          /\ Past(q)' = Past(q) /\ Cascade(Leaving(q))' = Cascade(Leaving(q))
          /\ Shared(req[q].actor)' = Shared(req[q].actor)
    BY <1>1, LocksKept DEF people
  <2>2. \A m : In(m)' <=> In(m)
    BY DEF In, people
  <2>3. Shared(n.actor)' = Shared(n.actor) /\ UNCHANGED work
    BY DEF Shared
  <2> SUFFICES ASSUME NEW x \in Requests PROVE WorkHeld!(x)'
    BY DEF WorkHeld
  <2>4. CASE x = r
    BY <1>1, <2>1, <2>2, <2>3, <2>4 DEF Inv, HouseholdInv, WorkHeld
  <2>5. CASE x # r
    <3>1. \A q \in Requests \ {x} : Writes(x)' \cap Writes(q)' = {}
      BY <2>1, <2>5 DEF Inv, HouseholdInv, WorkHeld
    <3>2. \A m \in Refers(x)' : In(m)'
      BY <2>1, <2>2, <2>5 DEF Inv, HouseholdInv, WorkHeld
    <3>3. Past(x)' => \A q \in Requests \ {x} : /\ Refers(q)' \cap Leaving(x)' = {}
                                                /\ Writes(q)' \cap Cascade(Leaving(x))' = {}
      BY <2>1, <2>5 DEF Inv, HouseholdInv, WorkHeld
    <3>4. (req[x].pc = "handed" => req[x].rows = Shared(req[x].actor))'
      BY <1>1, <2>1, <2>5 DEF Inv, HouseholdInv, WorkHeld
    <3> QED BY <3>1, <3>2, <3>3, <3>4
  <2> QED BY <2>4, <2>5
<1>6. FlowsDated'
  BY <1>1 DEF Inv, HouseholdInv, FlowsDated, people
<1> QED BY <1>2, <1>3, <1>4, <1>5, <1>6 DEF Inv, HouseholdInv

\* A request that holds nothing, wants nothing written and runs no Google flow
\* disturbs nobody.
LEMMA IdleStep ==
  ASSUME Inv, NEW r \in Requests, NEW n \in Request, req' = [req EXCEPT ![r] = n],
         UNCHANGED <<family, people, work>>, n.pc \in {"new", "asked", "review", "done"}, n.rows = {}
  PROVE  Inv'
<1>1. req'[r] = n
  BY DEF Inv, HouseholdInv, RequestsOK
<1>2. ~Holds(r)' /\ ~Past(r)' /\ Writes(r)' = {} /\ Refers(r)' = {}
  BY <1>1 DEF Holds, Past, Writes, Refers
<1> QED BY <1>2, LocalStep

\* The empty request.
LEMMA DoneIsRequest == Fresh \in Request /\ [Fresh EXCEPT !.pc = "done"] \in Request
BY DEF Fresh, Request, Steps, Ops, Rows, NoRow, Row

LEMMA EndStep ==
  ASSUME Inv, NEW r \in Requests, End(r), UNCHANGED <<family, people, work>>
  PROVE  Inv'
<1>1. [Fresh EXCEPT !.pc = "done"] \in Request /\ [Fresh EXCEPT !.pc = "done"].pc = "done"
  BY DoneIsRequest DEF Fresh
<1>2. [Fresh EXCEPT !.pc = "done"].rows = {}
  BY DEF Fresh
<1> QED BY <1>1, <1>2, IdleStep DEF End

\* A request as it arrives.
LEMMA ArrivesAs ==
  ASSUME Inv, NEW m \in Members, NEW op \in Ops, NEW pc \in Steps
  PROVE  /\ As(m, op, pc) \in Request
         /\ \A t \in Members \cup {Nobody} : [As(m, op, pc) EXCEPT !.target = t] \in Request
<1>1. token[m] \in Nat /\ passwd[m] \in Nat /\ changed[m] \in Nat
  BY DEF Inv, HouseholdInv, TypeOK
<1>2. NoRow \in Rows
  BY DEF Rows
<1> QED BY <1>1, <1>2 DEF As, Fresh, Request

LEMMA ArriveStep ==
  ASSUME Inv, NEW r \in Requests, Arrive(r)
  PROVE  Inv'
<1>1. PICK m \in Authenticated :
       \/ req' = [req EXCEPT ![r] = As(m, "logout", "asked")]
       \/ req' = [req EXCEPT ![r] = As(m, "close", "review")]
       \/ \E s \in IF m \in Parents THEN Parents ELSE {Nobody} :
            req' = [req EXCEPT ![r] = [As(m, "depart", "asked") EXCEPT !.target = s]]
       \/ /\ m \in Parents
          /\ \E op \in {"transfer", "deactivate", "reactivate", "remove", "reset", "create"},
                t \in Members : req' = [req EXCEPT ![r] = [As(m, op, "asked") EXCEPT !.target = t]]
  BY DEF Arrive
<1> USE DEF Arrive
<1>2. m \in Members
  BY DEF Authenticated
<1>3. CASE req' = [req EXCEPT ![r] = As(m, "logout", "asked")]
  <2>1. As(m, "logout", "asked") \in Request
    BY <1>2, ArrivesAs DEF Ops, Steps
  <2>2. As(m, "logout", "asked").pc = "asked" /\ As(m, "logout", "asked").rows = {}
    BY DEF As, Fresh
  <2> QED BY <1>3, <2>1, <2>2, IdleStep
<1>4. CASE req' = [req EXCEPT ![r] = As(m, "close", "review")]
  <2>1. As(m, "close", "review") \in Request
    BY <1>2, ArrivesAs DEF Ops, Steps
  <2>2. As(m, "close", "review").pc = "review" /\ As(m, "close", "review").rows = {}
    BY DEF As, Fresh
  <2> QED BY <1>4, <2>1, <2>2, IdleStep
<1>5. ASSUME NEW op \in Ops, NEW t \in Members \cup {Nobody},
             req' = [req EXCEPT ![r] = [As(m, op, "asked") EXCEPT !.target = t]]
      PROVE  Inv'
  <2>1. [As(m, op, "asked") EXCEPT !.target = t] \in Request
    BY <1>2, ArrivesAs DEF Steps
  <2>2. [As(m, op, "asked") EXCEPT !.target = t].pc = "asked" /\ [As(m, op, "asked") EXCEPT !.target = t].rows = {}
    BY DEF As, Fresh
  <2> QED BY <1>5, <2>1, <2>2, IdleStep
<1> QED BY <1>1, <1>3, <1>4, <1>5 DEF Ops, Members

LEMMA ArriveLoginStep ==
  ASSUME Inv, NEW r \in Requests, ArriveLogin(r)
  PROVE  Inv'
<1>1. PICK m \in Members : req' = [req EXCEPT ![r] = As(m, "login", "asked")]
  BY DEF ArriveLogin
<1>2. As(m, "login", "asked") \in Request
  BY ArrivesAs DEF Ops, Steps
<1>3. As(m, "login", "asked").pc = "asked" /\ As(m, "login", "asked").rows = {}
  BY DEF As, Fresh
<1> QED BY <1>1, <1>2, <1>3, IdleStep DEF ArriveLogin

LEMMA ArriveGoogleStep ==
  ASSUME Inv, NEW r \in Requests, ArriveGoogle(r)
  PROVE  Inv'
<1>1. PICK m \in Members : req' = [req EXCEPT ![r] = As(m, "google", "flow")]
  BY DEF ArriveGoogle
<1> DEFINE n == As(m, "google", "flow")
<1>2. n \in Request
  BY ArrivesAs DEF Ops, Steps
<1>3. n.pc = "flow" /\ n.rows = {} /\ n.actor = m /\ n.since = changed[m] /\ n.pw = passwd[m]
  BY DEF As, Fresh
<1>4. changed[m] \in Nat
  BY DEF Inv, HouseholdInv, TypeOK
<1>5. req'[r] = n
  BY <1>1 DEF Inv, HouseholdInv, RequestsOK
<1>6. ~Holds(r)' /\ ~Past(r)' /\ Writes(r)' = {} /\ Refers(r)' = {}
  BY <1>3, <1>5 DEF Holds, Past, Writes, Refers
<1>7. UNCHANGED <<family, people, work>> /\ n.since <= changed[m]
  BY <1>3, <1>4 DEF ArriveGoogle
<1>8. req' = [req EXCEPT ![r] = n]
  BY <1>1
<1> HIDE DEF n
<1> QED BY <1>2, <1>3, <1>6, <1>7, <1>8, LocalStep

LEMMA ArriveWriteStep ==
  ASSUME Inv, NEW r \in Requests, ArriveWrite(r)
  PROVE  Inv'
<1>1. PICK m \in Authenticated, w \in Works, h \in Members \cup {Nobody} :
        /\ work[w].st = "none" /\ \A q \in Requests : w \notin req[q].rows
        /\ req' = [req EXCEPT ![r] = [As(m, "write", "staged") EXCEPT
                     !.rows = {w}, !.copy = Row("live", m, h)]]
  BY DEF ArriveWrite
<1> DEFINE n == [As(m, "write", "staged") EXCEPT !.rows = {w}, !.copy = Row("live", m, h)]
<1>2. m \in Members
  BY DEF Authenticated
<1>3. n \in Request
  <2>1. As(m, "write", "staged") \in Request
    BY <1>2, ArrivesAs DEF Ops, Steps
  <2>2. Row("live", m, h) \in Rows /\ {w} \in SUBSET Works
    BY <1>2 DEF Rows, Row
  <2> QED BY <2>1, <2>2 DEF Request
<1>4. n.pc = "staged" /\ n.rows = {w} /\ n.copy.st = "live"
  BY DEF As, Fresh, Row
<1>5. req'[r] = n
  BY <1>1 DEF Inv, HouseholdInv, RequestsOK
<1>6. ~Holds(r)' /\ ~Past(r)' /\ Refers(r)' = {} /\ Writes(r)' = {w}
  BY <1>4, <1>5 DEF Holds, Past, Writes, Refers
<1>7. \A q \in Requests : w \notin Writes(q) /\ w \notin Cascade(Leaving(q))
  BY <1>1 DEF Writes, Cascade
<1>8. UNCHANGED <<family, people, work>> /\ req' = [req EXCEPT ![r] = n]
  BY <1>1 DEF ArriveWrite
<1> HIDE DEF n
<1> QED BY <1>3, <1>4, <1>6, <1>7, <1>8, LocalStep

LEMMA ArriveEditStep ==
  ASSUME Inv, NEW r \in Requests, ArriveEdit(r)
  PROVE  Inv'
<1>1. PICK m \in Authenticated \cap Parents, w \in Works, h \in Members \cup {Nobody} :
        /\ work[w].st = "live"
        /\ req' = [req EXCEPT ![r] = [As(m, "edit", "read") EXCEPT
                     !.rows = {w}, !.copy = [work[w] EXCEPT !.holder = h]]]
  BY DEF ArriveEdit
<1> DEFINE n == [As(m, "edit", "read") EXCEPT !.rows = {w}, !.copy = [work[w] EXCEPT !.holder = h]]
<1>2. [work[w] EXCEPT !.holder = h] \in Rows /\ [work[w] EXCEPT !.holder = h].st = "live"
  <2>1. work[w] \in [st : {"live"}, author : Members, holder : Members \cup {Nobody}]
    BY <1>1 DEF Inv, HouseholdInv, TypeOK, Rows, Row, NoRow
  <2> QED BY <2>1 DEF Rows
<1>3. n \in Request
  <2>1. As(m, "edit", "read") \in Request
    BY ArrivesAs DEF Ops, Steps, Members
  <2> QED BY <1>2, <2>1 DEF Request
<1>4. n.pc = "read" /\ n.copy.st = "live"
  BY <1>2 DEF As, Fresh
<1>5. req'[r] = n
  BY <1>1 DEF Inv, HouseholdInv, RequestsOK
<1>6. ~Holds(r)' /\ ~Past(r)' /\ Refers(r)' = {} /\ Writes(r)' = {}
  BY <1>4, <1>5 DEF Holds, Past, Writes, Refers
<1>7. UNCHANGED <<family, people, work>> /\ req' = [req EXCEPT ![r] = n]
  BY <1>1 DEF ArriveEdit
<1> HIDE DEF n
<1> QED BY <1>3, <1>4, <1>6, <1>7, LocalStep

\* A request that takes its next step, and carries what it carried.
LEMMA Going ==
  ASSUME Inv, NEW r \in Requests, NEW pc \in Steps, Go(r, pc)
  PROVE  \E n \in Request : /\ req' = [req EXCEPT ![r] = n] /\ req'[r] = n
                            /\ n = [req[r] EXCEPT !.pc = pc] /\ n.pc = pc
<1>1. req[r] \in Request /\ req \in [Requests -> Request]
  BY DEF Inv, HouseholdInv, RequestsOK
<1> DEFINE n == [req[r] EXCEPT !.pc = pc]
<1>2. n \in Request /\ n.pc = pc
  BY <1>1 DEF Request
<1>3. req' = [req EXCEPT ![r] = n] /\ req'[r] = n
  BY <1>1 DEF Go
<1> QED BY <1>2, <1>3

LEMMA SameTask ==
  ASSUME NEW r \in Requests, UNCHANGED <<family, people, work>>,
         NEW n, req'[r] = n, NEW pc, n = [req[r] EXCEPT !.pc = pc], req[r] \in Request
  PROVE  /\ Leaving(r)' = Leaving(r) /\ Cascade(Leaving(r))' = Cascade(Leaving(r))
         /\ Allowed(r)' = Allowed(r) /\ Checked(r)' = Checked(r)
         /\ n.op = req[r].op /\ n.rows = req[r].rows /\ n.copy = req[r].copy
<1>1. /\ n.op = req[r].op /\ n.actor = req[r].actor /\ n.target = req[r].target /\ n.key = req[r].key
      /\ n.pw = req[r].pw /\ n.seen = req[r].seen /\ n.rows = req[r].rows /\ n.copy = req[r].copy
  BY DEF Request
<1>2. Leaving(r)' = Leaving(r)
  BY <1>1 DEF Leaving, In, people
<1>3. Cascade(Leaving(r))' = Cascade(Leaving(r))
  BY <1>2 DEF Cascade
<1>4. Allowed(r)' = Allowed(r)
  BY <1>1, AllowedKept
<1>5. Checked(r)' = Checked(r)
  BY <1>1 DEF Checked
<1> QED BY <1>1, <1>2, <1>3, <1>4, <1>5

LEMMA RefuseStep ==
  ASSUME Inv, NEW r \in Requests, Refuse(r)
  PROVE  Inv'
BY EndStep DEF Refuse

LEMMA VersionSeen ==
  ASSUME Inv
  PROVE  Version \in (Parents \cup {Nobody}) \X SUBSET (Members \X BOOLEAN)
BY DEF Version, Inv, HouseholdInv, TypeOK

LEMMA ReviewStep ==
  ASSUME Inv, NEW r \in Requests, Review(r)
  PROVE  Inv'
<1>1. CASE End(r)
  BY <1>1, EndStep DEF Review
<1>2. CASE req' = [req EXCEPT ![r].seen = Version, ![r].pc = "asked"]
  <2> DEFINE n == [req[r] EXCEPT !.seen = Version, !.pc = "asked"]
  <2>1. req[r] \in Request /\ req[r].rows = {}
    BY DEF Review, Inv, HouseholdInv, RequestsOK
  <2>2. n \in Request /\ n.pc = "asked" /\ n.rows = {}
    BY <2>1, VersionSeen DEF Request, Steps
  <2>3. req' = [req EXCEPT ![r] = n]
    BY <1>2 DEF Inv, HouseholdInv, RequestsOK, Request
  <2> HIDE DEF n
  <2> QED BY <2>2, <2>3, IdleStep DEF Review
<1> QED BY <1>1, <1>2 DEF Review

LEMMA EnterStep ==
  ASSUME Inv, NEW r \in Requests, Enter(r)
  PROVE  Inv'
<1>1. PICK n \in Request : /\ req' = [req EXCEPT ![r] = n] /\ req'[r] = n
                           /\ n = [req[r] EXCEPT !.pc = "inside"] /\ n.pc = "inside"
  BY Going DEF Enter, Steps
<1>2. req[r] \in Request /\ req[r].rows = {} /\ UNCHANGED <<family, people, work>>
  BY DEF Inv, HouseholdInv, RequestsOK, Enter, Entering
<1>3. Allowed(r)' = Allowed(r) /\ n.op = req[r].op /\ n.rows = {}
  BY <1>1, <1>2, SameTask
<1>4. ~Past(r)' /\ Writes(r)' = {} /\ Refers(r)' = {}
  BY <1>1 DEF Past, Writes, Refers
<1>5. \A q \in Requests : ~Holds(q)
  BY DEF Enter, Entering, FamilyFree, Holds, Past
<1>6. Allowed(r)' /\ n.op \in {"depart", "remove", "close"}
  BY <1>3 DEF Enter, Entering
<1> QED BY ONLY Inv, <1>1, <1>2, <1>3, <1>4, <1>5, <1>6, LocalStep

LEMMA FenceStep ==
  ASSUME Inv, NEW r \in Requests, Fence(r)
  PROVE  Inv'
<1>1. CASE End(r)
  BY <1>1, EndStep DEF Fence
<1>2. CASE Go(r, "fenced") /\ \A q \in Requests \ {r} : /\ Refers(q) \cap Leaving(r) = {}
                                                        /\ Writes(q) \cap Cascade(Leaving(r)) = {}
  <2>1. PICK n \in Request : /\ req' = [req EXCEPT ![r] = n] /\ req'[r] = n
                             /\ n = [req[r] EXCEPT !.pc = "fenced"] /\ n.pc = "fenced"
    BY <1>2, Going DEF Steps
  <2>2. req[r] \in Request /\ req[r].rows = {} /\ UNCHANGED <<family, people, work>>
    BY DEF Inv, HouseholdInv, RequestsOK, Fence
  <2>3. /\ Leaving(r)' = Leaving(r) /\ Cascade(Leaving(r))' = Cascade(Leaving(r))
        /\ Allowed(r)' = Allowed(r) /\ n.op = req[r].op /\ n.rows = {}
    BY <2>1, <2>2, SameTask
  <2>4. Writes(r)' = {} /\ Refers(r)' = {}
    BY <2>1 DEF Writes, Refers
  <2>5. Allowed(r) /\ n.op \in {"depart", "remove", "close"} /\ \A q \in Requests \ {r} : ~Holds(q)
    BY <2>3 DEF Inv, HouseholdInv, FamilyHeld, Holds, Fence
  <2>6. \A q \in Requests \ {r} : ~Past(q)
    BY <2>5 DEF Holds, Past
  <2> QED BY ONLY Inv, <1>2, <2>1, <2>2, <2>3, <2>4, <2>5, <2>6, LocalStep
<1> QED BY <1>1, <1>2 DEF Fence

LEMMA HandOverStep ==
  ASSUME Inv, NEW r \in Requests, HandOver(r)
  PROVE  Inv'
<1>1. CASE End(r)
  BY <1>1, EndStep DEF HandOver
<1>2. CASE req' = [req EXCEPT ![r].pc = "handed", ![r].rows = Shared(req[r].actor)]
  <2> DEFINE n == [req[r] EXCEPT !.pc = "handed", !.rows = Shared(req[r].actor)]
  <2>1. req[r] \in Request /\ req \in [Requests -> Request] /\ UNCHANGED <<family, people, work>>
    BY DEF Inv, HouseholdInv, RequestsOK, HandOver
  <2>2. /\ n \in Request /\ n.pc = "handed" /\ n.rows = Shared(req[r].actor) /\ n.actor = req[r].actor
        /\ n.op = req[r].op /\ n.target = req[r].target /\ n.key = req[r].key /\ n.pw = req[r].pw
        /\ n.seen = req[r].seen
    BY <2>1 DEF Request, Steps, Shared
  <2>3. req' = [req EXCEPT ![r] = n] /\ req'[r] = n
    BY <1>2, <2>1
  <2> HIDE DEF n
  <2>4. Leaving(r)' = Leaving(r)
    BY <2>1, <2>2, <2>3 DEF Leaving, In, people
  <2>5. Cascade(Leaving(r))' = Cascade(Leaving(r))
    BY <2>1, <2>4 DEF Cascade
  <2>6. Allowed(r)' = Allowed(r)
    BY <2>1, <2>2, <2>3, AllowedKept
  <2>7. Writes(r)' = {} /\ Refers(r)' = {}
    BY <2>2, <2>3 DEF Writes, Refers
  <2>8. /\ Past(r) /\ Allowed(r) /\ n.op = "depart" /\ \A q \in Requests \ {r} : ~Holds(q)
    BY <2>2 DEF Inv, HouseholdInv, FamilyHeld, Holds, Past, HandOver
  <2>9. /\ \A q \in Requests \ {r} : ~Past(q)
        /\ \A q \in Requests \ {r} : Refers(q) \cap Leaving(r) = {} /\ Writes(q) \cap Cascade(Leaving(r)) = {}
    BY <2>8 DEF Inv, HouseholdInv, WorkHeld, Holds, Past
  <2> QED BY ONLY Inv, <2>1, <2>2, <2>3, <2>4, <2>5, <2>6, <2>7, <2>8, <2>9, LocalStep
<1> QED BY <1>1, <1>2 DEF HandOver

LEMMA StageStep ==
  ASSUME Inv, NEW r \in Requests, Stage(r)
  PROVE  Inv'
<1>1. PICK n \in Request : /\ req' = [req EXCEPT ![r] = n] /\ req'[r] = n
                           /\ n = [req[r] EXCEPT !.pc = "staged"] /\ n.pc = "staged"
  BY Going DEF Stage, Steps
<1>2. req[r] \in Request /\ req[r].copy.st = "live"
  <2>1. req[r].pc = "read"
    BY DEF Stage
  <2> QED BY <2>1 DEF Inv, HouseholdInv, RequestsOK
<1>3. n.rows = req[r].rows /\ n.copy = req[r].copy
  BY <1>1, <1>2 DEF Request
<1>4. ~Holds(r)' /\ ~Past(r)' /\ Writes(r)' = req[r].rows /\ Refers(r)' = {}
  BY <1>1, <1>3 DEF Past, Writes, Refers, Holds
<1>5. \A q \in Requests \ {r} : /\ req[r].rows \cap Writes(q) = {}
                                /\ Past(q) => req[r].rows \cap Cascade(Leaving(q)) = {}
  BY DEF Stage, RowFree
<1>6. UNCHANGED <<family, people, work>>
  BY DEF Stage
<1> QED BY ONLY Inv, <1>1, <1>2, <1>3, <1>4, <1>5, <1>6, LocalStep

LEMMA CheckKeysStep ==
  ASSUME Inv, NEW r \in Requests, CheckKeys(r)
  PROVE  Inv'
<1>1. CASE End(r)
  BY <1>1, EndStep DEF CheckKeys
<1>2. CASE Go(r, "checked") /\ \A m \in Checked(r) : In(m)
  <2>1. PICK n \in Request : /\ req' = [req EXCEPT ![r] = n] /\ req'[r] = n
                             /\ n = [req[r] EXCEPT !.pc = "checked"] /\ n.pc = "checked"
    BY <1>2, Going DEF Steps
  <2>2. req[r] \in Request /\ req[r].copy.st = "live"
    <3>1. req[r].pc = "staged"
      BY DEF CheckKeys
    <3> QED BY <3>1 DEF Inv, HouseholdInv, RequestsOK
  <2>7. UNCHANGED <<family, people, work>>
    BY DEF CheckKeys
  <2>3. n.rows = req[r].rows /\ n.copy = req[r].copy /\ Checked(r)' = Checked(r)
    BY <2>1, <2>2, <2>7, SameTask
  <2>4. ~Holds(r)' /\ ~Past(r)' /\ Writes(r)' = Writes(r) /\ Refers(r)' = Checked(r)
    BY <2>1, <2>3 DEF Past, Writes, Refers, Holds, CheckKeys
  <2>5. \A q \in Requests \ {r} : /\ Writes(r) \cap Writes(q) = {}
                                  /\ Past(q) => Writes(r) \cap Cascade(Leaving(q)) = {}
    BY DEF Inv, HouseholdInv, WorkHeld
  <2>6. \A q \in Requests : Past(q) => Checked(r) \cap Leaving(q) = {}
    BY DEF CheckKeys, Fenced
  <2> QED BY ONLY Inv, <1>2, <2>1, <2>2, <2>3, <2>4, <2>5, <2>6, <2>7, LocalStep
<1> QED BY <1>1, <1>2 DEF CheckKeys

-----------------------------------------------------------------------------
(* Administration and sessions: what one holder of the family does at once. *)

LEMMA EndKeepsRequests ==
  ASSUME Inv, NEW r \in Requests, End(r)
  PROVE  /\ RequestsOK' /\ req'[r].pc = "done" /\ req'[r].op = "none"
         /\ \A q \in Requests \ {r} : req'[q] = req[q]
<1>1. [Fresh EXCEPT !.pc = "done"] \in Request
  BY DoneIsRequest
<1>2. /\ [Fresh EXCEPT !.pc = "done"].pc = "done" /\ [Fresh EXCEPT !.pc = "done"].rows = {}
      /\ [Fresh EXCEPT !.pc = "done"].op = "none"
  BY DEF Fresh
<1>3. req' = [req EXCEPT ![r] = [Fresh EXCEPT !.pc = "done"]] /\ req \in [Requests -> Request]
  BY DEF End, Inv, HouseholdInv, RequestsOK
<1>4. req'[r] = [Fresh EXCEPT !.pc = "done"] /\ \A q \in Requests \ {r} : req'[q] = req[q]
  BY <1>3
<1>5. req' \in [Requests -> Request]
  BY <1>1, <1>3
<1> QED BY <1>2, <1>4, <1>5 DEF Inv, HouseholdInv, RequestsOK

LEMMA AdminStep ==
  ASSUME Inv, NEW r \in Requests, FamilyFree, End(r), work' = work,
         TypeOK', ContactIsActiveParent', SessionsFollowPasswords',
         \A m \in Members : In(m) => In(m)',
         \A m \in Members : changed[m] <= changed'[m] /\ (changed'[m] = changed[m] => passwd'[m] = passwd[m])
  PROVE  Inv'
<1>1. RequestsOK' /\ req'[r].pc = "done" /\ \A q \in Requests \ {r} : req'[q] = req[q]
  BY EndKeepsRequests
<1>2. \A q \in Requests : ~Holds(q)' /\ ~Past(q)'
  BY <1>1 DEF FamilyFree, Past, Holds
<1>3. FamilyHeld'
  BY <1>2 DEF FamilyHeld
<1>4. WorkHeld'
  <2>1. Writes(r)' = {} /\ Refers(r)' = {}
    BY <1>1 DEF Writes, Refers
  <2>2. ASSUME NEW q \in Requests \ {r} PROVE Writes(q)' = Writes(q) /\ Refers(q)' = Refers(q)
    <3>1. req'[q] = req[q]
      BY <1>1
    <3>2. Checked(q)' = Checked(q)
      BY <3>1 DEF Checked
    <3> QED BY <3>1, <3>2 DEF Writes, Refers
  <2>3. \A q \in Requests : \A m \in Refers(q) : m \in Members /\ In(m)
    BY DEF Inv, HouseholdInv, WorkHeld, In
  <2>4. \A q \in Requests : req'[q].pc # "handed"
    BY <1>2 DEF Past
  <2>5. ASSUME NEW x \in Requests PROVE \A q \in Requests \ {x} : Writes(x)' \cap Writes(q)' = {}
    BY <2>1, <2>2 DEF Inv, HouseholdInv, WorkHeld
  <2>6. ASSUME NEW x \in Requests PROVE \A m \in Refers(x)' : In(m)'
    BY <2>1, <2>2, <2>3
  <2> QED BY <1>2, <2>4, <2>5, <2>6 DEF WorkHeld
<1>5. FlowsDated'
  <2> SUFFICES ASSUME NEW q \in Requests, req'[q].pc = "flow"
               PROVE  /\ req'[q].actor \in Members /\ req'[q].since <= changed'[req'[q].actor]
                      /\ req'[q].since = changed'[req'[q].actor] => req'[q].pw = passwd'[req'[q].actor]
    BY DEF FlowsDated
  <2>1. q # r /\ req'[q] = req[q]
    BY <1>1
  <2> DEFINE m == req[q].actor
  <2>2. /\ m \in Members /\ req[q].since <= changed[m]
        /\ req[q].since = changed[m] => req[q].pw = passwd[m]
    BY <2>1 DEF Inv, HouseholdInv, FlowsDated
  <2>3. changed[m] \in Nat /\ changed'[m] \in Nat /\ req[q].since \in Nat
    BY <2>2 DEF Inv, HouseholdInv, TypeOK, RequestsOK, Request
  <2>4. changed[m] <= changed'[m] /\ (changed'[m] = changed[m] => passwd'[m] = passwd[m])
    BY <2>2
  <2> HIDE DEF m
  <2>5. req[q].since <= changed'[m] /\ (req[q].since = changed'[m] => changed'[m] = changed[m])
    BY <2>2, <2>3, <2>4
  <2> QED BY <2>1, <2>2, <2>4, <2>5 DEF m
<1> QED BY <1>1, <1>3, <1>4, <1>5 DEF Inv, HouseholdInv

LEMMA TransferStep ==
  ASSUME Inv, NEW r \in Requests, Transfer(r)
  PROVE  Inv'
<1>1. req[r].target \in ActiveParents
  BY DEF Transfer, Entering, Allowed, Successor
<1>2. TypeOK' /\ ContactIsActiveParent' /\ SessionsFollowPasswords'
  BY <1>1 DEF Transfer, Inv, HouseholdInv, TypeOK, ContactIsActiveParent, SessionsFollowPasswords,
              ActiveParents, In, people
<1>3. \A m \in Members : changed[m] <= changed'[m] /\ (changed'[m] = changed[m] => passwd'[m] = passwd[m])
  BY DEF Transfer, Inv, HouseholdInv, TypeOK, people
<1>4. FamilyFree /\ End(r) /\ work' = work /\ \A m \in Members : In(m) => In(m)'
  BY DEF Transfer, Entering, In, people
<1> QED BY <1>2, <1>3, <1>4, AdminStep

LEMMA DeactivateStep ==
  ASSUME Inv, NEW r \in Requests, Deactivate(r)
  PROVE  Inv'
<1> DEFINE t == req[r].target
<1>1. In(t) /\ (t \in Parents => ActiveParents \ {t} # {}) /\ family.open
  BY DEF Deactivate, Entering, Allowed, SafeToRemove, Trusted
<1>2. NextContact(t) \in ActiveParents \ {t}
  BY <1>1, NextContactIsActive DEF Inv, HouseholdInv
<1>3. t \in Members /\ UNCHANGED <<state, passwd, keys, opened, work>>
  BY <1>1 DEF In, Deactivate
<1>4. /\ active' = [active EXCEPT ![t] = FALSE] /\ token' = [token EXCEPT ![t] = 0]
      /\ changed' = [changed EXCEPT ![t] = IF active[t] THEN @ + 1 ELSE @]
      /\ family' = [family EXCEPT !.contact = NextContact(t)]
  BY DEF Deactivate, Invalidated
<1> HIDE DEF t
<1>5. TypeOK'
  BY <1>2, <1>3, <1>4 DEF Inv, HouseholdInv, TypeOK, In, ActiveParents
<1>6. ContactIsActiveParent'
  <2>1. family'.contact = NextContact(t)
    BY <1>4 DEF Inv, HouseholdInv, TypeOK
  <2>2. NextContact(t) \in ActiveParents' 
    BY <1>2, <1>3, <1>4 DEF ActiveParents, In, Inv, HouseholdInv, TypeOK
  <2> QED BY <2>1, <2>2 DEF ContactIsActiveParent
<1>7. SessionsFollowPasswords'
  BY <1>3, <1>4 DEF Inv, HouseholdInv, SessionsFollowPasswords, TypeOK, In
<1>8. \A m \in Members : changed[m] <= changed'[m] /\ (changed'[m] = changed[m] => passwd'[m] = passwd[m])
  BY <1>3, <1>4 DEF Inv, HouseholdInv, TypeOK
<1>9. FamilyFree /\ End(r) /\ work' = work /\ \A m \in Members : In(m) => In(m)'
  BY <1>3 DEF Deactivate, Entering, In
<1> QED BY <1>5, <1>6, <1>7, <1>8, <1>9, AdminStep

LEMMA ReactivateStep ==
  ASSUME Inv, NEW r \in Requests, Reactivate(r)
  PROVE  Inv'
<1> DEFINE t == req[r].target
<1>1. In(t) /\ t \in Members /\ UNCHANGED <<family, state, passwd, token, keys, opened, work>>
  BY DEF Reactivate, Entering, Allowed, In
<1>2. /\ active' = [active EXCEPT ![t] = TRUE]
      /\ changed' = [changed EXCEPT ![t] = IF ~active[t] THEN @ + 1 ELSE @]
  BY DEF Reactivate, Invalidated
<1> HIDE DEF t
<1>3. TypeOK'
  BY <1>1, <1>2 DEF Inv, HouseholdInv, TypeOK, In
<1>4. ContactIsActiveParent' /\ SessionsFollowPasswords'
  BY <1>1, <1>2 DEF Inv, HouseholdInv, TypeOK, ContactIsActiveParent, SessionsFollowPasswords, In, ActiveParents
<1>5. \A m \in Members : changed[m] <= changed'[m] /\ (changed'[m] = changed[m] => passwd'[m] = passwd[m])
  BY <1>1, <1>2 DEF Inv, HouseholdInv, TypeOK
<1>6. FamilyFree /\ End(r) /\ work' = work /\ \A m \in Members : In(m) => In(m)'
  BY <1>1 DEF Reactivate, Entering, In
<1> QED BY <1>3, <1>4, <1>5, <1>6, AdminStep

LEMMA ResetStep ==
  ASSUME Inv, NEW r \in Requests, Reset(r)
  PROVE  Inv'
<1> DEFINE t == req[r].target
<1>1. t \in Members /\ UNCHANGED <<family, state, active, keys, work>>
  BY DEF Reset, Entering, Allowed, In
<1>2. /\ passwd' = [passwd EXCEPT ![t] = @ + 1] /\ changed' = [changed EXCEPT ![t] = @ + 1]
      /\ \/ opened' = [opened EXCEPT ![t] = passwd[t] + 1] /\ UNCHANGED token
         \/ token' = [token EXCEPT ![t] = 0] /\ UNCHANGED opened
  BY DEF Reset, Invalidated
<1> HIDE DEF t
<1>3. TypeOK'
  BY <1>1, <1>2 DEF Inv, HouseholdInv, TypeOK, In
<1>4. ContactIsActiveParent' /\ SessionsFollowPasswords'
  BY <1>1, <1>2 DEF Inv, HouseholdInv, TypeOK, ContactIsActiveParent, SessionsFollowPasswords, In, ActiveParents
<1>5. \A m \in Members : changed[m] <= changed'[m] /\ (changed'[m] = changed[m] => passwd'[m] = passwd[m])
  BY <1>1, <1>2 DEF Inv, HouseholdInv, TypeOK
<1>6. FamilyFree /\ End(r) /\ work' = work /\ \A m \in Members : In(m) => In(m)'
  BY <1>1 DEF Reset, Entering, In
<1> QED BY <1>3, <1>4, <1>5, <1>6, AdminStep

LEMMA CreateStep ==
  ASSUME Inv, NEW r \in Requests, Create(r)
  PROVE  Inv'
<1>1. /\ state' = [state EXCEPT ![req[r].target] = "in"]
      /\ UNCHANGED <<family, active, passwd, token, keys, changed, opened, work>>
  BY DEF Create
<1>2. state' \in [Members -> {"unborn", "in", "gone"}] /\ \A m \in Members : state[m] = "in" => state'[m] = "in"
  BY <1>1 DEF Inv, HouseholdInv, TypeOK
<1>3. TypeOK'
  BY <1>1, <1>2 DEF Inv, HouseholdInv, TypeOK, In
<1>4. ContactIsActiveParent' /\ SessionsFollowPasswords'
  BY <1>1, <1>2 DEF Inv, HouseholdInv, ContactIsActiveParent, SessionsFollowPasswords, In, ActiveParents
<1>5. \A m \in Members : changed[m] <= changed'[m] /\ (changed'[m] = changed[m] => passwd'[m] = passwd[m])
  BY <1>1 DEF Inv, HouseholdInv, TypeOK
<1>6. FamilyFree /\ End(r) /\ work' = work /\ \A m \in Members : In(m) => In(m)'
  BY <1>1, <1>2 DEF Create, Entering, In
<1> QED BY <1>3, <1>4, <1>5, <1>6, AdminStep

\* A credential is opened under the password that is checked again under the lock.
LEMMA LoginStep ==
  ASSUME Inv, NEW r \in Requests, Login(r)
  PROVE  Inv'
<1> DEFINE m == req[r].actor
<1>1. UNCHANGED <<family, state, active, passwd, work>>
  BY DEF Login
<1>2. \/ UNCHANGED <<keys, token, changed, opened>>
      \/ /\ In(m) /\ active[m] /\ req[r].pw = passwd[m]
         /\ keys' = [keys EXCEPT ![m] = @ + 1] /\ token' = [token EXCEPT ![m] = keys[m] + 1]
         /\ opened' = [opened EXCEPT ![m] = req[r].pw] /\ changed' = [changed EXCEPT ![m] = @ + 1]
  BY DEF Login, StillValid, Invalidated
<1> HIDE DEF m
<1>3. TypeOK' /\ ContactIsActiveParent' /\ SessionsFollowPasswords'
  BY <1>1, <1>2 DEF Inv, HouseholdInv, TypeOK, ContactIsActiveParent, SessionsFollowPasswords, In, ActiveParents
<1>4. \A n \in Members : changed[n] <= changed'[n] /\ (changed'[n] = changed[n] => passwd'[n] = passwd[n])
  BY <1>1, <1>2 DEF Inv, HouseholdInv, TypeOK
<1>5. FamilyFree /\ End(r) /\ work' = work /\ \A n \in Members : In(n) => In(n)'
  BY <1>1 DEF Login, Entering, In
<1> QED BY <1>3, <1>4, <1>5, AdminStep

LEMMA LogoutStep ==
  ASSUME Inv, NEW r \in Requests, Logout(r)
  PROVE  Inv'
<1>1. UNCHANGED <<family, state, active, passwd, keys, changed, opened, work>>
  BY DEF Logout
<1>2. token' \in [Members -> Nat] /\ \A m \in Members : token'[m] # 0 => token[m] # 0
  BY DEF Logout, Inv, HouseholdInv, TypeOK
<1>3. TypeOK' /\ ContactIsActiveParent' /\ SessionsFollowPasswords'
  BY <1>1, <1>2 DEF Inv, HouseholdInv, TypeOK, ContactIsActiveParent, SessionsFollowPasswords, In, ActiveParents
<1>4. \A n \in Members : changed[n] <= changed'[n] /\ (changed'[n] = changed[n] => passwd'[n] = passwd[n])
  BY <1>1 DEF Inv, HouseholdInv, TypeOK
<1>5. FamilyFree /\ End(r) /\ work' = work /\ \A n \in Members : In(n) => In(n)'
  BY <1>1 DEF Logout, In
<1> QED BY <1>3, <1>4, <1>5, AdminStep

\* A flow that still counts was begun under the password of now.
LEMMA ExchangeStep ==
  ASSUME Inv, NEW r \in Requests, Exchange(r)
  PROVE  Inv'
<1> DEFINE m == req[r].actor
<1>1. UNCHANGED <<family, state, active, passwd, changed, work>>
  BY DEF Exchange
<1>2. \/ UNCHANGED <<keys, token, opened>>
      \/ /\ Unchanged(r)
         /\ keys' = [keys EXCEPT ![m] = @ + 1] /\ token' = [token EXCEPT ![m] = keys[m] + 1]
         /\ opened' = [opened EXCEPT ![m] = req[r].pw]
  BY DEF Exchange
<1>3. Unchanged(r) => In(m) /\ active[m] /\ req[r].pw = passwd[m]
  BY DEF Exchange, Unchanged, Inv, HouseholdInv, FlowsDated
<1> HIDE DEF m
<1>4. TypeOK' /\ ContactIsActiveParent' /\ SessionsFollowPasswords'
  BY <1>1, <1>2, <1>3 DEF Inv, HouseholdInv, TypeOK, ContactIsActiveParent, SessionsFollowPasswords, In, ActiveParents
<1>5. \A n \in Members : changed[n] <= changed'[n] /\ (changed'[n] = changed[n] => passwd'[n] = passwd[n])
  BY <1>1 DEF Inv, HouseholdInv, TypeOK
<1>6. FamilyFree /\ End(r) /\ work' = work /\ \A n \in Members : In(n) => In(n)'
  BY <1>1 DEF Exchange, In
<1> QED BY <1>4, <1>5, <1>6, AdminStep

-----------------------------------------------------------------------------
(* Writers of work, and deletions.                                         *)

LEMMA RowCases ==
  ASSUME NEW x \in Rows
  PROVE  /\ x.st = "live" => x.author \in Members /\ x.holder \in Members \cup {Nobody}
         /\ x.st # "live" => x.author = Nobody /\ x.holder = Nobody
         /\ x.st = "live" => x = Row("live", x.author, x.holder)
BY DEF Rows, Row, NoRow

\* Whoever is on the way out is a member.
LEMMA LeaversAreMembers ==
  ASSUME Inv, NEW r \in Requests, Holds(r)
  PROVE  Leaving(r) \subseteq Members /\ Nobody \notin Leaving(r) /\ \A m \in Leaving(r) : In(m)
<1>1. Allowed(r) /\ req[r].op \in {"depart", "remove", "close"}
  BY DEF Inv, HouseholdInv, FamilyHeld
<1>2. req[r].op = "depart" => In(req[r].actor)
  BY <1>1 DEF Allowed, Trusted
<1>3. req[r].op = "remove" => In(req[r].target)
  BY <1>1 DEF Allowed
<1> QED BY <1>1, <1>2, <1>3, RolesAreApart DEF Leaving, In

\* A foreign key that is saved is checked, or null, or in the committed row.
LEMMA CheckedOrCommitted ==
  ASSUME NEW r, NEW w \in req[r].rows, NEW m \in {req[r].copy.author, req[r].copy.holder}
  PROVE  m \in Checked(r) \/ m = Nobody \/ (work[w].st = "live" /\ m \in {work[w].author, work[w].holder})
<1> SUFFICES ASSUME ~(work[w].st = "live" /\ m \in {work[w].author, work[w].holder}), m # Nobody
             PROVE  m \in Checked(r)
  OBVIOUS
<1> DEFINE F(v) == {req[r].copy.author, req[r].copy.holder} \
                     ({Nobody} \cup IF work[v].st = "live" THEN {work[v].author, work[v].holder} ELSE {})
<1>1. m \in F(w)
  OBVIOUS
<1>2. F(w) \in {F(v) : v \in req[r].rows}
  OBVIOUS
<1>3. Checked(r) = UNION {F(v) : v \in req[r].rows}
  BY DEF Checked
<1> HIDE DEF F
<1> QED BY <1>1, <1>2, <1>3

\* What a writer is about to save names nobody who is on the way out.
LEMMA CopyKeepsOff ==
  ASSUME Inv, NEW r \in Requests, req[r].pc = "checked", NEW q \in Requests, Past(q), NEW w \in req[r].rows
  PROVE  /\ w \notin Cascade(Leaving(q))
         /\ req[r].copy.author \notin Leaving(q) /\ req[r].copy.holder \notin Leaving(q)
<1>1. q # r /\ Holds(q)
  BY DEF Past, Holds
<1>2. Refers(r) \cap Leaving(q) = {} /\ Writes(r) \cap Cascade(Leaving(q)) = {}
  BY <1>1 DEF Inv, HouseholdInv, WorkHeld
<1>3. w \notin Cascade(Leaving(q)) /\ w \in Works
  BY <1>2 DEF Writes, Inv, HouseholdInv, RequestsOK, Request
<1>4. Nobody \notin Leaving(q)
  BY <1>1, LeaversAreMembers
<1>5. ASSUME NEW m \in {req[r].copy.author, req[r].copy.holder} PROVE m \notin Leaving(q)
  <2>1. CASE m \in Checked(r)
    BY <1>2, <2>1 DEF Refers
  <2>2. CASE work[w].st = "live" /\ m \in {work[w].author, work[w].holder}
    BY <1>3, <2>2 DEF Cascade
  <2>3. m \in Checked(r) \/ m = Nobody \/ (work[w].st = "live" /\ m \in {work[w].author, work[w].holder})
    BY CheckedOrCommitted
  <2> QED BY <1>4, <2>1, <2>2, <2>3
<1> QED BY <1>3, <1>5

LEMMA CommitWorkStep ==
  ASSUME Inv, NEW r \in Requests, CommitWork(r)
  PROVE  Inv'
<1> DEFINE mine == req[r].rows
           copy == req[r].copy
<1>1. UNCHANGED <<family, people>> /\ req[r].pc = "checked" /\ End(r)
  BY DEF CommitWork
<1>2. /\ copy \in Rows /\ copy.st = "live" /\ mine \in SUBSET Works
      /\ copy.author \in Members /\ copy.holder \in Members \cup {Nobody}
  <2>1. req[r] \in Request /\ copy.st = "live"
    BY <1>1 DEF Inv, HouseholdInv, RequestsOK
  <2>2. copy \in Rows /\ mine \in SUBSET Works
    BY <2>1 DEF Request
  <2> QED BY <2>1, <2>2, RowCases
<1>3. \A w \in Works : work'[w] = IF w \in mine THEN copy ELSE work[w]
  BY DEF CommitWork
<1>4. RequestsOK' /\ req'[r].pc = "done" /\ \A q \in Requests \ {r} : req'[q] = req[q]
  BY <1>1, EndKeepsRequests
<1>5. TypeOK'
  <2>1. ASSUME NEW w \in mine, NEW m \in {copy.author, copy.holder} \ {Nobody} PROVE In(m)
    <3>1. CASE m \in Checked(r)
      BY <1>1, <3>1 DEF Inv, HouseholdInv, WorkHeld, Refers
    <3>2. CASE work[w].st = "live" /\ m \in {work[w].author, work[w].holder}
      BY <1>2, <2>1, <3>2 DEF Inv, HouseholdInv, TypeOK
    <3> QED BY <2>1, <3>1, <3>2, CheckedOrCommitted
  <2>2. work' \in [Works -> Rows]
    BY <1>2 DEF CommitWork, Inv, HouseholdInv, TypeOK
  <2>3. \A m : In(m)' <=> In(m)
    BY <1>1 DEF In, people
  <2>4. ASSUME NEW w \in Works PROVE \A m \in {work'[w].author, work'[w].holder} \ {Nobody} : In(m)'
    BY <1>3, <2>1, <2>3 DEF Inv, HouseholdInv, TypeOK
  <2> QED BY <1>1, <2>2, <2>4 DEF Inv, HouseholdInv, TypeOK, people
<1>6. ContactIsActiveParent' /\ SessionsFollowPasswords'
  BY <1>1 DEF Inv, HouseholdInv, ContactIsActiveParent, SessionsFollowPasswords, ActiveParents, In, people
<1>7. FamilyHeld'
  <2>1. ~Holds(r)'
    BY <1>4 DEF Holds
  <2>2. \A q \in Requests \ {r} : Allowed(q)' = Allowed(q)
    BY <1>1, <1>4, AllowedKept
  <2>3. \A q \in Requests \ {r} : Holds(q)' <=> Holds(q)
    BY <1>4 DEF Holds
  <2> QED BY <1>4, <2>1, <2>2, <2>3 DEF Inv, HouseholdInv, FamilyHeld
<1>8. WorkHeld'
  <2>1. Writes(r)' = {} /\ Refers(r)' = {} /\ ~Past(r)'
    BY <1>4 DEF Writes, Refers, Past
  <2>2. ASSUME NEW q \in Requests \ {r}
        PROVE  Writes(q)' = Writes(q) /\ Past(q)' = Past(q) /\ Leaving(q)' = Leaving(q)
    BY <1>1, <1>4 DEF Writes, Past, Leaving, In, people
  <2>3. ASSUME NEW q \in Requests \ {r} PROVE Refers(q)' = Refers(q)
    <3>1. CASE req[q].pc # "checked"
      BY <1>4, <3>1 DEF Refers
    <3>2. CASE req[q].pc = "checked"
      <4>1. req[q].rows \cap mine = {} /\ req[q].rows \in SUBSET Works
        BY <1>1, <3>2 DEF Inv, HouseholdInv, WorkHeld, Writes, RequestsOK, Request
      <4>2. \A w \in req[q].rows : work'[w] = work[w]
        BY <1>3, <4>1
      <4>3. Checked(q)' = Checked(q)
        BY <1>4, <4>2 DEF Checked
      <4> QED BY <1>4, <3>2, <4>3 DEF Refers
    <3> QED BY <3>1, <3>2
  <2>4. \A q \in Requests \ {r} : \A m \in Refers(q) : In(m)'
    BY <1>1 DEF Inv, HouseholdInv, WorkHeld, In, people
  <2>5. ASSUME NEW q \in Requests \ {r}, Past(q)
        PROVE  Cascade(Leaving(q))' = Cascade(Leaving(q)) 
    <3>1. \A w \in mine : /\ w \notin Cascade(Leaving(q))
                          /\ copy.author \notin Leaving(q) /\ copy.holder \notin Leaving(q)
      BY <1>1, <2>5, CopyKeepsOff
    <3>2. Leaving(q)' = Leaving(q)
      BY <2>2
    <3> QED BY <1>3, <3>1, <3>2 DEF Cascade
  <2>6. ASSUME NEW q \in Requests \ {r}, req[q].pc = "handed"
        PROVE  req'[q].rows = Shared(req[q].actor)'
    <3>1. Past(q) /\ req[q].op = "depart"
      BY <2>6 DEF Past, Inv, HouseholdInv, FamilyHeld, Holds
    <3>2. Leaving(q) = {req[q].actor}
      BY <3>1 DEF Leaving
    <3>3. \A w \in mine : w \notin Cascade({req[q].actor}) /\ copy.author # req[q].actor
      BY <1>1, <3>1, <3>2, CopyKeepsOff
    <3>4. req'[q].rows = Shared(req[q].actor)
      BY <1>4, <2>6 DEF Inv, HouseholdInv, WorkHeld
    <3>5. Shared(req[q].actor)' = Shared(req[q].actor)
      <4> DEFINE a == req[q].actor
      <4>1. req'[q].actor = a
        BY <1>4
      <4> HIDE DEF a
      <4>2. \A w \in mine : w \notin Cascade({a}) /\ copy.author # a
        BY <3>3 DEF a
      <4>3. \A w \in Works : (work'[w].st = "live" /\ work'[w].author = a /\ work'[w].holder # a)
                         <=> (work[w].st = "live" /\ work[w].author = a /\ work[w].holder # a)
        BY <1>3, <4>2 DEF Cascade
      <4> QED BY <4>1, <4>3 DEF Shared, a
    <3> QED BY <3>4, <3>5
  <2> SUFFICES ASSUME NEW x \in Requests PROVE WorkHeld!(x)'
    BY DEF WorkHeld
  <2>7. CASE x = r
    BY <1>4, <2>1, <2>7
  <2>8. CASE x # r
    <3>1. \A q \in Requests \ {x} : Writes(x)' \cap Writes(q)' = {}
      BY <2>1, <2>2, <2>8 DEF Inv, HouseholdInv, WorkHeld
    <3>2. \A m \in Refers(x)' : In(m)'
      BY <2>3, <2>4, <2>8
    <3>3. Past(x)' => \A q \in Requests \ {x} : /\ Refers(q)' \cap Leaving(x)' = {}
                                                /\ Writes(q)' \cap Cascade(Leaving(x))' = {}
      BY <2>1, <2>2, <2>3, <2>5, <2>8 DEF Inv, HouseholdInv, WorkHeld
    <3>4. (req[x].pc = "handed" => req[x].rows = Shared(req[x].actor))'
      BY <1>4, <2>6, <2>8
    <3> QED BY <3>1, <3>2, <3>3, <3>4
  <2> QED BY <2>7, <2>8
<1>9. FlowsDated'
  BY <1>1, <1>4 DEF Inv, HouseholdInv, FlowsDated, people
<1> QED BY <1>4, <1>5, <1>6, <1>7, <1>8, <1>9 DEF Inv, HouseholdInv

\* Whoever inherits is there, and stays.
LEMMA HeirStays ==
  ASSUME Inv, NEW r \in Requests, req[r].pc = "handed"
  PROVE  In(Heir(r)) /\ Heir(r) \notin Leaving(r) /\ Heir(r) \in Members
<1>1. Allowed(r) /\ req[r].op = "depart"
  BY DEF Inv, HouseholdInv, FamilyHeld, Holds
<1>2. Leaving(r) = {req[r].actor} /\ family.open /\ In(req[r].actor)
  BY <1>1 DEF Leaving, Allowed, Trusted
<1>3. CASE req[r].actor \in Parents
  <2>1. Heir(r) \in ActiveParents \ {req[r].actor}
    BY <1>1, <1>3 DEF Heir, Allowed, Successor
  <2> QED BY <1>2, <2>1 DEF ActiveParents, Members
<1>4. CASE req[r].actor \notin Parents
  <2>1. Heir(r) = family.contact /\ family.contact \in ActiveParents
    BY <1>2, <1>4 DEF Heir, AutomaticParent, Inv, HouseholdInv, ContactIsActiveParent
  <2> QED BY <1>2, <1>4, <2>1 DEF ActiveParents, Members
<1> QED BY <1>3, <1>4

\* The three deletions: who goes, what moves and what goes with them.
LEMMA ErasedRows ==
  ASSUME Inv, NEW r \in Requests, Erase(r)
  PROVE  /\ Holds(r) /\ Past(r) /\ Allowed(r)
         /\ req[r].rows \subseteq Cascade(Leaving(r))
         /\ \A w \in req[r].rows : /\ req[r].op = "depart" /\ req[r].pc = "handed"
                                   /\ work[w].st = "live" /\ work[w].author = req[r].actor
                                   /\ work[w].holder # req[r].actor
         /\ req[r].op = "depart" => req[r].pc = "handed" /\ req[r].rows = Shared(req[r].actor)
         /\ \A w \in Works : work'[w] = IF w \in req[r].rows THEN [work[w] EXCEPT !.author = Heir(r)]
                                        ELSE IF w \in Cascade(Leaving(r)) THEN Row("gone", Nobody, Nobody)
                                        ELSE work[w]
<1>1. Holds(r) /\ Past(r)
  BY DEF Erase, Holds, Past
<1>2. Allowed(r)
  BY <1>1 DEF Inv, HouseholdInv, FamilyHeld
<1>3. req[r].op = "depart" => req[r].pc = "handed" /\ req[r].rows = Shared(req[r].actor)
  BY DEF Erase, Inv, HouseholdInv, WorkHeld
<1>4. req[r].op # "depart" => req[r].rows = {}
  BY DEF Erase, Inv, HouseholdInv, RequestsOK
<1>5. \A w \in req[r].rows : /\ req[r].op = "depart" /\ req[r].pc = "handed"
                             /\ w \in Works /\ work[w].st = "live" /\ work[w].author = req[r].actor
                             /\ work[w].holder # req[r].actor
  BY <1>3, <1>4 DEF Shared
<1>6. req[r].rows \subseteq Cascade(Leaving(r))
  BY <1>5 DEF Cascade, Leaving
<1>7. \A w \in Works : work'[w] = IF w \in req[r].rows THEN [work[w] EXCEPT !.author = Heir(r)]
                                  ELSE IF w \in Cascade(Leaving(r)) THEN Row("gone", Nobody, Nobody)
                                  ELSE work[w]
  BY DEF Erase, Erased
<1> QED BY <1>1, <1>2, <1>3, <1>5, <1>6, <1>7

LEMMA EraseStep ==
  ASSUME Inv, NEW r \in Requests, Erase(r)
  PROVE  Inv'
<1> DEFINE ms == Leaving(r)
<1>1. Holds(r) /\ Past(r) /\ Allowed(r) /\ req[r].rows \subseteq Cascade(ms)
  BY ErasedRows
<1>2. /\ ms \subseteq Members /\ Nobody \notin ms
      /\ \A q \in Requests \ {r} : ~Holds(q)
  BY <1>1, LeaversAreMembers DEF Inv, HouseholdInv, FamilyHeld
<1>3. /\ RequestsOK' /\ req'[r].pc = "done" /\ \A q \in Requests \ {r} : req'[q] = req[q]
      /\ UNCHANGED <<active, passwd, keys, changed, opened>>
  <2>1. End(r) /\ UNCHANGED <<active, passwd, keys, changed, opened>>
    BY DEF Erase
  <2> QED BY <2>1, EndKeepsRequests
<1>4. \A w \in Works : work'[w] = IF w \in req[r].rows THEN [work[w] EXCEPT !.author = Heir(r)]
                                  ELSE IF w \in Cascade(ms) THEN Row("gone", Nobody, Nobody)
                                  ELSE work[w]
  BY ErasedRows
<1>5. /\ \A m \in Members : state'[m] = IF m \in ms THEN "gone" ELSE state[m]
      /\ \A m \in Members : token'[m] = IF m \in ms THEN 0 ELSE token[m]
      /\ state' \in [Members -> {"unborn", "in", "gone"}] /\ token' \in [Members -> Nat]
  BY DEF Erase, Gone, Inv, HouseholdInv, TypeOK
<1>6. \A m \in Members : In(m)' <=> In(m) /\ m \notin ms
  BY <1>5 DEF In
<1>7. family' = CASE req[r].op = "close" -> [open |-> FALSE, contact |-> Nobody]
                  [] req[r].op = "remove" -> [family EXCEPT !.contact = NextContact(req[r].target)]
                  [] OTHER -> [family EXCEPT !.contact = IF @ = req[r].actor THEN req[r].target ELSE @]
  BY DEF Erase
<1> HIDE DEF ms
<1>8. ASSUME NEW w \in Works
      PROVE  work'[w] \in Rows /\ \A m \in {work'[w].author, work'[w].holder} \ {Nobody} : In(m)'
  <2>1. /\ work[w] \in Rows /\ \A m \in {work[w].author, work[w].holder} \ {Nobody} : m \in Members /\ In(m)
    BY DEF Inv, HouseholdInv, TypeOK, In
  <2>2. CASE w \in req[r].rows
    <3>1. /\ req[r].pc = "handed" /\ req[r].op = "depart" /\ work[w].st = "live"
          /\ work[w].holder # req[r].actor
      BY <2>2, ErasedRows
    <3>2. In(Heir(r)) /\ Heir(r) \notin ms /\ Heir(r) \in Members /\ ms = {req[r].actor}
      BY <3>1, HeirStays DEF ms, Leaving
    <3>3. work[w] = Row("live", work[w].author, work[w].holder) /\ work[w].holder \in Members \cup {Nobody}
      BY <2>1, <3>1, RowCases
    <3>4. work'[w] = Row("live", Heir(r), work[w].holder)
      BY <1>4, <2>2, <3>3 DEF Row
    <3> QED BY <1>6, <2>1, <3>1, <3>2, <3>3, <3>4 DEF Row, Rows
  <2>3. CASE w \notin req[r].rows /\ w \in Cascade(ms)
    <3>1. work'[w] = Row("gone", Nobody, Nobody)
      BY <1>4, <2>3
    <3> QED BY <3>1 DEF Row, Rows
  <2>4. CASE w \notin req[r].rows /\ w \notin Cascade(ms)
    <3>1. work'[w] = work[w]
      BY <1>4, <2>4
    <3>2. work[w].st = "live" => {work[w].author, work[w].holder} \cap ms = {}
      BY <2>4 DEF Cascade
    <3>3. work[w].st # "live" => work[w].author = Nobody /\ work[w].holder = Nobody
      BY <2>1, RowCases
    <3> QED BY <1>6, <2>1, <3>1, <3>2, <3>3
  <2> QED BY <2>2, <2>3, <2>4
<1>9. \/ family' = [open |-> FALSE, contact |-> Nobody]
      \/ \E p \in Parents : /\ family' = [family EXCEPT !.contact = p]
                            /\ p \in ActiveParents /\ p \notin ms
  <2>1. family.open /\ family.contact \in ActiveParents
    BY <1>1 DEF Allowed, Trusted, Inv, HouseholdInv, ContactIsActiveParent
  <2>2. CASE req[r].op = "close"
    BY <1>7, <2>2
  <2>3. CASE req[r].op = "remove"
    <3> DEFINE t == req[r].target
    <3>1. t \in Parents => ActiveParents \ {t} # {}
      BY <1>1, <2>3 DEF Allowed, SafeToRemove
    <3>2. NextContact(t) \in ActiveParents \ {t}
      BY <2>1, <3>1, NextContactIsActive DEF Inv, HouseholdInv
    <3>3. ms = {t}
      BY <2>3 DEF Leaving, ms
    <3>4. family' = [family EXCEPT !.contact = NextContact(t)]
      BY <1>7, <2>3
    <3> HIDE DEF t
    <3> QED BY <3>2, <3>3, <3>4 DEF ActiveParents
  <2>4. CASE req[r].op = "depart"
    <3> DEFINE a == req[r].actor
               s == req[r].target
    <3>1. a \in Parents => s \in ActiveParents \ {a}
      BY <1>1, <2>4 DEF Allowed, Successor
    <3>2. ms = {a}
      BY <2>4 DEF Leaving, ms
    <3>3. family' = [family EXCEPT !.contact = IF @ = a THEN s ELSE @]
      BY <1>7, <2>4
    <3>4. family' = [family EXCEPT !.contact = IF family.contact = a THEN s ELSE family.contact]
      BY <3>3
    <3> HIDE DEF a, s
    <3>5. (IF family.contact = a THEN s ELSE family.contact) \in ActiveParents \ {a}
      BY <2>1, <3>1 DEF ActiveParents
    <3> QED BY <3>2, <3>4, <3>5 DEF ActiveParents
  <2> QED BY <1>1, <2>2, <2>3, <2>4 DEF Inv, HouseholdInv, FamilyHeld
<1>10. TypeOK'
  <2>1. work' \in [Works -> Rows]
    <3>1. work' = [w \in Works |-> work'[w]]
      BY DEF Erase, Erased
    <3> QED BY <1>8, <3>1
  <2>2. family' \in [open : BOOLEAN, contact : Parents \cup {Nobody}]
    <3>1. CASE family' = [open |-> FALSE, contact |-> Nobody]
      BY <3>1
    <3>2. ASSUME NEW p \in Parents, family' = [family EXCEPT !.contact = p]
          PROVE  family' \in [open : BOOLEAN, contact : Parents \cup {Nobody}]
      BY <3>2 DEF Inv, HouseholdInv, TypeOK
    <3> QED BY <1>9, <3>1, <3>2
  <2> QED BY <1>3, <1>5, <1>8, <2>1, <2>2 DEF Inv, HouseholdInv, TypeOK
<1>11. ContactIsActiveParent'
  <2>1. CASE family' = [open |-> FALSE, contact |-> Nobody]
    BY <2>1 DEF ContactIsActiveParent
  <2>2. ASSUME NEW p \in Parents, family' = [family EXCEPT !.contact = p], p \in ActiveParents, p \notin ms
        PROVE  ContactIsActiveParent'
    <3>1. family'.contact = p
      BY <2>2 DEF Inv, HouseholdInv, TypeOK
    <3>2. In(p)' /\ active'[p]
      BY <1>3, <1>6, <2>2 DEF ActiveParents, Members
    <3> QED BY <3>1, <3>2 DEF ContactIsActiveParent, ActiveParents
  <2> QED BY <1>9, <2>1, <2>2
<1>12. SessionsFollowPasswords'
  BY <1>3, <1>5, <1>6 DEF Inv, SessionsFollowPasswords
<1>13. FamilyHeld'
  <2>1. \A q \in Requests : ~Holds(q)'
    BY <1>2, <1>3 DEF Holds
  <2> QED BY <2>1 DEF FamilyHeld
<1>14. WorkHeld'
  <2>1. Writes(r)' = {} /\ Refers(r)' = {}
    BY <1>3 DEF Writes, Refers
  <2>2. \A q \in Requests : ~Past(q)' /\ req'[q].pc # "handed"
    BY <1>2, <1>3 DEF Holds, Past
  <2>3. \A q \in Requests \ {r} : Writes(q)' = Writes(q)
    BY <1>3 DEF Writes
  <2>4. ASSUME NEW q \in Requests \ {r} PROVE Refers(q)' = Refers(q)
    <3>1. CASE req[q].pc # "checked"
      BY <1>3, <3>1 DEF Refers
    <3>2. CASE req[q].pc = "checked"
      <4>1. Writes(q) \cap Cascade(ms) = {}
        BY <1>1 DEF Inv, HouseholdInv, WorkHeld, ms
      <4>2. req[q].rows \cap Cascade(ms) = {} /\ req[q].rows \in SUBSET Works
        BY <3>2, <4>1 DEF Writes, Inv, HouseholdInv, RequestsOK, Request
      <4>3. \A w \in req[q].rows : work'[w] = work[w]
        BY <1>1, <1>4, <4>2
      <4>4. Checked(q)' = Checked(q)
        BY <1>3, <4>3 DEF Checked
      <4> QED BY <1>3, <3>2, <4>4 DEF Refers
    <3> QED BY <3>1, <3>2
  <2>5. ASSUME NEW q \in Requests \ {r}, NEW m \in Refers(q) PROVE In(m)'
    <3>1. In(m) /\ m \in Members /\ m \notin ms
      BY <1>1 DEF Inv, HouseholdInv, WorkHeld, In, ms
    <3> QED BY <1>6, <3>1
  <2>6. ASSUME NEW x \in Requests PROVE \A q \in Requests \ {x} : Writes(x)' \cap Writes(q)' = {}
    BY <2>1, <2>3 DEF Inv, HouseholdInv, WorkHeld
  <2>7. ASSUME NEW x \in Requests PROVE \A m \in Refers(x)' : In(m)'
    BY <2>1, <2>4, <2>5
  <2> QED BY <2>2, <2>6, <2>7 DEF WorkHeld
<1>15. FlowsDated'
  BY <1>3 DEF Inv, HouseholdInv, FlowsDated
<1> QED BY <1>3, <1>10, <1>11, <1>12, <1>13, <1>14, <1>15 DEF Inv, HouseholdInv

-----------------------------------------------------------------------------
(* The invariant and the actions' properties.                              *)

LEMMA InvInit == Init => Inv
<1> SUFFICES ASSUME Init PROVE Inv
  OBVIOUS
<1>1. \A r \in Requests : req[r] = Fresh
  BY DEF Init
<1>2. Fresh.pc = "new" /\ Fresh.rows = {}
  BY DEF Fresh
<1>3. family.open = TRUE /\ family.contact \in ActiveParents
  BY DEF Init
<1>4. TypeOK
  <2>1. family \in [open : BOOLEAN, contact : Parents \cup {Nobody}]
    <3>1. PICK p \in Parents : family = [open |-> TRUE, contact |-> p]
      BY DEF Init
    <3> QED BY <3>1
  <2>2. /\ state \in [Members -> {"unborn", "in", "gone"}] /\ active \in [Members -> BOOLEAN]
        /\ passwd \in [Members -> Nat] /\ opened \in [Members -> Nat] /\ keys \in [Members -> Nat]
        /\ changed \in [Members -> Nat] /\ token \in [Members -> Nat]
    BY DEF Init
  <2>3. ASSUME NEW w \in Works
        PROVE  work[w] \in Rows /\ \A m \in {work[w].author, work[w].holder} \ {Nobody} : In(m)
    <3>1. CASE work[w] = NoRow
      BY <3>1 DEF NoRow, Row, Rows
    <3>2. ASSUME NEW a \in {m \in Members : In(m)}, NEW h \in {m \in Members : In(m)} \cup {Nobody},
                 work[w] = Row("live", a, h)
          PROVE  work[w] \in Rows /\ \A m \in {work[w].author, work[w].holder} \ {Nobody} : In(m)
      BY <3>2 DEF Row, Rows
    <3> QED BY <3>1, <3>2 DEF Init
  <2>4. work \in [Works -> Rows]
    BY <2>3 DEF Init
  <2> QED BY <2>1, <2>2, <2>3, <2>4 DEF TypeOK
<1>5. RequestsOK
  BY <1>1, <1>2, DoneIsRequest DEF RequestsOK, Init
<1>6. FamilyHeld /\ FlowsDated
  BY <1>1, <1>2 DEF FamilyHeld, Holds, FlowsDated
<1>7. WorkHeld
  BY <1>1, <1>2 DEF WorkHeld, Writes, Refers, Past
<1>8. SessionsFollowPasswords
  BY DEF Init, SessionsFollowPasswords
<1> QED BY <1>3, <1>4, <1>5, <1>6, <1>7, <1>8 DEF Inv, HouseholdInv, ContactIsActiveParent

LEMMA InvIdle ==
  ASSUME Inv, UNCHANGED vars
  PROVE  Inv'
<1>1. UNCHANGED <<family, state, active, passwd, token, keys, changed, opened, work, req>>
  BY DEF vars
<1>2. TypeOK' /\ ContactIsActiveParent' /\ SessionsFollowPasswords' /\ FlowsDated'
  BY <1>1 DEF Inv, HouseholdInv, TypeOK, ContactIsActiveParent, SessionsFollowPasswords, FlowsDated,
              ActiveParents, In
<1>3. \A r \in Requests : /\ Holds(r)' = Holds(r) /\ Past(r)' = Past(r)
                          /\ Writes(r)' = Writes(r) /\ Refers(r)' = Refers(r) /\ Leaving(r)' = Leaving(r)
                          /\ Cascade(Leaving(r))' = Cascade(Leaving(r))
                          /\ Shared(req[r].actor)' = Shared(req[r].actor)
  BY <1>1, LocksKept
<1>4. \A r \in Requests : Allowed(r)' = Allowed(r)
  BY <1>1, AllowedKept DEF people
<1>5. RequestsOK' /\ FamilyHeld'
  BY <1>1, <1>3, <1>4 DEF Inv, HouseholdInv, RequestsOK, FamilyHeld
<1>6. WorkHeld'
  <2>1. \A m : In(m)' <=> In(m)
    BY <1>1 DEF In
  <2> SUFFICES ASSUME NEW x \in Requests PROVE WorkHeld!(x)'
    BY DEF WorkHeld
  <2>2. WorkHeld!(x)
    BY DEF Inv, HouseholdInv, WorkHeld
  <2> QED BY <1>1, <1>3, <2>1, <2>2
<1> QED BY <1>2, <1>5, <1>6 DEF Inv, HouseholdInv

LEMMA InvStep == Inv /\ [Next]_vars => Inv'
<1> SUFFICES ASSUME Inv, [Next]_vars PROVE Inv'
  OBVIOUS
<1>1. CASE UNCHANGED vars
  BY <1>1, InvIdle
<1>2. CASE Quiet
  BY <1>2, InvIdle DEF Quiet
<1>3. ASSUME NEW r \in Requests,
             \/ Arrive(r) \/ ArriveLogin(r) \/ ArriveGoogle(r) \/ ArriveWrite(r) \/ ArriveEdit(r)
             \/ Refuse(r) \/ Transfer(r) \/ Deactivate(r) \/ Reactivate(r) \/ Reset(r) \/ Create(r)
      PROVE  Inv'
  BY <1>3, ArriveStep, ArriveLoginStep, ArriveGoogleStep, ArriveWriteStep, ArriveEditStep, RefuseStep,
     TransferStep, DeactivateStep, ReactivateStep, ResetStep, CreateStep
<1>4. ASSUME NEW r \in Requests,
             \/ Login(r) \/ Exchange(r) \/ Logout(r) \/ Review(r)
             \/ Enter(r) \/ Fence(r) \/ HandOver(r) \/ Erase(r)
             \/ Stage(r) \/ CheckKeys(r) \/ CommitWork(r)
      PROVE  Inv'
  BY <1>4, LoginStep, ExchangeStep, LogoutStep, ReviewStep, EnterStep, FenceStep, HandOverStep, EraseStep,
     StageStep, CheckKeysStep, CommitWorkStep
<1> QED BY <1>1, <1>2, <1>3, <1>4 DEF Next

LEMMA InvAlways == Spec => []Inv
<1>1. Init => Inv
  BY InvInit
<1>2. Inv /\ [Next]_vars => Inv'
  BY InvStep
<1> QED BY <1>1, <1>2, PTL DEF Spec

\* Every state of every family is one that HouseholdInv describes: an open family
\* has an active parent for its contact (ContactIsActiveParent), no foreign key
\* points to a member who is not there (TypeOK), the Family row has one holder
\* whose request is still allowed (FamilyHeld), and nothing that a deletion is
\* about to take is in the hands of a writer (WorkHeld).
THEOREM HouseholdCorrect == Spec => []HouseholdInv
BY InvAlways, PTL DEF Inv

\* A credential works only for an active member under the password of now,
\* whatever sign-ins, resets and deactivations overlap.
THEOREM SessionsAreCurrent == Spec => []SessionsFollowPasswords
BY InvAlways, PTL DEF Inv

\* Only a deletion takes members away or closes the family.
LEMMA OnlyErasures ==
  ASSUME Inv, [Next]_vars
  PROVE  \/ \E r \in Requests : Erase(r)
         \/ /\ family.open => family'.open
            /\ \A m : In(m) => state'[m] # "gone"
<1> DEFINE Stays == (family.open => family'.open) /\ \A m : In(m) => state'[m] # "gone"
<1>1. CASE UNCHANGED <<family, people>>
  BY <1>1 DEF people, In
<1>2. ASSUME NEW c, family' = [family EXCEPT !.contact = c], UNCHANGED state PROVE Stays
  BY <1>2 DEF In, Inv, HouseholdInv, TypeOK
<1>3. CASE UNCHANGED <<family, state>>
  BY <1>3 DEF In
<1>4. ASSUME NEW r \in Requests, Create(r) PROVE Stays
  BY <1>4 DEF Create, In, Inv, HouseholdInv, TypeOK
<1>5. CASE UNCHANGED vars \/ Quiet
  BY <1>3, <1>5 DEF Quiet, vars
<1>6. ASSUME NEW r \in Requests,
             \/ Arrive(r) \/ ArriveLogin(r) \/ ArriveGoogle(r) \/ ArriveWrite(r) \/ ArriveEdit(r)
             \/ Refuse(r) \/ Review(r) \/ Enter(r) \/ Fence(r) \/ HandOver(r)
             \/ Stage(r) \/ CheckKeys(r) \/ CommitWork(r)
      PROVE  UNCHANGED <<family, people>>
  BY <1>6 DEF Arrive, ArriveLogin, ArriveGoogle, ArriveWrite, ArriveEdit, Refuse, Review, Enter, Fence,
              HandOver, Stage, CheckKeys, CommitWork
<1>7. ASSUME NEW r \in Requests, Transfer(r) \/ Deactivate(r) PROVE Stays
  BY <1>2, <1>7 DEF Transfer, Deactivate, people
<1>8. ASSUME NEW r \in Requests, Reactivate(r) \/ Reset(r) \/ Login(r) \/ Exchange(r) \/ Logout(r)
      PROVE  UNCHANGED <<family, state>>
  BY <1>8 DEF Reactivate, Reset, Login, Exchange, Logout
<1> QED BY <1>1, <1>3, <1>4, <1>5, <1>6, <1>7, <1>8 DEF Next

LEMMA DepartureKeepsSharedWork ==
  Inv /\ [Next]_vars =>
    [\A m \in Members : Departs(m) =>
       \A w \in Works : work[w].st = "live" =>
         IF work[w].holder = m THEN work'[w].st = "gone"
         ELSE /\ work'[w].st = "live" /\ work'[w].holder = work[w].holder
              /\ work'[w].author # m
              /\ work[w].author # m => work'[w].author = work[w].author]_vars
<1> SUFFICES ASSUME Inv, [Next]_vars, NEW m \in Members, Departs(m), NEW w \in Works, work[w].st = "live"
             PROVE  IF work[w].holder = m THEN work'[w].st = "gone"
                    ELSE /\ work'[w].st = "live" /\ work'[w].holder = work[w].holder
                         /\ work'[w].author # m
                         /\ work[w].author # m => work'[w].author = work[w].author
  BY Zenon
<1>1. PICK r \in Requests : req[r].pc = "handed" /\ req[r].actor = m /\ In(m) /\ state'[m] = "gone"
  BY DEF Departs
<1>2. Holds(r)
  BY <1>1 DEF Holds
<1>3. PICK x \in Requests : Erase(x)
  BY <1>1, OnlyErasures
<1>4. x = r /\ req[r].op = "depart"
  BY <1>1, <1>2, <1>3, ErasedRows DEF Inv, HouseholdInv, FamilyHeld
<1>5. /\ req[r].rows = Shared(m) /\ Leaving(r) = {m} /\ Heir(r) # m
      /\ work'[w] = IF w \in req[r].rows THEN [work[w] EXCEPT !.author = Heir(r)]
                    ELSE IF w \in Cascade(Leaving(r)) THEN Row("gone", Nobody, Nobody)
                    ELSE work[w]
  BY <1>1, <1>3, <1>4, ErasedRows, HeirStays DEF Leaving
<1>6. work[w] = Row("live", work[w].author, work[w].holder)
  BY RowCases DEF Inv, HouseholdInv, TypeOK
<1>7. CASE work[w].holder = m
  <2>1. w \notin Shared(m) /\ w \in Cascade({m})
    BY <1>7 DEF Shared, Cascade
  <2>2. work'[w] = Row("gone", Nobody, Nobody)
    BY <1>5, <2>1
  <2> QED BY <1>7, <2>2 DEF Row
<1>8. CASE work[w].holder # m /\ work[w].author = m
  <2>1. work'[w] = Row("live", Heir(r), work[w].holder)
    BY <1>5, <1>6, <1>8 DEF Shared, Row
  <2> QED BY <1>5, <1>8, <2>1 DEF Row
<1>9. CASE work[w].holder # m /\ work[w].author # m
  BY <1>5, <1>9 DEF Shared, Cascade
<1> QED BY <1>7, <1>8, <1>9

\* A departure takes what the leaver held, and nothing that was made for others,
\* whatever is saved or reassigned while it runs.
THEOREM DepartureIsSafe == Spec => SharedWorkStays
<1>1. Spec => []Inv
  BY InvAlways
<1> QED BY <1>1, DepartureKeepsSharedWork, PTL DEF Spec, SharedWorkStays

LEMMA ClosureIsReviewed ==
  Inv /\ [Next]_vars =>
    [family.open /\ ~family'.open =>
       \E r \in Requests : /\ req[r].op = "close" /\ req[r].seen = Version
                           /\ ActiveParents = {req[r].actor}]_vars
<1> SUFFICES ASSUME Inv, [Next]_vars, family.open, ~family'.open
             PROVE  \E r \in Requests : /\ req[r].op = "close" /\ req[r].seen = Version
                                        /\ ActiveParents = {req[r].actor}
  BY Zenon
<1>1. PICK r \in Requests : Erase(r)
  BY OnlyErasures
<1>2. Allowed(r)
  BY <1>1, ErasedRows
<1>3. req[r].op = "close"
  <2> SUFFICES ASSUME req[r].op # "close" PROVE FALSE
    OBVIOUS
  <2>1. PICK c : family' = [family EXCEPT !.contact = c]
    BY <1>1 DEF Erase
  <2> QED BY <2>1 DEF Inv, HouseholdInv, TypeOK
<1>4. Closable(r) /\ Trusted(r)
  BY <1>2, <1>3 DEF Allowed
<1> QED BY <1>3, <1>4 DEF Closable, Trusted, ActiveParents

\* A family is closed with the members, states and contact that some review showed
\* to its last active parent: under the lock the reviewed version stays true.
THEOREM ClosureMatchesReview == Spec => ClosedAsReviewed
<1>1. Spec => []Inv
  BY InvAlways
<1> QED BY <1>1, ClosureIsReviewed, PTL DEF Spec, ClosedAsReviewed

=============================================================================
