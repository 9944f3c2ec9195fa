------------------------------- MODULE Household -------------------------------
(***************************************************************************)
(* The members of one family and the requests that change who they are:    *)
(* accounts/lifecycle.py (departure, closure, change of contact), the      *)
(* member administration of projects/views.py, sign-in (by password, and   *)
(* by google_integration/oauth_exchange.py) and sign-out, and              *)
(* the writers of shared work (chores/views.py) that run beside them.      *)
(*                                                                         *)
(* Administration is serialized by the lock of the Family row.  Work is    *)
(* written without it: between a departure and a writer stand only the     *)
(* row locks and the foreign key checks that PostgreSQL makes at commit.   *)
(* What a transaction holds follows from where its request stands, so the  *)
(* locks are operators over `req`.                                         *)
(***************************************************************************)
EXTENDS Naturals, FiniteSets

CONSTANTS
  Parents, Children,  \* accounts by role; a role never changes
  Oldest,             \* Oldest[p]: the rank of a parent by date_joined
  Works,              \* rows of shared work (a chore stands for all six tables)
  Requests,           \* requests, each made once: they bound every counter
  Nobody              \* no member: a null foreign key

Members == Parents \cup Children

ASSUME RolesAreApart == Parents \cap Children = {} /\ Nobody \notin Members
ASSUME OldestRanks ==
  /\ Oldest \in [Parents -> Nat]
  /\ \A p, q \in Parents : Oldest[p] = Oldest[q] => p = q

VARIABLES
  family,   \* [open, contact]: the Family row and its primary_parent
  state,    \* state[m]: "unborn", "in" or "gone"
  active,   \* active[m]: User.is_active
  passwd,   \* passwd[m]: which of the member's passwords is the current one
  token,    \* token[m]: the member's one credential, 0 when there is none
  keys,     \* keys[m]: how many were minted
  changed,  \* changed[m]: how often Google flows were invalidated for the member
  opened,   \* opened[m]: (history) the password the credential was opened under
  work,     \* work[w]: [st, author, holder] = the row, created_by, assigned_to
  req       \* req[r]: where the request stands and what it carries

vars == <<family, state, active, passwd, token, keys, changed, opened, work, req>>
people == <<state, active, passwd, token, keys, changed, opened>>

Row(st, a, h) == [st |-> st, author |-> a, holder |-> h]
NoRow == Row("none", Nobody, Nobody)

Fresh == [pc |-> "new", op |-> "none", actor |-> Nobody, key |-> 0, pw |-> 0, since |-> 0,
          target |-> Nobody, copy |-> NoRow, rows |-> {}, seen |-> <<>>]

In(m) == m \in Members /\ state[m] = "in"
ActiveParents == {p \in Parents : In(p) /\ active[p]}
Gone(ms) == [m \in Members |-> IF m \in ms THEN "gone" ELSE state[m]]
End(r) == req' = [req EXCEPT ![r] = [Fresh EXCEPT !.pc = "done"]]
Go(r, pc) == req' = [req EXCEPT ![r].pc = pc]

\* family_review_version: the contact, and every member with its is_active.
Version == <<family.contact, {<<m, active[m]>> : m \in {n \in Members : In(n)}}>>

(***************************************************************************)
(* Locks.                                                                  *)
(***************************************************************************)
Past(r) == req[r].pc \in {"fenced", "handed"}
FamilyFree == \A r \in Requests : req[r].pc # "inside" /\ ~Past(r)

\* The members whose deletion r prepares.
Leaving(r) == CASE req[r].op = "depart" -> {req[r].actor}
                [] req[r].op = "remove" -> {req[r].target}
                [] req[r].op = "close"  -> {m \in Members : In(m)}
                [] OTHER -> {}

\* FOR UPDATE on the users, and on every row that the cascade reaches.
Fenced_NoKeyUpdate(m) == FALSE
Fenced(m) == \E r \in Requests : Past(r) /\ m \in Leaving(r)
Cascade(ms) == {w \in Works : /\ work[w].st = "live"
                              /\ {work[w].author, work[w].holder} \cap ms # {}}

\* FOR KEY SHARE on what a checked foreign key points to; the row of an edit.
\* (A foreign key is checked, at commit, when it differs from the committed row.)
Checked(r) ==
  UNION {{req[r].copy.author, req[r].copy.holder} \
           ({Nobody} \cup IF work[w].st = "live" THEN {work[w].author, work[w].holder} ELSE {})
         : w \in req[r].rows}
Refers(r) == IF req[r].pc = "checked" THEN Checked(r) ELSE {}
Writes(r) == IF req[r].pc \in {"staged", "checked"} THEN req[r].rows ELSE {}

RowFree(r, w) == \A q \in Requests \ {r} :
                   w \notin Writes(q) /\ ~(Past(q) /\ w \in Cascade(Leaving(q)))

Init ==
  /\ family \in {[open |-> TRUE, contact |-> p] : p \in Parents}
  /\ state \in [Members -> {"unborn", "in"}]
  /\ active \in [Members -> BOOLEAN]
  /\ family.contact \in ActiveParents
  /\ \A m \in Members : ~In(m) => active[m]
  /\ passwd = [m \in Members |-> 0]
  /\ opened = passwd
  /\ token = [m \in Members |-> IF In(m) /\ active[m] THEN 1 ELSE 0]
  /\ keys = token
  /\ changed = passwd
  /\ work \in [Works -> {NoRow} \cup {Row("live", a, h) : a \in {m \in Members : In(m)},
                                                          h \in {m \in Members : In(m)} \cup {Nobody}}]
  /\ \A w \in Works : work[w].author \in Children => work[w].holder = work[w].author
  /\ req = [r \in Requests |-> Fresh]

(***************************************************************************)
(* A request arrives.  TokenAuthentication accepts the current key of an   *)
(* active member, IsParent the role; the body is chosen freely.            *)
(***************************************************************************)
As(m, op, pc) == [Fresh EXCEPT !.pc = pc, !.op = op, !.actor = m, !.key = token[m], !.pw = passwd[m],
                              !.since = changed[m]]

Authenticated == {m \in Members : In(m) /\ active[m] /\ token[m] # 0}

Arrive(r) ==
  /\ req[r].pc = "new"
  /\ \E m \in Authenticated :
       \/ req' = [req EXCEPT ![r] = As(m, "logout", "asked")]
       \/ req' = [req EXCEPT ![r] = As(m, "close", "review")]
       \/ \E s \in IF m \in Parents THEN Parents ELSE {Nobody} :
            req' = [req EXCEPT ![r] = [As(m, "depart", "asked") EXCEPT !.target = s]]
       \/ /\ m \in Parents
          /\ \E op \in {"transfer", "deactivate", "reactivate", "remove", "reset", "create"},
                t \in Members : /\ state[t] = IF op = "create" THEN "unborn" ELSE "in"
                                /\ req' = [req EXCEPT ![r] = [As(m, op, "asked") EXCEPT !.target = t]]
  /\ UNCHANGED <<family, people, work>>

\* AuthView: authenticate() has found the password right and the member active.
ArriveLogin(r) ==
  /\ req[r].pc = "new"
  /\ \E m \in Members : /\ In(m) /\ active[m]
                        /\ req' = [req EXCEPT ![r] = As(m, "login", "asked")]
  /\ UNCHANGED <<family, people, work>>

\* start, and the callback from Google for the account that m has linked.
ArriveGoogle(r) ==
  /\ req[r].pc = "new"
  /\ \E m \in Members : In(m) /\ req' = [req EXCEPT ![r] = As(m, "google", "flow")]
  /\ UNCHANGED <<family, people, work>>

\* ChoreViewSet.perform_create: a child proposes for itself, a parent for anyone.
ArriveWrite(r) ==
  /\ req[r].pc = "new"
  /\ \E m \in Authenticated, w \in Works, h \in Members \cup {Nobody} :
       /\ work[w].st = "none" /\ \A q \in Requests : w \notin req[q].rows
       /\ IF m \in Children THEN h = m ELSE h = Nobody \/ In(h)
       /\ req' = [req EXCEPT ![r] = [As(m, "write", "staged") EXCEPT
                    !.rows = {w}, !.copy = Row("live", m, h)]]
  /\ UNCHANGED <<family, people, work>>

\* ChoreViewSet.approve and PATCH: get_object() takes no lock, and save() writes
\* every column of that copy, with the holder the parent has chosen.
ArriveEdit(r) ==
  /\ req[r].pc = "new"
  /\ \E m \in Authenticated \cap Parents, w \in Works, h \in Members \cup {Nobody} :
       /\ work[w].st = "live" /\ (h = Nobody \/ In(h))
       /\ req' = [req EXCEPT ![r] = [As(m, "edit", "read") EXCEPT
                    !.rows = {w}, !.copy = [work[w] EXCEPT !.holder = h]]]
  /\ UNCHANGED <<family, people, work>>

(***************************************************************************)
(* locked_family_members: the family, its members, the actor among them,   *)
(* active, and the credential that the request came with.                  *)
(***************************************************************************)
Trusted(r) == LET m == req[r].actor
              IN family.open /\ In(m) /\ active[m] /\ token[m] = req[r].key

Entering(r, ops) == req[r].pc = "asked" /\ req[r].op \in ops /\ FamilyFree

\* assert_safe_to_remove and _successor.
SafeToRemove(t, actor) == t # actor /\ (t \in Parents => ActiveParents \ {t} # {})
Successor_Inactive(s, actor) == s \in Parents \ {actor} /\ In(s)
Successor(s, actor) == s \in ActiveParents \ {actor}

\* promote_next_primary_parent: the active parent who joined first takes over.
NextContact(leaver) ==
  IF family.contact # leaver THEN family.contact
  ELSE LET left == ActiveParents \ {leaver}
       IN IF left = {} THEN Nobody
          ELSE CHOOSE p \in left : \A q \in left : Oldest[p] <= Oldest[q]

\* _automatic_shared_work_parent, for a child who leaves.
AutomaticParent ==
  IF family.contact \in ActiveParents THEN family.contact
  ELSE IF ActiveParents = {} THEN Nobody
  ELSE CHOOSE p \in ActiveParents : \A q \in ActiveParents : Oldest[p] <= Oldest[q]

\* close_family: the last active parent, who has seen the family as it is now.
Closable_Unreviewed(r) == LET a == req[r].actor
                          IN a \in Parents /\ req[r].pw = passwd[a] /\ ActiveParents \ {a} = {}
Closable(r) == LET a == req[r].actor
               IN /\ a \in Parents /\ req[r].pw = passwd[a]
                  /\ req[r].seen = Version
                  /\ ActiveParents \ {a} = {}

Allowed(r) == LET a == req[r].actor  t == req[r].target
  IN /\ Trusted(r)
     /\ CASE req[r].op = "transfer" -> a \in Parents /\ req[r].pw = passwd[a] /\ Successor(t, a)
          [] req[r].op \in {"deactivate", "remove"} -> In(t) /\ SafeToRemove(t, a)
          [] req[r].op \in {"reactivate", "reset"} -> In(t)
          [] req[r].op = "create" -> state[t] = "unborn"
          [] req[r].op = "depart" -> req[r].pw = passwd[a] /\ (a \in Parents => Successor(t, a))
          [] req[r].op = "close" -> Closable(r)
          [] OTHER -> FALSE

\* What the lock or a check does not let through is answered with an error.
Refuse(r) ==
  /\ Entering(r, {"transfer", "deactivate", "reactivate", "remove", "reset", "create", "depart", "close"})
  /\ ~Allowed(r) /\ End(r)
  /\ UNCHANGED <<family, people, work>>

\* User.save and invalidate_google_flows: when password or is_active has changed.
Invalidated(m, really) == [changed EXCEPT ![m] = IF really THEN @ + 1 ELSE @]

Transfer(r) ==
  /\ Entering(r, {"transfer"}) /\ Allowed(r)
  /\ family' = [family EXCEPT !.contact = req[r].target]
  /\ End(r) /\ UNCHANGED <<people, work>>

Deactivate(r) == LET t == req[r].target
  IN /\ Entering(r, {"deactivate"}) /\ Allowed(r)
     /\ active' = [active EXCEPT ![t] = FALSE]
     /\ token' = [token EXCEPT ![t] = 0]
     /\ family' = [family EXCEPT !.contact = NextContact(t)]
     /\ changed' = Invalidated(t, active[t])
     /\ End(r) /\ UNCHANGED <<state, passwd, keys, opened, work>>

Reactivate(r) ==
  /\ Entering(r, {"reactivate"}) /\ Allowed(r)
  /\ active' = [active EXCEPT ![req[r].target] = TRUE]
  /\ changed' = Invalidated(req[r].target, ~active[req[r].target])
  /\ End(r) /\ UNCHANGED <<family, state, passwd, token, keys, opened, work>>

\* reset_password spares the credential of the one who asks for it.
Reset(r) == LET t == req[r].target
  IN /\ Entering(r, {"reset"}) /\ Allowed(r)
     /\ passwd' = [passwd EXCEPT ![t] = @ + 1]
     /\ changed' = Invalidated(t, TRUE)
     /\ IF t = req[r].actor
          THEN /\ opened' = [opened EXCEPT ![t] = passwd[t] + 1] /\ UNCHANGED token
          ELSE /\ token' = [token EXCEPT ![t] = 0] /\ UNCHANGED opened
     /\ End(r) /\ UNCHANGED <<family, state, active, keys, work>>

Create(r) ==
  /\ Entering(r, {"create"}) /\ Allowed(r)
  /\ state' = [state EXCEPT ![req[r].target] = "in"]
  /\ End(r) /\ UNCHANGED <<family, active, passwd, token, keys, changed, opened, work>>

\* AuthView, under the locks: the member and the password once more, and a new key.
StillValid_OnlyThere(r) == family.open /\ In(req[r].actor)
StillValid(r) == LET m == req[r].actor
                 IN family.open /\ In(m) /\ active[m] /\ req[r].pw = passwd[m]

Login(r) == LET m == req[r].actor
  IN /\ Entering(r, {"login"})
     /\ IF StillValid(r)
          THEN /\ keys' = [keys EXCEPT ![m] = @ + 1]
               /\ token' = [token EXCEPT ![m] = keys[m] + 1]
               /\ opened' = [opened EXCEPT ![m] = req[r].pw]
               /\ changed' = Invalidated(m, TRUE)
          ELSE UNCHANGED <<keys, token, changed, opened>>
     /\ End(r) /\ UNCHANGED <<family, state, active, passwd, work>>

\* _logout_current_credential: only the key that the request came with.
Logout(r) == LET m == req[r].actor
  IN /\ req[r].pc = "asked" /\ req[r].op = "logout" /\ FamilyFree
     /\ token' = [token EXCEPT ![m] = IF @ = req[r].key THEN 0 ELSE @]
     /\ End(r) /\ UNCHANGED <<family, state, active, passwd, keys, changed, opened, work>>

\* exchange and _redeem of a sign-in: the flow must be younger than the last change
\* of the member; an open session is shared, not replaced.
Unchanged(r) == LET m == req[r].actor
                IN In(m) /\ active[m] /\ changed[m] = req[r].since

Exchange(r) == LET m == req[r].actor
  IN /\ req[r].pc = "flow" /\ FamilyFree
     /\ IF Unchanged(r) /\ token[m] = 0
          THEN /\ keys' = [keys EXCEPT ![m] = @ + 1]
               /\ token' = [token EXCEPT ![m] = keys[m] + 1]
               /\ opened' = [opened EXCEPT ![m] = req[r].pw]
          ELSE UNCHANGED <<keys, token, opened>>
     /\ End(r) /\ UNCHANGED <<family, state, active, passwd, changed, work>>

\* The preview that a closure must quote; then the parent confirms it.
Review(r) ==
  /\ req[r].pc = "review" /\ FamilyFree
  /\ IF Trusted(r)
       THEN req' = [req EXCEPT ![r].seen = Version, ![r].pc = "asked"]
       ELSE End(r)
  /\ UNCHANGED <<family, people, work>>

(***************************************************************************)
(* Deletion: enter, fence, hand shared work over, erase and commit.        *)
(***************************************************************************)
Enter(r) ==
  /\ Entering(r, {"depart", "remove", "close"}) /\ Allowed(r)
  /\ Go(r, "inside")
  /\ UNCHANGED <<family, people, work>>

\* collect_safe_deletion: everything is locked NOWAIT, or the answer is "busy".
Fence(r) ==
  /\ req[r].pc = "inside"
  /\ IF \E q \in Requests \ {r} : \/ Refers(q) \cap Leaving(r) # {}
                                  \/ Writes(q) \cap Cascade(Leaving(r)) # {}
       THEN End(r)
       ELSE Go(r, "fenced")
  /\ UNCHANGED <<family, people, work>>

\* _shared_work: what the leaver made, for anyone but the leaver.
Shared(m) == {w \in Works : work[w].st = "live" /\ work[w].author = m /\ work[w].holder # m}
Heir(r) == IF req[r].actor \in Parents THEN req[r].target ELSE AutomaticParent

HandOver(r) ==
  /\ req[r].pc = "fenced" /\ req[r].op = "depart"
  /\ IF Heir(r) = Nobody /\ Shared(req[r].actor) # {}
       THEN End(r)
       ELSE req' = [req EXCEPT ![r].pc = "handed", ![r].rows = Shared(req[r].actor)]
  /\ UNCHANGED <<family, people, work>>

\* The cascade over created_by and assigned_to, after the handed rows have moved.
Erased(r, ms) ==
  [w \in Works |->
     IF w \in req[r].rows THEN [work[w] EXCEPT !.author = Heir(r)]
     ELSE IF w \in Cascade(ms) THEN Row("gone", Nobody, Nobody)
     ELSE work[w]]

Erase(r) == LET ms == Leaving(r)
  IN /\ \/ req[r].op = "depart" /\ req[r].pc = "handed"
        \/ req[r].op \in {"remove", "close"} /\ req[r].pc = "fenced"
     /\ work' = Erased(r, ms)
     /\ state' = Gone(ms)
     /\ token' = [m \in Members |-> IF m \in ms THEN 0 ELSE token[m]]
     /\ family' = CASE req[r].op = "close" -> [open |-> FALSE, contact |-> Nobody]
                    [] req[r].op = "remove" -> [family EXCEPT !.contact = NextContact(req[r].target)]
                    [] OTHER -> [family EXCEPT !.contact = IF @ = req[r].actor THEN req[r].target ELSE @]
     /\ End(r) /\ UNCHANGED <<active, passwd, keys, changed, opened>>

(***************************************************************************)
(* Writers of work: the row, the foreign keys, the commit.                 *)
(***************************************************************************)
\* UPDATE waits for the row; of a row that is gone, save() makes a new one.
Stage(r) ==
  /\ req[r].pc = "read" /\ \A w \in req[r].rows : RowFree(r, w)
  /\ Go(r, "staged")
  /\ UNCHANGED <<family, people, work>>

\* A check waits for a member who is being deleted, and fails for one who is gone.
CheckKeys(r) ==
  /\ req[r].pc = "staged" /\ \A m \in Checked(r) : ~Fenced(m)
  /\ IF \A m \in Checked(r) : In(m) THEN Go(r, "checked") ELSE End(r)
  /\ UNCHANGED <<family, people, work>>

CommitWork(r) ==
  /\ req[r].pc = "checked"
  /\ work' = [w \in Works |-> IF w \in req[r].rows THEN req[r].copy ELSE work[w]]
  /\ End(r) /\ UNCHANGED <<family, people>>

\* Nothing is under way: the family may rest.
Quiet == (\A r \in Requests : req[r].pc \in {"new", "done"}) /\ UNCHANGED vars

Next == Quiet \/ \E r \in Requests :
  \/ Arrive(r) \/ ArriveLogin(r) \/ ArriveGoogle(r) \/ ArriveWrite(r) \/ ArriveEdit(r)
  \/ Refuse(r) \/ Transfer(r) \/ Deactivate(r) \/ Reactivate(r) \/ Reset(r) \/ Create(r)
  \/ Login(r) \/ Exchange(r) \/ Logout(r) \/ Review(r)
  \/ Enter(r) \/ Fence(r) \/ HandOver(r) \/ Erase(r)
  \/ Stage(r) \/ CheckKeys(r) \/ CommitWork(r)

Spec == Init /\ [][Next]_vars

(***************************************************************************)
(* Properties.                                                             *)
(***************************************************************************)
Rows == {NoRow, Row("gone", Nobody, Nobody)} \cup
        [st : {"live"}, author : Members, holder : Members \cup {Nobody}]

\* The variables' types; no foreign key points to a member who is not there.
TypeOK ==
  /\ family \in [open : BOOLEAN, contact : Parents \cup {Nobody}]
  /\ state \in [Members -> {"unborn", "in", "gone"}]
  /\ active \in [Members -> BOOLEAN]
  /\ passwd \in [Members -> Nat] /\ opened \in [Members -> Nat]
  /\ keys \in [Members -> Nat] /\ changed \in [Members -> Nat] /\ token \in [Members -> Nat]
  /\ work \in [Works -> Rows]
  /\ \A w \in Works : \A m \in {work[w].author, work[w].holder} \ {Nobody} : In(m)

\* An open family always has an active parent to turn to, and its contact is
\* one: whatever departures, removals and deactivations overlap.
ContactIsActiveParent == family.open => family.contact \in ActiveParents

\* What a request carries.
Steps == {"new", "asked", "review", "flow", "inside", "fenced", "handed",
          "read", "staged", "checked", "done"}
Ops == {"none", "logout", "close", "depart", "transfer", "deactivate", "reactivate", "remove",
        "reset", "create", "login", "google", "write", "edit"}
Request == [pc : Steps, op : Ops, actor : Members \cup {Nobody}, key : Nat, pw : Nat, since : Nat,
            target : Members \cup {Nobody}, copy : Rows, rows : SUBSET Works,
            seen : {<<>>} \cup (Parents \cup {Nobody}) \X SUBSET (Members \X BOOLEAN)]

RequestsOK ==
  /\ req \in [Requests -> Request]
  /\ \A r \in Requests : /\ req[r].pc \in {"staged", "checked", "read"} => req[r].copy.st = "live"
                         /\ req[r].pc \notin {"handed", "read", "staged", "checked"} => req[r].rows = {}

\* The Family row has one holder, and what it was admitted for is still so.
Holds(r) == req[r].pc \in {"inside", "fenced", "handed"}
FamilyHeld ==
  \A r \in Requests : Holds(r) =>
    /\ Allowed(r)
    /\ req[r].op \in {"depart", "remove", "close"} /\ (req[r].pc = "handed" => req[r].op = "depart")
    /\ \A q \in Requests \ {r} : ~Holds(q)

\* Writers keep off each other's rows; a foreign key that was checked is still
\* good; and nobody who is being deleted, nor anything that goes or moves with
\* them, is in the hands of a writer.
WorkHeld ==
  \A r \in Requests :
    /\ \A q \in Requests \ {r} : Writes(r) \cap Writes(q) = {}
    /\ \A m \in Refers(r) : In(m)
    /\ Past(r) => \A q \in Requests \ {r} : /\ Refers(q) \cap Leaving(r) = {}
                                            /\ Writes(q) \cap Cascade(Leaving(r)) = {}
    /\ req[r].pc = "handed" => req[r].rows = Shared(req[r].actor)

\* A Google flow that still counts was begun under the password of now.
FlowsDated ==
  \A r \in Requests : req[r].pc = "flow" =>
    /\ req[r].actor \in Members /\ req[r].since <= changed[req[r].actor]
    /\ req[r].since = changed[req[r].actor] => req[r].pw = passwd[req[r].actor]

\* No foreign key dangles and no open family is left without a parent who can
\* act for it.
HouseholdInv ==
  TypeOK /\ RequestsOK /\ FamilyHeld /\ WorkHeld /\ FlowsDated /\ ContactIsActiveParent

\* A credential that works belongs to an active member and was opened under the
\* password that is valid now: a sign-in, by password or by Google, that began
\* before a reset or a deactivation and finished late revives nothing.
SessionsFollowPasswords ==
  \A m \in Members : token[m] # 0 => In(m) /\ active[m] /\ opened[m] = passwd[m]

Departs(m) == \E r \in Requests : /\ req[r].pc = "handed" /\ req[r].actor = m
                                  /\ In(m) /\ state'[m] = "gone"

\* A departure takes the work that the leaver held, and nothing that was made
\* for others, also not what was saved or reassigned while it ran.
SharedWorkStays ==
  [][\A m \in Members : Departs(m) =>
       \A w \in Works : work[w].st = "live" =>
         IF work[w].holder = m THEN work'[w].st = "gone"
         ELSE /\ work'[w].st = "live" /\ work'[w].holder = work[w].holder
              /\ work'[w].author # m
              /\ work[w].author # m => work'[w].author = work[w].author]_vars

\* A family is closed with exactly the members, the states and the contact that
\* some review showed to its last active parent.
ClosedAsReviewed ==
  [][family.open /\ ~family'.open =>
       \E r \in Requests : /\ req[r].op = "close" /\ req[r].seen = Version
                           /\ ActiveParents = {req[r].actor}]_vars
=============================================================================
