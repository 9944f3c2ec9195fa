---------------------------- MODULE MCHousehold ----------------------------
(* Small instances of Household for TLC.                                   *)
EXTENDS Household, TLC

CONSTANTS p1, p2, c1, c2, w1, w2, r1, r2, r3

Joined == p1 :> 1 @@ p2 :> 2
Alike == Permutations(Requests)
\* An instance starts with two parents and a child; the older parent is the
\* contact, the other may be inactive; w1 is that parent's or the child's own.
Start == /\ Init /\ family.contact = p1 /\ \A m \in {p1, p2, c1} : In(m)
         /\ active[c1] /\ (c2 \in Children => ~In(c2))
         /\ \A w \in Works : work[w] \in {NoRow, Row("live", p1, Nobody), Row("live", p1, c1),
                                         Row("live", c1, c1)}
StartSpec == Start /\ [][Next]_vars
=============================================================================
