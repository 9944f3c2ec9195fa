--------------------------- MODULE SavingsProofs ---------------------------
(***************************************************************************)
(* Proofs about Savings, for all goals, targets, ledger rows and balances. *)
(* The folds of the claim and of the check are unrolled first: a claim is  *)
(* the union of its range and the coverage and counts the new cents; the   *)
(* reserve adds the open promises; the loop pays each goal the cents that  *)
(* neither the coverage nor a promise has, once.  What a check leaves then *)
(* keeps SavingsOK, and with it every write does.                          *)
(***************************************************************************)
EXTENDS Savings, Sums, TLAPS

-----------------------------------------------------------------------------
(* Bands.                                                                  *)

\* What the pass over the bands of a claim carries.
Acc == [l : Nat, r : Nat, placed : BOOLEAN, out : Bands]

\* A list of bands and its members.
LEMMA BandsFacts ==
  ASSUME NEW q \in Bands
  PROVE  /\ Len(q) \in Nat /\ DOMAIN q = 1 .. Len(q)
         /\ \A i \in DOMAIN q : q[i] \in Nat \X Nat /\ q[i][1] \in Nat /\ q[i][2] \in Nat
BY DEF Bands

\* A band more.
LEMMA AppendBand ==
  ASSUME NEW q \in Bands, NEW b \in Nat \X Nat
  PROVE  /\ Append(q, b) \in Bands
         /\ Len(Append(q, b)) = Len(q) + 1 /\ Append(q, b)[Len(q) + 1] = b
         /\ \A i \in 1 .. Len(q) : Append(q, b)[i] = q[i]
         /\ DOMAIN Append(q, b) = 1 .. (Len(q) + 1)
BY DEF Bands

\* One band of the pass keeps the types.
LEMMA GrowStays ==
  ASSUME NEW acc \in Acc, NEW band \in Nat \X Nat
  PROVE  Grow(acc, band) \in Acc
<1>1. acc.l \in Nat /\ acc.r \in Nat /\ acc.placed \in BOOLEAN /\ acc.out \in Bands
  BY DEF Acc
<1>2. band[1] \in Nat /\ band[2] \in Nat /\ <<acc.l, acc.r>> \in Nat \X Nat
  BY <1>1
<1>3. Min({acc.l, band[1]}) \in Nat /\ Max({acc.r, band[2]}) \in Nat
  <2>1. Min({acc.l, band[1]}) \in {acc.l, band[1]} /\ Max({acc.r, band[2]}) \in {acc.r, band[2]}
    <3> DEFINE a == acc.l
               b == band[1]
               c == acc.r
               d == band[2]
    <3>1. a \in Int /\ b \in Int /\ c \in Int /\ d \in Int
      BY <1>1, <1>2
    <3>2. Min({a, b}) \in {a, b} /\ Max({c, d}) \in {c, d}
      <4> HIDE DEF a, b, c, d
      <4> QED  BY <3>1, MaxMinOfTwo
    <3> QED  BY <3>2
  <2> QED  BY <1>1, <1>2, <2>1
<1>4. Append(acc.out, band) \in Bands /\ acc.out \o <<band>> \in Bands
  BY <1>1 DEF Bands
<1>5. Append(acc.out, <<acc.l, acc.r>>) \o <<band>> \in Bands
  BY <1>1, <1>2 DEF Bands
<1> QED  BY <1>1, <1>3, <1>4, <1>5 DEF Grow, Acc

\* The pass of a claim (the loop of _claim_savings_range), band by band.
LEMMA GrowFold ==
  ASSUME NEW q \in Bands, NEW base \in Acc
  PROVE  \E a : /\ a \in [0 .. Len(q) -> Acc]
                /\ a[0] = base
                /\ \A k \in 1 .. Len(q) : a[k] = Grow(a[k - 1], q[k])
                /\ FoldLeft(Grow, base, q) = a[Len(q)]
<1> DEFINE n == Len(q)
           step == [x \in Acc \X (1 .. n) |-> Grow(x[1], q[x[2]])]
           Iter(i) == i = [s \in SUBSET DOMAIN q |-> IF s = {} THEN base ELSE Grow(i[s \ {Max(s)}], q[Max(s)])]
           it == CHOOSE i : Iter(i)
<1>1. FoldLeft(Grow, base, q) = it[DOMAIN q]
  BY Zenon DEF FoldLeft, MapThenFoldSet
<1>2. n \in Nat /\ DOMAIN q = 1 .. n /\ \A i \in 1 .. n : q[i] \in Nat \X Nat
  BY BandsFacts
<1>3. step \in [Acc \X (1 .. n) -> Acc]
  <2>1. \A x \in Acc \X (1 .. n) : Grow(x[1], q[x[2]]) \in Acc
    BY <1>2, GrowStays
  <2> QED  BY <2>1
<1>4. \A y \in Acc, k \in 1 .. n : step[<<y, k>>] = Grow(y, q[k])
  OBVIOUS
<1> HIDE DEF step, n
<1>5. PICK h : PrefixFold(h, n, Acc, base, step)
  BY <1>2, <1>3, PrefixFoldThere
<1>6. \A s \in SUBSET (1 .. n) : s # {} => Max(s) \in 1 .. n /\ h[s \ {Max(s)}] \in Acc
  BY <1>2, <1>5, MaxOfPart DEF PrefixFold
<1>7. \A s \in SUBSET (1 .. n) : h[s] = IF s = {} THEN base ELSE Grow(h[s \ {Max(s)}], q[Max(s)])
  BY <1>4, <1>5, <1>6 DEF PrefixFold
<1>8. h = [s \in SUBSET DOMAIN q |-> h[s]]
  BY <1>2, <1>5 DEF PrefixFold
<1>9. Iter(h)
  BY <1>2, <1>7, <1>8
<1>10. Iter(it)
  <2> HIDE DEF Iter
  <2> QED  BY <1>9
<1>11. \A s \in SUBSET (1 .. n) : it[s] = IF s = {} THEN base ELSE Grow(it[s \ {Max(s)}], q[Max(s)])
  <2> HIDE DEF it
  <2> QED  BY <1>2, <1>10
<1> DEFINE a == [k \in 0 .. n |-> it[1 .. k]]
<1> HIDE DEF it, Iter
<1>12. 0 \in 0 .. n /\ 1 .. 0 = {} /\ {} \in SUBSET (1 .. n)
  BY <1>2
<1>13. a[0] = base
  <2>1. it[{}] = base  BY <1>11
  <2> QED  BY <1>12, <2>1
<1>14. ASSUME NEW k \in 1 .. n
       PROVE  a[k] = Grow(a[k - 1], q[k])
  <2>1. /\ Max(1 .. k) = k /\ (1 .. k) \ {k} = 1 .. (k - 1) /\ 1 .. k # {}
        /\ 1 .. k \in SUBSET (1 .. n)
    BY <1>2, LastOfPrefix
  <2>2. it[1 .. k] = Grow(it[1 .. (k - 1)], q[k])
    BY <1>11, <2>1
  <2>3. k \in 0 .. n /\ k - 1 \in 0 .. n
    BY <1>2
  <2> QED  BY <2>2, <2>3
<1>15. a[n] = it[DOMAIN q]
  BY <1>2
<1>16. \A k \in 0 .. n : k \in Nat /\ (k # 0 => k \in 1 .. n)
  BY <1>2
<1> HIDE DEF a
<1>17. \A k \in 0 .. n : a[k] \in Acc
  <2> DEFINE P == {k \in 0 .. n : a[k] \in Acc}
  <2>1. 0 \in P  BY <1>12, <1>13
  <2>2. \A k \in 1 .. n : k - 1 \in P => k \in P
    <3> SUFFICES ASSUME NEW k \in 1 .. n, k - 1 \in P PROVE k \in P
      OBVIOUS
    <3>1. a[k - 1] \in Acc  OBVIOUS
    <3>2. Grow(a[k - 1], q[k]) \in Acc
      <4> HIDE DEF P
      <4> QED  BY <1>2, <3>1, GrowStays
    <3> QED  BY <1>2, <1>14, <3>2
  <2>3. \A k \in 0 .. n : k \in P
    <3> HIDE DEF P
    <3> QED  BY <1>2, <2>1, <2>2, StepByStep
  <2> QED  BY <2>3
<1>18. a = [k \in 0 .. n |-> a[k]]
  BY DEF a
<1>19. a \in [0 .. n -> Acc]
  BY <1>17, <1>18
<1> QED  BY <1>1, <1>13, <1>14, <1>15, <1>19 DEF n

\* Cent c is in a band of q.
Covers(q, c) == \E i \in DOMAIN q : q[i][1] <= c /\ c < q[i][2]

\* Both ways in which the model adds a band at the end are the same.
LEMMA ConcatOne == ASSUME NEW q \in Bands, NEW b \in Nat \X Nat PROVE q \o <<b>> = Append(q, b)
BY DEF Bands

\* A band beyond the others keeps the list sorted and apart.
LEMMA CanonicalAppend ==
  ASSUME NEW q \in Bands, Canonical(q), NEW b \in Nat \X Nat, b[1] < b[2],
         \A i \in DOMAIN q : q[i][2] < b[1]
  PROVE  Canonical(Append(q, b))
<1> DEFINE p == Append(q, b)
           n == Len(q)
<1>1. n \in Nat /\ DOMAIN q = 1 .. n /\ DOMAIN p = 1 .. (n + 1) /\ p[n + 1] = b
      /\ \A i \in 1 .. n : p[i] = q[i]
  BY BandsFacts, AppendBand
<1> HIDE DEF p, n
<1>2. SUFFICES ASSUME NEW i \in DOMAIN p PROVE p[i][1] < p[i][2] /\ (i > 1 => p[i - 1][2] < p[i][1])
  BY DEF Canonical, p
<1>3. CASE i = n + 1
  <2>1. i > 1 => i - 1 \in 1 .. n
    BY <1>1, <1>3
  <2> QED  BY <1>1, <1>3, <2>1
<1>4. CASE i # n + 1
  <2>1. i \in 1 .. n /\ (i > 1 => i - 1 \in 1 .. n)
    BY <1>1, <1>4
  <2> QED  BY <1>1, <2>1 DEF Canonical
<1> QED  BY <1>3, <1>4

\* It covers its cents and no other.
LEMMA CoversAppend ==
  ASSUME NEW q \in Bands, NEW b \in Nat \X Nat, NEW c
  PROVE  Covers(Append(q, b), c) <=> Covers(q, c) \/ (b[1] <= c /\ c < b[2])
<1> DEFINE p == Append(q, b)
           n == Len(q)
<1>1. n \in Nat /\ DOMAIN q = 1 .. n /\ DOMAIN p = 1 .. (n + 1) /\ p[n + 1] = b
      /\ \A i \in 1 .. n : p[i] = q[i]
  BY BandsFacts, AppendBand
<1>2. DOMAIN p = (1 .. n) \cup {n + 1}
  BY <1>1
<1> HIDE DEF p, n
<1>3. Covers(p, c) <=> Covers(q, c) \/ (b[1] <= c /\ c < b[2])
  BY <1>1, <1>2, Zenon DEF Covers
<1> QED  BY <1>3 DEF p

\* Each band is the new one or an old one.
LEMMA AppendParts ==
  ASSUME NEW q \in Bands, NEW b \in Nat \X Nat, NEW i \in DOMAIN Append(q, b)
  PROVE  Append(q, b)[i] = b \/ \E j \in DOMAIN q : Append(q, b)[i] = q[j]
<1> DEFINE n == Len(q)
           p == Append(q, b)
<1>1. n \in Nat /\ DOMAIN q = 1 .. n /\ DOMAIN p = 1 .. (n + 1) /\ p[n + 1] = b
      /\ \A j \in 1 .. n : p[j] = q[j]
  BY BandsFacts, AppendBand
<1>2. i \in DOMAIN p
  OBVIOUS
<1> HIDE DEF n, p
<1>3. i = n + 1 \/ i \in 1 .. n
  BY <1>1, <1>2
<1>4. p[i] = b \/ \E j \in DOMAIN q : p[i] = q[j]
  BY <1>1, <1>3
<1> QED  BY <1>4 DEF p

\* What the pass has when it has seen the first k bands.
GrowOK(acc, q, l, r, k) ==
  /\ acc \in Acc /\ acc.l < acc.r
  /\ Canonical(acc.out)
  /\ \A i \in DOMAIN acc.out : k >= 1 /\ acc.out[i][2] <= q[k][2]
  /\ acc.placed => k >= 1 /\ acc.r < q[k][1]
  /\ ~acc.placed => \A i \in DOMAIN acc.out : acc.out[i][2] < acc.l
  /\ \A c \in Nat :
       (Covers(acc.out, c) \/ (~acc.placed /\ acc.l <= c /\ c < acc.r))
         <=> ((l <= c /\ c < r) \/ \E i \in 1 .. k : q[i][1] <= c /\ c < q[i][2])

\* One band of the pass, which lies before the union, after it or joins it.
LEMMA GrowKeeps ==
  ASSUME NEW q \in Bands, Canonical(q), NEW k \in 1 .. Len(q), NEW l \in Nat, NEW r \in Nat,
         NEW acc, GrowOK(acc, q, l, r, k - 1)
  PROVE  GrowOK(Grow(acc, q[k]), q, l, r, k)
<1> DEFINE b == q[k]
           u == <<acc.l, acc.r>>
           g == Grow(acc, b)
           old(c) == (l <= c /\ c < r) \/ \E i \in 1 .. (k - 1) : q[i][1] <= c /\ c < q[i][2]
           new(c) == (l <= c /\ c < r) \/ \E i \in 1 .. k : q[i][1] <= c /\ c < q[i][2]
<1>1. /\ acc.l \in Nat /\ acc.r \in Nat /\ acc.placed \in BOOLEAN /\ acc.out \in Bands
      /\ acc \in Acc /\ acc.l < acc.r /\ Canonical(acc.out)
  BY DEF Acc, GrowOK
<1>2. b \in Nat \X Nat /\ b[1] \in Nat /\ b[2] \in Nat /\ b[1] < b[2] /\ b = q[k] /\ k \in Nat /\ Len(q) \in Nat
      /\ DOMAIN q = 1 .. Len(q) /\ k \in DOMAIN q
  BY BandsFacts DEF Canonical
<1>3. k > 1 => q[k - 1][2] < b[1] /\ q[k - 1][1] < q[k - 1][2]
               /\ q[k - 1][1] \in Nat /\ q[k - 1][2] \in Nat
  <2> SUFFICES ASSUME k > 1 PROVE q[k - 1][2] < b[1] /\ q[k - 1][1] < q[k - 1][2]
                                  /\ q[k - 1][1] \in Nat /\ q[k - 1][2] \in Nat
    OBVIOUS
  <2>1. k - 1 \in DOMAIN q  BY <1>2
  <2> QED  BY <1>2, <2>1, BandsFacts DEF Canonical
<1>4. \A c \in Nat : new(c) <=> old(c) \/ (b[1] <= c /\ c < b[2])
  <2>1. 1 .. k = (1 .. (k - 1)) \cup {k}  BY <1>2
  <2> QED  BY <2>1
<1>5. \A c \in Nat : Covers(acc.out, c) \/ (~acc.placed /\ acc.l <= c /\ c < acc.r) <=> old(c)
  BY DEF GrowOK
<1>6. \A i \in DOMAIN acc.out : /\ k > 1 /\ acc.out[i][2] < b[1] /\ acc.out[i][2] <= b[2]
                                /\ acc.out[i][1] \in Nat /\ acc.out[i][2] \in Nat
  <2> SUFFICES ASSUME NEW i \in DOMAIN acc.out
               PROVE  /\ k > 1 /\ acc.out[i][2] < b[1] /\ acc.out[i][2] <= b[2]
                      /\ acc.out[i][1] \in Nat /\ acc.out[i][2] \in Nat
    OBVIOUS
  <2>1. k - 1 >= 1 /\ acc.out[i][2] <= q[k - 1][2]  BY DEF GrowOK
  <2>2. acc.out[i][1] \in Nat /\ acc.out[i][2] \in Nat  BY <1>1, BandsFacts
  <2>3. k > 1  BY <1>2, <2>1
  <2> HIDE DEF b
  <2> QED  BY <1>2, <1>3, <2>1, <2>2, <2>3
<1>7. acc.placed => k > 1 /\ acc.r < b[1]
  <2> SUFFICES ASSUME acc.placed PROVE k > 1 /\ acc.r < b[1]
    OBVIOUS
  <2>1. k - 1 >= 1 /\ acc.r < q[k - 1][1]  BY DEF GrowOK
  <2>2. k > 1  BY <1>2, <2>1
  <2> HIDE DEF b
  <2> QED  BY <1>1, <1>2, <1>3, <2>1, <2>2
<1>8. ~acc.placed => \A i \in DOMAIN acc.out : acc.out[i][2] < acc.l
  BY DEF GrowOK
<1>9. u \in Nat \X Nat /\ u[1] = acc.l /\ u[2] = acc.r
  BY <1>1
<1>10. g \in Acc
  BY <1>1, <1>2, GrowStays
<1> HIDE DEF new, old, b, u
<1>11. SUFFICES /\ g.l < g.r /\ Canonical(g.out)
                /\ \A i \in DOMAIN g.out : g.out[i][2] <= b[2]
                /\ g.placed => g.r < b[1]
                /\ ~g.placed => \A i \in DOMAIN g.out : g.out[i][2] < g.l
                /\ \A c \in Nat : Covers(g.out, c) \/ (~g.placed /\ g.l <= c /\ c < g.r) <=> new(c)
  <2>1. g = Grow(acc, q[k])
    BY DEF b
  <2> HIDE DEF g
  <2>2. k >= 1 /\ q[k] = b BY <1>2
  <2>3. GrowOK(g, q, l, r, k)
    BY <1>10, <1>11, <2>2 DEF GrowOK, new
  <2> QED  BY <2>1, <2>3
<1>12. CASE b[2] < acc.l
  <2>1. g = [acc EXCEPT !.out = Append(@, b)]
    BY <1>12 DEF Grow
  <2>2. g.l = acc.l /\ g.r = acc.r /\ g.placed = acc.placed /\ g.out = Append(acc.out, b)
    BY <2>1 DEF Acc
  <2>3. ~acc.placed
    BY <1>1, <1>2, <1>7, <1>12
  <2>4. Canonical(g.out)
    BY <1>1, <1>2, <1>6, <2>2, CanonicalAppend
  <2>5. \A c : Covers(g.out, c) <=> Covers(acc.out, c) \/ (b[1] <= c /\ c < b[2])
    BY <1>1, <1>2, <2>2, CoversAppend
  <2>6. \A i \in DOMAIN g.out : g.out[i] = b \/ \E j \in DOMAIN acc.out : g.out[i] = acc.out[j]
    <3> HIDE DEF g
    <3> QED  BY <1>1, <1>2, <2>2, AppendParts
  <2> HIDE DEF g
  <2>7. \A c \in Nat : Covers(g.out, c) \/ (~g.placed /\ g.l <= c /\ c < g.r) <=> new(c)
    BY <1>4, <1>5, <2>2, <2>5, Zenon
  <2>8. \A i \in DOMAIN g.out : g.out[i][2] <= b[2] /\ g.out[i][2] < g.l
    BY <1>2, <1>6, <1>8, <1>12, <2>2, <2>3, <2>6
  <2> QED  BY <1>1, <2>2, <2>3, <2>4, <2>7, <2>8
<1>13. CASE ~(b[2] < acc.l) /\ acc.r < b[1]
  <2> DEFINE base == IF acc.placed THEN acc.out ELSE Append(acc.out, u)
  <2>1. g = [acc EXCEPT !.out = base \o <<b>>, !.placed = TRUE]
    BY <1>13 DEF Grow, u
  <2>2. base \in Bands
    BY <1>1, <1>9, AppendBand
  <2>3. g.l = acc.l /\ g.r = acc.r /\ g.placed = TRUE /\ g.out = Append(base, b)
    BY <1>2, <2>1, <2>2, ConcatOne DEF Acc
  <2>4. /\ Canonical(base)
        /\ \A i \in DOMAIN base : base[i][2] < b[1]
        /\ \A c \in Nat : Covers(base, c) <=> old(c)
    <3>1. CASE acc.placed
      BY <1>1, <1>5, <1>6, <3>1
    <3>2. CASE ~acc.placed
      <4>1. base = Append(acc.out, u)
        BY <3>2
      <4>2. Canonical(base)
        BY <1>1, <1>8, <1>9, <3>2, <4>1, CanonicalAppend
      <4>3. \A c : Covers(base, c) <=> Covers(acc.out, c) \/ (acc.l <= c /\ c < acc.r)
        BY <1>1, <1>9, <4>1, CoversAppend
      <4> HIDE DEF base, g
      <4>4. \A i \in DOMAIN base : base[i] = u \/ \E j \in DOMAIN acc.out : base[i] = acc.out[j]
        BY <1>1, <1>9, <4>1, AppendParts
      <4>6. \A i \in DOMAIN base : base[i][2] < b[1]
        BY <1>6, <1>9, <1>13, <4>4
      <4>7. \A c \in Nat : Covers(base, c) <=> old(c)
        BY <1>5, <3>2, <4>3, Zenon
      <4> QED  BY <4>2, <4>6, <4>7
    <3> QED  BY <3>1, <3>2
  <2> HIDE DEF base, g
  <2>5. Canonical(g.out)
    BY <1>2, <2>2, <2>3, <2>4, CanonicalAppend
  <2>6. \A c : Covers(g.out, c) <=> Covers(base, c) \/ (b[1] <= c /\ c < b[2])
    BY <1>2, <2>2, <2>3, CoversAppend
  <2>7. \A i \in DOMAIN g.out : g.out[i][2] <= b[2]
    <3>1. \A i \in DOMAIN g.out : g.out[i] = b \/ \E j \in DOMAIN base : g.out[i] = base[j]
      BY <1>2, <2>2, <2>3, AppendParts
    <3>2. \A i \in DOMAIN base : base[i][2] \in Nat
      BY <2>2, BandsFacts
    <3> QED  BY <1>2, <2>4, <3>1, <3>2
  <2>8. \A c \in Nat : Covers(g.out, c) \/ (~g.placed /\ g.l <= c /\ c < g.r) <=> new(c)
    BY <1>4, <2>3, <2>4, <2>6, Zenon
  <2> QED  BY <1>1, <1>13, <2>3, <2>5, <2>7, <2>8
<1>14. CASE ~(b[2] < acc.l) /\ ~(acc.r < b[1])
  <2>1. ~acc.placed
    BY <1>7, <1>14
  <2> DEFINE lo == Min({acc.l, b[1]})
             hi == Max({acc.r, b[2]})
  <2>2. lo = (IF acc.l <= b[1] THEN acc.l ELSE b[1]) /\ hi = (IF acc.r >= b[2] THEN acc.r ELSE b[2])
    <3>1. acc.l \in Int /\ acc.r \in Int /\ b[1] \in Int /\ b[2] \in Int  BY <1>1, <1>2
    <3> QED  BY <3>1, MaxMinOfTwo
  <2>3. g = [acc EXCEPT !.l = lo, !.r = hi]
    BY <1>14 DEF Grow
  <2>4. g.l = lo /\ g.r = hi /\ g.placed = acc.placed /\ g.out = acc.out
    <3> HIDE DEF lo, hi
    <3> QED  BY <1>1, <2>3 DEF Acc
  <2> HIDE DEF lo, hi, g
  <2>5. lo < hi /\ lo \in Nat /\ hi \in Nat
    BY <1>1, <1>2, <2>2
  <2>6. \A c \in Nat : lo <= c /\ c < hi <=> (acc.l <= c /\ c < acc.r) \/ (b[1] <= c /\ c < b[2])
    BY <1>1, <1>2, <1>14, <2>2
  <2>7. \A c \in Nat : Covers(g.out, c) \/ (~g.placed /\ g.l <= c /\ c < g.r) <=> new(c)
    BY <1>4, <1>5, <2>1, <2>4, <2>6, Zenon
  <2>8. \A i \in DOMAIN g.out : g.out[i][2] <= b[2] /\ g.out[i][2] < g.l
    BY <1>1, <1>2, <1>6, <1>8, <2>1, <2>2, <2>4
  <2> QED  BY <1>1, <2>1, <2>4, <2>5, <2>7, <2>8
<1> QED  BY <1>12, <1>13, <1>14

-----------------------------------------------------------------------------
(* Claims.                                                                 *)

\* A claim covers its range and what was covered, in sorted disjoint bands.
LEMMA ClaimUnion ==
  ASSUME NEW q \in Bands, Canonical(q), NEW l \in Nat, NEW r \in Nat
  PROVE  /\ Claim(q, l, r).bands \in Bands
         /\ Canonical(Claim(q, l, r).bands)
         /\ \A c \in Nat : Covers(Claim(q, l, r).bands, c) <=> Covers(q, c) \/ (l <= c /\ c < r)
<1>1. CASE r <= l
  <2>1. Claim(q, l, r).bands = q
    BY <1>1 DEF Claim
  <2>2. \A c \in Nat : ~(l <= c /\ c < r)
    BY <1>1
  <2> QED  BY <2>1, <2>2
<1>2. CASE ~(r <= l)
  <2> DEFINE base == [l |-> l, r |-> r, placed |-> FALSE, out |-> <<>>]
             n == Len(q)
  <2>1. base \in Acc /\ base.l = l /\ base.r = r /\ base.placed = FALSE /\ base.out = <<>>
    BY DEF Acc, Bands
  <2>2. n \in Nat /\ DOMAIN q = 1 .. n
    BY BandsFacts
  <2> HIDE DEF base
  <2>3. PICK a : /\ a \in [0 .. n -> Acc]
                 /\ a[0] = base
                 /\ \A k \in 1 .. n : a[k] = Grow(a[k - 1], q[k])
                 /\ FoldLeft(Grow, base, q) = a[n]
    BY <2>1, GrowFold
  <2> HIDE DEF n
  <2> DEFINE P == {k \in 0 .. n : GrowOK(a[k], q, l, r, k)}
  <2>4. 0 \in P
    <3>1. DOMAIN base.out = {} /\ 1 .. 0 = {} /\ 0 \in 0 .. n
      BY <2>1, <2>2
    <3>2. Canonical(base.out)
      BY <3>1 DEF Canonical
    <3>3. \A c : ~Covers(base.out, c)
      BY <3>1 DEF Covers
    <3>4. GrowOK(base, q, l, r, 0)
      BY <1>2, <2>1, <3>1, <3>2, <3>3 DEF GrowOK
    <3> QED  BY <2>3, <3>1, <3>4
  <2>5. \A k \in 1 .. n : k - 1 \in P => k \in P
    <3> SUFFICES ASSUME NEW k \in 1 .. n, k - 1 \in P PROVE k \in P
      OBVIOUS
    <3>1. GrowOK(a[k - 1], q, l, r, k - 1)
      OBVIOUS
    <3>2. GrowOK(a[k], q, l, r, k)
      BY <2>3, <3>1, GrowKeeps DEF n
    <3> QED  BY <2>2, <3>2
  <2>6. \A k \in 0 .. n : k \in P
    <3> HIDE DEF P
    <3> QED  BY <2>2, <2>4, <2>5, StepByStep
  <2>7. GrowOK(a[n], q, l, r, n)
    BY <2>2, <2>6
  <2> HIDE DEF P
  <2> DEFINE acc == a[n]
             u == <<acc.l, acc.r>>
  <2>8. Claim(q, l, r).bands = IF acc.placed THEN acc.out ELSE Append(acc.out, u)
    BY <1>2, <2>3 DEF Claim, base
  <2>9. /\ acc.out \in Bands /\ Canonical(acc.out) /\ acc.placed \in BOOLEAN
        /\ u \in Nat \X Nat /\ u[1] = acc.l /\ u[2] = acc.r /\ acc.l < acc.r
        /\ ~acc.placed => \A i \in DOMAIN acc.out : acc.out[i][2] < acc.l
    BY <2>7 DEF GrowOK, Acc
  <2>10. \A c \in Nat : Covers(acc.out, c) \/ (~acc.placed /\ acc.l <= c /\ c < acc.r)
                        <=> (l <= c /\ c < r) \/ Covers(q, c)
    BY <2>2, <2>7 DEF GrowOK, Covers
  <2> HIDE DEF acc, u
  <2>11. CASE acc.placed
    BY <2>8, <2>9, <2>10, <2>11
  <2>12. CASE ~acc.placed
    <3>1. Append(acc.out, u) \in Bands /\ Canonical(Append(acc.out, u))
      BY <2>9, <2>12, AppendBand, CanonicalAppend
    <3>2. \A c : Covers(Append(acc.out, u), c) <=> Covers(acc.out, c) \/ (acc.l <= c /\ c < acc.r)
      BY <2>9, CoversAppend
    <3>3. \A c \in Nat : Covers(Append(acc.out, u), c) <=> Covers(q, c) \/ (l <= c /\ c < r)
      BY <2>10, <2>12, <3>2, Zenon
    <3> QED  BY <2>8, <2>12, <3>1, <3>3
  <2> QED  BY <2>11, <2>12
<1> QED  BY <1>1, <1>2

\* The sum of the overlaps, band by band.
LEMMA OverlapFold ==
  ASSUME NEW q \in Bands, NEW l \in Nat, NEW r \in Nat
  PROVE  \E a : /\ a \in [0 .. Len(q) -> Int]
                /\ a[0] = 0
                /\ \A k \in 1 .. Len(q) : a[k] = a[k - 1] + Overlap(l, r, q[k])
                /\ FoldLeft(LAMBDA sum, band : sum + Overlap(l, r, band), 0, q) = a[Len(q)]
<1> DEFINE n == Len(q)
           step == [x \in Int \X (1 .. n) |-> x[1] + Overlap(l, r, q[x[2]])]
           Iter(i) == i = [s \in SUBSET DOMAIN q |-> IF s = {} THEN 0 ELSE i[s \ {Max(s)}] + Overlap(l, r, q[Max(s)])]
           it == CHOOSE i : Iter(i)
<1>1. FoldLeft(LAMBDA sum, band : sum + Overlap(l, r, band), 0, q) = it[DOMAIN q]
  BY Zenon DEF FoldLeft, MapThenFoldSet
<1>2. n \in Nat /\ DOMAIN q = 1 .. n /\ \A i \in 1 .. n : q[i] \in Nat \X Nat
  BY BandsFacts
<1>3. \A i \in 1 .. n : Overlap(l, r, q[i]) \in Int
  <2> SUFFICES ASSUME NEW i \in 1 .. n PROVE Overlap(l, r, q[i]) \in Int
    OBVIOUS
  <2>1. l \in Int /\ r \in Int /\ q[i][1] \in Int /\ q[i][2] \in Int
    BY <1>2
  <2>2. Min({r, q[i][2]}) \in Int /\ Max({l, q[i][1]}) \in Int
    <3> DEFINE b == q[i][1]
               d == q[i][2]
    <3>1. b \in Int /\ d \in Int  BY <2>1
    <3>2. Min({r, d}) \in Int /\ Max({l, b}) \in Int
      <4> HIDE DEF b, d
      <4> QED  BY <2>1, <3>1, MaxMinOfTwo
    <3> QED  BY <3>2
  <2> QED  BY <2>2 DEF Overlap, Positive
<1>4. step \in [Int \X (1 .. n) -> Int]
  <2>1. \A x \in Int \X (1 .. n) : x[1] + Overlap(l, r, q[x[2]]) \in Int
    BY <1>3
  <2> QED  BY <2>1
<1>5. \A y \in Int, k \in 1 .. n : step[<<y, k>>] = y + Overlap(l, r, q[k])
  OBVIOUS
<1> HIDE DEF step, n
<1>6. PICK h : PrefixFold(h, n, Int, 0, step)
  <2>1. 0 \in Int  OBVIOUS
  <2> QED  BY <1>2, <1>4, <2>1, PrefixFoldThere
<1>7. \A s \in SUBSET (1 .. n) : s # {} => Max(s) \in 1 .. n /\ h[s \ {Max(s)}] \in Int
  BY <1>2, <1>6, MaxOfPart DEF PrefixFold
<1>8. \A s \in SUBSET (1 .. n) : h[s] = IF s = {} THEN 0 ELSE h[s \ {Max(s)}] + Overlap(l, r, q[Max(s)])
  BY <1>5, <1>6, <1>7 DEF PrefixFold
<1>9. h = [s \in SUBSET DOMAIN q |-> h[s]]
  BY <1>2, <1>6 DEF PrefixFold
<1>10. Iter(h)
  BY <1>2, <1>8, <1>9
<1>11. Iter(it)
  <2> HIDE DEF Iter
  <2> QED  BY <1>10
<1>12. \A s \in SUBSET (1 .. n) : it[s] = IF s = {} THEN 0 ELSE it[s \ {Max(s)}] + Overlap(l, r, q[Max(s)])
  <2> HIDE DEF it
  <2> QED  BY <1>2, <1>11
<1> DEFINE a == [k \in 0 .. n |-> it[1 .. k]]
<1> HIDE DEF it, Iter
<1>13. 0 \in 0 .. n /\ 1 .. 0 = {} /\ {} \in SUBSET (1 .. n)
  BY <1>2
<1>14. a[0] = 0
  <2>1. it[{}] = 0  BY <1>12
  <2> QED  BY <1>13, <2>1
<1>15. ASSUME NEW k \in 1 .. n
       PROVE  a[k] = a[k - 1] + Overlap(l, r, q[k])
  <2>1. /\ Max(1 .. k) = k /\ (1 .. k) \ {k} = 1 .. (k - 1) /\ 1 .. k # {}
        /\ 1 .. k \in SUBSET (1 .. n)
    BY <1>2, LastOfPrefix
  <2>2. it[1 .. k] = it[1 .. (k - 1)] + Overlap(l, r, q[k])
    BY <1>12, <2>1
  <2>3. k \in 0 .. n /\ k - 1 \in 0 .. n
    BY <1>2
  <2> QED  BY <2>2, <2>3
<1>16. a[n] = it[DOMAIN q]
  BY <1>2
<1> HIDE DEF a
<1>17. \A k \in 0 .. n : a[k] \in Int
  <2> DEFINE P == {k \in 0 .. n : a[k] \in Int}
  <2>1. 0 \in P  BY <1>13, <1>14
  <2>2. \A k \in 1 .. n : k - 1 \in P => k \in P
    BY <1>2, <1>3, <1>15
  <2>3. \A k \in 0 .. n : k \in P
    <3> HIDE DEF P
    <3> QED  BY <1>2, <2>1, <2>2, StepByStep
  <2> QED  BY <2>3
<1>18. a = [k \in 0 .. n |-> a[k]]
  BY DEF a
<1>19. a \in [0 .. n -> Int]
  BY <1>17, <1>18
<1> QED  BY <1>1, <1>14, <1>15, <1>16, <1>19 DEF n

\* Every earlier band ends before band k.
LEMMA BandsRise ==
  ASSUME NEW q \in Bands, Canonical(q), NEW k \in DOMAIN q
  PROVE  \A i \in 1 .. (k - 1) : q[i][2] < q[k][1]
<1> DEFINE n == Len(q)
           P == {m \in 0 .. n : m = 0 \/ \A i \in 1 .. (m - 1) : q[i][2] < q[m][1]}
<1>1. n \in Nat /\ DOMAIN q = 1 .. n /\ \A i \in 1 .. n : q[i][1] \in Nat /\ q[i][2] \in Nat /\ q[i][1] < q[i][2]
  BY BandsFacts DEF Canonical
<1>2. 0 \in P
  BY <1>1
<1>3. \A m \in 1 .. n : m - 1 \in P => m \in P
  <2> SUFFICES ASSUME NEW m \in 1 .. n, m - 1 \in P PROVE m \in P
    OBVIOUS
  <2>0. m \in 0 .. n /\ n \in Nat
    BY <1>1
  <2> SUFFICES ASSUME NEW i \in 1 .. (m - 1) PROVE q[i][2] < q[m][1]
    BY <2>0
  <2>1. m > 1 /\ m - 1 \in 1 .. n /\ i \in 1 .. n
    BY <1>1
  <2>2. q[m - 1][2] < q[m][1]
    BY <1>1, <2>1 DEF Canonical
  <2>3. CASE i = m - 1
    BY <2>2, <2>3
  <2>4. CASE i # m - 1
    <3>1. i \in 1 .. (m - 1 - 1) /\ m - 1 # 0
      BY <1>1, <2>1, <2>4
    <3>2. q[i][2] < q[m - 1][1]
      BY <3>1
    <3> HIDE DEF P
    <3> QED  BY <1>1, <2>1, <2>2, <3>2
  <2> QED  BY <2>3, <2>4
<1>4. \A m \in 0 .. n : m \in P
  <2> HIDE DEF P
  <2> QED  BY <1>1, <1>2, <1>3, StepByStep
<1> QED  BY <1>1, <1>4

\* An overlap is the number of the range's cents in one band.
LEMMA OverlapCounts ==
  ASSUME NEW l \in Nat, NEW r \in Nat, NEW b \in Nat \X Nat
  PROVE  /\ IsFiniteSet({c \in l .. (r - 1) : b[1] <= c /\ c < b[2]})
         /\ Overlap(l, r, b) = Cardinality({c \in l .. (r - 1) : b[1] <= c /\ c < b[2]})
<1> DEFINE x == b[1]
           y == b[2]
           lo == IF l >= x THEN l ELSE x
           hi == IF r <= y THEN r ELSE y
<1>1. x \in Nat /\ y \in Nat /\ l \in Int /\ r \in Int /\ x \in Int /\ y \in Int
  OBVIOUS
<1>2. Max({l, x}) = lo /\ Min({r, y}) = hi
  <2> HIDE DEF x, y
  <2> QED  BY <1>1, MaxMinOfTwo
<1>3. Overlap(l, r, b) = Positive(hi - lo)
  <2>1. Overlap(l, r, b) = Positive(Min({r, y}) - Max({l, x}))
    BY DEF Overlap
  <2> HIDE DEF x, y, lo, hi
  <2> QED  BY <1>2, <2>1
<1>4. {c \in l .. (r - 1) : b[1] <= c /\ c < b[2]} = lo .. (hi - 1)
  <2> HIDE DEF x, y
  <2>1. {c \in l .. (r - 1) : x <= c /\ c < y} = lo .. (hi - 1)
    BY <1>1
  <2> QED  BY <2>1 DEF x, y
<1>5. lo \in Int /\ hi \in Int /\ hi - 1 \in Int
  <2> HIDE DEF x, y
  <2> QED BY <1>1
<1>6. IsFiniteSet(lo .. (hi - 1)) /\ Cardinality(lo .. (hi - 1)) = IF lo > hi - 1 THEN 0 ELSE (hi - 1) - lo + 1
  <2> HIDE DEF lo, hi
  <2> QED  BY <1>5, FS_Interval
<1>7. Cardinality(lo .. (hi - 1)) = Positive(hi - lo)
  <2> HIDE DEF lo, hi
  <2> QED  BY <1>5, <1>6 DEF Positive
<1> QED  BY <1>3, <1>4, <1>6, <1>7

\* A claim counts the cents of its range that were not covered.
LEMMA FreshCounts ==
  ASSUME NEW q \in Bands, Canonical(q), NEW l \in Nat, NEW r \in Nat
  PROVE  Claim(q, l, r).fresh = Cardinality({c \in l .. (r - 1) : ~Covers(q, c)})
<1> DEFINE D == l .. (r - 1)
<1>1. IsFiniteSet(D) /\ Cardinality(D) = IF l > r - 1 THEN 0 ELSE (r - 1) - l + 1
  <2>1. l \in Int /\ r - 1 \in Int  OBVIOUS
  <2> QED  BY <2>1, FS_Interval
<1>2. CASE r <= l
  <2>1. Claim(q, l, r).fresh = 0
    BY <1>2 DEF Claim
  <2>2. {c \in l .. (r - 1) : ~Covers(q, c)} = {}
    BY <1>2
  <2>3. Cardinality({}) = 0  BY FS_EmptySet
  <2> QED  BY <2>1, <2>2, <2>3
<1>3. CASE ~(r <= l)
  <2> DEFINE n == Len(q)
             took(k) == {c \in D : \E i \in 1 .. k : q[i][1] <= c /\ c < q[i][2]}
             one(k) == {c \in D : q[k][1] <= c /\ c < q[k][2]}
  <2>1. n \in Nat /\ DOMAIN q = 1 .. n /\ \A i \in 1 .. n : q[i] \in Nat \X Nat /\ q[i][1] \in Nat /\ q[i][2] \in Nat
    BY BandsFacts
  <2>2. PICK a : /\ a \in [0 .. n -> Int]
                 /\ a[0] = 0
                 /\ \A k \in 1 .. n : a[k] = a[k - 1] + Overlap(l, r, q[k])
                 /\ FoldLeft(LAMBDA sum, band : sum + Overlap(l, r, band), 0, q) = a[n]
    BY OverlapFold
  <2> HIDE DEF n
  <2>3. \A k \in 1 .. n : /\ IsFiniteSet(one(k)) /\ Overlap(l, r, q[k]) = Cardinality(one(k))
                          /\ took(k) = took(k - 1) \cup one(k)
                          /\ took(k - 1) \cap one(k) = {}
    <3> SUFFICES ASSUME NEW k \in 1 .. n
                 PROVE  /\ IsFiniteSet(one(k)) /\ Overlap(l, r, q[k]) = Cardinality(one(k))
                        /\ took(k) = took(k - 1) \cup one(k)
                        /\ took(k - 1) \cap one(k) = {}
      OBVIOUS
    <3>1. IsFiniteSet(one(k)) /\ Overlap(l, r, q[k]) = Cardinality(one(k))
      BY <2>1, OverlapCounts
    <3>2. 1 .. k = (1 .. (k - 1)) \cup {k}
      BY <2>1
    <3>3. took(k) = took(k - 1) \cup one(k)
      BY <3>2
    <3>4. \A i \in 1 .. (k - 1) : q[i][2] < q[k][1] /\ q[i][2] \in Nat /\ q[k][1] \in Nat
      <4>1. k \in DOMAIN q /\ \A i \in 1 .. (k - 1) : i \in 1 .. n
        BY <2>1
      <4>2. \A i \in 1 .. (k - 1) : q[i][2] < q[k][1]
        BY <4>1, BandsRise
      <4> HIDE DEF D, took, one
      <4> QED  BY <2>1, <4>1, <4>2
    <3>5. D \subseteq Int
      OBVIOUS
    <3>6. took(k - 1) \cap one(k) = {}
      <4> SUFFICES ASSUME NEW c \in took(k - 1), c \in one(k) PROVE FALSE
        OBVIOUS
      <4>1. c \in Int /\ q[k][1] <= c
        BY <3>5
      <4>2. PICK i \in 1 .. (k - 1) : c < q[i][2]
        OBVIOUS
      <4> HIDE DEF D, took, one
      <4> QED  BY <3>4, <4>1, <4>2
    <3> QED  BY <3>1, <3>3, <3>6
  <2> DEFINE P == {k \in 0 .. n : a[k] = Cardinality(took(k))}
  <2>4. \A k : IsFiniteSet(took(k))
    <3> HIDE DEF D
    <3> QED  BY <1>1, FS_Subset
  <2>5. 0 \in P
    <3>1. took(0) = {}
      OBVIOUS
    <3>2. 0 \in 0 .. n
      BY <2>1
    <3> HIDE DEF took
    <3> QED  BY <2>2, <3>1, <3>2, FS_EmptySet
  <2>6. \A k \in 1 .. n : k - 1 \in P => k \in P
    <3> SUFFICES ASSUME NEW k \in 1 .. n, k - 1 \in P PROVE k \in P
      OBVIOUS
    <3>1. a[k - 1] = Cardinality(took(k - 1)) /\ a[k] = a[k - 1] + Cardinality(one(k))
      BY <2>2, <2>3
    <3> HIDE DEF took, one
    <3>2. Cardinality(took(k - 1) \cap one(k)) = 0
      BY <2>3, FS_EmptySet
    <3>3. /\ Cardinality(took(k)) = Cardinality(took(k - 1)) + Cardinality(one(k)) - Cardinality(took(k - 1) \cap one(k))
      BY <2>3, <2>4, FS_Union
    <3>4. Cardinality(took(k - 1)) \in Nat /\ Cardinality(one(k)) \in Nat
      BY <2>3, <2>4, FS_CardinalityType
    <3> QED  BY <2>1, <3>1, <3>2, <3>3, <3>4
  <2>7. \A k \in 0 .. n : k \in P
    <3> HIDE DEF P
    <3> QED  BY <2>1, <2>5, <2>6, StepByStep
  <2>8. a[n] = Cardinality(took(n))
    <3>1. n \in 0 .. n
      BY <2>1
    <3> HIDE DEF took, n
    <3>2. n \in P
      BY <2>7, <3>1
    <3> QED  BY <3>2
  <2>9. Claim(q, l, r).fresh = (r - l) - a[n]
    BY <1>3, <2>2, Zenon DEF Claim
  <2>10. {c \in l .. (r - 1) : ~Covers(q, c)} = D \ took(n) /\ D \cap took(n) = took(n)
    BY <2>1 DEF Covers
  <2>11. Cardinality(D \ took(n)) = Cardinality(D) - Cardinality(D \cap took(n))
    <3> HIDE DEF D, took
    <3> QED  BY <1>1, FS_Difference
  <2>12. Cardinality(D) = r - l
    <3> HIDE DEF D
    <3> QED  BY <1>1, <1>3
  <2> HIDE DEF D, took
  <2> QED  BY <2>8, <2>9, <2>10, <2>11, <2>12
<1> QED  BY <1>2, <1>3

\* The cents of a list of bands.
LEMMA CentsCovered ==
  ASSUME NEW q
  PROVE  CentsOf(q) = {c \in Cents : Covers(q, c)}
BY DEF CentsOf, Covers, Span

\* Cents are counted from 0.
LEMMA CentsAreNat == \A c \in Cents : c \in Nat
BY SavingsConstants DEF Cents

\* A claim adds its range to the coverage and keeps it canonical.
LEMMA ClaimAdds ==
  ASSUME NEW q \in Bands, Canonical(q), NEW l \in Nat, NEW r \in Nat
  PROVE  /\ Claim(q, l, r).bands \in Bands
         /\ Canonical(Claim(q, l, r).bands)
         /\ CentsOf(Claim(q, l, r).bands) = CentsOf(q) \cup Span(l, r)
<1> DEFINE p == Claim(q, l, r).bands
<1>1. p \in Bands /\ Canonical(p) /\ \A c \in Nat : Covers(p, c) <=> Covers(q, c) \/ (l <= c /\ c < r)
  BY ClaimUnion
<1>2. CentsOf(p) = {c \in Cents : Covers(p, c)} /\ CentsOf(q) = {c \in Cents : Covers(q, c)}
  BY CentsCovered
<1>3. Span(l, r) = {c \in Cents : l <= c /\ c < r}
  BY DEF Span
<1> HIDE DEF p
<1>4. CentsOf(p) = CentsOf(q) \cup Span(l, r)
  BY <1>1, <1>2, <1>3, CentsAreNat
<1> QED  BY <1>1, <1>4 DEF p

\* ClaimIsUnion holds of every progress row that is in canonical form.
LEMMA ClaimsAreUnions ==
  ASSUME progress # None => progress.ranges \in Bands /\ Canonical(progress.ranges)
  PROVE  ClaimIsUnion
<1>1. SUFFICES ASSUME progress.ranges \in Bands, Canonical(progress.ranges),
                      NEW l \in 0 .. MaxBalance + 1, NEW r \in 0 .. MaxBalance + 1
      PROVE  /\ CentsOf(Claim(progress.ranges, l, r).bands) = CentsOf(progress.ranges) \cup Span(l, r)
             /\ Claim(progress.ranges, l, r).fresh = Cardinality(Span(l, r) \ CentsOf(progress.ranges))
             /\ Canonical(Claim(progress.ranges, l, r).bands)
  BY Zenon DEF ClaimIsUnion
<1> DEFINE q == progress.ranges
<1>2. l \in Nat /\ r \in Nat /\ MaxBalance \in Nat /\ r <= MaxBalance + 1
  BY SavingsConstants
<1>3. CentsOf(Claim(q, l, r).bands) = CentsOf(q) \cup Span(l, r) /\ Canonical(Claim(q, l, r).bands)
  BY <1>1, <1>2, ClaimAdds
<1>4. Claim(q, l, r).fresh = Cardinality({c \in l .. (r - 1) : ~Covers(q, c)})
  BY <1>1, <1>2, FreshCounts
<1>5. CentsOf(q) = {c \in Cents : Covers(q, c)}
  BY CentsCovered
<1>6. Span(l, r) = l .. (r - 1) /\ \A c \in l .. (r - 1) : c \in Cents
  BY <1>2 DEF Span, Cents
<1> HIDE DEF q
<1>7. {c \in l .. (r - 1) : ~Covers(q, c)} = Span(l, r) \ CentsOf(q)
  BY <1>5, <1>6
<1> QED  BY <1>3, <1>4, <1>7 DEF q

-----------------------------------------------------------------------------
(* The goals that are due.                                                 *)

\* Goals that are due can be put in their order.
LEMMA DueThere ==
  ASSUME NEW gs \in [Goals -> GoalRow], NEW b
  PROVE  /\ Due(gs, b) \in [1 .. Cardinality(Reached(gs, b)) -> Reached(gs, b)]
         /\ Cardinality(Reached(gs, b)) \in Nat
         /\ ToSet(Due(gs, b)) = Reached(gs, b)
<1> DEFINE S == Reached(gs, b)
           n == Cardinality(S)
           up(g) == {h \in S : h # g /\ Before(gs, h, g)}
           rank == [g \in S |-> Cardinality(up(g))]
<1>1. IsFiniteSet(S) /\ S \subseteq Goals /\ n \in Nat
  <2>1. S \subseteq Goals  BY DEF Reached
  <2>2. IsFiniteSet(S)  BY <2>1, SavingsConstants, FS_Subset
  <2> QED  BY <2>1, <2>2, FS_CardinalityType
<1>2. \A g \in S : g \in Nat /\ gs[g].target \in Nat
  BY <1>1, SavingsConstants DEF GoalRow
<1> HIDE DEF S
<1>3. \A g, h \in S : Before(gs, g, h) \/ Before(gs, h, g)
  BY <1>2 DEF Before
<1>4. \A g, h \in S : g # h /\ Before(gs, g, h) => ~Before(gs, h, g)
  BY <1>2 DEF Before
<1>5. \A g, h, k \in S : Before(gs, g, h) /\ Before(gs, h, k) => Before(gs, g, k)
  BY <1>2 DEF Before
<1>6. \A g \in S : IsFiniteSet(up(g)) /\ rank[g] = Cardinality(up(g)) /\ rank[g] \in Nat /\ rank[g] \in Int
  <2> SUFFICES ASSUME NEW g \in S PROVE IsFiniteSet(up(g)) /\ Cardinality(up(g)) \in Nat
    OBVIOUS
  <2>1. IsFiniteSet(up(g))  BY <1>1, FS_Subset
  <2> QED  BY <2>1, FS_CardinalityType
<1>7. \A g, h \in S : rank[g] <= rank[h] => Before(gs, g, h)
  <2> SUFFICES ASSUME NEW g \in S, NEW h \in S, rank[g] <= rank[h], ~Before(gs, g, h) PROVE FALSE
    OBVIOUS
  <2>1. Before(gs, h, g) /\ h # g
    BY <1>3
  <2>2. up(h) \subseteq up(g) /\ h \in up(g) /\ h \notin up(h)
    BY <1>4, <1>5, <2>1
  <2>3. IsFiniteSet(up(g)) /\ IsFiniteSet(up(h))
    BY <1>6
  <2>4. Cardinality(up(h)) < Cardinality(up(g))
    <3> HIDE DEF up, rank
    <3>1. up(h) # up(g)  BY <2>2
    <3>2. Cardinality(up(h)) <= Cardinality(up(g)) /\ Cardinality(up(h)) # Cardinality(up(g))
      BY <2>2, <2>3, <3>1, FS_Subset
    <3>3. Cardinality(up(h)) \in Nat /\ Cardinality(up(g)) \in Nat
      BY <2>3, FS_CardinalityType
    <3> QED  BY <3>2, <3>3
  <2> HIDE DEF rank, up
  <2> QED  BY <1>6, <2>4
<1>8. PICK line : Lists(line, S, rank)
  <2> HIDE DEF rank, up
  <2> QED  BY <1>1, <1>6, ListingThere
<1>9. line \in SetToSeqs(S) /\ IsSorted(line, LAMBDA g, h : Before(gs, g, h))
  <2>1. line \in [1 .. n -> S] /\ \A i, j \in 1 .. n : i # j => line[i] # line[j]
    BY <1>8 DEF Lists
  <2>2. line \in SetToSeqs(S)
    BY <2>1 DEF SetToSeqs
  <2>3. Len(line) = n
    BY <1>1, <2>1
  <2>4. \A i, j \in 1 .. n : i < j => Before(gs, line[i], line[j])
    <3> HIDE DEF rank, up
    <3> QED  BY <1>7, <1>8, <2>1 DEF Lists
  <2> QED  BY <2>2, <2>3, <2>4 DEF IsSorted
<1>10. Due(gs, b) \in SetToSeqs(S)
  BY <1>9, Zenon DEF Due, S
<1> DEFINE due == Due(gs, b)
<1>11. due \in [1 .. n -> S] /\ \A i, j \in 1 .. n : i # j => due[i] # due[j]
  BY <1>10 DEF SetToSeqs
<1> HIDE DEF due
<1>12. {due[i] : i \in 1 .. n} = S
  <2> DEFINE zero == [g \in S |-> 0]
  <2>1. Lists(due, S, zero)
    BY <1>11 DEF Lists
  <2> HIDE DEF zero, n
  <2>2. {due[i] : i \in 1 .. Cardinality(S)} = S
    BY <1>1, <2>1, ListingCovers
  <2> QED  BY <2>2 DEF n
<1>13. ToSet(due) = S
  BY <1>11, <1>12 DEF ToSet
<1> QED  BY <1>1, <1>11, <1>13 DEF due, S

-----------------------------------------------------------------------------
(* The check: what is reserved, and what the loop pays.                    *)

\* Lists of bands in canonical form.
Coverage == {q \in Bands : Canonical(q)}

\* The cents of the promises that are open.
Promised(gs) == UNION {Span(0, LegacyTarget[g]) : g \in OpenLegacy(gs)}

\* The reserve, one promise after the other.
LEMMA ReserveFold ==
  ASSUME NEW gs, NEW ranges \in Coverage
  PROVE  \E it : /\ Reserve(gs, ranges) = it[OpenLegacy(gs)]
                 /\ \A s \in SUBSET OpenLegacy(gs) :
                      it[s] = IF s = {} THEN ranges
                              ELSE Claim(it[s \ {OneOf(s)}], 0, LegacyTarget[OneOf(s)]).bands
<1> DEFINE S == OpenLegacy(gs)
           step == [x \in Coverage \X S |-> Claim(x[1], 0, LegacyTarget[x[2]]).bands]
           pick == [s \in SUBSET S |-> OneOf(s)]
           Iter(i) == i = [s \in SUBSET S |-> IF s = {} THEN ranges
                             ELSE Claim(i[s \ {OneOf(s)}], 0, LegacyTarget[OneOf(s)]).bands]
           it == CHOOSE i : Iter(i)
<1>1. Reserve(gs, ranges) = it[S]
  BY Zenon DEF Reserve, FoldSet, MapThenFoldSet, OneOf
<1>2. IsFiniteSet(S) /\ \A g \in S : LegacyTarget[g] \in Nat
  <2>1. S \subseteq Goals /\ S \subseteq Legacy  BY SavingsConstants DEF OpenLegacy
  <2> QED  BY <2>1, SavingsConstants, FS_Subset
<1> HIDE DEF S
<1>3. step \in [Coverage \X S -> Coverage]
  <2>1. \A q \in Coverage, g \in S : Claim(q, 0, LegacyTarget[g]).bands \in Coverage
    BY <1>2, ClaimAdds DEF Coverage
  <2>2. \A x \in Coverage \X S : Claim(x[1], 0, LegacyTarget[x[2]]).bands \in Coverage
    BY <2>1
  <2> QED  BY <2>2
<1>4. \A q \in Coverage, g \in S : step[<<q, g>>] = Claim(q, 0, LegacyTarget[g]).bands
  OBVIOUS
<1>5. \A s \in SUBSET S : pick[s] = OneOf(s) /\ (s # {} => OneOf(s) \in s /\ OneOf(s) \in S)
  BY OneOfIsIn
<1> HIDE DEF step, pick
<1>6. \A s \in SUBSET S : s # {} => pick[s] \in s
  BY <1>5
<1>7. PICK h : FoldsWith(h, S, Coverage, ranges, step, pick)
  BY <1>2, <1>3, <1>6, FoldThere
<1>8. \A s \in SUBSET S : h[s \ {OneOf(s)}] \in Coverage
  BY <1>7 DEF FoldsWith
<1>9. \A s \in SUBSET S : h[s] = IF s = {} THEN ranges
                                 ELSE Claim(h[s \ {OneOf(s)}], 0, LegacyTarget[OneOf(s)]).bands
  <2> SUFFICES ASSUME NEW s \in SUBSET S
               PROVE  h[s] = IF s = {} THEN ranges
                             ELSE Claim(h[s \ {OneOf(s)}], 0, LegacyTarget[OneOf(s)]).bands
    OBVIOUS
  <2>1. h[s] = IF s = {} THEN ranges ELSE step[<<h[s \ {pick[s]}], pick[s]>>]
    BY <1>7 DEF FoldsWith
  <2>2. s # {} => step[<<h[s \ {OneOf(s)}], OneOf(s)>>] = Claim(h[s \ {OneOf(s)}], 0, LegacyTarget[OneOf(s)]).bands
    BY <1>4, <1>5, <1>8
  <2>3. pick[s] = OneOf(s)
    BY <1>5
  <2> QED  BY <2>1, <2>2, <2>3
<1>10. h = [s \in SUBSET S |-> h[s]]
  BY <1>7 DEF FoldsWith
<1>11. Iter(h)
  BY <1>9, <1>10
<1>12. Iter(it)
  <2> HIDE DEF Iter
  <2> QED  BY <1>11
<1>13. \A s \in SUBSET S : it[s] = IF s = {} THEN ranges
                                  ELSE Claim(it[s \ {OneOf(s)}], 0, LegacyTarget[OneOf(s)]).bands
  <2> HIDE DEF it
  <2> QED  BY <1>12
<1> HIDE DEF it
<1> QED  BY <1>1, <1>13 DEF S

\* What is reserved is what was covered and every open promise.
LEMMA ReserveAdds ==
  ASSUME NEW gs, NEW ranges \in Coverage
  PROVE  /\ Reserve(gs, ranges) \in Coverage
         /\ CentsOf(Reserve(gs, ranges)) = CentsOf(ranges) \cup Promised(gs)
<1> DEFINE S == OpenLegacy(gs)
           of(s) == UNION {Span(0, LegacyTarget[g]) : g \in s}
<1>1. PICK it : /\ Reserve(gs, ranges) = it[S]
                /\ \A s \in SUBSET S :
                      it[s] = IF s = {} THEN ranges
                              ELSE Claim(it[s \ {OneOf(s)}], 0, LegacyTarget[OneOf(s)]).bands
  BY ReserveFold
<1>2. IsFiniteSet(S) /\ \A g \in S : LegacyTarget[g] \in Nat
  <2>1. S \subseteq Goals /\ S \subseteq Legacy  BY SavingsConstants DEF OpenLegacy
  <2> QED  BY <2>1, SavingsConstants, FS_Subset
<1> HIDE DEF S
<1> DEFINE Bad == {s \in SUBSET S : ~(it[s] \in Coverage /\ CentsOf(it[s]) = CentsOf(ranges) \cup of(s))}
<1>3. Bad = {}
  <2>1. SUFFICES ASSUME Bad # {} PROVE FALSE
    OBVIOUS
  <2>2. PICK s \in Bad : \A t \in Bad : t \subseteq s => t = s
    <3>1. Bad \subseteq SUBSET S  OBVIOUS
    <3> HIDE DEF Bad
    <3> QED  BY <1>2, <2>1, <3>1, SmallestSubset
  <2>3. s # {}
    <3>1. it[{}] = ranges /\ of({}) = {}
      BY <1>1
    <3> HIDE DEF of
    <3> QED  BY <3>1
  <2> DEFINE p == OneOf(s)
             r == s \ {p}
  <2>4. p \in s /\ p \in S /\ r \in SUBSET S /\ r # s
    BY <2>3, OneOfIsIn
  <2>5. it[r] \in Coverage /\ CentsOf(it[r]) = CentsOf(ranges) \cup of(r)
    BY <2>2, <2>4
  <2>6. it[s] = Claim(it[r], 0, LegacyTarget[p]).bands
    BY <1>1, <2>3
  <2>7. it[s] \in Coverage /\ CentsOf(it[s]) = CentsOf(it[r]) \cup Span(0, LegacyTarget[p])
    <3>1. it[r] \in Bands /\ Canonical(it[r]) /\ LegacyTarget[p] \in Nat /\ 0 \in Nat
      BY <1>2, <2>4, <2>5 DEF Coverage
    <3> HIDE DEF p, r
    <3> QED  BY <2>6, <3>1, ClaimAdds DEF Coverage
  <2>8. of(s) = of(r) \cup Span(0, LegacyTarget[p])
    BY <2>4
  <2>9. ~(it[s] \in Coverage /\ CentsOf(it[s]) = CentsOf(ranges) \cup of(s))
    OBVIOUS
  <2> HIDE DEF p, r, of
  <2> QED  BY <2>5, <2>7, <2>8, <2>9
<1>4. it[S] \in Coverage /\ CentsOf(it[S]) = CentsOf(ranges) \cup of(S)
  BY <1>3
<1> QED  BY <1>1, <1>4 DEF Promised, S

-----------------------------------------------------------------------------
\* What the loop over the due goals carries.
Ledgers == [reserved : Coverage, ranges : Coverage, floor : Nat, best : SUBSET Goals, paid : SUBSET Cents]

\* The cents that goal g claims.
SpanOf(gs, g) == Span(RangeOf(gs, g)[1], RangeOf(gs, g)[2])

\* Ranges start and end at natural numbers.
LEMMA RangesAreNat ==
  ASSUME NEW gs \in [Goals -> GoalRow], NEW g \in Goals
  PROVE  /\ RangeOf(gs, g)[1] \in Nat /\ RangeOf(gs, g)[2] \in Nat
         /\ gs[g].target \in Nat /\ gs[g].start \in Nat
         /\ SpanOf(gs, g) = IF g \in Legacy THEN Span(0, LegacyTarget[g]) ELSE Span(gs[g].start, gs[g].target)
<1>1. gs[g].target \in Nat /\ gs[g].start \in Nat
  BY DEF GoalRow
<1>2. g \in Legacy => LegacyTarget[g] \in Nat
  BY SavingsConstants
<1>3. CASE g \in Legacy
  <2>1. RangeOf(gs, g) = <<0, LegacyTarget[g]>>  BY <1>3 DEF RangeOf
  <2> QED  BY <1>1, <1>2, <1>3, <2>1 DEF SpanOf
<1>4. CASE g \notin Legacy
  <2>1. RangeOf(gs, g) = <<gs[g].start, gs[g].target>>  BY <1>4 DEF RangeOf
  <2> QED  BY <1>1, <1>4, <2>1 DEF SpanOf
<1> QED  BY <1>3, <1>4

\* One goal of the loop.
LEMMA SettleAdds ==
  ASSUME NEW gs \in [Goals -> GoalRow], NEW g \in Goals, NEW a \in Ledgers
  PROVE  /\ Settle(gs, a, g) \in Ledgers
         /\ CentsOf(Settle(gs, a, g).reserved) = CentsOf(a.reserved) \cup SpanOf(gs, g)
         /\ CentsOf(Settle(gs, a, g).ranges) = CentsOf(a.ranges) \cup SpanOf(gs, g)
         /\ g \in Legacy => Settle(gs, a, g).paid = a.paid
         /\ g \notin Legacy => Settle(gs, a, g).paid = a.paid \cup (SpanOf(gs, g) \ CentsOf(a.reserved))
<1> DEFINE l == RangeOf(gs, g)[1]
           r == RangeOf(gs, g)[2]
           c1 == Claim(a.reserved, l, r)
           c2 == Claim(a.ranges, l, r)
           f == Max({a.floor, gs[g].target})
           best == IF g \notin Legacy /\ c1.fresh > 0 THEN {g} ELSE a.best
           paid == IF g \in Legacy THEN a.paid ELSE a.paid \cup (Span(l, r) \ CentsOf(a.reserved))
<1>1. l \in Nat /\ r \in Nat /\ gs[g].target \in Nat /\ SpanOf(gs, g) = Span(l, r)
  BY RangesAreNat DEF SpanOf
<1>2. a.reserved \in Coverage /\ a.ranges \in Coverage /\ a.floor \in Nat /\ a.best \in SUBSET Goals /\ a.paid \in SUBSET Cents
  BY DEF Ledgers
<1>3. f \in Nat
  <2> DEFINE x == a.floor
             y == gs[g].target
  <2>1. x \in Int /\ y \in Int /\ x \in Nat /\ y \in Nat  BY <1>1, <1>2
  <2>2. Max({x, y}) \in Nat
    <3> HIDE DEF x, y
    <3> QED  BY <2>1, MaxMinOfTwo
  <2> QED  BY <2>2
<1>4. Settle(gs, a, g) = [a EXCEPT !.reserved = c1.bands, !.ranges = c2.bands, !.floor = f, !.best = best, !.paid = paid]
  BY Zenon DEF Settle
<1> HIDE DEF l, r
<1>5. /\ c1.bands \in Coverage /\ c2.bands \in Coverage
      /\ CentsOf(c1.bands) = CentsOf(a.reserved) \cup Span(l, r)
      /\ CentsOf(c2.bands) = CentsOf(a.ranges) \cup Span(l, r)
  BY <1>1, <1>2, ClaimAdds DEF Coverage
<1>6. best \in SUBSET Goals /\ paid \in SUBSET Cents
  BY <1>2 DEF Span
<1> HIDE DEF c1, c2, f, best, paid
<1>7. /\ Settle(gs, a, g) \in Ledgers
      /\ Settle(gs, a, g).reserved = c1.bands /\ Settle(gs, a, g).ranges = c2.bands /\ Settle(gs, a, g).paid = paid
  BY <1>2, <1>3, <1>4, <1>5, <1>6 DEF Ledgers
<1> QED  BY <1>1, <1>5, <1>7 DEF paid

\* The loop over due.
Settled(gs, base, due) == FoldLeft(LAMBDA x, g : Settle(gs, x, g), base, due)

\* The loop, goal by goal.
LEMMA SettleFold ==
  ASSUME NEW gs \in [Goals -> GoalRow], NEW n \in Nat, NEW due \in [1 .. n -> Goals], NEW base \in Ledgers
  PROVE  \E a : /\ a[0] = base
                /\ \A k \in 1 .. n : a[k] = Settle(gs, a[k - 1], due[k])
                /\ Settled(gs, base, due) = a[n]
<1> DEFINE step == [x \in Ledgers \X (1 .. n) |-> Settle(gs, x[1], due[x[2]])]
           Iter(i) == i = [s \in SUBSET DOMAIN due |-> IF s = {} THEN base ELSE Settle(gs, i[s \ {Max(s)}], due[Max(s)])]
           it == CHOOSE i : Iter(i)
<1>1. Settled(gs, base, due) = it[DOMAIN due]
  BY Zenon DEF Settled, FoldLeft, MapThenFoldSet
<1>2. DOMAIN due = 1 .. n /\ \A i \in 1 .. n : due[i] \in Goals
  OBVIOUS
<1>3. step \in [Ledgers \X (1 .. n) -> Ledgers]
  <2>1. \A x \in Ledgers, k \in 1 .. n : Settle(gs, x, due[k]) \in Ledgers
    BY <1>2, SettleAdds
  <2>2. \A x \in Ledgers \X (1 .. n) : Settle(gs, x[1], due[x[2]]) \in Ledgers
    BY <2>1
  <2> QED  BY <2>2
<1>4. \A y \in Ledgers, k \in 1 .. n : step[<<y, k>>] = Settle(gs, y, due[k])
  OBVIOUS
<1> HIDE DEF step
<1>5. PICK h : PrefixFold(h, n, Ledgers, base, step)
  BY <1>3, PrefixFoldThere
<1>6. \A s \in SUBSET (1 .. n) : s # {} => Max(s) \in 1 .. n /\ h[s \ {Max(s)}] \in Ledgers
  BY <1>5, MaxOfPart DEF PrefixFold
<1>7. \A s \in SUBSET (1 .. n) : h[s] = IF s = {} THEN base ELSE Settle(gs, h[s \ {Max(s)}], due[Max(s)])
  BY <1>4, <1>5, <1>6 DEF PrefixFold
<1>8. h = [s \in SUBSET DOMAIN due |-> h[s]]
  BY <1>2, <1>5 DEF PrefixFold
<1>9. Iter(h)
  BY <1>2, <1>7, <1>8
<1>10. Iter(it)
  <2> HIDE DEF Iter
  <2> QED  BY <1>9
<1>11. \A s \in SUBSET (1 .. n) : it[s] = IF s = {} THEN base ELSE Settle(gs, it[s \ {Max(s)}], due[Max(s)])
  <2> HIDE DEF it
  <2> QED  BY <1>2, <1>10
<1> DEFINE a == [k \in 0 .. n |-> it[1 .. k]]
<1> HIDE DEF it, Iter
<1>12. 0 \in 0 .. n /\ 1 .. 0 = {} /\ {} \in SUBSET (1 .. n)
  OBVIOUS
<1>13. a[0] = base
  <2>1. it[{}] = base  BY <1>11
  <2> QED  BY <1>12, <2>1
<1>14. ASSUME NEW k \in 1 .. n
       PROVE  a[k] = Settle(gs, a[k - 1], due[k])
  <2>1. /\ Max(1 .. k) = k /\ (1 .. k) \ {k} = 1 .. (k - 1) /\ 1 .. k # {}
        /\ 1 .. k \in SUBSET (1 .. n)
    BY LastOfPrefix
  <2>2. it[1 .. k] = Settle(gs, it[1 .. (k - 1)], due[k])
    BY <1>11, <2>1
  <2>3. k \in 0 .. n /\ k - 1 \in 0 .. n
    OBVIOUS
  <2> QED  BY <2>2, <2>3
<1>15. a[n] = it[DOMAIN due]
  BY <1>2
<1> HIDE DEF a
<1> QED  BY <1>1, <1>13, <1>14, <1>15

\* The cents of the first k goals that are due.
SpansOf(gs, due, k) == UNION {SpanOf(gs, due[i]) : i \in 1 .. k}

\* What the loop leaves: what it paid is new, and every goal is covered.
Looped(base, acc, spans) ==
  /\ acc \in Ledgers
  /\ CentsOf(acc.reserved) = CentsOf(base.reserved) \cup acc.paid
  /\ acc.paid \cap CentsOf(base.reserved) = {}
  /\ CentsOf(acc.ranges) = CentsOf(base.ranges) \cup spans
  /\ spans \subseteq CentsOf(acc.reserved)
  /\ acc.paid \subseteq spans

\* The loop over the goals that are due.
LEMMA SettleLoop ==
  ASSUME NEW gs \in [Goals -> GoalRow], NEW n \in Nat, NEW S \in SUBSET Goals, NEW due \in [1 .. n -> S],
         NEW base \in Ledgers, base.paid = {},
         \A g \in S \cap Legacy : SpanOf(gs, g) \subseteq CentsOf(base.reserved),
         NEW acc, acc = Settled(gs, base, due)
  PROVE  Looped(base, acc, SpansOf(gs, due, n))
<1> DEFINE spans(k) == SpansOf(gs, due, k)
           OK(x, k) == Looped(base, x, spans(k))
<1>1. PICK a : /\ a[0] = base
               /\ \A k \in 1 .. n : a[k] = Settle(gs, a[k - 1], due[k])
               /\ acc = a[n]
  <2>1. due \in [1 .. n -> Goals]  OBVIOUS
  <2> QED  BY <2>1, SettleFold
<1> DEFINE P == {k \in 0 .. n : OK(a[k], k)}
<1>2. 0 \in P
  <2>1. spans(0) = {}
    BY DEF SpansOf
  <2> HIDE DEF spans
  <2> QED  BY <1>1, <2>1 DEF Looped
<1>3. \A k \in 1 .. n : k - 1 \in P => k \in P
  <2> SUFFICES ASSUME NEW k \in 1 .. n, k - 1 \in P PROVE k \in P
    OBVIOUS
  <2> DEFINE g == due[k]
             x == a[k - 1]
             y == a[k]
             sp == SpanOf(gs, g)
  <2>1. g \in S /\ g \in Goals /\ y = Settle(gs, x, g) /\ k \in 0 .. n
    BY <1>1
  <2>2. OK(x, k - 1)
    OBVIOUS
  <2>3. spans(k) = spans(k - 1) \cup sp
    <3>1. 1 .. k = (1 .. (k - 1)) \cup {k}  OBVIOUS
    <3> QED  BY <3>1 DEF SpansOf
  <2> HIDE DEF spans, g, x, y
  <2>4. /\ y \in Ledgers
        /\ CentsOf(y.reserved) = CentsOf(x.reserved) \cup sp
        /\ CentsOf(y.ranges) = CentsOf(x.ranges) \cup sp
        /\ g \in Legacy => y.paid = x.paid
        /\ g \notin Legacy => y.paid = x.paid \cup (sp \ CentsOf(x.reserved))
    <3>1. x \in Ledgers /\ g \in Goals /\ y = Settle(gs, x, g)
      BY <2>1, <2>2 DEF Looped
    <3> HIDE DEF OK, P
    <3> QED  BY <3>1, SettleAdds
  <2>5. g \in Legacy => sp \subseteq CentsOf(base.reserved)
    BY <2>1
  <2> HIDE DEF sp
  <2>6. OK(y, k)
    <3>1. CASE g \in Legacy
      BY <2>2, <2>3, <2>4, <2>5, <3>1 DEF Looped
    <3>2. CASE g \notin Legacy
      BY <2>2, <2>3, <2>4, <3>2 DEF Looped
    <3> QED  BY <3>1, <3>2
  <2>7. OK(a[k], k)
    <3> HIDE DEF OK
    <3> QED  BY <2>6 DEF y
  <2> HIDE DEF OK
  <2> QED  BY <2>1, <2>7
<1>4. \A k \in 0 .. n : k \in P
  <2> HIDE DEF P
  <2> QED  BY <1>2, <1>3, StepByStep
<1>5. OK(a[n], n)
  BY <1>4
<1> QED  BY <1>1, <1>5

\* The cents that the progress row covers, and those that were paid.
Covered == IF progress = None THEN {} ELSE CentsOf(progress.ranges)

\* The cents that were paid to a new goal.
PaidOut == {c \in Cents : paidCents[c] = 1}

\* What is paid, honoured or earned is covered; no cent is paid twice, nor paid
\* and honoured or still promised; what is covered was paid, known or left.
CoverageOK ==
  /\ paidCents \in [Cents -> {0, 1}]
  /\ PaidOut \subseteq Covered /\ honoured \subseteq Covered /\ earned \subseteq Covered
  /\ PaidOut \cap honoured = {}
  /\ PaidOut \cap Promised(goal) = {}
  /\ Covered \subseteq PaidOut \cup known \cup left

\* Accepted goals are there from the start, and new ones need a progress row.
GoalsOK ==
  /\ \A g \in Legacy : goal[g].status # "none"
  /\ progress = None => \A g \in Goals \ Legacy : goal[g].status \in {"none", "gone"}

\* The inductive invariant of Savings.
SavingsOK == TypeOK /\ CoverageOK /\ GoalsOK /\ OnlyFailuresWait

\* A progress row, or none.
ProgressOK(pr) == pr = None \/ (pr \in ProgressRow /\ Canonical(pr.ranges))

\* A progress row is not None.
LEMMA RowIsNotNone == \A pr \in ProgressRow : pr # None
BY SavingsConstants

\* The first progress row covers the balance.
LEMMA BeginIsRow == ASSUME NEW b \in Nat PROVE Begin(b) \in ProgressRow /\ Canonical(Begin(b).ranges)
<1>1. CASE b > 0
  <2>1. Begin(b) = [floor |-> b, ranges |-> << <<0, b>> >>]
    BY <1>1 DEF Begin
  <2>2. << <<0, b>> >> \in Bands
    BY DEF Bands
  <2>3. Canonical(<< <<0, b>> >>)
    BY <1>1 DEF Canonical
  <2> QED  BY <2>1, <2>2, <2>3 DEF ProgressRow
<1>2. CASE ~(b > 0)
  <2>1. Begin(b) = [floor |-> b, ranges |-> <<>>]
    BY <1>2 DEF Begin
  <2>2. <<>> \in Bands /\ Canonical(<<>>)
    BY DEF Bands, Canonical
  <2> QED  BY <2>1, <2>2 DEF ProgressRow
<1> QED  BY <1>1, <1>2

\* Promises that are not reopened cannot grow.
LEMMA PromisedShrinks ==
  ASSUME NEW gs, NEW hs, \A g \in Legacy : hs[g].status = "open" => gs[g].status = "open"
  PROVE  Promised(hs) \subseteq Promised(gs)
BY DEF Promised, OpenLegacy

\* What the check at the end of a write leaves behind.
LEMMA CheckKeeps ==
  ASSUME NEW b \in Cents, NEW gs \in [Goals -> GoalRow], NEW pr, Check(b, gs, pr),
         ProgressOK(pr), progress # None => pr = progress,
         CoverageOK, Promised(gs) \subseteq Promised(goal),
         \A g \in Legacy : gs[g].status # "none",
         pr = None => \A g \in Goals \ Legacy : gs[g].status \in {"none", "gone"}
  PROVE  /\ goal' \in [Goals -> GoalRow] /\ ProgressOK(progress')
         /\ CoverageOK' /\ GoalsOK'
         /\ \A g \in Goals : goal'[g].status = "open" => goal'[g].target > b
<1> DEFINE S == Reached(gs, b)
           n == Cardinality(S)
           due == Due(gs, b)
           done == ToSet(due)
           pr0 == IF pr = None THEN Begin(b) ELSE pr
           base == [reserved |-> Reserve(gs, pr0.ranges), ranges |-> pr0.ranges,
                    floor |-> pr0.floor, best |-> {}, paid |-> {}]
           acc == Settled(gs, base, due)
<1>1. Positive(b) = b /\ b \in Nat
  BY SavingsConstants DEF Cents, Positive
<1>2. IF due = <<>>
      THEN /\ goal' = gs
           /\ progress' = pr
           /\ known' = IF progress = None /\ pr # None THEN CentsOf(pr.ranges) ELSE known
           /\ UNCHANGED <<paidCents, earned, left, honoured>>
      ELSE /\ goal' = [g \in Goals |-> IF g \notin done THEN gs[g]
                         ELSE [gs[g] EXCEPT !.status = "done", !.qualifies = g \in Legacy \/ g \in acc.best]]
           /\ progress' = [floor |-> acc.floor, ranges |-> acc.ranges]
           /\ known' = IF progress = None THEN CentsOf(pr0.ranges) ELSE known
           /\ paidCents' = [c \in Cents |-> IF c \in acc.paid THEN paidCents[c] + 1 ELSE paidCents[c]]
           /\ earned' = earned \cup UNION {Span(gs[g].start, gs[g].target) : g \in done \ Legacy}
           /\ left' = left \cup UNION {Span(0, LegacyTarget[g]) : g \in OpenLegacy(gs)}
           /\ honoured' = honoured \cup UNION {Span(0, LegacyTarget[g]) : g \in done \cap Legacy}
  BY <1>1, Zenon DEF Check, Settled
<1>3. due \in [1 .. n -> S] /\ n \in Nat /\ done = S /\ S \in SUBSET Goals
  BY DueThere DEF Reached
<1>4. \A g \in Goals : /\ g \in S <=> gs[g].status = "open" /\ gs[g].target <= b
                       /\ gs[g].target \in Nat
  BY DEF Reached, GoalRow
<1>5. pr0 \in ProgressRow /\ Canonical(pr0.ranges) /\ pr0.ranges \in Coverage /\ pr0.floor \in Nat
  BY <1>1, BeginIsRow DEF ProgressOK, ProgressRow, Coverage
<1>6. PaidOut \subseteq Cents /\ known' = known' /\ paidCents \in [Cents -> {0, 1}]
  BY DEF PaidOut, CoverageOK
<1> DEFINE R == CentsOf(pr0.ranges)
<1>7. /\ Covered \subseteq R
      /\ progress # None => Covered = R
      /\ progress = None => Covered = {}
  <2>1. CASE progress = None
    BY <2>1 DEF Covered
  <2>2. CASE progress # None
    BY <2>2 DEF Covered
  <2> QED  BY <2>1, <2>2
<1> HIDE DEF S, n, due, done, pr0, base, acc
<1>8. CASE due = <<>>
  <2>1. S = {}
    BY <1>3, <1>8 DEF ToSet, done
  <2>2. /\ goal' = gs /\ progress' = pr
        /\ known' = IF progress = None /\ pr # None THEN CentsOf(pr.ranges) ELSE known
        /\ UNCHANGED <<paidCents, earned, left, honoured>>
    BY <1>2, <1>8, Zenon
  <2>3. Covered' = IF pr = None THEN {} ELSE CentsOf(pr.ranges)
    BY <2>2 DEF Covered
  <2>4. PaidOut' = PaidOut
    BY <2>2 DEF PaidOut
  <2>5. CASE progress = None
    <3>1. PaidOut = {} /\ honoured = {} /\ earned = {}
      BY <1>7, <2>5 DEF CoverageOK
    <3>2. Covered' \subseteq known'
      BY <2>2, <2>3, <2>5
    <3>3. CoverageOK'
      BY <1>6, <2>2, <2>4, <3>1, <3>2 DEF CoverageOK
    <3>4. GoalsOK'
      BY <2>2 DEF GoalsOK
    <3> QED  BY <1>4, <2>1, <2>2, <3>3, <3>4, <1>1
  <2>6. CASE progress # None
    <3>1. Covered' = Covered /\ known' = known
      BY <2>2, <2>3, <2>6 DEF Covered
    <3>2. CoverageOK'
      BY <2>2, <2>4, <3>1 DEF CoverageOK
    <3>3. GoalsOK'
      BY <2>2 DEF GoalsOK
    <3> QED  BY <1>4, <2>1, <2>2, <3>2, <3>3, <1>1
  <2> QED  BY <2>5, <2>6
<1>9. CASE due # <<>>
  <2> DEFINE spans == SpansOf(gs, due, n)
             prom == Promised(gs)
  <2>1. base \in Ledgers /\ base.paid = {} /\ base.ranges = pr0.ranges
        /\ CentsOf(base.reserved) = R \cup prom
    <3>1. Reserve(gs, pr0.ranges) \in Coverage /\ CentsOf(Reserve(gs, pr0.ranges)) = R \cup prom
      BY <1>5, ReserveAdds
    <3> HIDE DEF R, prom
    <3> QED  BY <1>5, <3>1 DEF base, Ledgers
  <2>2. \A g \in S : g \in Legacy => SpanOf(gs, g) = Span(0, LegacyTarget[g]) /\ SpanOf(gs, g) \subseteq prom
    BY <1>3, <1>4, RangesAreNat DEF Promised, OpenLegacy
  <2>3. \A g \in S : g \notin Legacy => SpanOf(gs, g) = Span(gs[g].start, gs[g].target)
    BY <1>3, RangesAreNat
  <2>loop. Looped(base, acc, spans)
    <3>1. \A g \in S \cap Legacy : SpanOf(gs, g) \subseteq CentsOf(base.reserved)
      BY <2>1, <2>2
    <3>2. acc = Settled(gs, base, due)
      BY DEF acc
    <3>3. n \in Nat /\ S \in SUBSET Goals /\ due \in [1 .. n -> S] /\ base \in Ledgers /\ base.paid = {}
      BY <1>3, <2>1
    <3> HIDE DEF R, prom
    <3> QED  BY <3>1, <3>2, <3>3, SettleLoop
  <2>4. /\ acc \in Ledgers
        /\ CentsOf(acc.reserved) = CentsOf(base.reserved) \cup acc.paid
        /\ acc.paid \cap CentsOf(base.reserved) = {}
        /\ CentsOf(acc.ranges) = CentsOf(base.ranges) \cup spans
        /\ spans \subseteq CentsOf(acc.reserved)
        /\ acc.paid \subseteq spans
    BY <2>loop, Zenon DEF Looped
  <2>5. spans = UNION {SpanOf(gs, g) : g \in S}
    <3>1. {due[i] : i \in 1 .. n} = S
      BY <1>3 DEF done, ToSet
    <3> QED  BY <3>1 DEF SpansOf
  <2>6. acc.ranges \in Coverage /\ acc.floor \in Nat /\ acc.paid \subseteq Cents
    BY <2>4 DEF Ledgers
  <2>7. /\ progress' = [floor |-> acc.floor, ranges |-> acc.ranges]
        /\ known' = IF progress = None THEN CentsOf(pr0.ranges) ELSE known
        /\ paidCents' = [c \in Cents |-> IF c \in acc.paid THEN paidCents[c] + 1 ELSE paidCents[c]]
        /\ earned' = earned \cup UNION {Span(gs[g].start, gs[g].target) : g \in S \ Legacy}
        /\ left' = left \cup prom
        /\ honoured' = honoured \cup UNION {Span(0, LegacyTarget[g]) : g \in S \cap Legacy}
    BY <1>2, <1>3, <1>9, Zenon DEF Promised
  <2>8. goal' = [g \in Goals |-> IF g \notin S THEN gs[g]
                   ELSE [gs[g] EXCEPT !.status = "done", !.qualifies = g \in Legacy \/ g \in acc.best]]
    BY <1>2, <1>3, <1>9, Zenon
  <2>9. \A g \in Goals : /\ g \notin S => goal'[g] = gs[g]
                         /\ g \in S => goal'[g].status = "done"
                         /\ goal'[g] \in GoalRow
    BY <2>8 DEF GoalRow
  <2>10. goal' \in [Goals -> GoalRow]
    BY <2>8, <2>9
  <2>11. progress' \in ProgressRow /\ Canonical(progress'.ranges) /\ progress' # None
         /\ progress'.ranges = acc.ranges
    BY <2>6, <2>7, RowIsNotNone DEF ProgressRow, Coverage
  <2>12. Covered' = R \cup spans
    <3>1. Covered' = CentsOf(acc.ranges)
      BY <2>11 DEF Covered
    <3> HIDE DEF R, spans
    <3> QED  BY <2>1, <2>4, <3>1 DEF R
  <2>13. PaidOut \cap acc.paid = {}
    <3>1. PaidOut \subseteq R
      BY <1>7 DEF CoverageOK
    <3> QED  BY <2>1, <2>4, <3>1
  <2>14. PaidOut' = PaidOut \cup acc.paid /\ paidCents' \in [Cents -> {0, 1}]
    <3>1. \A c \in Cents : paidCents'[c] = IF c \in acc.paid THEN paidCents[c] + 1 ELSE paidCents[c]
      BY <2>7
    <3>2. \A c \in Cents : c \in acc.paid => paidCents[c] = 0
      BY <1>6, <2>13 DEF PaidOut
    <3>3. \A c \in Cents : paidCents'[c] = IF c \in acc.paid THEN 1 ELSE paidCents[c]
      BY <3>1, <3>2
    <3>4. paidCents' \in [Cents -> {0, 1}]
      BY <1>6, <2>7, <3>3
    <3>5. PaidOut' = {c \in Cents : paidCents'[c] = 1}
      BY DEF PaidOut
    <3>6. PaidOut' = PaidOut \cup acc.paid
      BY <2>6, <3>3, <3>5 DEF PaidOut
    <3> QED  BY <3>4, <3>6
  <2>15. Promised(goal') \subseteq prom
    <3>1. \A g \in Legacy : goal'[g].status = "open" => gs[g].status = "open"
      BY <2>9, SavingsConstants
    <3> QED  BY <3>1, PromisedShrinks
  <2>16. UNION {Span(0, LegacyTarget[g]) : g \in S \cap Legacy} \subseteq spans
         /\ UNION {Span(0, LegacyTarget[g]) : g \in S \cap Legacy} \subseteq prom
    BY <2>2, <2>5
  <2>17. UNION {Span(gs[g].start, gs[g].target) : g \in S \ Legacy} \subseteq spans
    BY <2>3, <2>5
  <2>18. spans \subseteq R \cup prom \cup acc.paid
    BY <2>1, <2>4
  <2>19. R \subseteq PaidOut \cup known' \cup left
    <3>1. CASE progress = None
      BY <2>7, <3>1
    <3>2. CASE progress # None
      BY <1>7, <2>7, <3>2 DEF CoverageOK
    <3> QED  BY <3>1, <3>2
  <2>20. PaidOut \subseteq R /\ honoured \subseteq R /\ earned \subseteq R
         /\ PaidOut \cap honoured = {} /\ PaidOut \cap prom = {}
    BY <1>7 DEF CoverageOK
  <2>21. acc.paid \cap R = {} /\ acc.paid \cap prom = {} /\ acc.paid \subseteq spans
    BY <2>1, <2>4
  <2>22. earned' = earned \cup UNION {Span(gs[g].start, gs[g].target) : g \in S \ Legacy} /\ left' = left \cup prom
         /\ honoured' = honoured \cup UNION {Span(0, LegacyTarget[g]) : g \in S \cap Legacy}
    BY <2>7
  <2> HIDE DEF spans, prom, R
  <2>23. /\ PaidOut' \subseteq Covered' /\ honoured' \subseteq Covered' /\ earned' \subseteq Covered'
    BY <2>12, <2>14, <2>16, <2>17, <2>20, <2>21, <2>22
  <2>24. PaidOut' \cap honoured' = {} /\ PaidOut' \cap Promised(goal') = {}
    BY <2>14, <2>15, <2>16, <2>20, <2>21, <2>22
  <2>25. Covered' \subseteq PaidOut' \cup known' \cup left'
    BY <2>12, <2>14, <2>18, <2>19, <2>22
  <2>26. CoverageOK'
    BY <2>14, <2>23, <2>24, <2>25 DEF CoverageOK
  <2>27. GoalsOK'
    BY <2>9, <2>11, SavingsConstants DEF GoalsOK
  <2>28. \A g \in Goals : goal'[g].status = "open" => goal'[g].target > b
    BY <1>1, <1>4, <2>9
  <2> QED  BY <2>10, <2>11, <2>26, <2>27, <2>28 DEF ProgressOK
<1> QED  BY <1>8, <1>9

-----------------------------------------------------------------------------
(* The invariant, one write at a time.                                     *)

\* It holds at the start.
LEMMA InitOK == Init => SavingsOK
<1> SUFFICES ASSUME Init PROVE SavingsOK
  OBVIOUS
<1>1. TypeOK
  <2>1. goal \in [Goals -> GoalRow]
    BY SavingsConstants DEF Init, GoalRow, Row
  <2> QED  BY <2>1 DEF Init, TypeOK
<1>2. CoverageOK
  <2>1. Covered = {} /\ honoured = {} /\ earned = {}
    BY DEF Init, Covered
  <2>2. paidCents \in [Cents -> {0, 1}] /\ PaidOut = {}
    BY DEF Init, PaidOut
  <2> QED  BY <2>1, <2>2 DEF CoverageOK
<1>3. GoalsOK
  BY SavingsConstants DEF Init, GoalsOK, Row
<1>4. OnlyFailuresWait
  BY DEF Init, OnlyFailuresWait
<1> QED  BY <1>1, <1>2, <1>3, <1>4 DEF SavingsOK

\* What holds after a write that ends with its check.
LEMMA AfterCheck ==
  ASSUME SavingsOK, NEW gs \in [Goals -> GoalRow], NEW pr, balance' \in Cents, behind' = FALSE,
         Check(balance', gs, pr), ProgressOK(pr), progress # None => pr = progress,
         Promised(gs) \subseteq Promised(goal),
         \A g \in Legacy : gs[g].status # "none",
         pr = None => \A g \in Goals \ Legacy : gs[g].status \in {"none", "gone"}
  PROVE  SavingsOK'
<1> DEFINE b == balance'
<1>1. b \in Cents /\ Check(b, gs, pr) /\ CoverageOK
  BY DEF SavingsOK
<1> HIDE DEF b
<1>2. /\ goal' \in [Goals -> GoalRow] /\ ProgressOK(progress')
      /\ CoverageOK' /\ GoalsOK'
      /\ \A g \in Goals : goal'[g].status = "open" => goal'[g].target > b
  BY <1>1, CheckKeeps
<1>3. TypeOK'
  BY <1>2 DEF TypeOK, ProgressOK
<1>4. OnlyFailuresWait'
  BY <1>2 DEF OnlyFailuresWait, b
<1> QED  BY <1>2, <1>3, <1>4 DEF SavingsOK

\* A ledger row and its check keep it.
LEMMA LedgerRowKeeps ==
  ASSUME SavingsOK, NEW d, LedgerRow(d)
  PROVE  SavingsOK'
<1>1. balance' \in Cents /\ behind' = FALSE /\ Check(balance', goal, progress)
  BY Zenon DEF LedgerRow
<1>2. goal \in [Goals -> GoalRow] /\ ProgressOK(progress)
  BY DEF SavingsOK, TypeOK, ProgressOK
<1>3. (\A g \in Legacy : goal[g].status # "none")
      /\ (progress = None => \A g \in Goals \ Legacy : goal[g].status \in {"none", "gone"})
  BY DEF SavingsOK, GoalsOK
<1> QED  BY <1>1, <1>2, <1>3, AfterCheck

\* So does a ledger row whose check failed.
LEMMA LedgerRowOnlyKeeps ==
  ASSUME SavingsOK, NEW d, LedgerRowOnly(d)
  PROVE  SavingsOK'
BY DEF LedgerRowOnly, history, SavingsOK, TypeOK, CoverageOK, GoalsOK, OnlyFailuresWait, Covered, PaidOut, Promised

\* A new goal.
LEMMA CreateGoalKeeps ==
  ASSUME SavingsOK, NEW g \in Goals, NEW t \in Targets, CreateGoal(g, t)
  PROVE  SavingsOK'
<1> DEFINE pr == IF progress = None THEN Begin(Positive(balance)) ELSE progress
           start == Max({balance, pr.floor})
           gs == [goal EXCEPT ![g] = Row(t, start)]
<1>1. balance' \in Cents /\ behind' = FALSE /\ balance' = balance
  BY DEF CreateGoal, SavingsOK, TypeOK
<1>2. Check(balance', gs, pr) /\ goal[g].status = "none"
  <2>1. Check(balance, gs, pr)
    BY Zenon DEF CreateGoal
  <2> QED  BY <1>1, <2>1, Zenon DEF CreateGoal
<1>3. goal \in [Goals -> GoalRow] /\ g \notin Legacy /\ t \in Nat /\ balance \in Nat /\ Positive(balance) = balance
  BY <1>2, SavingsConstants DEF SavingsOK, TypeOK, GoalsOK, Cents, Positive
<1>4. pr \in ProgressRow /\ Canonical(pr.ranges)
  BY <1>3, BeginIsRow DEF SavingsOK, TypeOK
<1>5. progress # None => pr = progress
  OBVIOUS
<1>6. pr # None /\ ProgressOK(pr) /\ pr.floor \in Nat
  BY <1>4, RowIsNotNone DEF ProgressOK, ProgressRow
<1> HIDE DEF pr
<1>7. start \in Nat
  <2> DEFINE f == pr.floor
  <2>1. balance \in Int /\ f \in Int /\ balance \in Nat /\ f \in Nat
    BY <1>3, <1>6
  <2>2. Max({balance, f}) \in Nat
    <3> HIDE DEF f
    <3> QED  BY <2>1, MaxMinOfTwo
  <2> QED  BY <2>2
<1> HIDE DEF start
<1>8. gs \in [Goals -> GoalRow] /\ \A h \in Legacy : gs[h] = goal[h]
  BY <1>3, <1>7, SavingsConstants DEF GoalRow, Row
<1>9. \A h \in Legacy : gs[h].status # "none"
  BY <1>8 DEF SavingsOK, GoalsOK
<1>10. Promised(gs) \subseteq Promised(goal)
  BY <1>8, PromisedShrinks
<1> HIDE DEF gs
<1> QED  BY <1>1, <1>2, <1>5, <1>6, <1>8, <1>9, <1>10, AfterCheck

\* A new target leaves every goal's status.
LEMMA NewTargetKeeps ==
  ASSUME SavingsOK, NEW gs \in [Goals -> GoalRow], \A h \in Goals : gs[h].status = goal[h].status,
         balance' = balance, behind' = FALSE, Check(balance, gs, progress)
  PROVE  SavingsOK'
<1>1. balance' \in Cents /\ ProgressOK(progress) /\ Check(balance', gs, progress)
  BY DEF SavingsOK, TypeOK, ProgressOK
<1>2. (\A g \in Legacy : gs[g].status # "none")
      /\ (progress = None => \A g \in Goals \ Legacy : gs[g].status \in {"none", "gone"})
  BY SavingsConstants DEF SavingsOK, GoalsOK
<1>3. Promised(gs) \subseteq Promised(goal)
  BY SavingsConstants, PromisedShrinks
<1> QED  BY <1>1, <1>2, <1>3, AfterCheck

\* A new target of an accepted goal or of a new one.
LEMMA UpdateGoalKeeps ==
  ASSUME SavingsOK, NEW g \in Goals, NEW t \in Targets, UpdateGoal(g, t)
  PROVE  SavingsOK'
<1>1. balance' = balance /\ behind' = FALSE /\ goal[g].status \in {"open", "done"}
  BY DEF UpdateGoal
<1>2. goal \in [Goals -> GoalRow] /\ t \in Nat /\ balance \in Int
  BY SavingsConstants DEF SavingsOK, TypeOK, Cents
<1>3. CASE g \in Legacy
  <2> DEFINE gs == [goal EXCEPT ![g].target = t]
  <2>1. Check(balance, gs, progress)
    BY <1>3, Zenon DEF UpdateGoal
  <2>2. gs \in [Goals -> GoalRow] /\ \A h \in Goals : gs[h].status = goal[h].status
    BY <1>2 DEF GoalRow
  <2> HIDE DEF gs
  <2> QED  BY <1>1, <2>1, <2>2, NewTargetKeeps
<1>4. CASE g \notin Legacy
  <2> DEFINE start == Restart(g, t)
             gs == [goal EXCEPT ![g].target = t, ![g].start = start]
  <2>1. Check(balance, gs, progress)
    BY <1>4, Zenon DEF UpdateGoal
  <2>2. progress \in ProgressRow
    BY <1>1, <1>4 DEF SavingsOK, TypeOK, GoalsOK
  <2>3. start \in Nat
    <3> DEFINE now == goal[g].start
               f == progress.floor
               three == {now, balance, f}
    <3>1. now \in Nat /\ f \in Nat /\ balance \in Nat
      BY <1>2, <2>2, SavingsConstants DEF GoalRow, ProgressRow, SavingsOK, TypeOK, Cents
    <3>2. IsFiniteSet(three)
      <4> HIDE DEF now, f
      <4>1. IsFiniteSet({now} \cup {balance})
        BY FS_Singleton, FS_AddElement
      <4>2. IsFiniteSet(({now} \cup {balance}) \cup {f})
        BY <4>1, FS_AddElement
      <4>3. three = ({now} \cup {balance}) \cup {f}
        OBVIOUS
      <4> QED  BY <4>2, <4>3
    <3>3. Max(three) \in Nat
      <4> HIDE DEF now, f
      <4>1. three \subseteq Int /\ three \subseteq Nat /\ three # {}
        BY <3>1
      <4> HIDE DEF three
      <4> QED  BY <3>2, <4>1, MaxIsIn
    <3> QED  BY <3>1, <3>3 DEF Restart
  <2> HIDE DEF start
  <2>4. gs \in [Goals -> GoalRow] /\ \A h \in Goals : gs[h].status = goal[h].status
    BY <1>2, <2>3 DEF GoalRow
  <2> HIDE DEF gs
  <2> QED  BY <1>1, <2>1, <2>4, NewTargetKeeps
<1> QED  BY <1>3, <1>4

\* A deleted goal withdraws its promise.
LEMMA DeleteGoalKeeps ==
  ASSUME SavingsOK, NEW g \in Goals, DeleteGoal(g)
  PROVE  SavingsOK'
<1>1. goal \in [Goals -> GoalRow] /\ goal' = [goal EXCEPT ![g].status = "gone"]
      /\ UNCHANGED <<balance, progress, behind, paidCents, earned, known, left, honoured>>
  BY DEF DeleteGoal, SavingsOK, TypeOK, history
<1>2. /\ goal' \in [Goals -> GoalRow]
      /\ \A h \in Goals : goal'[h] = goal[h] \/ (goal'[h].status = "gone")
  BY <1>1 DEF GoalRow
<1>3. Promised(goal') \subseteq Promised(goal)
  BY <1>2, SavingsConstants, PromisedShrinks
<1>4. Covered' = Covered /\ PaidOut' = PaidOut
  BY <1>1 DEF Covered, PaidOut
<1>5. CoverageOK'
  BY <1>1, <1>3, <1>4 DEF SavingsOK, CoverageOK
<1>6. GoalsOK'
  BY <1>1, <1>2, SavingsConstants DEF SavingsOK, GoalsOK
<1>7. TypeOK' /\ OnlyFailuresWait'
  BY <1>1, <1>2 DEF SavingsOK, TypeOK, OnlyFailuresWait
<1> QED  BY <1>5, <1>6, <1>7 DEF SavingsOK

-----------------------------------------------------------------------------
(* The theorems.                                                           *)

\* SavingsOK always holds.
THEOREM SavingsHolds == Spec => []SavingsOK
<1>1. SavingsOK /\ [Next]_vars => SavingsOK'
  <2> SUFFICES ASSUME SavingsOK, [Next]_vars PROVE SavingsOK'
    OBVIOUS
  <2>1. CASE UNCHANGED vars
    BY <2>1 DEF vars, rows, history, SavingsOK, TypeOK, CoverageOK, GoalsOK, OnlyFailuresWait, Covered, PaidOut, Promised
  <2>2. ASSUME NEW d \in Moves, LedgerRow(d) PROVE SavingsOK'
    BY <2>2, LedgerRowKeeps
  <2>3. ASSUME NEW d \in Moves, LedgerRowOnly(d) PROVE SavingsOK'
    BY <2>3, LedgerRowOnlyKeeps
  <2>4. ASSUME NEW g \in Goals, NEW t \in Targets, CreateGoal(g, t) PROVE SavingsOK'
    BY <2>4, CreateGoalKeeps
  <2>5. ASSUME NEW g \in Goals, NEW t \in Targets, UpdateGoal(g, t) PROVE SavingsOK'
    BY <2>5, UpdateGoalKeeps
  <2>6. ASSUME NEW g \in Goals, DeleteGoal(g) PROVE SavingsOK'
    BY <2>6, DeleteGoalKeeps
  <2> QED  BY <2>1, <2>2, <2>3, <2>4, <2>5, <2>6, Zenon DEF Next
<1> QED  BY InitOK, <1>1, PTL DEF Spec

\* Recognized savings stay sorted, disjoint and apart, and every claim on them
\* (_claim_savings_range) is their union with its range and counts the new cents.
THEOREM SavingsCorrect == Spec => []SavingsInv
<1>1. SavingsOK => SavingsInv
  <2> SUFFICES ASSUME SavingsOK PROVE SavingsInv
    OBVIOUS
  <2>1. TypeOK
    BY DEF SavingsOK
  <2>2. progress # None => progress.ranges \in Bands /\ Canonical(progress.ranges)
    BY <2>1 DEF TypeOK, ProgressRow
  <2> QED  BY <2>1, <2>2, ClaimsAreUnions DEF SavingsInv
<1> QED  BY SavingsHolds, <1>1, PTL

\* No cent is paid to two new goals, nor to one and to an accepted promise,
\* whatever deposits, spending, new targets, deletions and failures there are.
THEOREM CentsArePaidOnce == Spec => []NoCentPaidTwice
<1>1. SavingsOK => NoCentPaidTwice
  BY DEF SavingsOK, CoverageOK, PaidOut, NoCentPaidTwice
<1> QED  BY SavingsHolds, <1>1, PTL

\* Each cent that a completed goal saved was paid, was there before, or was left
\* to a promise that was open then.
THEOREM NewCentsArePaid == Spec => []EveryNewCentPaid
<1>1. SavingsOK => EveryNewCentPaid
  BY DEF SavingsOK, CoverageOK, PaidOut, EveryNewCentPaid
<1> QED  BY SavingsHolds, <1>1, PTL

\* A goal whose target the balance covers waits only for a check that failed.
THEOREM WaitingIsAFailure == Spec => []OnlyFailuresWait
<1>1. SavingsOK => OnlyFailuresWait
  BY DEF SavingsOK
<1> QED  BY SavingsHolds, <1>1, PTL
=============================================================================
