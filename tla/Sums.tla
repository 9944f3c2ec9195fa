-------------------------------- MODULE Sums --------------------------------
(***************************************************************************)
(* Sums over finite sets, and listings of finite sets in ascending order:  *)
(* the facts that the proofs about money, hours and progress need.  The    *)
(* community module defines its sum as a fold that takes out one element   *)
(* after the other, by CHOOSE; each fact is proved by a smallest           *)
(* counterexample, which a well-founded order of the finite subsets gives. *)
(* The last part does the same for any fold, of a set or of a sequence.    *)
(***************************************************************************)
EXTENDS Integers, FiniteSets, FiniteSetsExt, FiniteSetTheorems, WellFoundedInduction, TLAPS

-----------------------------------------------------------------------------
(* The fold.                                                               *)

\* The sum of f over S, as the models write it.
SumOf(f, S) == MapThenSumSet(LAMBDA x : f[x], S)

\* The element of s that the fold takes out first.
OneOf(s) == CHOOSE x \in s : TRUE

\* h is the fold of f: its value for each subset of S from that of a smaller one.
Iterates(h, f, S) == h = [s \in SUBSET S |-> IF s = {} THEN 0 ELSE f[OneOf(s)] + h[s \ {OneOf(s)}]]

\* The sum is the value at S of some such h, if there is one.
LEMMA SumIsIterate ==
  ASSUME NEW f, NEW S
  PROVE  SumOf(f, S) = (CHOOSE h : Iterates(h, f, S))[S]
BY Zenon DEF SumOf, MapThenSumSet, MapThenFoldSet, Iterates, OneOf

\* Smallest counterexample: a set of finite subsets has a member with no proper subset in it.
LEMMA SmallestSubset ==
  ASSUME NEW S, IsFiniteSet(S), NEW P, P \subseteq SUBSET S, P # {}
  PROVE  \E s \in P : \A t \in P : t \subseteq s => t = s
<1> DEFINE R == StrictSubsetOrdering(S)
<1>1. IsWellFoundedOn(R, FiniteSubsetsOf(S))
  BY FS_StrictSubsetOrderingWellFounded
<1>2. P \subseteq FiniteSubsetsOf(S)
  BY FS_Subset DEF FiniteSubsetsOf
<1>3. PICK s \in P : \A t \in P : ~(<<t, s>> \in R)
  <2> HIDE DEF R
  <2> QED  BY <1>1, <1>2, WFMin
<1> QED  BY <1>3 DEF StrictSubsetOrdering

\* It is one.
LEMMA OneOfIsIn == ASSUME NEW s, s # {} PROVE OneOf(s) \in s
BY DEF OneOf

\* Two folds, each over its own set, agree wherever both are defined.
LEMMA IterateUnique ==
  ASSUME NEW f, NEW S, IsFiniteSet(S), NEW T, T \subseteq S, NEW g, NEW h, Iterates(g, f, T), Iterates(h, f, S)
  PROVE  \A s \in SUBSET T : g[s] = h[s]
<1> DEFINE Bad == {s \in SUBSET T : g[s] # h[s]}
<1>1. SUFFICES ASSUME Bad # {} PROVE FALSE
  OBVIOUS
<1>2. PICK s \in Bad : \A t \in Bad : t \subseteq s => t = s
  <2>1. Bad \subseteq SUBSET S  OBVIOUS
  <2> HIDE DEF Bad
  <2> QED  BY <1>1, <2>1, SmallestSubset
<1>3. g[s] = IF s = {} THEN 0 ELSE f[OneOf(s)] + g[s \ {OneOf(s)}]
  BY DEF Iterates
<1>4. h[s] = IF s = {} THEN 0 ELSE f[OneOf(s)] + h[s \ {OneOf(s)}]
  BY DEF Iterates
<1>5. s # {}
  BY <1>3, <1>4
<1>6. s \ {OneOf(s)} \notin Bad
  BY <1>2, <1>5, OneOfIsIn
<1>7. g[s \ {OneOf(s)}] = h[s \ {OneOf(s)}]
  BY <1>6
<1> QED  BY <1>3, <1>4, <1>5, <1>7

\* Over a finite set there is a fold.
LEMMA IterateThere ==
  ASSUME NEW f, NEW S, IsFiniteSet(S)
  PROVE  \E h : Iterates(h, f, S)
<1> DEFINE Bad == {s \in SUBSET S : ~\E h : Iterates(h, f, s)}
<1>1. SUFFICES ASSUME Bad # {} PROVE FALSE
  OBVIOUS
<1>2. PICK T \in Bad : \A t \in Bad : t \subseteq T => t = T
  <2>1. Bad \subseteq SUBSET S  OBVIOUS
  <2> HIDE DEF Bad
  <2> QED  BY <1>1, <2>1, SmallestSubset
<1>3. \A t \in SUBSET T : t # T => \E h : Iterates(h, f, t)
  BY <1>2
<1>4. IsFiniteSet(T) /\ \A t \in SUBSET T : IsFiniteSet(t)
  BY FS_Subset
<1> DEFINE it(s) == CHOOSE h : Iterates(h, f, s)
           g == [s \in SUBSET T |-> IF s = {} THEN 0 ELSE f[OneOf(s)] + it(s \ {OneOf(s)})[s \ {OneOf(s)}]]
<1>5. ASSUME NEW s \in SUBSET T, s # T PROVE it(s)[s] = g[s]
  <2>1. Iterates(it(s), f, s)
    <3>1. \E h : Iterates(h, f, s)
      BY <1>3, <1>5
    <3> QED  BY <3>1
  <2> DEFINE h == it(s)
             r == s \ {OneOf(s)}
  <2>2. h[s] = IF s = {} THEN 0 ELSE f[OneOf(s)] + h[r]
    <3> HIDE DEF it
    <3> QED BY <2>1 DEF Iterates
  <2>3. CASE s = {}
    <3> HIDE DEF it
    <3> QED BY <2>2, <2>3
  <2>4. CASE s # {}
    <3>1. r \in SUBSET s /\ r # s /\ r # T /\ r \in SUBSET T
      BY <2>4, OneOfIsIn
    <3>2. Iterates(it(r), f, r)
      BY <1>3, <3>1
    <3>3. it(r)[r] = h[r]
      <4> HIDE DEF it, r, h
      <4>1. Iterates(h, f, s) BY <2>1 DEF h
      <4>2. IsFiniteSet(s) BY <1>4
      <4> QED  BY <3>1, <3>2, <4>1, <4>2, IterateUnique
    <3>4. g[s] = f[OneOf(s)] + it(r)[r]
      <4> HIDE DEF it
      <4> QED BY <2>4
    <3> HIDE DEF it, g, r
    <3> QED  BY <2>2, <2>4, <3>3, <3>4
  <2> QED  BY <2>3, <2>4
<1>6. Iterates(g, f, T)
  <2>1. \A s \in SUBSET T : s # {} => s \ {OneOf(s)} \in SUBSET T /\ s \ {OneOf(s)} # T
    BY OneOfIsIn
  <2>2. \A s \in SUBSET T : g[s] = IF s = {} THEN 0 ELSE f[OneOf(s)] + g[s \ {OneOf(s)}]
    <3> SUFFICES ASSUME NEW s \in SUBSET T PROVE g[s] = IF s = {} THEN 0 ELSE f[OneOf(s)] + g[s \ {OneOf(s)}]
      OBVIOUS
    <3>1. CASE s = {}
      <4> HIDE DEF it
      <4> QED BY <3>1
    <3>2. CASE s # {}
      <4>1. it(s \ {OneOf(s)})[s \ {OneOf(s)}] = g[s \ {OneOf(s)}]
        <5> HIDE DEF it, g
        <5> QED BY <2>1, <3>2, <1>5
      <4>2. g[s] = f[OneOf(s)] + it(s \ {OneOf(s)})[s \ {OneOf(s)}]
        <5> HIDE DEF it
        <5> QED BY <3>2
      <4> HIDE DEF it, g
      <4> QED BY <3>2, <4>1, <4>2
    <3> QED BY <3>1, <3>2
  <2>3. g = [s \in SUBSET T |-> g[s]]
    <3> HIDE DEF it
    <3> QED OBVIOUS
  <2> HIDE DEF g
  <2> QED  BY <2>2, <2>3 DEF Iterates
<1> QED  BY <1>2, <1>6

-----------------------------------------------------------------------------
(* Sums.                                                                   *)

\* Nothing sums to 0.
LEMMA SumEmpty == \A f : SumOf(f, {}) = 0
<1> TAKE f
<1>1. Iterates(CHOOSE h : Iterates(h, f, {}), f, {})
  BY IterateThere, FS_EmptySet
<1> QED  BY <1>1, SumIsIterate DEF Iterates

\* A sum is its first term and the rest.
LEMMA SumFirst ==
  ASSUME NEW f, NEW S, IsFiniteSet(S), S # {}
  PROVE  SumOf(f, S) = f[OneOf(S)] + SumOf(f, S \ {OneOf(S)})
<1> DEFINE r == S \ {OneOf(S)}
           it(s) == CHOOSE h : Iterates(h, f, s)
<1>1. IsFiniteSet(r) /\ r \in SUBSET S
  BY FS_Subset
<1>2. Iterates(it(S), f, S) /\ Iterates(it(r), f, r)
  BY <1>1, IterateThere
<1>3. SumOf(f, S) = it(S)[S] /\ SumOf(f, r) = it(r)[r]
  BY SumIsIterate
<1> HIDE DEF it, r
<1>4. it(r)[r] = it(S)[r]
  BY <1>1, <1>2, IterateUnique
<1>5. it(S)[S] = f[OneOf(S)] + it(S)[r]
  BY <1>2 DEF Iterates, r
<1> QED  BY <1>3, <1>4, <1>5 DEF r

\* A sum of integers is an integer.
LEMMA SumInt ==
  ASSUME NEW f, NEW S, IsFiniteSet(S), \A x \in S : f[x] \in Int
  PROVE  SumOf(f, S) \in Int
<1> DEFINE Bad == {s \in SUBSET S : SumOf(f, s) \notin Int}
<1>1. SUFFICES ASSUME Bad # {} PROVE FALSE
  OBVIOUS
<1>2. PICK s \in Bad : \A t \in Bad : t \subseteq s => t = s
  <2>1. Bad \subseteq SUBSET S  OBVIOUS
  <2> HIDE DEF Bad
  <2> QED  BY <1>1, <2>1, SmallestSubset
<1>3. s # {}  BY SumEmpty
<1>4. OneOf(s) \in s  BY <1>3, OneOfIsIn
<1>5. SumOf(f, s \ {OneOf(s)}) \in Int  BY <1>2, <1>4
<1>6. SumOf(f, s) = f[OneOf(s)] + SumOf(f, s \ {OneOf(s)})
  BY <1>3, SumFirst, FS_Subset
<1>7. f[OneOf(s)] \in Int  BY <1>4
<1> QED  BY <1>5, <1>6, <1>7

\* Only the values on S count.
LEMMA SumSame ==
  ASSUME NEW f, NEW g, NEW S, IsFiniteSet(S), \A x \in S : f[x] = g[x]
  PROVE  SumOf(f, S) = SumOf(g, S)
<1> DEFINE Bad == {s \in SUBSET S : SumOf(f, s) # SumOf(g, s)}
<1>1. SUFFICES ASSUME Bad # {} PROVE FALSE
  OBVIOUS
<1>2. PICK s \in Bad : \A t \in Bad : t \subseteq s => t = s
  <2>1. Bad \subseteq SUBSET S  OBVIOUS
  <2> HIDE DEF Bad
  <2> QED  BY <1>1, <2>1, SmallestSubset
<1>3. s # {}  BY SumEmpty
<1>4. OneOf(s) \in s  BY <1>3, OneOfIsIn
<1>5. SumOf(f, s \ {OneOf(s)}) = SumOf(g, s \ {OneOf(s)})  BY <1>2, <1>4
<1>6. IsFiniteSet(s)  BY FS_Subset
<1>7. SumOf(f, s) = f[OneOf(s)] + SumOf(f, s \ {OneOf(s)})
  BY <1>3, <1>6, SumFirst
<1>8. SumOf(g, s) = g[OneOf(s)] + SumOf(g, s \ {OneOf(s)})
  BY <1>3, <1>6, SumFirst
<1>9. f[OneOf(s)] = g[OneOf(s)]  BY <1>4
<1> QED  BY <1>5, <1>7, <1>8, <1>9

\* Any term may be taken out first: the sum does not depend on the order.
LEMMA SumWithout ==
  ASSUME NEW f, NEW S, IsFiniteSet(S), \A y \in S : f[y] \in Int
  PROVE  \A x \in S : SumOf(f, S) = f[x] + SumOf(f, S \ {x})
<1> DEFINE Bad == {s \in SUBSET S : \E x \in s : SumOf(f, s) # f[x] + SumOf(f, s \ {x})}
<1>1. SUFFICES ASSUME Bad # {} PROVE FALSE
  OBVIOUS
<1>2. PICK s \in Bad : \A t \in Bad : t \subseteq s => t = s
  <2>1. Bad \subseteq SUBSET S  OBVIOUS
  <2> HIDE DEF Bad
  <2> QED  BY <1>1, <2>1, SmallestSubset
<1>3. PICK x \in s : SumOf(f, s) # f[x] + SumOf(f, s \ {x})
  BY <1>2
<1> DEFINE p == OneOf(s)
<1>4. p \in s  BY OneOfIsIn
<1>5. \A t \in SUBSET s : IsFiniteSet(t) /\ \A y \in t : f[y] \in Int
  BY FS_Subset
<1>6. SumOf(f, s) = f[p] + SumOf(f, s \ {p})
  BY <1>4, <1>5, SumFirst
<1>7. p # x
  BY <1>3, <1>6
<1>8. SumOf(f, s \ {p}) = f[x] + SumOf(f, (s \ {p}) \ {x})
  <2>1. s \ {p} \notin Bad
    BY <1>2, <1>4
  <2> QED  BY <1>7, <2>1
<1>9. SumOf(f, s \ {x}) = f[p] + SumOf(f, (s \ {x}) \ {p})
  <2>1. s \ {x} \notin Bad
    BY <1>2, <1>3
  <2> QED  BY <1>4, <1>7, <2>1
<1>10. (s \ {p}) \ {x} = (s \ {x}) \ {p}
  OBVIOUS
<1>11. f[p] \in Int /\ f[x] \in Int /\ SumOf(f, (s \ {x}) \ {p}) \in Int
  BY <1>4, <1>5, SumInt
<1> DEFINE rest == SumOf(f, (s \ {x}) \ {p})
<1>12. SumOf(f, s) = f[p] + (f[x] + rest)
  BY <1>6, <1>8, <1>10
<1>13. SumOf(f, s \ {x}) = f[p] + rest
  BY <1>9
<1>14. rest \in Int /\ f[p] \in Int /\ f[x] \in Int
  BY <1>11
<1> HIDE DEF rest, p
<1> QED  BY <1>3, <1>12, <1>13, <1>14

\* A sum of natural numbers is one.
LEMMA SumNat ==
  ASSUME NEW f, NEW S, IsFiniteSet(S), \A x \in S : f[x] \in Nat
  PROVE  SumOf(f, S) \in Nat
<1> DEFINE Bad == {s \in SUBSET S : SumOf(f, s) \notin Nat}
<1>1. SUFFICES ASSUME Bad # {} PROVE FALSE
  OBVIOUS
<1>2. PICK s \in Bad : \A t \in Bad : t \subseteq s => t = s
  <2>1. Bad \subseteq SUBSET S  OBVIOUS
  <2> HIDE DEF Bad
  <2> QED  BY <1>1, <2>1, SmallestSubset
<1>3. s # {}  BY SumEmpty
<1>4. OneOf(s) \in s  BY <1>3, OneOfIsIn
<1>5. SumOf(f, s \ {OneOf(s)}) \in Nat  BY <1>2, <1>4
<1>6. SumOf(f, s) = f[OneOf(s)] + SumOf(f, s \ {OneOf(s)})
  BY <1>3, SumFirst, FS_Subset
<1>7. f[OneOf(s)] \in Nat  BY <1>4
<1> QED  BY <1>5, <1>6, <1>7

\* A sum of zeros is 0.
LEMMA SumZero ==
  ASSUME NEW f, NEW S, IsFiniteSet(S), \A x \in S : f[x] = 0
  PROVE  SumOf(f, S) = 0
<1> DEFINE Bad == {s \in SUBSET S : SumOf(f, s) # 0}
<1>1. SUFFICES ASSUME Bad # {} PROVE FALSE
  OBVIOUS
<1>2. PICK s \in Bad : \A t \in Bad : t \subseteq s => t = s
  <2>1. Bad \subseteq SUBSET S  OBVIOUS
  <2> HIDE DEF Bad
  <2> QED  BY <1>1, <2>1, SmallestSubset
<1>3. s # {}  BY SumEmpty
<1>4. OneOf(s) \in s  BY <1>3, OneOfIsIn
<1>5. SumOf(f, s \ {OneOf(s)}) = 0  BY <1>2, <1>4
<1>6. SumOf(f, s) = f[OneOf(s)] + SumOf(f, s \ {OneOf(s)})
  BY <1>3, SumFirst, FS_Subset
<1>7. f[OneOf(s)] = 0  BY <1>4
<1> QED  BY <1>5, <1>6, <1>7

\* One term changes: the sum changes by as much.
LEMMA SumMoved ==
  ASSUME NEW f, NEW g, NEW S, IsFiniteSet(S), NEW x \in S,
         \A y \in S : f[y] \in Int /\ g[y] \in Int,
         \A y \in S \ {x} : g[y] = f[y]
  PROVE  SumOf(g, S) = SumOf(f, S) + g[x] - f[x]
<1>1. IsFiniteSet(S \ {x})  BY FS_Subset
<1>2. SumOf(f, S \ {x}) = SumOf(g, S \ {x})  BY <1>1, SumSame
<1>3. SumOf(f, S \ {x}) \in Int  BY <1>1, SumInt
<1>4. SumOf(f, S) = f[x] + SumOf(f, S \ {x})  BY SumWithout
<1>5. SumOf(g, S) = g[x] + SumOf(g, S \ {x})  BY SumWithout
<1> QED  BY <1>2, <1>3, <1>4, <1>5

\* A term more.
LEMMA SumGrown ==
  ASSUME NEW f, NEW S, IsFiniteSet(S), NEW x, x \notin S, \A y \in S \cup {x} : f[y] \in Int
  PROVE  SumOf(f, S \cup {x}) = SumOf(f, S) + f[x]
<1>1. IsFiniteSet(S \cup {x})  BY FS_AddElement
<1>2. (S \cup {x}) \ {x} = S  OBVIOUS
<1>3. SumOf(f, S \cup {x}) = f[x] + SumOf(f, S)
  BY <1>1, <1>2, SumWithout
<1>4. SumOf(f, S) \in Int  BY SumInt
<1> QED  BY <1>3, <1>4

\* Term by term at most: so are the sums.
LEMMA SumAtMost ==
  ASSUME NEW f, NEW g, NEW S, IsFiniteSet(S),
         \A x \in S : f[x] \in Int /\ g[x] \in Int /\ f[x] <= g[x]
  PROVE  SumOf(f, S) <= SumOf(g, S)
<1> DEFINE Bad == {s \in SUBSET S : ~(SumOf(f, s) <= SumOf(g, s))}
<1>1. SUFFICES ASSUME Bad # {} PROVE FALSE
  OBVIOUS
<1>2. PICK s \in Bad : \A t \in Bad : t \subseteq s => t = s
  <2>1. Bad \subseteq SUBSET S  OBVIOUS
  <2> HIDE DEF Bad
  <2> QED  BY <1>1, <2>1, SmallestSubset
<1>3. s # {}  BY SumEmpty
<1> DEFINE p == OneOf(s)
           r == s \ {p}
<1>4. p \in s /\ p \in S  BY <1>3, OneOfIsIn
<1>5. IsFiniteSet(s) /\ IsFiniteSet(r)  BY FS_Subset
<1>6. SumOf(f, r) <= SumOf(g, r)  BY <1>2, <1>4
<1>7. SumOf(f, r) \in Int /\ SumOf(g, r) \in Int  BY <1>5, SumInt
<1>8. SumOf(f, s) = f[p] + SumOf(f, r) /\ SumOf(g, s) = g[p] + SumOf(g, r)
  BY <1>3, <1>5, SumFirst
<1>9. f[p] \in Int /\ g[p] \in Int /\ f[p] <= g[p]  BY <1>4
<1>10. ~(SumOf(f, s) <= SumOf(g, s))  OBVIOUS
<1> HIDE DEF p, r
<1> QED  BY <1>6, <1>7, <1>8, <1>9, <1>10

\* A sum is that of a part and that of the rest.
LEMMA SumSplit ==
  ASSUME NEW f, NEW S, NEW T, T \subseteq S, IsFiniteSet(S), \A x \in S : f[x] \in Int
  PROVE  SumOf(f, S) = SumOf(f, T) + SumOf(f, S \ T)
<1> DEFINE Bad == {s \in SUBSET S : SumOf(f, s) # SumOf(f, s \cap T) + SumOf(f, s \ T)}
<1>1. SUFFICES ASSUME Bad # {} PROVE FALSE
  <2>1. S \cap T = T  OBVIOUS
  <2> QED  BY <2>1
<1>2. PICK s \in Bad : \A t \in Bad : t \subseteq s => t = s
  <2>1. Bad \subseteq SUBSET S  OBVIOUS
  <2> HIDE DEF Bad
  <2> QED  BY <1>1, <2>1, SmallestSubset
<1>3. s # {}
  <2>1. SUFFICES ASSUME s = {} PROVE FALSE
    OBVIOUS
  <2>2. s \cap T = {} /\ s \ T = {}
    BY <2>1
  <2>3. SumOf(f, s) # SumOf(f, s \cap T) + SumOf(f, s \ T)
    OBVIOUS
  <2>4. SumOf(f, {}) # SumOf(f, {}) + SumOf(f, {})
    BY ONLY <2>1, <2>2, <2>3, Zenon
  <2> QED  BY ONLY <2>4, SumEmpty
<1> DEFINE p == OneOf(s)
           r == s \ {p}
<1>4. p \in s /\ p \in S /\ f[p] \in Int /\ p \notin r  BY <1>3, OneOfIsIn
<1>5. \A t \in SUBSET S : IsFiniteSet(t) /\ SumOf(f, t) \in Int  BY FS_Subset, SumInt
<1>6. SumOf(f, r) = SumOf(f, r \cap T) + SumOf(f, r \ T)  BY <1>2, <1>4
<1>7. SumOf(f, s) = f[p] + SumOf(f, r)  BY <1>3, <1>5, SumFirst
<1>8. s \cap T \in SUBSET S /\ s \ T \in SUBSET S /\ r \cap T \in SUBSET S /\ r \ T \in SUBSET S
  OBVIOUS
<1>9. CASE p \in T
  <2>1. s \ T = r \ T /\ (s \cap T) \ {p} = r \cap T /\ p \in s \cap T
    BY <1>4, <1>9
  <2>2. SumOf(f, s \cap T) = f[p] + SumOf(f, r \cap T)
    BY <1>5, <1>8, <2>1, SumWithout
  <2>3. SumOf(f, r \cap T) \in Int /\ SumOf(f, r \ T) \in Int
    BY <1>5, <1>8
  <2>4. SumOf(f, s) # SumOf(f, s \cap T) + SumOf(f, r \ T)
    BY <2>1
  <2> HIDE DEF p, r
  <2> QED  BY <1>4, <1>6, <1>7, <2>2, <2>3, <2>4
<1>10. CASE p \notin T
  <2>1. s \cap T = r \cap T /\ (s \ T) \ {p} = r \ T /\ p \in s \ T
    BY <1>4, <1>10
  <2>2. SumOf(f, s \ T) = f[p] + SumOf(f, r \ T)
    BY <1>5, <1>8, <2>1, SumWithout
  <2>3. SumOf(f, r \cap T) \in Int /\ SumOf(f, r \ T) \in Int
    BY <1>5, <1>8
  <2>4. SumOf(f, s) # SumOf(f, r \cap T) + SumOf(f, s \ T)
    BY <2>1
  <2> HIDE DEF p, r
  <2> QED  BY <1>4, <1>6, <1>7, <2>2, <2>3, <2>4
<1> QED  BY <1>9, <1>10

\* The sum of differences is the difference of the sums.
LEMMA SumMinus ==
  ASSUME NEW f, NEW g, NEW S, IsFiniteSet(S), \A x \in S : f[x] \in Int /\ g[x] \in Int
  PROVE  SumOf([x \in S |-> f[x] - g[x]], S) = SumOf(f, S) - SumOf(g, S)
<1> DEFINE d == [x \in S |-> f[x] - g[x]]
           Bad == {s \in SUBSET S : SumOf(d, s) # SumOf(f, s) - SumOf(g, s)}
<1>1. SUFFICES ASSUME Bad # {} PROVE FALSE
  OBVIOUS
<1>2. PICK s \in Bad : \A t \in Bad : t \subseteq s => t = s
  <2>1. Bad \subseteq SUBSET S  OBVIOUS
  <2> HIDE DEF Bad
  <2> QED  BY <1>1, <2>1, SmallestSubset
<1>3. s # {}
  <2>1. SumOf(d, {}) = 0 /\ SumOf(f, {}) - SumOf(g, {}) = 0
    <3> HIDE DEF d
    <3> QED  BY SumEmpty
  <2> HIDE DEF d
  <2> QED  BY <2>1
<1> DEFINE p == OneOf(s)
           r == s \ {p}
<1>4. p \in s /\ p \in S  BY <1>3, OneOfIsIn
<1>5. IsFiniteSet(s) /\ IsFiniteSet(r)  BY FS_Subset
<1>6. SumOf(d, r) = SumOf(f, r) - SumOf(g, r)  BY <1>2, <1>4
<1>7. SumOf(f, r) \in Int /\ SumOf(g, r) \in Int  BY <1>5, SumInt
<1>8. SumOf(d, s) = d[p] + SumOf(d, r)
  <2> HIDE DEF d, p
  <2> QED BY <1>3, <1>5, SumFirst DEF p
<1>9. SumOf(f, s) = f[p] + SumOf(f, r) /\ SumOf(g, s) = g[p] + SumOf(g, r)
  BY <1>3, <1>5, SumFirst
<1>10. f[p] \in Int /\ g[p] \in Int /\ d[p] = f[p] - g[p]  BY <1>4
<1>11. SumOf(d, s) # SumOf(f, s) - SumOf(g, s)  OBVIOUS
<1> HIDE DEF p, r, d
<1> QED  BY <1>6, <1>7, <1>8, <1>9, <1>10, <1>11

\* Terms under other names.
LEMMA SumRenamed ==
  ASSUME NEW f, NEW S, IsFiniteSet(S), NEW n,
         \A i, j \in S : n[i] = n[j] => i = j,
         \A i \in S : f[n[i]] \in Int
  PROVE  SumOf([i \in S |-> f[n[i]]], S) = SumOf(f, {n[i] : i \in S})
<1> DEFINE g == [i \in S |-> f[n[i]]]
           image(s) == {n[i] : i \in s}
           Bad == {s \in SUBSET S : SumOf(g, s) # SumOf(f, image(s))}
<1>1. SUFFICES ASSUME Bad # {} PROVE FALSE
  OBVIOUS
<1>2. PICK s \in Bad : \A t \in Bad : t \subseteq s => t = s
  <2>1. Bad \subseteq SUBSET S  OBVIOUS
  <2> HIDE DEF Bad
  <2> QED  BY <1>1, <2>1, SmallestSubset
<1>3. s # {}
  <2>1. image({}) = {}  OBVIOUS
  <2> QED  BY <2>1, SumEmpty
<1> DEFINE p == OneOf(s)
           r == s \ {p}
<1>4. p \in s /\ p \in S  BY <1>3, OneOfIsIn
<1>5. IsFiniteSet(s) /\ IsFiniteSet(image(s))
  <2> DEFINE h == [i \in s |-> n[i]]
  <2>1. IsFiniteSet(s)  BY FS_Subset
  <2>2. h \in [s -> image(s)]  OBVIOUS
  <2>3. \A y \in image(s) : \E i \in s : h[i] = y  OBVIOUS
  <2>4. h \in Surjection(s, image(s))
    <3> HIDE DEF h, image
    <3> QED  BY <2>2, <2>3 DEF Surjection
  <2> HIDE DEF h, image
  <2> QED  BY <2>1, <2>4, FS_Surjection
<1>6. SumOf(g, r) = SumOf(f, image(r))  BY <1>2, <1>4
<1>7. SumOf(g, s) = g[p] + SumOf(g, r) /\ g[p] = f[n[p]]
  <2>1. g[p] = f[n[p]]  BY <1>4
  <2> HIDE DEF g, p
  <2> QED BY <1>3, <1>5, <2>1, SumFirst DEF p
<1>8. n[p] \in image(s) /\ image(s) \ {n[p]} = image(r)
  BY <1>4
<1>9. SumOf(f, image(s)) = f[n[p]] + SumOf(f, image(r))
  <2>1. \A y \in image(s) : f[y] \in Int  OBVIOUS
  <2> HIDE DEF p, r, image
  <2> QED BY <1>5, <1>8, <2>1, SumWithout
<1>10. SumOf(g, s) # SumOf(f, image(s))  OBVIOUS
<1> HIDE DEF p, r, image, g
<1> QED  BY <1>6, <1>7, <1>9, <1>10

\* Summing each group and then the groups is summing everything, however many
\* groups there are and whichever are empty.
LEMMA SumGrouped ==
  ASSUME NEW f, NEW S, IsFiniteSet(S), NEW G, IsFiniteSet(G), NEW of,
         \A x \in S : f[x] \in Int /\ of[x] \in G
  PROVE  SumOf([g \in G |-> SumOf(f, {x \in S : of[x] = g})], G) = SumOf(f, S)
<1> DEFINE in(s, g) == {x \in s : of[x] = g}
           by(s) == [g \in G |-> SumOf(f, in(s, g))]
           Bad == {s \in SUBSET S : SumOf(by(s), G) # SumOf(f, s)}
<1>1. SUFFICES ASSUME Bad # {} PROVE FALSE
  OBVIOUS
<1>2. PICK s \in Bad : \A t \in Bad : t \subseteq s => t = s
  <2>1. Bad \subseteq SUBSET S  OBVIOUS
  <2> HIDE DEF Bad
  <2> QED  BY <1>1, <2>1, SmallestSubset
<1>3. s # {}
  <2>1. \A g \in G : by({})[g] = 0
    <3>1. \A g \in G : by({})[g] = SumOf(f, {})
      <4>1. \A g : in({}, g) = {}  OBVIOUS
      <4> HIDE DEF in
      <4> QED  BY <4>1
    <3> QED  BY <3>1, SumEmpty
  <2>2. SumOf(by({}), G) = 0
    <3> HIDE DEF by
    <3> QED  BY <2>1, SumZero
  <2> HIDE DEF by
  <2> QED  BY <2>2, SumEmpty
<1> DEFINE p == OneOf(s)
           r == s \ {p}
<1>4. p \in s /\ p \in S /\ of[p] \in G /\ f[p] \in Int  BY <1>3, OneOfIsIn
<1>5. \A t \in SUBSET S : IsFiniteSet(t) /\ SumOf(f, t) \in Int  BY FS_Subset, SumInt
<1>6. SumOf(by(r), G) = SumOf(f, r)  BY <1>2, <1>4
<1>7. SumOf(f, s) = f[p] + SumOf(f, r)  BY <1>3, <1>5, SumFirst
<1>8. \A t \in SUBSET S : \A g \in G : by(t)[g] = SumOf(f, in(t, g)) /\ in(t, g) \in SUBSET S
  OBVIOUS
<1>9. by(s)[of[p]] = f[p] + by(r)[of[p]]
  <2>1. p \in in(s, of[p]) /\ in(s, of[p]) \ {p} = in(r, of[p])  BY <1>4
  <2>2. s \in SUBSET S /\ r \in SUBSET S  OBVIOUS
  <2> HIDE DEF in, by, p, r
  <2>3. \A y \in in(s, of[p]) : f[y] \in Int  BY <1>4, <1>8, <2>2
  <2> QED  BY <1>4, <1>5, <1>8, <2>1, <2>2, <2>3, SumWithout
<1>10. \A g \in G \ {of[p]} : by(s)[g] = by(r)[g]
  <2>1. \A g \in G \ {of[p]} : in(s, g) = in(r, g)  BY <1>4
  <2>2. s \in SUBSET S /\ r \in SUBSET S  OBVIOUS
  <2> HIDE DEF in, by, p, r
  <2> QED  BY <1>8, <2>1, <2>2
<1>11. SumOf(by(s), G) = SumOf(by(r), G) + by(s)[of[p]] - by(r)[of[p]]
  <2>1. \A g \in G : by(s)[g] \in Int /\ by(r)[g] \in Int
    <3>1. s \in SUBSET S /\ r \in SUBSET S  OBVIOUS
    <3> HIDE DEF in, by, p, r
    <3> QED  BY <1>5, <1>8, <3>1
  <2> HIDE DEF by, p, r
  <2> QED  BY <1>4, <1>10, <2>1, SumMoved
<1>12. SumOf(f, r) \in Int /\ by(r)[of[p]] \in Int
  <2>1. r \in SUBSET S  OBVIOUS
  <2> HIDE DEF in, by, p, r
  <2> QED  BY <1>4, <1>5, <1>8, <2>1
<1>13. SumOf(by(s), G) # SumOf(f, s)  OBVIOUS
<1> HIDE DEF by, p, r
<1> QED  BY <1>4, <1>6, <1>7, <1>9, <1>11, <1>12, <1>13

-----------------------------------------------------------------------------
(* Listings in ascending order.                                            *)

\* A finite set that is not empty has a member with the largest f.
LEMMA LargestThere ==
  ASSUME NEW f, NEW S, IsFiniteSet(S), S # {}, \A x \in S : f[x] \in Int
  PROVE  \E x \in S : \A y \in S : f[y] <= f[x]
<1> DEFINE Bad == {s \in SUBSET S : s # {} /\ ~\E x \in s : \A y \in s : f[y] <= f[x]}
<1>1. SUFFICES ASSUME Bad # {} PROVE FALSE
  OBVIOUS
<1>2. PICK s \in Bad : \A t \in Bad : t \subseteq s => t = s
  <2>1. Bad \subseteq SUBSET S  OBVIOUS
  <2> HIDE DEF Bad
  <2> QED  BY <1>1, <2>1, SmallestSubset
<1>3. PICK p \in s : TRUE
  OBVIOUS
<1>4. s \ {p} # {}
  BY <1>3
<1>5. PICK x \in s \ {p} : \A y \in s \ {p} : f[y] <= f[x]
  <2>1. s \ {p} \notin Bad  BY <1>2, <1>3
  <2> QED  BY <1>4, <2>1
<1>6. f[p] \in Int /\ \A y \in s : f[y] \in Int
  BY <1>3
<1>7. CASE f[p] <= f[x]
  BY <1>5, <1>7
<1>8. CASE ~(f[p] <= f[x])
  <2>1. \A y \in s : f[y] <= f[p]
    BY <1>5, <1>6, <1>8
  <2> QED  BY <1>3, <2>1
<1> QED  BY <1>7, <1>8

\* rows lists S, each member once, by ascending f.
Lists(rows, S, f) ==
  /\ rows \in [1 .. Cardinality(S) -> S]
  /\ \A i, j \in 1 .. Cardinality(S) : i # j => rows[i] # rows[j]
  /\ \A i, j \in 1 .. Cardinality(S) : i < j => f[rows[i]] <= f[rows[j]]

\* Every finite set can be listed.
LEMMA ListingThere ==
  ASSUME NEW f, NEW S, IsFiniteSet(S), \A x \in S : f[x] \in Int
  PROVE  \E rows : Lists(rows, S, f)
<1> DEFINE Bad == {s \in SUBSET S : ~\E rows : Lists(rows, s, f)}
<1>1. SUFFICES ASSUME Bad # {} PROVE FALSE
  OBVIOUS
<1>2. PICK s \in Bad : \A t \in Bad : t \subseteq s => t = s
  <2>1. Bad \subseteq SUBSET S  OBVIOUS
  <2> HIDE DEF Bad
  <2> QED  BY <1>1, <2>1, SmallestSubset
<1>3. s # {}
  <2>1. [i \in 1 .. 0 |-> 0] \in [1 .. 0 -> {}] /\ \A i \in 1 .. 0 : FALSE
    OBVIOUS
  <2>2. Lists([i \in 1 .. 0 |-> 0], {}, f)
    BY <2>1, FS_EmptySet DEF Lists
  <2> QED  BY <2>2
<1>4. IsFiniteSet(s) /\ \A x \in s : f[x] \in Int
  BY FS_Subset
<1>5. PICK p \in s : \A y \in s : f[y] <= f[p]
  BY <1>3, <1>4, LargestThere
<1> DEFINE t == s \ {p}
           n == Cardinality(t)
<1>6. PICK rows : Lists(rows, t, f)
  <2>1. t \notin Bad  BY <1>2, <1>5
  <2> QED  BY <2>1
<1>7. n \in Nat /\ Cardinality(s) = n + 1
  <2>1. IsFiniteSet(t) /\ t \cup {p} = s /\ p \notin t
    BY <1>4, <1>5, FS_Subset
  <2>2. n \in Nat
    BY <2>1, FS_CardinalityType
  <2>3. Cardinality(t \cup {p}) = Cardinality(t) + 1
    <3> HIDE DEF t
    <3> QED  BY <2>1, FS_AddElement
  <2> QED  BY <2>1, <2>2, <2>3
<1> DEFINE more == [i \in 1 .. n + 1 |-> IF i = n + 1 THEN p ELSE rows[i]]
<1>8. p \notin t /\ \A x \in t : x \in s /\ f[x] <= f[p]
  BY <1>5
<1>9. /\ \A i \in 1 .. n : rows[i] \in t
      /\ \A i, j \in 1 .. n : i # j => rows[i] # rows[j]
      /\ \A i, j \in 1 .. n : i < j => f[rows[i]] <= f[rows[j]]
  BY <1>6 DEF Lists
<1>10. \A i \in 1 .. n + 1 : i = n + 1 \/ i \in 1 .. n
  BY <1>7
<1>11. \A i \in 1 .. n + 1 : more[i] = IF i = n + 1 THEN p ELSE rows[i]
  OBVIOUS
<1>12. more \in [1 .. n + 1 -> s]
  <2>1. \A i \in 1 .. n + 1 : (IF i = n + 1 THEN p ELSE rows[i]) \in s
    <3> HIDE DEF t, n
    <3> QED  BY <1>5, <1>8, <1>9, <1>10
  <2> HIDE DEF t, n
  <2> QED  BY <2>1
<1> HIDE DEF more, t, n
<1>13. \A i, j \in 1 .. n + 1 : i # j => more[i] # more[j]
  BY <1>8, <1>9, <1>10, <1>11
<1>14. \A i, j \in 1 .. n + 1 : i < j => f[more[i]] <= f[more[j]]
  BY <1>7, <1>8, <1>9, <1>10, <1>11
<1>15. Lists(more, s, f)
  BY <1>7, <1>12, <1>13, <1>14 DEF Lists
<1> QED  BY <1>15

\* A listing leaves nothing out.
LEMMA ListingCovers ==
  ASSUME NEW f, NEW S, IsFiniteSet(S), NEW rows, Lists(rows, S, f)
  PROVE  {rows[i] : i \in 1 .. Cardinality(S)} = S
<1> DEFINE n == Cardinality(S)
<1>1. n \in Nat /\ IsFiniteSet(1 .. n) /\ Cardinality(1 .. n) = n
  BY FS_CardinalityType, FS_Interval
<1>2. rows \in Injection(1 .. n, S)
  BY DEF Lists, Injection, IsInjective
<1>3. rows \in Surjection(1 .. n, S)
  BY <1>1, <1>2, FS_Injection
<1> QED  BY <1>3 DEF Surjection

\* Once the running total of an ascending listing is positive it only grows.
LEMMA AscendingGrows ==
  ASSUME NEW n \in Nat, NEW f, \A i \in 1 .. n : f[i] \in Int,
         \A i, j \in 1 .. n : i < j => f[i] <= f[j],
         NEW k \in 1 .. n, SumOf(f, 1 .. k) > 0
  PROVE  SumOf(f, 1 .. k) <= SumOf(f, 1 .. n)
<1>1. IsFiniteSet(1 .. k) /\ IsFiniteSet(1 .. n) /\ 1 .. k \subseteq 1 .. n /\ k \in Int
  BY FS_Interval
<1>2. SumOf(f, 1 .. k) \in Int
  BY <1>1, SumInt
<1>3. f[k] > 0
  <2> SUFFICES ASSUME ~(f[k] > 0) PROVE FALSE
    OBVIOUS
  <2> DEFINE zero == [i \in 1 .. k |-> 0]
  <2>1. \A i \in 1 .. k : f[i] \in Int /\ f[i] <= 0
    BY <1>1
  <2>2. \A i \in 1 .. k : zero[i] = 0
    OBVIOUS
  <2> HIDE DEF zero
  <2>3. SumOf(zero, 1 .. k) = 0
    BY <1>1, <2>2, SumZero
  <2>4. \A i \in 1 .. k : f[i] \in Int /\ zero[i] \in Int /\ f[i] <= zero[i]
    BY <2>1, <2>2
  <2>5. SumOf(f, 1 .. k) <= SumOf(zero, 1 .. k)
    BY <1>1, <2>4, SumAtMost
  <2> QED  BY <1>2, <2>3, <2>5
<1>4. \A i \in (1 .. n) \ (1 .. k) : f[i] \in Nat
  <2> SUFFICES ASSUME NEW i \in (1 .. n) \ (1 .. k) PROVE f[i] \in Nat
    OBVIOUS
  <2>1. k < i /\ f[k] <= f[i] /\ f[i] \in Int /\ f[k] \in Int
    BY <1>1
  <2> QED  BY <1>3, <2>1
<1>5. IsFiniteSet((1 .. n) \ (1 .. k))
  BY <1>1, FS_Subset
<1>6. SumOf(f, (1 .. n) \ (1 .. k)) \in Nat
  BY <1>4, <1>5, SumNat
<1>7. SumOf(f, 1 .. n) = SumOf(f, 1 .. k) + SumOf(f, (1 .. n) \ (1 .. k))
  BY <1>1, SumSplit
<1> QED  BY <1>2, <1>6, <1>7

-----------------------------------------------------------------------------
(* FoldsWith.                                                                  *)

\* What holds for 0 and passes from each number to the next holds up to n.
LEMMA StepByStep ==
  ASSUME NEW n \in Nat, NEW P, 0 \in P, \A k \in 1 .. n : k - 1 \in P => k \in P
  PROVE  \A k \in 0 .. n : k \in P
<1> DEFINE Bad == {k \in 0 .. n : k \notin P}
<1>1. SUFFICES ASSUME Bad # {} PROVE FALSE
  OBVIOUS
<1>2. Bad \subseteq Nat
  OBVIOUS
<1>3. PICK k \in Bad : \A j \in Bad : ~(<<j, k>> \in OpToRel(<, Nat))
  <2> HIDE DEF Bad
  <2> QED  BY <1>1, <1>2, NatLessThanWellFounded, WFMin
<1>4. k \in Nat /\ k # 0
  BY <1>2
<1>5. k - 1 \in Bad
  BY <1>4
<1>6. k - 1 \in Nat /\ k - 1 < k
  BY <1>4
<1>7. <<k - 1, k>> \in OpToRel(<, Nat)
  BY <1>4, <1>6, Zenon DEF OpToRel
<1> QED  BY <1>3, <1>5, <1>7

\* h folds S with step from base: pick says what is taken out of a subset first.
FoldsWith(h, S, A, base, step, pick) ==
  /\ h \in [SUBSET S -> A]
  /\ \A s \in SUBSET S : h[s] = IF s = {} THEN base ELSE step[<<h[s \ {pick[s]}], pick[s]>>]

\* A fold of a step that stays within A, in the order in which pick takes the elements out.
LEMMA FoldThere ==
  ASSUME NEW S, IsFiniteSet(S), NEW A, NEW base \in A, NEW step \in [A \X S -> A],
         NEW pick, \A s \in SUBSET S : s # {} => pick[s] \in s
  PROVE  \E h : FoldsWith(h, S, A, base, step, pick)
<1> USE DEF FoldsWith
<1> DEFINE Fold(h, T) == /\ h \in [SUBSET T -> A]
                         /\ \A s \in SUBSET T : h[s] = IF s = {} THEN base ELSE step[<<h[s \ {pick[s]}], pick[s]>>]
           Bad == {s \in SUBSET S : ~\E h : Fold(h, s)}
<1>1. SUFFICES ASSUME Bad # {} PROVE FALSE
  <2>1. S \notin Bad => \E h : Fold(h, S)
    <3> HIDE DEF Fold
    <3> QED  OBVIOUS
  <2> QED  BY <2>1
<1>2. PICK T \in Bad : \A t \in Bad : t \subseteq T => t = T
  <2>1. Bad \subseteq SUBSET S  OBVIOUS
  <2> HIDE DEF Bad
  <2> QED  BY <1>1, <2>1, SmallestSubset
<1>3. T # {}
  <2>1. Fold([s \in SUBSET {} |-> base], {})
    OBVIOUS
  <2> HIDE DEF Fold
  <2> QED  BY <2>1
<1>4. \A t \in SUBSET T : t # T => \E h : Fold(h, t)
  BY <1>2
<1> DEFINE it(t) == CHOOSE h : Fold(h, t)
<1>5. \A t \in SUBSET T : t # T => Fold(it(t), t)
  BY <1>4
<1>6. \A t \in SUBSET T : t # T => \A s \in SUBSET t : it(t)[s] = it(s)[s]
  <2> DEFINE Odd == {s \in SUBSET T : \E t \in SUBSET T : t # T /\ s \subseteq t /\ it(t)[s] # it(s)[s]}
  <2>1. SUFFICES ASSUME Odd # {} PROVE FALSE
    <3>1. \A s \in SUBSET T : s \notin Odd => \A t \in SUBSET T : t # T /\ s \subseteq t => it(t)[s] = it(s)[s]
      <4> HIDE DEF it
      <4> QED  OBVIOUS
    <3> HIDE DEF Odd, it
    <3> QED  BY <3>1
  <2>2. PICK s \in Odd : \A o \in Odd : o \subseteq s => o = s
    <3>1. Odd \subseteq SUBSET S  OBVIOUS
    <3> HIDE DEF Odd
    <3> QED  BY <2>1, <3>1, SmallestSubset
  <2>3. PICK t \in SUBSET T : t # T /\ s \subseteq t /\ it(t)[s] # it(s)[s]
    OBVIOUS
  <2>4. s \in SUBSET T /\ s # T /\ s \in SUBSET S
    BY <2>3
  <2> DEFINE r == s \ {pick[s]}
  <2>5. Fold(it(t), t) /\ Fold(it(s), s)
    <3> HIDE DEF it, Fold
    <3> QED  BY <1>5, <2>3, <2>4
  <2>6. it(t)[s] = (IF s = {} THEN base ELSE step[<<it(t)[r], pick[s]>>])
    <3> HIDE DEF it
    <3> QED  BY <2>3, <2>5
  <2>7. it(s)[s] = (IF s = {} THEN base ELSE step[<<it(s)[r], pick[s]>>])
    <3> HIDE DEF it
    <3> QED  BY <2>3, <2>5
  <2>8. s # {} /\ pick[s] \in s
    <3> HIDE DEF it, Fold
    <3> QED  BY <2>3, <2>4, <2>6, <2>7
  <2>9. r \subseteq s /\ r # s /\ r \in SUBSET T
    BY <2>8
  <2>10. r \notin Odd
    <3> HIDE DEF Odd, r
    <3> QED  BY <2>2, <2>9
  <2>11. it(t)[r] = it(r)[r] /\ it(s)[r] = it(r)[r]
    <3>1. r \subseteq t  BY <2>3, <2>9
    <3> HIDE DEF it, r
    <3> QED  BY <2>3, <2>4, <2>9, <2>10, <3>1
  <2> HIDE DEF it, r, Odd, Fold
  <2> QED  BY <2>3, <2>6, <2>7, <2>11
<1> DEFINE g == [s \in SUBSET T |-> IF s = T THEN step[<<it(T \ {pick[T]})[T \ {pick[T]}], pick[T]>>] ELSE it(s)[s]]
           q == T \ {pick[T]}
<1>7. pick[T] \in T /\ pick[T] \in S /\ q \in SUBSET T /\ q # T
  BY <1>3
<1>8. ASSUME NEW s \in SUBSET T, s # T PROVE it(s)[s] \in A /\ Fold(it(s), s)
  <2>1. Fold(it(s), s)
    <3> HIDE DEF Fold, it
    <3> QED  BY <1>5, <1>8
  <2> HIDE DEF it
  <2> QED  BY <2>1
<1>9. g[T] = step[<<it(q)[q], pick[T]>>] /\ \A s \in SUBSET T : s # T => g[s] = it(s)[s]
  <2> HIDE DEF it
  <2> QED  OBVIOUS
<1>10. g \in [SUBSET T -> A]
  <2> HIDE DEF it, q, Fold
  <2>1. it(q)[q] \in A /\ <<it(q)[q], pick[T]>> \in A \X S
    BY <1>7, <1>8
  <2>2. \A s \in SUBSET T : g[s] \in A
    <3> HIDE DEF g
    <3> QED  BY <1>8, <1>9, <2>1
  <2>3. g = [s \in SUBSET T |-> g[s]]
    OBVIOUS
  <2> HIDE DEF g
  <2> QED  BY <2>2, <2>3
<1>11. ASSUME NEW s \in SUBSET T
       PROVE  g[s] = IF s = {} THEN base ELSE step[<<g[s \ {pick[s]}], pick[s]>>]
  <2>1. CASE s = T
    <3> HIDE DEF it, Fold, g
    <3> QED  BY <1>3, <1>7, <1>9, <2>1 DEF q
  <2>2. CASE s # T
    <3> DEFINE r == s \ {pick[s]}
    <3>1. it(s)[s] = (IF s = {} THEN base ELSE step[<<it(s)[r], pick[s]>>])
      <4>1. Fold(it(s), s)
        <5> HIDE DEF it, Fold
        <5> QED  BY <1>8, <2>2
      <4> HIDE DEF it
      <4> QED  BY <4>1
    <3>2. r \in SUBSET T /\ r \subseteq s
      OBVIOUS
    <3>3. r # T
      BY <2>2
    <3>4. it(s)[r] = it(r)[r]
      <4> HIDE DEF it, Fold, r
      <4> QED  BY <1>6, <2>2, <3>2
    <3>5. g[s] = it(s)[s] /\ g[r] = it(r)[r]
      <4> HIDE DEF it, Fold, r, g
      <4> QED  BY <1>9, <2>2, <3>2, <3>3
    <3> HIDE DEF it, Fold, g
    <3> QED  BY <3>1, <3>4, <3>5
  <2> QED  BY <2>1, <2>2
<1>12. Fold(g, T)
  <2> HIDE DEF g, it
  <2> QED  BY <1>10, <1>11
<1> HIDE DEF Fold, g, it
<1> QED  BY <1>2, <1>12

\* The larger and the smaller of two.
LEMMA MaxMinOfTwo ==
  ASSUME NEW a \in Int, NEW b \in Int
  PROVE  /\ Max({a, b}) = IF a >= b THEN a ELSE b
         /\ Min({a, b}) = IF a <= b THEN a ELSE b
<1> DEFINE hi == IF a >= b THEN a ELSE b
           lo == IF a <= b THEN a ELSE b
<1>1. hi \in {a, b} /\ \A y \in {a, b} : hi >= y
  OBVIOUS
<1>2. lo \in {a, b} /\ \A y \in {a, b} : lo <= y
  OBVIOUS
<1>3. Max({a, b}) \in {a, b} /\ \A y \in {a, b} : Max({a, b}) >= y
  <2> HIDE DEF hi
  <2> QED  BY <1>1, Zenon DEF Max
<1>4. Min({a, b}) \in {a, b} /\ \A y \in {a, b} : Min({a, b}) <= y
  <2> HIDE DEF lo
  <2> QED  BY <1>2, Zenon DEF Min
<1> QED  BY <1>3, <1>4

\* A finite set of whole numbers has a largest member.
LEMMA MaxIsIn ==
  ASSUME NEW S, IsFiniteSet(S), S # {}, \A x \in S : x \in Int
  PROVE  Max(S) \in S /\ \A y \in S : Max(S) >= y
<1> DEFINE f == [x \in S |-> x]
<1>1. \E x \in S : \A y \in S : f[y] <= f[x]
  <2>1. \A x \in S : f[x] \in Int
    OBVIOUS
  <2> HIDE DEF f
  <2> QED  BY <2>1, LargestThere
<1>2. \E x \in S : \A y \in S : x >= y
  BY <1>1
<1> QED  BY <1>2, Zenon DEF Max

\* The largest of some of the numbers up to n is one of them.
LEMMA MaxOfPart ==
  ASSUME NEW n \in Nat, NEW s \in SUBSET (1 .. n), s # {}
  PROVE  Max(s) \in s /\ Max(s) \in 1 .. n /\ s \ {Max(s)} \in SUBSET (1 .. n)
<1> DEFINE D == 1 .. n
<1>1. IsFiniteSet(D) /\ \A x \in D : x \in Int
  BY FS_Interval
<1>2. s \in SUBSET D
  OBVIOUS
<1>3. Max(s) \in s
  <2> HIDE DEF D
  <2>1. IsFiniteSet(s) /\ \A x \in s : x \in Int
    BY <1>1, <1>2, FS_Subset
  <2> QED  BY <2>1, MaxIsIn
<1> QED  BY <1>3

\* h folds the numbers up to n, from the first to the last.
PrefixFold(h, n, A, base, step) ==
  /\ h \in [SUBSET (1 .. n) -> A]
  /\ \A s \in SUBSET (1 .. n) : h[s] = IF s = {} THEN base ELSE step[<<h[s \ {Max(s)}], Max(s)>>]

\* There is such a fold.
LEMMA PrefixFoldThere ==
  ASSUME NEW n \in Nat, NEW A, NEW base \in A, NEW step \in [A \X (1 .. n) -> A]
  PROVE  \E h : PrefixFold(h, n, A, base, step)
<1> DEFINE D == 1 .. n
           pick == [s \in SUBSET D |-> Max(s)]
<1>1. IsFiniteSet(D)
  BY FS_Interval
<1>2. step \in [A \X D -> A] /\ \A s \in SUBSET D : s # {} => pick[s] \in s
  BY MaxOfPart
<1>3. \A s \in SUBSET D : pick[s] = Max(s)
  OBVIOUS
<1>4. \E h : FoldsWith(h, D, A, base, step, pick)
  <2> HIDE DEF D, pick
  <2> QED  BY <1>1, <1>2, FoldThere
<1>5. PICK h : FoldsWith(h, D, A, base, step, pick)
  BY <1>4
<1>6. PrefixFold(h, n, A, base, step)
  <2> HIDE DEF pick
  <2> QED  BY <1>3, <1>5 DEF FoldsWith, PrefixFold
<1> QED  BY <1>6

\* The last of the first k numbers.
LEMMA LastOfPrefix ==
  ASSUME NEW n \in Nat, NEW k \in 1 .. n
  PROVE  /\ Max(1 .. k) = k /\ (1 .. k) \ {k} = 1 .. (k - 1) /\ 1 .. k # {}
         /\ 1 .. k \in SUBSET (1 .. n) /\ 1 .. (k - 1) \in SUBSET (1 .. n)
<1>1. k \in 1 .. k /\ \A x \in 1 .. k : x <= k /\ x \in Int
  OBVIOUS
<1>2. Max(1 .. k) \in 1 .. k /\ \A y \in 1 .. k : Max(1 .. k) >= y
  <2> DEFINE D == 1 .. k
  <2>1. IsFiniteSet(D)
    <3>1. k \in Int  OBVIOUS
    <3> QED  BY <3>1, FS_Interval
  <2>2. D # {} /\ \A x \in D : x \in Int
    BY <1>1
  <2>3. Max(D) \in D /\ \A y \in D : Max(D) >= y
    <3> HIDE DEF D
    <3> QED  BY <2>1, <2>2, MaxIsIn
  <2> QED  BY <2>3
<1> QED  BY <1>1, <1>2
=============================================================================
