---------------------------- MODULE SumTheorems ----------------------------
(***************************************************************************)
(* What the sums of module Sums are, for every finite set: proved from the *)
(* definition of the fold they are, once, for the modules whose invariants *)
(* add up amounts, quantities or counts.                                   *)
(*                                                                         *)
(* Induction on the size of a set is done on the least size at which a     *)
(* claim fails, because the induction theorems of the library take the     *)
(* claim as an operator.                                                   *)
(***************************************************************************)
EXTENDS Sums, FiniteSetTheorems, WellFoundedInduction, TLAPS

\* A set of naturals that is not empty has a least element.
LEMMA LeastNatural ==
  ASSUME NEW B \in SUBSET Nat, B # {}
  PROVE  \E n \in B : \A m \in B : n <= m
<1> DEFINE Less == OpToRel(<, Nat)
<1>1. \A m, n \in Nat : m < n => <<m, n>> \in Less
  BY DEF OpToRel
<1>2. IsWellFoundedOn(Less, Nat)
  BY NatLessThanWellFounded
<1>3. \E n \in B : \A m \in B : ~(<<m, n>> \in Less)
  <2> HIDE DEF Less
  <2> QED BY <1>2, WFMin
<1>4. QED
  <2>1. PICK n \in B : \A m \in B : ~(<<m, n>> \in Less)
    BY <1>3
  <2>2. \A m \in B : ~(m < n)
    <3> HIDE DEF Less
    <3> QED BY <1>1, <2>1
  <2>3. QED BY <2>2

\* A set of naturals that has 0, and n + 1 with every n, has all of them.
LEMMA NatSetInduction ==
  ASSUME NEW G, 0 \in G, \A n \in Nat : n \in G => n + 1 \in G
  PROVE  \A n \in Nat : n \in G
<1> SUFFICES ASSUME NEW bad \in Nat, bad \notin G PROVE FALSE
  OBVIOUS
<1> DEFINE B == Nat \ G
<1>1. PICK n \in B : \A m \in B : n <= m
  BY LeastNatural
<1>2. n # 0 /\ n - 1 \in Nat
  OBVIOUS
<1>3. n - 1 \in G
  BY <1>1, <1>2
<1>4. QED
  BY <1>2, <1>3
-----------------------------------------------------------------------------
Pick(T) == CHOOSE x \in T : TRUE

\* The equation that the fold's function h on the subsets of S solves.
Folded(f, S, h) ==
  [T \in SUBSET S |-> IF T = {} THEN 0 ELSE f[Pick(T)] + h[T \ {Pick(T)}]]

\* The sum is that function's value.
LEMMA SumUnfold ==
  ASSUME NEW f, NEW S
  PROVE  Sum(f, S) = (CHOOSE h : h = Folded(f, S, h))[S]
BY DEF Sum, MapThenSumSet, MapThenFoldSet, Folded, Pick

\* The element picked is one of the set's.
LEMMA PickIn == ASSUME NEW T, T # {} PROVE Pick(T) \in T
BY DEF Pick

\* Without one of its elements a finite set is one smaller.
LEMMA Smaller ==
  ASSUME NEW T, IsFiniteSet(T), NEW x \in T
  PROVE  /\ IsFiniteSet(T \ {x})
         /\ Cardinality(T) \in Nat /\ Cardinality(T \ {x}) \in Nat
         /\ Cardinality(T) = Cardinality(T \ {x}) + 1
<1>1. IsFiniteSet(T \ {x}) /\ Cardinality(T \ {x}) = Cardinality(T) - 1
  BY FS_RemoveElement
<1>2. Cardinality(T) \in Nat /\ Cardinality(T \ {x}) \in Nat
  BY <1>1, FS_CardinalityType
<1>3. QED BY <1>1, <1>2

\* The equation has a solution: it is built for the subsets of at most n
\* elements, for every n.
LEMMA FoldExists ==
  ASSUME NEW S, IsFiniteSet(S), NEW f, \A x \in S : f[x] \in Int
  PROVE  \E h \in [SUBSET S -> Int] : h = Folded(f, S, h)
<1> DEFINE Small(n) == {T \in SUBSET S : Cardinality(T) <= n}
           Solves(h, n) == \A T \in Small(n) :
             h[T] = IF T = {} THEN 0 ELSE f[Pick(T)] + h[T \ {Pick(T)}]
           G == {n \in Nat : \E h \in [Small(n) -> Int] : Solves(h, n)}
<1>1. \A T \in SUBSET S : IsFiniteSet(T) /\ Cardinality(T) \in Nat
  BY FS_Subset, FS_CardinalityType
<1>2. 0 \in G
  <2>1. Small(0) = {{}}
    BY <1>1, FS_EmptySet
  <2>2. [T \in Small(0) |-> 0] \in [Small(0) -> Int] /\ Solves([T \in Small(0) |-> 0], 0)
    BY <2>1
  <2>3. QED BY <2>2
<1>3. ASSUME NEW n \in Nat, n \in G PROVE n + 1 \in G
  <2>1. PICK h \in [Small(n) -> Int] : Solves(h, n)
    BY <1>3
  <2> DEFINE g == [T \in Small(n + 1) |->
                     IF T \in Small(n) THEN h[T] ELSE f[Pick(T)] + h[T \ {Pick(T)}]]
  <2>2. ASSUME NEW T \in Small(n + 1), T # {}
        PROVE  /\ Pick(T) \in T /\ T \ {Pick(T)} \in Small(n)
               /\ f[Pick(T)] \in Int /\ h[T \ {Pick(T)}] \in Int
    <3>1. Pick(T) \in T /\ T \in SUBSET S /\ IsFiniteSet(T) /\ Cardinality(T) <= n + 1
      BY <2>2, <1>1, PickIn
    <3>2. Cardinality(T \ {Pick(T)}) <= n
      BY <3>1, Smaller
    <3>3. T \ {Pick(T)} \in Small(n)
      BY <3>1, <3>2
    <3>4. QED BY <3>1, <3>3
  <2>3. {} \in Small(n)
    BY FS_EmptySet
  <2>4. g \in [Small(n + 1) -> Int]
    <3>1. ASSUME NEW T \in Small(n + 1)
          PROVE (IF T \in Small(n) THEN h[T] ELSE f[Pick(T)] + h[T \ {Pick(T)}]) \in Int
      <4>1. CASE T \in Small(n)
        BY <4>1
      <4>2. CASE T \notin Small(n)
        <5>1. T # {}
          BY <4>2, <2>3
        <5>2. f[Pick(T)] \in Int /\ h[T \ {Pick(T)}] \in Int
          BY <5>1, <2>2
        <5>3. QED BY <4>2, <5>2
      <4>3. QED BY <4>1, <4>2
    <3> HIDE DEF Small
    <3>2. QED BY <3>1
  <2>5. Small(n) \subseteq Small(n + 1)
    BY <1>1
  <2>6. ASSUME NEW T \in Small(n + 1)
        PROVE  g[T] = IF T = {} THEN 0 ELSE f[Pick(T)] + g[T \ {Pick(T)}]
    <3>1. CASE T = {}
      BY <3>1, <2>1, <2>3
    <3>2. CASE T # {}
      <4>1. T \ {Pick(T)} \in Small(n) /\ T \ {Pick(T)} \in Small(n + 1)
        BY <3>2, <2>2, <2>5
      <4>2. g[T \ {Pick(T)}] = h[T \ {Pick(T)}]
        BY <4>1
      <4>3. g[T] = f[Pick(T)] + h[T \ {Pick(T)}]
        BY <3>2, <2>1
      <4>4. QED BY <3>2, <4>2, <4>3
    <3>3. QED BY <3>1, <3>2
  <2>7. Solves(g, n + 1)
    BY <2>6
  <2>8. QED
    <3> HIDE DEF g, Small, Solves
    <3> QED BY <2>4, <2>7
<1>4. Cardinality(S) \in G
  <2> HIDE DEF G
  <2> QED BY <1>1, <1>2, <1>3, NatSetInduction
<1>5. Small(Cardinality(S)) = SUBSET S
  BY <1>1, FS_Subset
<1>6. PICK h \in [SUBSET S -> Int] : Solves(h, Cardinality(S))
  BY <1>4, <1>5
<1>7. h = Folded(f, S, h)
  BY <1>5, <1>6 DEF Folded
<1>8. QED BY <1>7

\* Two solutions agree on every set that both are defined on.
LEMMA FoldUnique ==
  ASSUME NEW S1, NEW S2, NEW f, NEW h1, NEW h2, NEW S, IsFiniteSet(S),
         S \subseteq S1, S \subseteq S2,
         h1 = Folded(f, S1, h1), h2 = Folded(f, S2, h2)
  PROVE  h1[S] = h2[S]
<1> DEFINE G == {n \in Nat : \A T \in SUBSET S : Cardinality(T) = n => h1[T] = h2[T]}
<1>1. \A T \in SUBSET S : IsFiniteSet(T) /\ Cardinality(T) \in Nat
  BY FS_Subset, FS_CardinalityType
<1>2. ASSUME NEW T \in SUBSET S
      PROVE  /\ h1[T] = IF T = {} THEN 0 ELSE f[Pick(T)] + h1[T \ {Pick(T)}]
             /\ h2[T] = IF T = {} THEN 0 ELSE f[Pick(T)] + h2[T \ {Pick(T)}]
  <2>1. T \in SUBSET S1 /\ T \in SUBSET S2
    OBVIOUS
  <2>2. h1[T] = Folded(f, S1, h1)[T] /\ h2[T] = Folded(f, S2, h2)[T]
    OBVIOUS
  <2>3. QED BY <2>1, <2>2 DEF Folded
<1>3. 0 \in G
  BY <1>1, <1>2, FS_EmptySet
<1>4. ASSUME NEW n \in Nat, n \in G PROVE n + 1 \in G
  <2> SUFFICES ASSUME NEW T \in SUBSET S, Cardinality(T) = n + 1 PROVE h1[T] = h2[T]
    OBVIOUS
  <2>1. T # {}
    BY FS_EmptySet
  <2>2. Cardinality(T \ {Pick(T)}) = n /\ T \ {Pick(T)} \in SUBSET S
    BY <2>1, <1>1, PickIn, Smaller
  <2>3. h1[T \ {Pick(T)}] = h2[T \ {Pick(T)}]
    BY <2>2, <1>4
  <2>4. QED BY <2>1, <2>3, <1>2
<1>5. Cardinality(S) \in G
  <2> HIDE DEF G
  <2> QED BY <1>1, <1>3, <1>4, NatSetInduction
<1>6. QED BY <1>5

\* h gives the sums over the subsets of S, and solves the equation.
IsFold(h, f, S) ==
  /\ h \in [SUBSET S -> Int]
  /\ h = Folded(f, S, h)
  /\ \A T \in SUBSET S : Sum(f, T) = h[T]

\* There is such a function.
LEMMA SumSolution ==
  ASSUME NEW S, IsFiniteSet(S), NEW f, \A x \in S : f[x] \in Int
  PROVE  \E h : IsFold(h, f, S)
<1>1. PICK h \in [SUBSET S -> Int] : h = Folded(f, S, h)
  BY FoldExists
<1>2. ASSUME NEW T \in SUBSET S PROVE Sum(f, T) = h[T]
  <2> DEFINE k == CHOOSE g : g = Folded(f, T, g)
  <2>1. IsFiniteSet(T) /\ \A x \in T : f[x] \in Int
    BY FS_Subset
  <2>2. \E g : g = Folded(f, T, g)
    BY <2>1, FoldExists
  <2>3. k = Folded(f, T, k)
    BY <2>2
  <2>4. Sum(f, T) = k[T]
    BY SumUnfold
  <2>5. k[T] = h[T]
    <3> HIDE DEF k
    <3> QED BY <1>1, <2>1, <2>3, FoldUnique
  <2>6. QED BY <2>4, <2>5
<1>3. QED BY <1>1, <1>2 DEF IsFold
-----------------------------------------------------------------------------
\* The sum over no element is 0.
LEMMA SumEmpty == ASSUME NEW f PROVE Sum(f, {}) = 0
<1>1. PICK h : IsFold(h, f, {})
  BY SumSolution, FS_EmptySet
<1>2. h[{}] = 0
  BY <1>1 DEF IsFold, Folded
<1>3. QED BY <1>1, <1>2 DEF IsFold

\* A sum of integers is an integer.
LEMMA SumType ==
  ASSUME NEW S, IsFiniteSet(S), NEW f, \A x \in S : f[x] \in Int
  PROVE  Sum(f, S) \in Int
<1>1. PICK h : IsFold(h, f, S)
  BY SumSolution
<1>2. QED BY <1>1 DEF IsFold

\* The element that the fold picks can be taken out of the sum ...
LEMMA SumPick ==
  ASSUME NEW S, IsFiniteSet(S), NEW f, \A x \in S : f[x] \in Int, S # {}
  PROVE  Sum(f, S) = f[Pick(S)] + Sum(f, S \ {Pick(S)})
<1>1. PICK h : IsFold(h, f, S)
  BY SumSolution
<1>2. h[S] = Folded(f, S, h)[S]
  BY <1>1 DEF IsFold
<1>3. h[S] = f[Pick(S)] + h[S \ {Pick(S)}]
  BY <1>2 DEF Folded
<1>4. QED BY <1>1, <1>3 DEF IsFold

\* ... and so can any other: the order of the fold does not matter.
LEMMA SumRemove ==
  ASSUME NEW S, IsFiniteSet(S), NEW f, \A x \in S : f[x] \in Int, NEW e \in S
  PROVE  Sum(f, S) = f[e] + Sum(f, S \ {e})
<1> DEFINE G == {n \in Nat : \A T \in SUBSET S : Cardinality(T) = n =>
                   \A x \in T : Sum(f, T) = f[x] + Sum(f, T \ {x})}
<1>1. \A T \in SUBSET S : /\ IsFiniteSet(T) /\ Cardinality(T) \in Nat
                          /\ \A x \in T : f[x] \in Int
                          /\ Sum(f, T) \in Int
  BY FS_Subset, FS_CardinalityType, SumType
<1>2. 0 \in G
  BY <1>1, FS_EmptySet
<1>3. ASSUME NEW n \in Nat, n \in G PROVE n + 1 \in G
  <2> SUFFICES ASSUME NEW T \in SUBSET S, Cardinality(T) = n + 1, NEW x \in T
               PROVE  Sum(f, T) = f[x] + Sum(f, T \ {x})
    OBVIOUS
  <2> DEFINE p == Pick(T)
  <2>1. p \in T /\ Sum(f, T) = f[p] + Sum(f, T \ {p})
    BY <1>1, PickIn, SumPick
  <2>2. CASE x = p
    BY <2>1, <2>2
  <2>3. CASE x # p
    <3> HIDE DEF p
    <3>1. Cardinality(T \ {p}) = n /\ Cardinality(T \ {x}) = n
      BY <1>1, <2>1, Smaller
    <3>2. /\ T \ {p} \in SUBSET S /\ T \ {x} \in SUBSET S
          /\ x \in T \ {p} /\ p \in T \ {x}
          /\ (T \ {x}) \ {p} = (T \ {p}) \ {x}
          /\ (T \ {p}) \ {x} \in SUBSET S
      BY <2>1, <2>3
    <3>3. Sum(f, T \ {p}) = f[x] + Sum(f, (T \ {p}) \ {x})
      BY <1>3, <3>1, <3>2
    <3>4. Sum(f, T \ {x}) = f[p] + Sum(f, (T \ {x}) \ {p})
      BY <1>3, <3>1, <3>2
    <3>5. Sum(f, (T \ {p}) \ {x}) \in Int /\ f[p] \in Int /\ f[x] \in Int
      BY <1>1, <2>1, <3>2
    <3>6. Sum(f, T \ {x}) = f[p] + Sum(f, (T \ {p}) \ {x})
      BY <3>2, <3>4, Zenon
    <3>7. QED BY <2>1, <3>3, <3>5, <3>6
  <2>4. QED BY <2>2, <2>3
<1>4. Cardinality(S) \in G
  <2> HIDE DEF G
  <2> QED BY <1>1, <1>2, <1>3, NatSetInduction
<1>5. QED BY <1>4

\* A new element adds its value.
LEMMA SumAdd ==
  ASSUME NEW S, IsFiniteSet(S), NEW f, \A x \in S : f[x] \in Int,
         NEW e, e \notin S, f[e] \in Int
  PROVE  Sum(f, S \cup {e}) = Sum(f, S) + f[e]
<1>1. IsFiniteSet(S \cup {e}) /\ \A x \in S \cup {e} : f[x] \in Int
  BY FS_AddElement
<1>2. e \in S \cup {e} /\ (S \cup {e}) \ {e} = S
  OBVIOUS
<1>3. Sum(f, S \cup {e}) = f[e] + Sum(f, (S \cup {e}) \ {e})
  BY <1>1, <1>2, SumRemove
<1>4. Sum(f, S \cup {e}) = f[e] + Sum(f, S)
  BY <1>2, <1>3, Zenon
<1>5. Sum(f, S) \in Int
  BY SumType
<1>6. QED BY <1>4, <1>5

\* Only the values at the elements matter.
LEMMA SumSame ==
  ASSUME NEW S, IsFiniteSet(S), NEW f, NEW g,
         \A x \in S : f[x] \in Int /\ g[x] = f[x]
  PROVE  Sum(g, S) = Sum(f, S)
<1> DEFINE G == {n \in Nat : \A T \in SUBSET S : Cardinality(T) = n => Sum(g, T) = Sum(f, T)}
<1>1. \A T \in SUBSET S : IsFiniteSet(T) /\ Cardinality(T) \in Nat
  BY FS_Subset, FS_CardinalityType
<1>2. 0 \in G
  BY <1>1, FS_EmptySet, SumEmpty
<1>3. ASSUME NEW n \in Nat, n \in G PROVE n + 1 \in G
  <2> SUFFICES ASSUME NEW T \in SUBSET S, Cardinality(T) = n + 1
               PROVE  Sum(g, T) = Sum(f, T)
    OBVIOUS
  <2>1. PICK x \in T : TRUE
    BY FS_EmptySet
  <2>2. Cardinality(T \ {x}) = n /\ T \ {x} \in SUBSET S
    BY <1>1, Smaller
  <2>3. Sum(g, T \ {x}) = Sum(f, T \ {x})
    BY <1>3, <2>2
  <2>4. Sum(f, T) = f[x] + Sum(f, T \ {x}) /\ Sum(g, T) = g[x] + Sum(g, T \ {x})
    BY <1>1, SumRemove
  <2>5. QED BY <2>3, <2>4
<1>4. Cardinality(S) \in G
  <2> HIDE DEF G
  <2> QED BY <1>1, <1>2, <1>3, NatSetInduction
<1>5. QED BY <1>4

\* f and g give integers on S, and differ on D only.
SameBut(f, g, S, D) ==
  \A x \in S : f[x] \in Int /\ g[x] \in Int /\ (x \notin D => g[x] = f[x])

\* A change at one element changes the sum by as much.
LEMMA SumChange ==
  ASSUME NEW S, IsFiniteSet(S), NEW f, NEW g, NEW e \in S, SameBut(f, g, S, {e})
  PROVE  Sum(g, S) = Sum(f, S) + (g[e] - f[e])
<1>1. \A x \in S : f[x] \in Int /\ g[x] \in Int /\ (x # e => g[x] = f[x])
  BY DEF SameBut
<1>2. Sum(f, S) = f[e] + Sum(f, S \ {e}) /\ Sum(g, S) = g[e] + Sum(g, S \ {e})
  BY <1>1, SumRemove
<1>3. IsFiniteSet(S \ {e}) /\ \A x \in S \ {e} : f[x] \in Int /\ g[x] = f[x]
  BY <1>1, FS_RemoveElement
<1>4. Sum(g, S \ {e}) = Sum(f, S \ {e}) /\ Sum(f, S \ {e}) \in Int
  BY <1>3, SumSame, SumType
<1>5. QED BY <1>1, <1>2, <1>4

\* A sum of naturals is a natural, and no smaller than any of them.
LEMMA SumNat ==
  ASSUME NEW S, IsFiniteSet(S), NEW f, \A x \in S : f[x] \in Nat
  PROVE  Sum(f, S) \in Nat /\ \A x \in S : f[x] <= Sum(f, S)
<1> DEFINE G == {n \in Nat : \A T \in SUBSET S : Cardinality(T) = n => Sum(f, T) \in Nat}
<1>1. \A T \in SUBSET S : IsFiniteSet(T) /\ Cardinality(T) \in Nat
  BY FS_Subset, FS_CardinalityType
<1>2. 0 \in G
  BY <1>1, FS_EmptySet, SumEmpty
<1>3. ASSUME NEW n \in Nat, n \in G PROVE n + 1 \in G
  <2> SUFFICES ASSUME NEW T \in SUBSET S, Cardinality(T) = n + 1 PROVE Sum(f, T) \in Nat
    OBVIOUS
  <2>1. PICK x \in T : TRUE
    BY FS_EmptySet
  <2>2. Cardinality(T \ {x}) = n /\ T \ {x} \in SUBSET S
    BY <1>1, Smaller
  <2>3. Sum(f, T \ {x}) \in Nat
    BY <1>3, <2>2
  <2>4. Sum(f, T) = f[x] + Sum(f, T \ {x})
    BY <1>1, SumRemove
  <2>5. QED BY <2>3, <2>4
<1>4. \A n \in Nat : n \in G
  <2> HIDE DEF G
  <2> QED BY <1>2, <1>3, NatSetInduction
<1>5. \A T \in SUBSET S : Sum(f, T) \in Nat
  BY <1>1, <1>4
<1>6. ASSUME NEW x \in S PROVE f[x] <= Sum(f, S)
  <2>1. Sum(f, S) = f[x] + Sum(f, S \ {x})
    BY SumRemove
  <2>2. QED BY <1>5, <2>1
<1>7. QED BY <1>5, <1>6

\* Where two values change and what they are together does not, no sum changes.
LEMMA SumMoved ==
  ASSUME NEW S, IsFiniteSet(S), NEW f, NEW g, NEW a \in S, NEW b \in S, a # b,
         SameBut(f, g, S, {a, b}), g[a] + g[b] = f[a] + f[b]
  PROVE  Sum(g, S) = Sum(f, S)
<1> DEFINE h == [x \in S |-> IF x = a THEN g[a] ELSE f[x]]
<1>1. h[a] = g[a] /\ h[b] = f[b]
  OBVIOUS
<1>2. SameBut(f, h, S, {a}) /\ SameBut(h, g, S, {b})
  BY DEF SameBut
<1>3. /\ f[a] \in Int /\ f[b] \in Int /\ g[a] \in Int /\ g[b] \in Int
      /\ \A x \in S : f[x] \in Int
  BY DEF SameBut
<1> HIDE DEF h
<1>4. Sum(h, S) = Sum(f, S) + (h[a] - f[a])
  BY <1>2, SumChange
<1>5. Sum(g, S) = Sum(h, S) + (g[b] - h[b])
  BY <1>2, SumChange
<1>6. Sum(f, S) \in Int
  BY <1>3, SumType
<1>7. QED BY <1>1, <1>3, <1>4, <1>5, <1>6

\* Two sums whose terms change by as much, at one element, do so themselves.
LEMMA SumShift ==
  ASSUME NEW S, IsFiniteSet(S), NEW f, NEW g, NEW h, NEW k, NEW e \in S,
         SameBut(f, g, S, {e}), SameBut(h, k, S, {e}), g[e] - f[e] = k[e] - h[e]
  PROVE  Sum(g, S) - Sum(f, S) = Sum(k, S) - Sum(h, S)
<1>1. Sum(g, S) = Sum(f, S) + (g[e] - f[e]) /\ Sum(k, S) = Sum(h, S) + (k[e] - h[e])
  BY SumChange
<1>2. \A x \in S : f[x] \in Int /\ g[x] \in Int /\ h[x] \in Int /\ k[x] \in Int
  BY DEF SameBut
<1>3. Sum(f, S) \in Int /\ Sum(h, S) \in Int
  BY <1>2, SumType
<1>4. QED BY <1>1, <1>2, <1>3
\* The sum over two sets without a common element is the sum of their sums.
LEMMA SumUnion ==
  ASSUME NEW A, NEW B, IsFiniteSet(A), IsFiniteSet(B), A \cap B = {}, NEW f,
         \A x \in A \cup B : f[x] \in Int
  PROVE  Sum(f, A \cup B) = Sum(f, A) + Sum(f, B)
<1> DEFINE G == {n \in Nat : \A T \in SUBSET B : Cardinality(T) = n =>
                   Sum(f, A \cup T) = Sum(f, A) + Sum(f, T)}
<1>1. ASSUME NEW T \in SUBSET B
      PROVE  /\ IsFiniteSet(T) /\ Cardinality(T) \in Nat /\ IsFiniteSet(A \cup T)
             /\ Sum(f, T) \in Int /\ Sum(f, A) \in Int
  <2>1. IsFiniteSet(T) /\ \A x \in T : f[x] \in Int
    BY FS_Subset
  <2> QED BY <2>1, FS_CardinalityType, FS_Union, SumType
<1>2. 0 \in G
  <2> SUFFICES ASSUME NEW T \in SUBSET B, Cardinality(T) = 0
               PROVE  Sum(f, A \cup T) = Sum(f, A) + Sum(f, T)
    OBVIOUS
  <2>1. T = {}
    BY <1>1, FS_EmptySet
  <2>2. A \cup T = A /\ Sum(f, T) = 0
    BY <2>1, SumEmpty
  <2>3. Sum(f, A) \in Int
    BY <1>1
  <2>4. Sum(f, A \cup T) = Sum(f, A)
    BY <2>2, Zenon
  <2> QED BY <2>2, <2>3, <2>4
<1>3. ASSUME NEW n \in Nat, n \in G PROVE n + 1 \in G
  <2> SUFFICES ASSUME NEW T \in SUBSET B, Cardinality(T) = n + 1
               PROVE  Sum(f, A \cup T) = Sum(f, A) + Sum(f, T)
    OBVIOUS
  <2>1. PICK x \in T : TRUE
    BY FS_EmptySet
  <2>2. IsFiniteSet(T) /\ T \ {x} \in SUBSET B
    BY <1>1
  <2>3. Cardinality(T \ {x}) = n
    <3>1. Cardinality(T \ {x}) \in Nat /\ Cardinality(T) = Cardinality(T \ {x}) + 1
      BY <2>1, <2>2, Smaller
    <3> QED BY <3>1
  <2>4. Sum(f, A \cup (T \ {x})) = Sum(f, A) + Sum(f, T \ {x})
    BY <1>3, <2>2, <2>3
  <2>5. Sum(f, T) = f[x] + Sum(f, T \ {x})
    BY <2>1, <2>2, SumRemove
  <2>6. x \in A \cup T /\ x \notin A /\ (A \cup T) \ {x} = A \cup (T \ {x})
    BY <2>1
  <2>7. Sum(f, A \cup T) = f[x] + Sum(f, (A \cup T) \ {x})
    <3>1. IsFiniteSet(A \cup T) /\ \A y \in A \cup T : f[y] \in Int
      BY <1>1
    <3> QED BY <2>6, <3>1, SumRemove
  <2>8. Sum(f, A \cup T) = f[x] + Sum(f, A \cup (T \ {x}))
    BY <2>6, <2>7, Zenon
  <2>9. f[x] \in Int /\ Sum(f, A) \in Int /\ Sum(f, T \ {x}) \in Int
    BY <1>1, <2>1, <2>2
  <2> QED BY <2>4, <2>5, <2>8, <2>9
<1>4. \A n \in Nat : n \in G
  <2> HIDE DEF G
  <2> QED BY <1>2, <1>3, NatSetInduction
<1>5. B \in SUBSET B /\ Cardinality(B) \in Nat
  BY <1>1
<1> QED BY <1>4, <1>5

\* Of naturals a part sums up to no more than the whole.
LEMMA SumPart ==
  ASSUME NEW S, IsFiniteSet(S), NEW T \in SUBSET S, NEW f, \A x \in S : f[x] \in Nat
  PROVE  Sum(f, T) \in Nat /\ Sum(f, S) \in Nat /\ Sum(f, T) <= Sum(f, S)
<1>1. IsFiniteSet(T) /\ IsFiniteSet(S \ T) /\ T \cap (S \ T) = {}
  BY FS_Subset
<1>2. Sum(f, T) \in Nat /\ Sum(f, S \ T) \in Nat
  BY <1>1, SumNat
<1>3. T \cup (S \ T) = S
  OBVIOUS
<1>4. Sum(f, T \cup (S \ T)) = Sum(f, T) + Sum(f, S \ T)
  BY <1>1, SumUnion
<1>5. Sum(f, S) = Sum(f, T) + Sum(f, S \ T)
  BY <1>3, <1>4, Zenon
<1> QED BY <1>2, <1>5

\* Values that move one place up sum up to the same.
LEMMA SumMovedUp ==
  ASSUME NEW a \in Int, NEW b \in Int, NEW f, NEW g,
         \A i \in a..b : f[i] \in Int /\ g[i + 1] = f[i]
  PROVE  Sum(g, (a + 1)..(b + 1)) = Sum(f, a..b)
<1> DEFINE G == {n \in Nat : a + n <= b + 1 =>
                   Sum(g, (a + 1)..(a + n)) = Sum(f, a..(a + n - 1))}
<1>1. ASSUME NEW n \in Nat, a + n <= b + 1
      PROVE  /\ IsFiniteSet((a + 1)..(a + n)) /\ IsFiniteSet(a..(a + n - 1))
             /\ \A i \in a..(a + n - 1) : f[i] \in Int
             /\ \A i \in (a + 1)..(a + n) : g[i] \in Int
  <2>1. \A i \in (a + 1)..(a + n) : i - 1 \in a..b /\ i = (i - 1) + 1
    BY <1>1
  <2>2. \A i \in a..(a + n - 1) : i \in a..b
    BY <1>1
  <2>3. \A i \in (a + 1)..(a + n) : g[i] \in Int
    BY <2>1
  <2>4. IsFiniteSet((a + 1)..(a + n)) /\ IsFiniteSet(a..(a + n - 1))
    BY FS_Interval
  <2> QED BY <2>2, <2>3, <2>4
<1>2. 0 \in G
  <2>1. (a + 1)..(a + 0) = {} /\ a..(a + 0 - 1) = {}
    OBVIOUS
  <2>2. Sum(g, (a + 1)..(a + 0)) = 0 /\ Sum(f, a..(a + 0 - 1)) = 0
    BY <2>1, SumEmpty, Zenon
  <2> QED BY <2>2
<1>3. ASSUME NEW n \in Nat, n \in G PROVE n + 1 \in G
  <2> SUFFICES ASSUME a + (n + 1) <= b + 1
               PROVE  Sum(g, (a + 1)..(a + (n + 1))) = Sum(f, a..(a + (n + 1) - 1))
    OBVIOUS
  <2>1. a + n <= b + 1 /\ Sum(g, (a + 1)..(a + n)) = Sum(f, a..(a + n - 1))
    BY <1>3
  <2>2. /\ (a + 1)..(a + (n + 1)) = ((a + 1)..(a + n)) \cup {a + n + 1}
        /\ a..(a + (n + 1) - 1) = (a..(a + n - 1)) \cup {a + n}
        /\ a + n + 1 \notin (a + 1)..(a + n) /\ a + n \notin a..(a + n - 1)
        /\ a + n \in a..b
    OBVIOUS
  <2>3. f[a + n] \in Int /\ g[a + n + 1] = f[a + n]
    BY <2>2
  <2>4. Sum(g, ((a + 1)..(a + n)) \cup {a + n + 1})
          = Sum(g, (a + 1)..(a + n)) + g[a + n + 1]
    <3> DEFINE L == (a + 1)..(a + n)
    <3>1. IsFiniteSet(L) /\ \A i \in L : g[i] \in Int
      BY <1>1, <2>1
    <3>2. a + n + 1 \notin L /\ g[a + n + 1] \in Int
      BY <2>2, <2>3
    <3> HIDE DEF L
    <3>3. Sum(g, L \cup {a + n + 1}) = Sum(g, L) + g[a + n + 1]
      BY <3>1, <3>2, SumAdd
    <3> QED BY <3>3 DEF L
  <2>5. Sum(f, (a..(a + n - 1)) \cup {a + n}) = Sum(f, a..(a + n - 1)) + f[a + n]
    <3> DEFINE L == a..(a + n - 1)
    <3>1. IsFiniteSet(L) /\ \A i \in L : f[i] \in Int
      BY <1>1, <2>1
    <3>2. a + n \notin L /\ f[a + n] \in Int
      BY <2>2, <2>3
    <3> HIDE DEF L
    <3>3. Sum(f, L \cup {a + n}) = Sum(f, L) + f[a + n]
      BY <3>1, <3>2, SumAdd
    <3> QED BY <3>3 DEF L
  <2> QED BY <2>1, <2>2, <2>3, <2>4, <2>5, Zenon
<1>4. \A n \in Nat : n \in G
  <2> HIDE DEF G
  <2> QED BY <1>2, <1>3, NatSetInduction
<1>5. CASE b >= a
  <2>1. b - a + 1 \in Nat /\ a + (b - a + 1) = b + 1 /\ a + (b - a + 1) - 1 = b
    BY <1>5
  <2>2. Sum(g, (a + 1)..(a + (b - a + 1))) = Sum(f, a..(a + (b - a + 1) - 1))
    BY <1>4, <2>1
  <2> QED BY <2>1, <2>2, Zenon
<1>6. CASE b < a
  <2>1. (a + 1)..(b + 1) = {} /\ a..b = {}
    BY <1>6
  <2> QED BY <2>1, SumEmpty, Zenon
<1> QED BY <1>5, <1>6

-----------------------------------------------------------------------------
(* Counting.                                                               *)

\* Two subsets of a finite set that agree but for one element differ in size by
\* that element.
LEMMA CountChange ==
  ASSUME NEW S, IsFiniteSet(S), NEW A, NEW B, A \subseteq S, B \subseteq S,
         NEW s, A \ {s} = B \ {s}
  PROVE  /\ Cardinality(S) \in Nat
         /\ Cardinality(A) \in 0..Cardinality(S) /\ Cardinality(B) \in 0..Cardinality(S)
         /\ Cardinality(B) = Cardinality(A) + (IF s \in B THEN 1 ELSE 0)
                                            - (IF s \in A THEN 1 ELSE 0)
<1>1. /\ IsFiniteSet(A) /\ IsFiniteSet(B) /\ IsFiniteSet(A \ {s})
      /\ Cardinality(S) \in Nat /\ Cardinality(A) \in Nat /\ Cardinality(B) \in Nat
      /\ Cardinality(A) <= Cardinality(S) /\ Cardinality(B) <= Cardinality(S)
  BY FS_Subset, FS_CardinalityType
<1>2. Cardinality(A \ {s}) \in Nat /\ Cardinality(B \ {s}) = Cardinality(A \ {s})
  BY <1>1, FS_CardinalityType, Zenon
<1>3. Cardinality(A) = Cardinality(A \ {s}) + (IF s \in A THEN 1 ELSE 0)
  BY <1>1, <1>2, FS_RemoveElement
<1>4. Cardinality(B) = Cardinality(B \ {s}) + (IF s \in B THEN 1 ELSE 0)
  BY <1>1, <1>2, FS_RemoveElement
<1> QED
  BY <1>1, <1>2, <1>3, <1>4

\* What is a combination of two values at every element is, summed up, that
\* combination of the sums.
LEMMA SumCombined ==
  ASSUME NEW S, IsFiniteSet(S), NEW f, NEW g, NEW h, NEW a \in Int, NEW b \in Int,
         \A x \in S : f[x] \in Int /\ g[x] \in Int /\ h[x] = a * f[x] + b * g[x]
  PROVE  Sum(h, S) = a * Sum(f, S) + b * Sum(g, S)
<1> DEFINE G == {n \in Nat : \A T \in SUBSET S : Cardinality(T) = n =>
                   Sum(h, T) = a * Sum(f, T) + b * Sum(g, T)}
<1>0. \A x \in S : a * f[x] + b * g[x] \in Int
  OBVIOUS
<1>1. ASSUME NEW T \in SUBSET S
      PROVE  /\ IsFiniteSet(T) /\ Cardinality(T) \in Nat
             /\ Sum(f, T) \in Int /\ Sum(g, T) \in Int
  <2>1. IsFiniteSet(T) /\ (\A x \in T : f[x] \in Int) /\ (\A x \in T : g[x] \in Int)
    BY FS_Subset
  <2> QED BY <2>1, FS_CardinalityType, SumType
<1>2. 0 \in G
  <2> SUFFICES ASSUME NEW T \in SUBSET S, Cardinality(T) = 0
               PROVE  Sum(h, T) = a * Sum(f, T) + b * Sum(g, T)
    OBVIOUS
  <2>1. T = {}
    BY <1>1, FS_EmptySet
  <2>2. Sum(f, T) = 0 /\ Sum(g, T) = 0 /\ Sum(h, T) = 0
    BY <2>1, SumEmpty
  <2> QED BY <2>2
<1>3. ASSUME NEW n \in Nat, n \in G PROVE n + 1 \in G
  <2> SUFFICES ASSUME NEW T \in SUBSET S, Cardinality(T) = n + 1
               PROVE  Sum(h, T) = a * Sum(f, T) + b * Sum(g, T)
    OBVIOUS
  <2>1. PICK x \in T : TRUE
    BY FS_EmptySet
  <2>2. IsFiniteSet(T) /\ T \ {x} \in SUBSET S /\ x \in S
    BY <1>1
  <2>3. Cardinality(T \ {x}) = n
    <3>1. Cardinality(T \ {x}) \in Nat /\ Cardinality(T) = Cardinality(T \ {x}) + 1
      BY <2>1, <2>2, Smaller
    <3> QED BY <3>1
  <2>4. Sum(h, T \ {x}) = a * Sum(f, T \ {x}) + b * Sum(g, T \ {x})
    BY <1>3, <2>2, <2>3
  <2>5. /\ Sum(f, T) = f[x] + Sum(f, T \ {x})
        /\ Sum(g, T) = g[x] + Sum(g, T \ {x})
        /\ Sum(h, T) = h[x] + Sum(h, T \ {x})
    <3>1. /\ \A y \in T : f[y] \in Int
          /\ \A y \in T : g[y] \in Int
          /\ \A y \in T : h[y] \in Int
      BY <1>0
    <3> QED BY <2>1, <2>2, <3>1, SumRemove
  <2>6. ASSUME NEW u \in Int, NEW v \in Int, NEW p \in Int, NEW q \in Int
        PROVE  a * (u + p) + b * (v + q) = (a * u + b * v) + (a * p + b * q)
    OBVIOUS
  <2>7. /\ f[x] \in Int /\ g[x] \in Int /\ h[x] = a * f[x] + b * g[x]
        /\ Sum(f, T \ {x}) \in Int /\ Sum(g, T \ {x}) \in Int
    BY <1>1, <2>2
  <2> QED BY <2>4, <2>5, <2>6, <2>7
<1>4. \A n \in Nat : n \in G
  <2> HIDE DEF G
  <2> QED BY <1>2, <1>3, NatSetInduction
<1>5. S \in SUBSET S /\ Cardinality(S) \in Nat
  BY <1>1
<1> QED BY <1>4, <1>5

\* Terms within bounds sum up to no less and no more than so many bounds.
LEMMA SumWithin ==
  ASSUME NEW S, IsFiniteSet(S), NEW f, NEW low \in Int, NEW high \in Int,
         \A x \in S : f[x] \in low..high
  PROVE  Sum(f, S) \in (low * Cardinality(S))..(high * Cardinality(S))
<1> DEFINE G == {n \in Nat : \A T \in SUBSET S : Cardinality(T) = n =>
                   low * n <= Sum(f, T) /\ Sum(f, T) <= high * n}
<1>1. ASSUME NEW T \in SUBSET S
      PROVE  IsFiniteSet(T) /\ Cardinality(T) \in Nat /\ Sum(f, T) \in Int
  <2>1. IsFiniteSet(T) /\ \A x \in T : f[x] \in Int
    BY FS_Subset
  <2> QED BY <2>1, FS_CardinalityType, SumType
<1>2. 0 \in G
  <2> SUFFICES ASSUME NEW T \in SUBSET S, Cardinality(T) = 0
               PROVE  low * 0 <= Sum(f, T) /\ Sum(f, T) <= high * 0
    OBVIOUS
  <2>1. T = {}
    BY <1>1, FS_EmptySet
  <2>2. Sum(f, T) = 0
    BY <2>1, SumEmpty
  <2> QED BY <2>2
<1>3. ASSUME NEW n \in Nat, n \in G PROVE n + 1 \in G
  <2> SUFFICES ASSUME NEW T \in SUBSET S, Cardinality(T) = n + 1
               PROVE  low * (n + 1) <= Sum(f, T) /\ Sum(f, T) <= high * (n + 1)
    OBVIOUS
  <2>1. PICK x \in T : TRUE
    BY FS_EmptySet
  <2>2. IsFiniteSet(T) /\ T \ {x} \in SUBSET S /\ x \in S
    BY <1>1
  <2>3. Cardinality(T \ {x}) = n
    <3>1. Cardinality(T \ {x}) \in Nat /\ Cardinality(T) = Cardinality(T \ {x}) + 1
      BY <2>1, <2>2, Smaller
    <3> QED BY <3>1
  <2>4. low * n <= Sum(f, T \ {x}) /\ Sum(f, T \ {x}) <= high * n
    BY <1>3, <2>2, <2>3
  <2>5. Sum(f, T) = f[x] + Sum(f, T \ {x})
    <3>1. \A y \in T : f[y] \in Int
      OBVIOUS
    <3> QED BY <2>1, <2>2, <3>1, SumRemove
  <2>6. /\ low * (n + 1) = low * n + low /\ low * n \in Int
        /\ high * (n + 1) = high * n + high /\ high * n \in Int
    OBVIOUS
  <2>7. f[x] \in low..high /\ Sum(f, T \ {x}) \in Int
    BY <1>1, <2>2
  <2> QED BY <2>4, <2>5, <2>6, <2>7
<1>4. \A n \in Nat : n \in G
  <2> HIDE DEF G
  <2> QED BY <1>2, <1>3, NatSetInduction
<1>5. /\ S \in SUBSET S /\ Cardinality(S) \in Nat /\ Sum(f, S) \in Int
  BY <1>1
<1> QED BY <1>4, <1>5

\* The sums over sets that have no element in common are, summed up, the sum
\* over all of them.
LEMMA SumOfParts ==
  ASSUME NEW S, IsFiniteSet(S), NEW p, NEW f, NEW g,
         \A x \in S : IsFiniteSet(p[x]) /\ g[x] = Sum(f, p[x]),
         \A x \in S : \A y \in p[x] : f[y] \in Int,
         \A x, y \in S : x # y => p[x] \cap p[y] = {}
  PROVE  Sum(g, S) = Sum(f, UNION {p[x] : x \in S})
<1> DEFINE All(T) == UNION {p[x] : x \in T}
           G == {n \in Nat : \A T \in SUBSET S : Cardinality(T) = n =>
                   IsFiniteSet(All(T)) /\ Sum(g, T) = Sum(f, All(T))}
<1>0. \A x \in S : g[x] \in Int
  BY SumType
<1>1. ASSUME NEW T \in SUBSET S PROVE IsFiniteSet(T) /\ Cardinality(T) \in Nat
  BY FS_Subset, FS_CardinalityType
<1>2. 0 \in G
  <2> SUFFICES ASSUME NEW T \in SUBSET S, Cardinality(T) = 0
               PROVE  IsFiniteSet(All(T)) /\ Sum(g, T) = Sum(f, All(T))
    OBVIOUS
  <2>1. T = {}
    BY <1>1, FS_EmptySet
  <2>2. All(T) = {}
    BY <2>1
  <2>3. Sum(g, T) = 0 /\ Sum(f, All(T)) = 0 /\ IsFiniteSet(All(T))
    BY <2>1, <2>2, SumEmpty, FS_EmptySet
  <2> QED BY <2>3
<1>3. ASSUME NEW n \in Nat, n \in G PROVE n + 1 \in G
  <2> SUFFICES ASSUME NEW T \in SUBSET S, Cardinality(T) = n + 1
               PROVE  IsFiniteSet(All(T)) /\ Sum(g, T) = Sum(f, All(T))
    OBVIOUS
  <2>1. PICK x \in T : TRUE
    BY FS_EmptySet
  <2>2. IsFiniteSet(T) /\ T \ {x} \in SUBSET S /\ x \in S
    BY <1>1
  <2>3. Cardinality(T \ {x}) = n
    <3>1. Cardinality(T \ {x}) \in Nat /\ Cardinality(T) = Cardinality(T \ {x}) + 1
      BY <2>1, <2>2, Smaller
    <3> QED BY <3>1
  <2>4. IsFiniteSet(All(T \ {x})) /\ Sum(g, T \ {x}) = Sum(f, All(T \ {x}))
    BY <1>3, <2>2, <2>3
  <2>5. Sum(g, T) = g[x] + Sum(g, T \ {x})
    <3>1. \A y \in T : g[y] \in Int
      BY <1>0
    <3> QED BY <2>1, <2>2, <3>1, SumRemove
  <2>6. All(T) = p[x] \cup All(T \ {x}) /\ p[x] \cap All(T \ {x}) = {}
    BY <2>1, <2>2
  <2>7. \A y \in p[x] \cup All(T \ {x}) : f[y] \in Int
    BY <2>2
  <2>8. IsFiniteSet(p[x])
    BY <2>2
  <2>9. Sum(f, p[x] \cup All(T \ {x})) = Sum(f, p[x]) + Sum(f, All(T \ {x}))
    <3> DEFINE A == p[x]  R == All(T \ {x})
    <3>1. /\ IsFiniteSet(A) /\ IsFiniteSet(R) /\ A \cap R = {}
          /\ \A y \in A \cup R : f[y] \in Int
      BY <2>4, <2>6, <2>7, <2>8
    <3> HIDE DEF A, R
    <3>2. Sum(f, A \cup R) = Sum(f, A) + Sum(f, R)
      BY <3>1, SumUnion
    <3> QED BY <3>2 DEF A, R
  <2>10. IsFiniteSet(All(T))
    <3> HIDE DEF All
    <3>1. IsFiniteSet(p[x] \cup All(T \ {x}))
      BY <2>4, <2>8, FS_Union
    <3> QED BY <2>6, <3>1, Zenon
  <2>11. Sum(f, All(T)) = Sum(f, p[x]) + Sum(f, All(T \ {x}))
    <3> HIDE DEF All
    <3> QED BY <2>6, <2>9, Zenon
  <2>12. g[x] = Sum(f, p[x])
    BY <2>2
  <2> HIDE DEF All
  <2> QED BY <2>4, <2>5, <2>10, <2>11, <2>12
<1>4. \A n \in Nat : n \in G
  <2> HIDE DEF G
  <2> QED BY <1>2, <1>3, NatSetInduction
<1>5. S \in SUBSET S /\ Cardinality(S) \in Nat
  BY <1>1
<1>6. Sum(g, S) = Sum(f, All(S))
  <2> HIDE DEF All
  <2> QED BY <1>4, <1>5
<1> QED BY <1>6

\* The same for naturals up to a bound.
LEMMA SumUpTo ==
  ASSUME NEW S, IsFiniteSet(S), NEW f, NEW high \in Nat, \A x \in S : f[x] \in 0..high
  PROVE  Sum(f, S) \in 0..(high * Cardinality(S))
<1>1. \A x \in S : f[x] \in Nat
  OBVIOUS
<1>2. Sum(f, S) \in Nat
  BY <1>1, SumNat
<1>3. 0 \in Int /\ high \in Int
  OBVIOUS
<1>4. ASSUME NEW low \in Int, low = 0 PROVE Sum(f, S) \in (low * Cardinality(S))..(high * Cardinality(S))
  <2>1. \A x \in S : f[x] \in low..high
    BY <1>4
  <2> QED BY <1>3, <2>1, SumWithin
<1>5. Cardinality(S) \in Nat
  BY FS_CardinalityType
<1>6. Sum(f, S) <= high * Cardinality(S)
  BY <1>2, <1>3, <1>4, <1>5
<1> QED BY <1>2, <1>5, <1>6

\* Greater terms have a greater sum.
LEMMA SumOrdered ==
  ASSUME NEW S, IsFiniteSet(S), NEW f, NEW g,
         \A x \in S : f[x] \in Int /\ g[x] \in Int /\ f[x] <= g[x]
  PROVE  Sum(f, S) <= Sum(g, S)
<1> DEFINE h == [x \in S |-> (-1) * f[x] + 1 * g[x]]
<1>1. \A x \in S : h[x] \in Nat
  OBVIOUS
<1>2. \A x \in S : f[x] \in Int /\ g[x] \in Int /\ h[x] = (-1) * f[x] + 1 * g[x]
  OBVIOUS
<1> HIDE DEF h
<1>3. Sum(h, S) = (-1) * Sum(f, S) + 1 * Sum(g, S)
  <2>1. -1 \in Int /\ 1 \in Int
    OBVIOUS
  <2> QED BY <1>2, <2>1, SumCombined
<1>4. Sum(h, S) \in Nat
  BY <1>1, SumNat
<1>5. Sum(f, S) \in Int /\ Sum(g, S) \in Int
  <2>1. (\A x \in S : f[x] \in Int) /\ (\A x \in S : g[x] \in Int)
    OBVIOUS
  <2> QED BY <2>1, SumType
<1> QED BY <1>3, <1>4, <1>5

=============================================================================
