------------------------------ MODULE Counting ------------------------------
(***************************************************************************)
(* Numbers, and what is made from them: a recursive function over 0 .. n,  *)
(* or over a set of numbers, each value made from those before, exists,    *)
(* and one that grows a subset of at most n things stands still after n    *)
(* steps; a finite set of numbers has a largest member; a finite set can   *)
(* be folded, and a sum over it does not depend on the order.  All by      *)
(* looking at the least number, or subset, that fails.                     *)
(***************************************************************************)
EXTENDS Integers, FiniteSetsExt, Functions, FiniteSetTheorems, WellFoundedInduction, TLAPS

\* Every set of naturals has a least one.
LEMMA LeastNatural ==
    ASSUME NEW T \in SUBSET Nat, T # {}
    PROVE  \E least \in T : \A k \in T : least <= k
<1>1. IsWellFoundedOn(OpToRel(<, Nat), Nat)
    BY NatLessThanWellFounded
<1>2. PICK least \in T : \A k \in T : <<k, least>> \notin OpToRel(<, Nat)
    BY <1>1, WFMin
<1>3. \A k \in T : ~(k < least)
    BY <1>2 DEF OpToRel
<1>4. QED
    BY <1>3

\* What holds of 0, and of every next number up to n, holds up to n.
LEMMA CountingUp ==
    ASSUME NEW n \in Nat, NEW holds, 0 \in holds, \A k \in 0 .. n - 1 : k \in holds => k + 1 \in holds
    PROVE  0 .. n \subseteq holds
<1> DEFINE T == (0 .. n) \ holds
<1> SUFFICES ASSUME T # {} PROVE FALSE
    OBVIOUS
<1>1. PICK k \in T : \A j \in T : k <= j
  <2>1. T \in SUBSET Nat
      OBVIOUS
  <2> HIDE DEF T
  <2>2. QED
      BY <2>1, LeastNatural
<1>2. k # 0 /\ k - 1 \in 0 .. n - 1 /\ k - 1 \notin T
    BY <1>1
<1>3. k - 1 \in holds /\ (k - 1) + 1 = k
    BY <1>2
<1>4. QED
    BY <1>2, <1>3

\* A step on S can be iterated n times.
Iterates(g, n, base, step) == g[0] = base /\ \A i \in 1 .. n : g[i] = step[g[i - 1]]

LEMMA IterationExists ==
    ASSUME NEW n \in Nat, NEW S, NEW base \in S, NEW step \in [S -> S]
    PROVE  \E g \in [0 .. n -> S] : Iterates(g, n, base, step)
<1> DEFINE holds == {k \in Nat : \E g \in [0 .. k -> S] : Iterates(g, k, base, step)}
<1>1. 0 \in holds
  <2>1. [i \in 0 .. 0 |-> base] \in [0 .. 0 -> S]
      OBVIOUS
  <2>2. Iterates([i \in 0 .. 0 |-> base], 0, base, step)
      BY DEF Iterates
  <2>3. QED
      BY <2>1, <2>2
<1>2. ASSUME NEW k \in 0 .. n - 1, k \in holds PROVE k + 1 \in holds
  <2>1. PICK g \in [0 .. k -> S] : Iterates(g, k, base, step)
      BY <1>2
  <2> DEFINE h == [i \in 0 .. k + 1 |-> IF i = k + 1 THEN step[g[k]] ELSE g[i]]
  <2>2. h \in [0 .. k + 1 -> S]
    <3>1. g[k] \in S
        BY <2>1
    <3>2. \A i \in 0 .. k + 1 : i # k + 1 => i \in 0 .. k
        OBVIOUS
    <3>3. QED
        BY <2>1, <3>1, <3>2
  <2>3. Iterates(h, k + 1, base, step)
    <3>1. h[0] = base
        BY <2>1 DEF Iterates
    <3>2. ASSUME NEW i \in 1 .. k + 1 PROVE h[i] = step[h[i - 1]]
      <4>1. h[i - 1] = g[i - 1]
          BY <2>1
      <4>2. CASE i = k + 1
          BY <4>1, <4>2
      <4>3. CASE i # k + 1
        <5>1. i \in 1 .. k /\ h[i] = g[i]
            BY <4>3
        <5>2. QED
            BY <2>1, <4>1, <5>1 DEF Iterates
      <4>4. QED
          BY <4>2, <4>3
    <3>3. QED
        BY <3>1, <3>2 DEF Iterates
  <2> HIDE DEF h
  <2>4. QED
      BY <2>2, <2>3
<1> HIDE DEF holds
<1>3. n \in holds
    BY <1>1, <1>2, CountingUp
<1>4. QED
    BY <1>3 DEF holds

\* An iteration whose measure, a subset of a set with no more than n members,
\* grows until a step changes nothing, stands still after n steps.
Settles(S, step, Y, m) ==
    /\ step \in [S -> S] /\ m \in [S -> SUBSET Y]
    /\ \A T \in S : /\ m[T] \subseteq m[step[T]]
                    /\ m[T] = {} => step[T] = T
                    /\ m[step[T]] = m[T] => step[step[T]] = step[T]

LEMMA IterationSettles ==
    ASSUME NEW n \in Nat, NEW S, NEW step, NEW g \in [0 .. n -> S], NEW base, Iterates(g, n, base, step),
           NEW Y, IsFiniteSet(Y), Cardinality(Y) <= n, NEW m, Settles(S, step, Y, m)
    PROVE  step[g[n]] = g[n]
<1> USE DEF Iterates, Settles
<1> DEFINE holds == {i \in 0 .. n : step[g[i]] = g[i] \/ Cardinality(m[g[i]]) >= i + 1}
<1>1. \A T \in S : IsFiniteSet(m[T]) /\ Cardinality(m[T]) \in Nat /\ Cardinality(m[T]) <= Cardinality(Y)
  <2>1. \A T \in S : m[T] \in SUBSET Y
      OBVIOUS
  <2>2. QED
      BY <2>1, FS_Subset, FS_CardinalityType
<1>2. 0 \in holds
  <2>1. g[0] \in S
      OBVIOUS
  <2>2. m[g[0]] # {} => Cardinality(m[g[0]]) # 0
      BY <1>1, <2>1, FS_EmptySet
  <2>3. QED
      BY <1>1, <2>1, <2>2
<1>3. ASSUME NEW k \in 0 .. n - 1, k \in holds PROVE k + 1 \in holds
  <2>1. /\ k \in 0 .. n /\ k + 1 \in 0 .. n /\ k + 1 \in 1 .. n
        /\ g[k] \in S /\ g[k + 1] \in S /\ g[k + 1] = step[g[k]]
    <3>1. k \in 0 .. n /\ k + 1 \in 0 .. n /\ k + 1 \in 1 .. n /\ (k + 1) - 1 = k
        OBVIOUS
    <3>2. g[k + 1] = step[g[(k + 1) - 1]]
        BY <3>1
    <3>3. QED
        BY <3>1, <3>2
  <2>2. CASE step[g[k]] = g[k]
      BY <2>1, <2>2
  <2>3. CASE Cardinality(m[g[k]]) >= k + 1 /\ m[g[k + 1]] # m[g[k]]
    <3>1. m[g[k]] \subseteq m[g[k + 1]]
        BY <2>1
    <3>2. Cardinality(m[g[k]]) <= Cardinality(m[g[k + 1]]) /\ Cardinality(m[g[k]]) # Cardinality(m[g[k + 1]])
      <4>1. IsFiniteSet(m[g[k + 1]])
          BY <1>1, <2>1
      <4>2. m[g[k]] \in SUBSET m[g[k + 1]]
          BY <3>1
      <4> HIDE DEF holds
      <4>3. QED
          BY <2>3, <4>1, <4>2, FS_Subset
    <3>3. Cardinality(m[g[k + 1]]) >= k + 2
        BY <1>1, <2>1, <2>3, <3>2
    <3>4. QED
        BY <2>1, <3>3
  <2>4. CASE m[g[k + 1]] = m[g[k]]
    <3>1. step[g[k + 1]] = g[k + 1]
        BY <2>1, <2>4
    <3>2. QED
        BY <2>1, <3>1
  <2>5. QED
      BY <1>3, <2>2, <2>3, <2>4
<1>4. n \in holds
  <2> HIDE DEF holds
  <2>1. 0 .. n \subseteq holds
      BY <1>2, <1>3, CountingUp
  <2>2. QED
      BY <2>1
<1>5. CASE Cardinality(m[g[n]]) >= n + 1
  <2>1. g[n] \in S
      OBVIOUS
  <2>2. Cardinality(Y) \in Nat
      BY FS_CardinalityType
  <2>3. QED
      BY <1>1, <1>5, <2>1, <2>2
<1>6. QED
    BY <1>4, <1>5

\* A finite, non-empty set of numbers has a largest member, and Max is it.
LEMMA MaxIsLargest ==
    ASSUME NEW S \in SUBSET Nat, IsFiniteSet(S), S # {}
    PROVE  Max(S) \in S /\ \A y \in S : y <= Max(S)
<1>1. PICK n \in Nat : ExistsBijection(1 .. n, S)
    BY FS_NatBijection
<1>2. PICK f \in Bijection(1 .. n, S) : TRUE
    BY <1>1 DEF ExistsBijection
<1>3. f \in [1 .. n -> S] /\ \A y \in S : \E i \in 1 .. n : f[i] = y
    BY <1>2 DEF Bijection, Surjection
<1>0. \A i \in 1 .. n : f[i] \in Nat
    BY <1>3
<1> DEFINE holds == {k \in 0 .. n : \E u \in Nat : \A i \in 1 .. k : f[i] <= u}
<1>4. 0 \in holds
    OBVIOUS
<1>5. ASSUME NEW k \in 0 .. n - 1, k \in holds PROVE k + 1 \in holds
  <2>1. PICK u \in Nat : \A i \in 1 .. k : f[i] <= u
      BY <1>5
  <2> HIDE DEF holds
  <2>2. f[k + 1] \in Nat /\ k + 1 \in 0 .. n /\ \A i \in 1 .. k + 1 : i \in 1 .. n
    <3>1. k + 1 \in 1 .. n /\ k + 1 \in 0 .. n /\ \A i \in 1 .. k + 1 : i \in 1 .. n
        OBVIOUS
    <3>2. QED
        BY <1>0, <3>1
  <2> DEFINE v == u + f[k + 1]
  <2>3. v \in Nat /\ \A i \in 1 .. k + 1 : f[i] <= v
    <3>1. \A i \in 1 .. k + 1 : i = k + 1 \/ i \in 1 .. k
        OBVIOUS
    <3>2. \A i \in 1 .. k + 1 : f[i] \in Nat
        BY <1>0, <2>2
    <3>3. QED
        BY <2>1, <2>2, <3>1, <3>2
  <2> HIDE DEF v
  <2>4. QED
      BY <2>2, <2>3 DEF holds
<1> HIDE DEF holds
<1>6. PICK u \in Nat : \A y \in S : y <= u
  <2>1. n \in holds
    <3>1. 0 .. n \subseteq holds
        BY <1>4, <1>5, CountingUp
    <3>2. QED
        BY <3>1
  <2>2. QED
      BY <1>3, <2>1 DEF holds
<1> DEFINE below == {u - y : y \in S}
<1>7. PICK m \in S : \A y \in S : y <= m
  <2>1. below \in SUBSET Nat /\ below # {}
    <3>1. \A y \in S : y \in Nat /\ u - y \in Nat
        BY <1>6
    <3>2. QED
        BY <3>1
  <2> HIDE DEF below
  <2>2. PICK k \in below : \A j \in below : k <= j
      BY <2>1, LeastNatural
  <2> USE DEF below
  <2>3. PICK m \in S : k = u - m
      OBVIOUS
  <2>4. \A y \in S : u - m <= u - y
      BY <2>2, <2>3
  <2>5. QED
      BY <2>4
<1>8. \A y \in S : m >= y
    BY <1>7
<1>9. Max(S) \in S /\ \A y \in S : Max(S) >= y
    BY <1>8 DEF Max
<1>10. QED
    BY <1>9

\* What holds of the empty set, and of a set when it holds without any one of
\* its members, holds of every subset of a finite set.
LEMMA SubsetsByOne ==
    ASSUME NEW B, IsFiniteSet(B), NEW holds, {} \in holds,
           \A s \in SUBSET B : s # {} /\ (\A x \in s : s \ {x} \in holds) => s \in holds
    PROVE  SUBSET B \subseteq holds
<1> DEFINE bad == (SUBSET B) \ holds
           sizes == {Cardinality(s) : s \in bad}
<1> SUFFICES ASSUME bad # {} PROVE FALSE
    OBVIOUS
<1>1. \A s \in SUBSET B : IsFiniteSet(s) /\ Cardinality(s) \in Nat
    BY FS_Subset, FS_CardinalityType
<1>2. PICK k \in sizes : \A j \in sizes : k <= j
  <2>1. sizes \in SUBSET Nat /\ sizes # {}
      BY <1>1
  <2> HIDE DEF sizes
  <2>2. QED
      BY <2>1, LeastNatural
<1>3. PICK s \in bad : k = Cardinality(s)
    BY <1>2
<1>4. ASSUME NEW x \in s PROVE s \ {x} \in holds
  <2>1. Cardinality(s \ {x}) = Cardinality(s) - 1
      BY <1>1, <1>3, FS_RemoveElement
  <2>2. s \ {x} \in SUBSET B
      BY <1>3
  <2>3. s \ {x} \in bad => Cardinality(s) <= Cardinality(s) - 1
      BY <1>2, <1>3, <2>1
  <2>4. QED
      BY <1>1, <1>3, <2>2, <2>3
<1>5. QED
    BY <1>3, <1>4

-----------------------------------------------------------------------------
(* Folds, and sums in particular.                                           *)

Taken(s) == CHOOSE x \in s : TRUE
FoldedBy(step, zero, s, g) == IF s = {} THEN zero ELSE step[<<Taken(s), g[s \ {Taken(s)}]>>]
Foldable(step, zero, S, V) == IsFiniteSet(S) /\ zero \in V /\ step \in [S \X V -> V]
FoldedInOrder(step, zero, pick, s, g) ==
    IF s = {} THEN zero ELSE step[<<pick[s], g[s \ {pick[s]}]>>]
Picks(S, pick) == \A s \in SUBSET S : s # {} => pick[s] \in s
FoldsInOrder(step, zero, pick, S, g) ==
    \A s \in SUBSET S : g[s] = FoldedInOrder(step, zero, pick, s, g)
FoldableInOrder(step, zero, pick, S, V) ==
    \E g \in [SUBSET S -> V] : FoldsInOrder(step, zero, pick, S, g)
Folds(step, zero, S, g) == \A s \in SUBSET S : g[s] = FoldedBy(step, zero, s, g)

\* A finite set can be folded in any order: some function does, one member at
\* a time.
LEMMA OrderedFoldExists ==
    ASSUME NEW S, NEW V, NEW zero, NEW step, NEW pick,
           Foldable(step, zero, S, V), Picks(S, pick)
    PROVE  FoldableInOrder(step, zero, pick, S, V)
<1> DEFINE upTo(k) == {s \in SUBSET S : Cardinality(s) <= k}
           partly(k, g) == \A s \in upTo(k) : g[s] = FoldedInOrder(step, zero, pick, s, g)
           holds == {k \in Nat : \E g \in [upTo(k) -> V] : partly(k, g)}
<1>0. IsFiniteSet(S) /\ zero \in V /\ step \in [S \X V -> V]
    BY DEF Foldable
<1>1. \A s \in SUBSET S : /\ IsFiniteSet(s) /\ Cardinality(s) \in Nat /\ Cardinality(s) <= Cardinality(S)
                          /\ (Cardinality(s) = 0 <=> s = {})
    BY <1>0, FS_Subset, FS_CardinalityType, FS_EmptySet
<1>2. ASSUME NEW s \in SUBSET S, s # {}
      PROVE  /\ pick[s] \in s /\ s \ {pick[s]} \in SUBSET S
             /\ Cardinality(s \ {pick[s]}) = Cardinality(s) - 1
  <2>1. pick[s] \in s
      BY <1>2 DEF Picks
  <2>2. QED
      BY <1>1, <2>1, FS_RemoveElement
<1>3. 0 \in holds
  <2>1. \A s \in upTo(0) : s = {}
      BY <1>1
  <2>2. [s \in upTo(0) |-> zero] \in [upTo(0) -> V] /\ partly(0, [s \in upTo(0) |-> zero])
      BY <1>0, <2>1 DEF FoldedInOrder
  <2>3. QED
      BY <2>2
<1>4. ASSUME NEW k \in Nat, k \in holds PROVE k + 1 \in holds
  <2>1. PICK g \in [upTo(k) -> V] : partly(k, g)
      BY <1>4
  <2> DEFINE h == [s \in upTo(k + 1) |-> FoldedInOrder(step, zero, pick, s, g)]
  <2>2. ASSUME NEW s \in upTo(k + 1), s # {}
        PROVE  pick[s] \in S /\ s \ {pick[s]} \in upTo(k)
      BY <1>1, <1>2, <2>2
  <2>3. h \in [upTo(k + 1) -> V]
    <3>1. ASSUME NEW s \in upTo(k + 1) PROVE FoldedInOrder(step, zero, pick, s, g) \in V
      <4>1. CASE s = {}
          BY <1>0, <4>1 DEF FoldedInOrder
      <4>2. CASE s # {}
        <5>1. pick[s] \in S /\ g[s \ {pick[s]}] \in V
            BY <2>1, <2>2, <4>2
        <5>2. QED
            BY <1>0, <4>2, <5>1 DEF FoldedInOrder
      <4>3. QED
          BY <4>1, <4>2
    <3>2. QED
        BY <3>1
  <2>4. \A s \in upTo(k) : s \in upTo(k + 1) /\ h[s] = g[s]
    <3>1. \A s \in upTo(k) : s \in upTo(k + 1)
        BY <1>1
    <3>2. QED
        BY <2>1, <3>1
  <2>5. \A s \in upTo(k + 1) : h[s] = FoldedInOrder(step, zero, pick, s, h)
      BY <2>2, <2>4 DEF FoldedInOrder
  <2> HIDE DEF h
  <2>6. \E g2 \in [upTo(k + 1) -> V] : partly(k + 1, g2)
      BY <2>3, <2>5
  <2> HIDE DEF upTo, partly
  <2>7. QED
      BY <2>6
<1>5. Cardinality(S) \in holds
  <2>1. Cardinality(S) \in Nat
      BY <1>0, FS_CardinalityType
  <2> HIDE DEF holds
  <2>2. 0 .. Cardinality(S) \subseteq holds
      BY <1>3, <1>4, <2>1, CountingUp
  <2>3. QED
      BY <2>1, <2>2
<1>6. upTo(Cardinality(S)) = SUBSET S
    BY <1>1
<1>7. QED
    BY <1>5, <1>6 DEF FoldsInOrder, FoldableInOrder

LEMMA FoldExists ==
    ASSUME NEW S, NEW V, NEW zero, NEW step, Foldable(step, zero, S, V)
    PROVE  \E g \in [SUBSET S -> V] : Folds(step, zero, S, g)
<1> DEFINE first == [s \in SUBSET S |-> Taken(s)]
<1>1. \A s \in SUBSET S : first[s] = Taken(s)
    OBVIOUS
<1> HIDE DEF first
<1>2. Picks(S, first)
    BY <1>1 DEF Picks, Taken
<1>3. FoldableInOrder(step, zero, first, S, V)
    BY <1>2, OrderedFoldExists
<1>4. PICK g \in [SUBSET S -> V] : FoldsInOrder(step, zero, first, S, g)
    BY <1>3 DEF FoldableInOrder
<1>5. QED
    BY <1>1, <1>4 DEF FoldsInOrder, FoldedInOrder, Folds, FoldedBy

Summed(f, s, g) == IF s = {} THEN 0 ELSE f[Taken(s)] + g[s \ {Taken(s)}]

Sums(f, S, g) ==
    /\ IsFiniteSet(S) /\ \A x \in S : f[x] \in Int
    /\ g \in [SUBSET S -> Int] /\ \A s \in SUBSET S : g[s] = Summed(f, s, g)

\* A finite sum has a function that adds it up, one member at a time.
LEMMA SumFolds ==
    ASSUME NEW S, IsFiniteSet(S), NEW f, \A x \in S : f[x] \in Int
    PROVE  \E g : Sums(f, S, g) /\ SumFunctionOnSet(f, S) = g[S]
<1> DEFINE step == [x \in S \X Int |-> f[x[1]] + x[2]]
           fold(g) == g = [s \in SUBSET S |-> IF s = {} THEN 0
                                  ELSE f[CHOOSE m \in s : TRUE] + g[s \ {CHOOSE m \in s : TRUE}]]
           chosen == CHOOSE g : fold(g)
<1>1. Foldable(step, 0, S, Int) /\ \A x \in S, k \in Int : step[<<x, k>>] = f[x] + k
    BY DEF Foldable
<1> HIDE DEF step
<1>2. ASSUME NEW s \in SUBSET S, NEW g, s = {} \/ g[s \ {Taken(s)}] \in Int
      PROVE  FoldedBy(step, 0, s, g) = Summed(f, s, g)
  <2>1. s # {} => Taken(s) \in S
      BY DEF Taken
  <2>2. QED
      BY <1>1, <1>2, <2>1 DEF FoldedBy, Summed
<1>3. \E g : fold(g)
  <2>1. PICK g \in [SUBSET S -> Int] : Folds(step, 0, S, g)
      BY <1>1, FoldExists
  <2>2. \A s \in SUBSET S : g[s] = Summed(f, s, g)
    <3>1. ASSUME NEW s \in SUBSET S PROVE s \ {Taken(s)} \in SUBSET S
        OBVIOUS
    <3>2. QED
        BY <1>2, <2>1, <3>1 DEF Folds
  <2>3. g = [s \in SUBSET S |-> Summed(f, s, g)]
      BY <2>2
  <2>4. fold(g)
      BY <2>3 DEF Summed, Taken
  <2>5. QED
      BY <2>4
<1>4. fold(chosen)
    BY <1>3
<1>5. SumFunctionOnSet(f, S) = chosen[S]
    BY DEF SumFunctionOnSet, FoldFunctionOnSet, MapThenFoldSet
<1> HIDE DEF chosen
<1>6. \A s \in SUBSET S : chosen[s] = Summed(f, s, chosen)
    BY <1>4 DEF Summed, Taken
<1> DEFINE numbers == {s \in SUBSET S : chosen[s] \in Int}
<1>7. {} \in numbers
  <2>1. {} \in SUBSET S /\ chosen[{}] = 0
      BY <1>6 DEF Summed
  <2>2. QED
      BY <2>1
<1>8. ASSUME NEW s \in SUBSET S, s # {}, \A m \in s : s \ {m} \in numbers PROVE s \in numbers
  <2>1. Taken(s) \in s
      BY <1>8 DEF Taken
  <2>2. f[Taken(s)] \in Int /\ chosen[s \ {Taken(s)}] \in Int
      BY <1>8, <2>1
  <2>3. chosen[s] = f[Taken(s)] + chosen[s \ {Taken(s)}]
      BY <1>6, <1>8 DEF Summed
  <2>4. QED
      BY <2>2, <2>3
<1>9. SUBSET S \subseteq numbers
  <2> HIDE DEF numbers
  <2>1. QED
      BY <1>7, <1>8, SubsetsByOne
<1>10. chosen \in [SUBSET S -> Int]
  <2>1. \A s \in SUBSET S : chosen[s] \in Int
      BY <1>9
  <2>2. chosen = [s \in SUBSET S |-> chosen[s]]
      BY <1>4
  <2>3. QED
      BY <2>1, <2>2
<1>11. QED
    BY <1>5, <1>6, <1>10 DEF Sums

\* It does not depend on the order.
ByMember(f, S, g) == \A s \in SUBSET S : \A x \in s : g[s] = f[x] + g[s \ {x}]
LEMMA SumByMember ==
    ASSUME NEW S, NEW f, NEW g, Sums(f, S, g)
    PROVE  ByMember(f, S, g)
<1> USE DEF Sums, ByMember
<1> DEFINE holds == {s \in SUBSET S : \A x \in s : g[s] = f[x] + g[s \ {x}]}
<1>1. {} \in holds
    OBVIOUS
<1>2. ASSUME NEW s \in SUBSET S, s # {}, \A y \in s : s \ {y} \in holds
      PROVE  s \in holds
  <2>1. SUFFICES ASSUME NEW x \in s PROVE g[s] = f[x] + g[s \ {x}]
      OBVIOUS
  <2> DEFINE c == Taken(s)
  <2>2. c \in s
      BY <1>2 DEF Taken
  <2>3. g[s] = f[c] + g[s \ {c}]
      BY <1>2 DEF Summed
  <2> HIDE DEF c
  <2>4. CASE x # c
    <3>0. x \in s \ {c} /\ c \in s \ {x} /\ s \ {c} \in holds /\ s \ {x} \in holds
        BY <1>2, <2>1, <2>2, <2>4
    <3>1. g[s \ {c}] = f[x] + g[(s \ {c}) \ {x}]
        BY <3>0
    <3>2. g[s \ {x}] = f[c] + g[(s \ {x}) \ {c}]
        BY <3>0
    <3>3. (s \ {c}) \ {x} = (s \ {x}) \ {c}
        OBVIOUS
    <3>4. f[x] \in Int /\ f[c] \in Int /\ g[(s \ {x}) \ {c}] \in Int
      <4>1. (s \ {x}) \ {c} \in SUBSET S
          OBVIOUS
      <4>2. x \in S /\ c \in S
          BY <2>2
      <4> HIDE DEF holds
      <4>3. QED
          BY <4>1, <4>2
    <3> HIDE DEF holds
    <3>5. \A a, b, q \in Int : a + (b + q) = b + (a + q)
        OBVIOUS
    <3>6. g[s] = f[c] + (f[x] + g[(s \ {x}) \ {c}])
        BY <2>3, <3>1, <3>3
    <3>7. g[s] = f[x] + (f[c] + g[(s \ {x}) \ {c}])
        BY <3>4, <3>5, <3>6
    <3>8. QED
        BY <3>2, <3>7
  <2>5. QED
      BY <2>3, <2>4
<1>3. SUBSET S \subseteq holds
  <2> HIDE DEF holds
  <2>1. QED
      BY <1>1, <1>2, SubsetsByOne
<1>4. QED
    BY <1>3

\* A finite sum of integers is one, and any member can be taken out of it.
LEMMA SumIsANumber ==
    ASSUME NEW S, IsFiniteSet(S), NEW f, \A x \in S : f[x] \in Int
    PROVE  SumFunctionOnSet(f, S) \in Int
<1>1. PICK g : Sums(f, S, g) /\ SumFunctionOnSet(f, S) = g[S]
    BY SumFolds
<1>2. QED
    BY <1>1 DEF Sums

LEMMA SumOfNone == ASSUME NEW f PROVE SumFunctionOnSet(f, {}) = 0
<1>1. IsFiniteSet({})
    BY FS_EmptySet
<1>2. PICK g : Sums(f, {}, g) /\ SumFunctionOnSet(f, {}) = g[{}]
    BY <1>1, SumFolds
<1>3. QED
    BY <1>2 DEF Sums, Summed

LEMMA SumTakesOut ==
    ASSUME NEW S, IsFiniteSet(S), NEW f, \A x \in S : f[x] \in Int, NEW x \in S
    PROVE  SumFunctionOnSet(f, S) = f[x] + SumFunctionOnSet(f, S \ {x})
<1> DEFINE R == S \ {x}
<1>1. PICK g : Sums(f, S, g) /\ SumFunctionOnSet(f, S) = g[S]
    BY SumFolds
<1>2. IsFiniteSet(R) /\ \A y \in R : f[y] \in Int
    BY FS_RemoveElement
<1>3. PICK h : Sums(f, R, h) /\ SumFunctionOnSet(f, R) = h[R]
    BY <1>2, SumFolds
<1>4. g[S] = f[x] + g[S \ {x}]
  <2>1. ByMember(f, S, g)
      BY <1>1, SumByMember
  <2>2. QED
      BY <2>1 DEF ByMember
<1> DEFINE same == {s \in SUBSET R : g[s] = h[s]}
<1>5. {} \in same
    BY <1>1, <1>3 DEF Sums, Summed
<1>6. ASSUME NEW s \in SUBSET R, s # {}, \A y \in s : s \ {y} \in same
      PROVE  s \in same
  <2>1. Taken(s) \in s /\ s \in SUBSET S
      BY <1>6 DEF Taken
  <2>2. g[s] = f[Taken(s)] + g[s \ {Taken(s)}] /\ h[s] = f[Taken(s)] + h[s \ {Taken(s)}]
      BY <1>1, <1>3, <1>6, <2>1 DEF Sums, Summed
  <2>3. g[s \ {Taken(s)}] = h[s \ {Taken(s)}]
      BY <1>6, <2>1
  <2>4. QED
      BY <2>2, <2>3
<1>7. SUBSET R \subseteq same
  <2> HIDE DEF same, R
  <2>1. QED
      BY <1>2, <1>5, <1>6, SubsetsByOne
<1>8. g[R] = h[R]
    BY <1>7
<1>9. QED
    BY <1>1, <1>3, <1>4, <1>8

\* A number given to each member of a finite set is greatest for one of them.
LEMMA SomeIsGreatest ==
    ASSUME NEW S, IsFiniteSet(S), S # {}, NEW f, \A x \in S : f[x] \in Int
    PROVE  \E m \in S : \A x \in S : f[x] <= f[m]
<1> DEFINE holds == {s \in SUBSET S : s # {} => \E m \in s : \A x \in s : f[x] <= f[m]}
<1>1. {} \in holds
    OBVIOUS
<1>2. ASSUME NEW s \in SUBSET S, s # {}, \A x \in s : s \ {x} \in holds PROVE s \in holds
  <2>1. PICK x \in s : TRUE
      BY <1>2
  <2>2. CASE s \ {x} = {}
    <3>1. \A y \in s : y = x
        BY <2>2
    <3>2. f[x] <= f[x]
        BY <2>1
    <3>3. QED
        BY <2>1, <3>1, <3>2
  <2>3. CASE s \ {x} # {}
    <3>1. PICK m \in s \ {x} : \A y \in s \ {x} : f[y] <= f[m]
        BY <1>2, <2>1, <2>3
    <3>2. f[m] \in Int /\ f[x] \in Int /\ \A y \in s : f[y] \in Int
        BY <2>1, <3>1
    <3>3. CASE f[x] <= f[m]
      <4>1. \A y \in s : f[y] <= f[m]
          BY <3>1, <3>3
      <4>2. QED
          BY <3>1, <4>1
    <3>4. CASE ~(f[x] <= f[m])
      <4>1. ASSUME NEW y \in s PROVE f[y] <= f[x]
        <5>1. CASE y = x
            BY <3>2, <5>1
        <5>2. CASE y # x
          <6>1. f[y] <= f[m] /\ f[y] \in Int
              BY <3>1, <3>2, <5>2
          <6>2. QED
              BY <3>2, <3>4, <6>1
        <5>3. QED
            BY <5>1, <5>2
      <4>2. QED
          BY <2>1, <4>1
    <3>5. QED
        BY <3>3, <3>4
  <2>4. QED
      BY <2>2, <2>3
<1>3. SUBSET S \subseteq holds
  <2> HIDE DEF holds
  <2>1. QED
      BY <1>1, <1>2, SubsetsByOne
<1>4. S \in holds
    BY <1>3
<1>5. QED
    BY <1>4

\* A sum over two sets apart from each other is the sum of theirs, and it
\* looks at nothing but the members.
LEMMA SumOfUnion ==
    ASSUME NEW S, IsFiniteSet(S), NEW T, IsFiniteSet(T), S \cap T = {},
           NEW f, \A x \in S \cup T : f[x] \in Int
    PROVE  SumFunctionOnSet(f, S \cup T) = SumFunctionOnSet(f, S) + SumFunctionOnSet(f, T)
<1> DEFINE sum(s) == SumFunctionOnSet(f, s)
           holds == {s \in SUBSET T : sum(S \cup s) = sum(S) + sum(s)}
<1>1. ASSUME NEW s \in SUBSET T
      PROVE  /\ IsFiniteSet(s) /\ IsFiniteSet(S \cup s)
             /\ \A x \in S \cup s : f[x] \in Int
             /\ sum(s) \in Int
  <2>1. IsFiniteSet(s) /\ \A x \in s : f[x] \in Int
      BY FS_Subset
  <2>2. QED
      BY <2>1, FS_Union, SumIsANumber
<1>2. sum(S) \in Int
    BY SumIsANumber
<1>3. {} \in holds
  <2>1. sum({}) = 0 /\ S \cup {} = S
      BY SumOfNone
  <2> HIDE DEF sum
  <2>2. {} \in SUBSET T
      OBVIOUS
  <2>3. QED
      BY <1>2, <2>1, <2>2
<1>4. ASSUME NEW s \in SUBSET T, s # {}, \A x \in s : s \ {x} \in holds PROVE s \in holds
  <2>1. PICK x \in s : TRUE
      BY <1>4
  <2>2. (S \cup s) \ {x} = S \cup (s \ {x})
      BY <2>1
  <2>3. sum(S \cup s) = f[x] + sum((S \cup s) \ {x})
    <3>1. IsFiniteSet(S \cup s) /\ (\A y \in S \cup s : f[y] \in Int) /\ x \in S \cup s
        BY <1>1, <2>1
    <3>2. QED
        BY <3>1, SumTakesOut
  <2>4. sum(s) = f[x] + sum(s \ {x})
    <3>1. IsFiniteSet(s) /\ \A y \in s : f[y] \in Int
        BY <1>1
    <3>2. QED
        BY <2>1, <3>1, SumTakesOut
  <2>5. sum(S \cup (s \ {x})) = sum(S) + sum(s \ {x})
      BY <1>4, <2>1
  <2>6. f[x] \in Int /\ sum(s \ {x}) \in Int
    <3>1. s \ {x} \in SUBSET T
        OBVIOUS
    <3>2. QED
        BY <1>1, <2>1, <3>1
  <2> HIDE DEF sum
  <2>7. sum(S \cup s) = sum(S) + sum(s)
    <3>1. sum(S \cup s) = f[x] + (sum(S) + sum(s \ {x}))
        BY <2>2, <2>3, <2>5
    <3>2. \A a, b, c \in Int : a + (b + c) = b + (a + c)
        OBVIOUS
    <3>3. QED
        BY <1>2, <2>4, <2>6, <3>1, <3>2
  <2>8. QED
      BY <2>7 DEF sum
<1>5. SUBSET T \subseteq holds
  <2> HIDE DEF holds
  <2>1. QED
      BY <1>3, <1>4, SubsetsByOne
<1>6. T \in holds
    BY <1>5
<1>7. QED
    BY <1>6

LEMMA SumAgrees ==
    ASSUME NEW S, IsFiniteSet(S), NEW f, NEW g, \A x \in S : f[x] \in Int /\ g[x] = f[x]
    PROVE  SumFunctionOnSet(f, S) = SumFunctionOnSet(g, S)
<1> DEFINE holds == {s \in SUBSET S : SumFunctionOnSet(f, s) = SumFunctionOnSet(g, s)}
<1>1. {} \in holds
    BY SumOfNone
<1>2. ASSUME NEW s \in SUBSET S, s # {}, \A x \in s : s \ {x} \in holds PROVE s \in holds
  <2>1. PICK x \in s : TRUE
      BY <1>2
  <2>2. IsFiniteSet(s) /\ (\A y \in s : f[y] \in Int) /\ (\A y \in s : g[y] \in Int)
      BY FS_Subset
  <2>3. SumFunctionOnSet(f, s) = f[x] + SumFunctionOnSet(f, s \ {x})
      BY <2>1, <2>2, SumTakesOut
  <2>4. SumFunctionOnSet(g, s) = g[x] + SumFunctionOnSet(g, s \ {x})
      BY <2>1, <2>2, SumTakesOut
  <2>5. QED
      BY <1>2, <2>1, <2>3, <2>4
<1>3. SUBSET S \subseteq holds
  <2> HIDE DEF holds
  <2>1. QED
      BY <1>1, <1>2, SubsetsByOne
<1>4. S \in holds
    BY <1>3
<1>5. QED
    BY <1>4

\* What is made from the values at lesser members of a set of numbers up to n exists.
Recurs(n, C, V, step) ==
    /\ C \in SUBSET (0 .. n) /\ V # {} /\ step \in [C \X [C -> V] -> V]
    /\ \A c \in C, g, h \in [C -> V] : (\A d \in C : d < c => g[d] = h[d]) => step[<<c, g>>] = step[<<c, h>>]
RecursionOf(g, C, V, step) == g \in [C -> V] /\ \A c \in C : g[c] = step[<<c, g>>]

LEMMA RecursionExists ==
    ASSUME NEW n \in Nat, NEW C, NEW V, NEW step, Recurs(n, C, V, step)
    PROVE  \E g : RecursionOf(g, C, V, step)
<1> USE DEF Recurs
<1> DEFINE upTo(k, g) == \A c \in C : c < k => g[c] = step[<<c, g>>]
           holds == {k \in Nat : \E g \in [C -> V] : upTo(k, g)}
<1>1. 0 \in holds
  <2>1. PICK v \in V : TRUE
      OBVIOUS
  <2>2. [c \in C |-> v] \in [C -> V]
      OBVIOUS
  <2>3. upTo(0, [c \in C |-> v])
      OBVIOUS
  <2> HIDE DEF upTo
  <2>4. QED
      BY <2>2, <2>3
<1>2. ASSUME NEW k \in Nat, k \in holds PROVE k + 1 \in holds
  <2>1. PICK g \in [C -> V] : upTo(k, g)
      BY <1>2
  <2> DEFINE h == [c \in C |-> IF c = k THEN step[<<k, g>>] ELSE g[c]]
  <2>2. h \in [C -> V]
    <3>1. \A c \in C : c = k => step[<<k, g>>] \in V
        OBVIOUS
    <3>2. QED
        BY <3>1
  <2>3. ASSUME NEW c \in C, c < k + 1 PROVE h[c] = step[<<c, h>>]
    <3>1. \A d \in C : d < c => h[d] = g[d]
        BY <2>3
    <3>2. step[<<c, h>>] = step[<<c, g>>]
      <4> HIDE DEF h
      <4>1. QED
          BY <2>2, <3>1
    <3>3. CASE c = k
        BY <3>2, <3>3
    <3>4. CASE c # k
      <4>1. c < k
          BY <2>3, <3>4
      <4>2. h[c] = g[c] /\ g[c] = step[<<c, g>>]
          BY <2>1, <3>4, <4>1
      <4>3. QED
          BY <3>2, <4>2
    <3>5. QED
        BY <3>3, <3>4
  <2>4. upTo(k + 1, h)
    <3> HIDE DEF h
    <3>1. QED
        BY <2>3
  <2> HIDE DEF h, upTo
  <2>5. QED
      BY <2>2, <2>4
<1>3. n + 1 \in holds
  <2> HIDE DEF holds
  <2>1. 0 .. n + 1 \subseteq holds
    <3>1. n + 1 \in Nat /\ \A k \in 0 .. (n + 1) - 1 : k \in holds => k + 1 \in holds
        BY <1>2
    <3>2. QED
        BY <1>1, <3>1, CountingUp
  <2>2. n + 1 \in 0 .. n + 1
      OBVIOUS
  <2>3. QED
      BY <2>1, <2>2
<1>4. PICK g \in [C -> V] : upTo(n + 1, g)
    BY <1>3
<1>5. \A c \in C : c < n + 1
  <2>1. \A c \in 0 .. n : c < n + 1
      OBVIOUS
  <2>2. QED
      BY <2>1
<1>6. QED
    BY <1>4, <1>5 DEF RecursionOf

\* Max of a finite set of integers.
LEMMA MaxOfIntegers ==
    ASSUME NEW S \in SUBSET Int, IsFiniteSet(S), S # {}
    PROVE  Max(S) \in S /\ \A y \in S : y <= Max(S)
<1>1. PICK m \in S : \A y \in S : [x \in S |-> x][y] <= [x \in S |-> x][m]
  <2> DEFINE f == [x \in S |-> x]
  <2>1. \A x \in S : f[x] \in Int
      OBVIOUS
  <2> HIDE DEF f
  <2>2. \E m \in S : \A y \in S : f[y] <= f[m]
      BY <2>1, SomeIsGreatest
  <2>3. QED
      BY <2>2 DEF f
<1>2. \A y \in S : m >= y
    BY <1>1
<1>3. Max(S) \in S /\ \A y \in S : Max(S) >= y
    BY <1>2 DEF Max
<1>4. QED
    BY <1>3

\* What is left of a number after its remainder is taken off has none.
LEMMA RemainderOff ==
    ASSUME NEW m \in Nat \ {0}, NEW d \in Nat
    PROVE  d % m \in 0 .. m - 1 /\ d % m <= d /\ (d - (d % m)) % m = 0
<1>0. \A x \in Nat : (x % m) \in 0 .. m - 1 /\ x = m * (x \div m) + (x % m) /\ x \div m \in Nat
    OBVIOUS
<1>1. (d % m) \in 0 .. m - 1 /\ d = m * (d \div m) + (d % m) /\ d \div m \in Nat
    BY <1>0
<1> DEFINE k == d \div m
           e == m * k
           q == e \div m
           r == e % m
<1>2. k \in Nat /\ d = e + (d % m)
    BY <1>1
<1>3. e \in Nat
  <2>1. \A a, b \in Nat : a * b \in Nat
      OBVIOUS
  <2>2. QED
      BY <1>2, <2>1
<1> HIDE DEF k
<1>4. e = m * k
    OBVIOUS
<1> HIDE DEF e
<1>5. q \in Nat /\ r \in 0 .. m - 1 /\ e = m * q + r
    BY <1>0, <1>3
<1> HIDE DEF q, r
<1>6. r = m * (k - q)
    BY <1>2, <1>4, <1>5
<1>7. k - q = 0
  <2>1. CASE k - q >= 1
    <3>1. \A a \in Int : a >= 1 => m * a >= m
        OBVIOUS
    <3>2. m * (k - q) >= m
        BY <1>2, <1>5, <2>1, <3>1
    <3>3. QED
        BY <1>5, <1>6, <3>2
  <2>2. CASE k - q <= -1
    <3>1. \A a \in Int : a <= -1 => m * a < 0
        OBVIOUS
    <3>2. m * (k - q) < 0
        BY <1>2, <1>5, <2>2, <3>1
    <3>3. QED
        BY <1>5, <1>6, <3>2
  <2>3. QED
      BY <1>2, <1>5, <2>1, <2>2
<1>8. r = 0
    BY <1>6, <1>7
<1>9. d - (d % m) = e
    BY <1>1, <1>2, <1>3
<1>10. e % m = 0
    BY <1>8 DEF r
<1>11. d % m <= d
    BY <1>1, <1>2, <1>3
<1>12. QED
    BY <1>1, <1>9, <1>10, <1>11

=============================================================================
