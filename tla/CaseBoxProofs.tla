---------------------------- MODULE CaseBoxProofs ----------------------------
(***************************************************************************)
(* What the case box promises, for every set of propositions, entities,    *)
(* packs, relations and crews: open references stay flagged, a pair is     *)
(* confirmed for a relation, every component has its own representative,   *)
(* a merge pools evidence and its split gives it back, the roll-up is      *)
(* never circular, and a part reads deeper than its whole.                 *)
(***************************************************************************)
EXTENDS CaseBox, Counting

-----------------------------------------------------------------------------
(* Chains of sets, and the largest of several groups of values.             *)

\* Of any two sets one is in the other.
Chain(Rs) == \A R, T \in Rs : R \subseteq T \/ T \subseteq R

\* The largest of some sets in a chain.
LEMMA ChainHasLargest ==
    ASSUME NEW D, IsFiniteSet(D), NEW Rs \in SUBSET SUBSET D, Rs # {}, Chain(Rs)
    PROVE  \E R \in Rs : \A T \in Rs : T \subseteq R
<1> DEFINE N == Cardinality(D)
           left == {k \in Nat : \E R \in Rs : k = N - Cardinality(R)}
<1>1. N \in Nat /\ \A R \in Rs : IsFiniteSet(R) /\ Cardinality(R) \in Nat /\ Cardinality(R) <= N
    BY FS_Subset, FS_CardinalityType
<1>2. left \in SUBSET Nat /\ left # {}
    BY <1>1
<1>3. PICK k \in left : \A j \in left : k <= j
  <2> HIDE DEF left
  <2>1. QED
      BY <1>2, LeastNatural
<1>4. PICK R \in Rs : k = N - Cardinality(R)
    BY <1>3
<1>5. ASSUME NEW T \in Rs PROVE T \subseteq R
  <2>1. Cardinality(T) <= Cardinality(R)
    <3>1. N - Cardinality(T) \in left
        BY <1>1
    <3> HIDE DEF N, left
    <3>2. QED
        BY <1>1, <1>3, <1>4, <3>1
  <2>2. CASE R \subseteq T
    <3>1. R \in SUBSET T /\ IsFiniteSet(T)
        BY <1>1, <2>2
    <3>2. Cardinality(R) <= Cardinality(T) /\ (Cardinality(R) = Cardinality(T) => R = T)
        BY <3>1, FS_Subset
    <3>3. QED
        BY <1>1, <2>1, <3>2
  <2>3. QED
      BY <2>2 DEF Chain
<1>6. QED
    BY <1>5

\* The values of some groups, and the largest value of each.
Grouped(all, B, values, tops) ==
    /\ \A b \in B : values[b] \subseteq all /\ values[b] # {} /\ Max(values[b]) \in tops
    /\ \A v \in all : \E b \in B : v \in values[b]
    /\ \A t \in tops : \E b \in B : t = Max(values[b])

LEMMA MaxOfGroups ==
    ASSUME NEW all \in SUBSET Nat, IsFiniteSet(all), all # {},
           NEW B, NEW values, NEW tops, Grouped(all, B, values, tops)
    PROVE  Max(tops) = Max(all)
<1> USE DEF Grouped
<1>1. \A b \in B : Max(values[b]) \in values[b] /\ \A y \in values[b] : y <= Max(values[b])
  <2>1. \A b \in B : values[b] \in SUBSET Nat /\ IsFiniteSet(values[b])
      BY FS_Subset
  <2>2. QED
      BY <2>1, MaxIsLargest
<1>2. Max(all) \in all /\ \A y \in all : y <= Max(all)
    BY MaxIsLargest
<1>3. Max(all) \in tops
  <2>1. PICK b \in B : Max(all) \in values[b]
      BY <1>2
  <2>2. Max(values[b]) \in all /\ Max(all) <= Max(values[b])
      BY <1>1, <2>1
  <2>3. Max(values[b]) = Max(all)
    <3>1. Max(values[b]) \in Nat /\ Max(all) \in Nat /\ Max(values[b]) <= Max(all)
        BY <1>2, <2>2
    <3>2. QED
        BY <2>2, <3>1
  <2>4. QED
      BY <2>3
<1>4. tops \in SUBSET all
    BY <1>1
<1>5. tops \in SUBSET Nat /\ IsFiniteSet(tops) /\ tops # {}
    BY <1>3, <1>4, FS_Subset
<1>6. Max(tops) \in tops /\ \A y \in tops : y <= Max(tops)
    BY <1>5, MaxIsLargest
<1>7. Max(tops) \in Nat /\ Max(all) \in Nat /\ Max(tops) <= Max(all) /\ Max(all) <= Max(tops)
    BY <1>2, <1>3, <1>4, <1>6
<1>8. QED
    BY <1>7

-----------------------------------------------------------------------------
(* Part-whole orders: Above is the transitive closure of its edges, and    *)
(* the peeling of core/partwhole.py takes away what is on a cycle or below *)
(* one.                                                                    *)

\* What some edge leads to.
Targets(edges) == {e[2] : e \in edges}

\* There are no more targets than edges.
LEMMA TargetsAreFinite ==
    ASSUME NEW edges, IsFiniteSet(edges)
    PROVE  IsFiniteSet(Targets(edges)) /\ Cardinality(Targets(edges)) <= Cardinality(edges)
<1> DEFINE f == [e \in edges |-> e[2]]
<1>1. f \in Surjection(edges, Targets(edges))
    BY DEF Surjection, Targets
<1>2. QED
    BY <1>1, FS_Surjection

\* Above unfolds: it is reached by as many steps as there are edges.
LEMMA AboveIterates ==
    ASSUME NEW edges, IsFiniteSet(edges), NEW n
    PROVE  \E up \in [0 .. Cardinality(edges) -> SUBSET Targets(edges)] :
              /\ up[0] = Step(edges, {n})
              /\ \A i \in 1 .. Cardinality(edges) : up[i] = up[i - 1] \cup Step(edges, up[i - 1])
              /\ Above(edges, n) = up[Cardinality(edges)]
<1> DEFINE N == Cardinality(edges)
           S == SUBSET Targets(edges)
           step == [T \in S |-> T \cup Step(edges, T)]
           Eq(g) == g = [i \in 0 .. N |-> IF i = 0 THEN Step(edges, {n})
                                          ELSE g[i - 1] \cup Step(edges, g[i - 1])]
           up == CHOOSE g : Eq(g)
<1>1. N \in Nat
    BY FS_CardinalityType
<1>2. \A T : Step(edges, T) \in S
    BY DEF Step, Targets
<1>3. step \in [S -> S]
    BY <1>2
<1>4. PICK g \in [0 .. N -> S] : Iterates(g, N, Step(edges, {n}), step)
  <2> HIDE DEF N, S, step
  <2>1. QED
      BY <1>1, <1>2, <1>3, IterationExists
<1>5. Eq(g)
  <2>1. \A i \in 1 .. N : g[i] = g[i - 1] \cup Step(edges, g[i - 1])
    <3>1. \A i \in 1 .. N : i - 1 \in 0 .. N
        BY <1>1
    <3>2. \A i \in 1 .. N : g[i] = step[g[i - 1]] /\ g[i - 1] \in S
        BY <1>4, <3>1 DEF Iterates
    <3>3. QED
        BY <3>2
  <2>2. \A i \in 0 .. N : i # 0 => i \in 1 .. N
      BY <1>1
  <2>3. QED
      BY <1>4, <2>1, <2>2 DEF Iterates
<1>6. Eq(up)
  <2> HIDE DEF Eq
  <2>1. QED
      BY <1>5
<1>7. DOMAIN up = 0 .. N /\ up[0] = Step(edges, {n})
      /\ \A i \in 1 .. N : up[i] = up[i - 1] \cup Step(edges, up[i - 1])
  <2> HIDE DEF up
  <2>1. 0 \in 0 .. N /\ \A i \in 1 .. N : i \in 0 .. N /\ i # 0
      BY <1>1
  <2>2. QED
      BY <1>6, <2>1
<1>8. up \in [0 .. N -> S]
  <2> HIDE DEF up, N
  <2> DEFINE holds == {i \in 0 .. N : up[i] \in S}
  <2>1. 0 \in holds
      BY <1>1, <1>2, <1>7
  <2>2. ASSUME NEW k \in 0 .. N - 1, k \in holds PROVE k + 1 \in holds
    <3>1. k + 1 \in 1 .. N /\ k + 1 \in 0 .. N /\ (k + 1) - 1 = k
        BY <1>1
    <3>2. up[k + 1] = up[k] \cup Step(edges, up[k])
        BY <1>7, <3>1
    <3>3. QED
        BY <1>2, <2>2, <3>1, <3>2
  <2>3. 0 .. N \subseteq holds
    <3> HIDE DEF holds
    <3>1. QED
        BY <1>1, <2>1, <2>2, CountingUp
  <2>4. up = [i \in 0 .. N |-> up[i]]
    <3> HIDE DEF holds
    <3>1. QED
      BY <1>6 DEF Eq
  <2>5. QED
      BY <2>3, <2>4
<1>9. Above(edges, n) = up[N]
    BY DEF Above
<1> HIDE DEF up, Eq
<1>10. QED
    BY <1>7, <1>8, <1>9

\* Whatever is above n is closed under the edges ...
LEMMA AboveIsClosed ==
    ASSUME NEW edges, IsFiniteSet(edges), NEW n
    PROVE  Step(edges, {n} \cup Above(edges, n)) \subseteq Above(edges, n)
<1> DEFINE N == Cardinality(edges)
           Y == Targets(edges)
           S == SUBSET Y
           step == [T \in S |-> T \cup Step(edges, T)]
           m == [T \in S |-> T]
<1>1. N \in Nat /\ IsFiniteSet(Y) /\ Cardinality(Y) <= N
    BY FS_CardinalityType, TargetsAreFinite
<1>2. PICK up \in [0 .. N -> S] :
              /\ up[0] = Step(edges, {n})
              /\ \A i \in 1 .. N : up[i] = up[i - 1] \cup Step(edges, up[i - 1])
              /\ Above(edges, n) = up[N]
    BY AboveIterates
<1>3. \A i \in 1 .. N : i - 1 \in 0 .. N /\ i \in 0 .. N
    BY <1>1
<1>4. \A T : Step(edges, T) \in S
    BY DEF Step, Targets
<1>5. Iterates(up, N, Step(edges, {n}), step)
    BY <1>2, <1>3 DEF Iterates
<1>6. step \in [S -> S] /\ m \in [S -> SUBSET Y]
    BY <1>4
<1>7. Settles(S, step, Y, m)
  <2>1. Step(edges, {}) = {}
      BY DEF Step
  <2>2. ASSUME NEW T \in S
        PROVE  step[T] \in S /\ step[T] = T \cup Step(edges, T) /\ m[T] = T /\ m[step[T]] = step[T]
      BY <1>4
  <2> HIDE DEF step, m, S
  <2>3. QED
      BY <1>6, <2>1, <2>2 DEF Settles
<1>8. step[up[N]] = up[N]
  <2> HIDE DEF N, Y, S, step, m
  <2>1. QED
      BY <1>1, <1>2, <1>5, <1>7, IterationSettles
<1>9. Step(edges, up[N]) \subseteq up[N]
  <2>1. up[N] \in S
      BY <1>1, <1>2
  <2>2. QED
      BY <1>8, <2>1
<1>10. Step(edges, {n}) \subseteq up[N]
  <2> DEFINE holds == {i \in 0 .. N : Step(edges, {n}) \subseteq up[i]}
  <2> HIDE DEF N, Y, S, step, m
  <2>1. 0 \in holds
      BY <1>1, <1>2
  <2>2. ASSUME NEW k \in 0 .. N - 1, k \in holds PROVE k + 1 \in holds
    <3>1. k + 1 \in 1 .. N /\ k + 1 \in 0 .. N /\ (k + 1) - 1 = k
        BY <1>1
    <3>2. up[k + 1] = up[k] \cup Step(edges, up[k])
        BY <1>2, <3>1
    <3>3. QED
        BY <2>2, <3>1, <3>2
  <2> HIDE DEF holds
  <2>3. N \in holds
      BY <1>1, <2>1, <2>2, CountingUp
  <2>4. QED
      BY <2>3 DEF holds
<1>11. QED
    BY <1>2, <1>9, <1>10 DEF Step

\* ... and is in every set that is and has the ends of n's own edges.
LEMMA AboveIsLeast ==
    ASSUME NEW edges, IsFiniteSet(edges), NEW n, NEW T,
           Step(edges, {n}) \subseteq T, Step(edges, T) \subseteq T
    PROVE  Above(edges, n) \subseteq T
<1> DEFINE N == Cardinality(edges)
<1>1. N \in Nat
    BY FS_CardinalityType
<1>2. PICK up : /\ up[0] = Step(edges, {n})
                /\ \A i \in 1 .. N : up[i] = up[i - 1] \cup Step(edges, up[i - 1])
                /\ Above(edges, n) = up[N]
    BY AboveIterates
<1> DEFINE holds == {i \in 0 .. N : up[i] \subseteq T}
<1> HIDE DEF N
<1>3. 0 \in holds
    BY <1>1, <1>2
<1>4. ASSUME NEW k \in 0 .. N - 1, k \in holds PROVE k + 1 \in holds
  <2>1. k + 1 \in 1 .. N /\ k + 1 \in 0 .. N /\ (k + 1) - 1 = k
      BY <1>1
  <2>2. up[k + 1] = up[k] \cup Step(edges, up[k])
      BY <1>2, <2>1
  <2>3. Step(edges, up[k]) \subseteq Step(edges, T)
      BY <1>4 DEF Step
  <2>4. QED
      BY <1>4, <2>1, <2>2, <2>3
<1> HIDE DEF holds
<1>5. N \in holds
    BY <1>1, <1>3, <1>4, CountingUp
<1>6. QED
    BY <1>2, <1>5 DEF holds

\* Going on along a path, reading it at its first edge and at its last.
LEMMA AboveIsReachable ==
    ASSUME NEW edges, IsFiniteSet(edges)
    PROVE  /\ \A e \in edges : e[2] \in Above(edges, e[1])
           /\ \A a, b : b \in Above(edges, a) => Above(edges, b) \subseteq Above(edges, a)
           /\ \A a, b : b \in Above(edges, a) => \E e \in edges : e[1] = a /\ (e[2] = b \/ b \in Above(edges, e[2]))
           /\ \A a, b : b \in Above(edges, a) => \E e \in edges : e[2] = b
<1>1. ASSUME NEW e \in edges PROVE e[2] \in Above(edges, e[1])
    BY AboveIsClosed DEF Step
<1>2. ASSUME NEW a, NEW b, b \in Above(edges, a) PROVE Above(edges, b) \subseteq Above(edges, a)
  <2>1. Step(edges, Above(edges, a)) \subseteq Above(edges, a)
      BY AboveIsClosed DEF Step
  <2>2. Step(edges, {b}) \subseteq Above(edges, a)
      BY <1>2, <2>1 DEF Step
  <2>3. QED
      BY <2>1, <2>2, AboveIsLeast
<1>3. ASSUME NEW a, NEW b, b \in Above(edges, a)
      PROVE  \E e \in edges : e[1] = a /\ (e[2] = b \/ b \in Above(edges, e[2]))
  <2> DEFINE T == {x \in Above(edges, a) : \E e \in edges : e[1] = a /\ (e[2] = x \/ x \in Above(edges, e[2]))}
  <2>1. Step(edges, {a}) \subseteq T
      BY <1>1 DEF Step
  <2>2. ASSUME NEW e \in edges, e[1] \in T PROVE e[2] \in T
    <3>1. e[2] \in Above(edges, a)
        BY <2>2, AboveIsClosed DEF Step
    <3>2. PICK f \in edges : f[1] = a /\ (f[2] = e[1] \/ e[1] \in Above(edges, f[2]))
        BY <2>2
    <3>3. e[2] \in Above(edges, f[2])
        BY <3>2, AboveIsClosed DEF Step
    <3>4. QED
        BY <3>1, <3>2, <3>3
  <2>3. Step(edges, T) \subseteq T
      BY <2>2 DEF Step
  <2> HIDE DEF T
  <2>4. b \in T
      BY <1>3, <2>1, <2>3, AboveIsLeast
  <2>5. QED
      BY <2>4 DEF T
<1>4. ASSUME NEW a, NEW b, b \in Above(edges, a) PROVE \E e \in edges : e[2] = b
  <2>1. Step(edges, {a}) \subseteq Targets(edges) /\ Step(edges, Targets(edges)) \subseteq Targets(edges)
      BY DEF Step, Targets
  <2>2. b \in Targets(edges)
      BY <1>4, <2>1, AboveIsLeast
  <2>3. QED
      BY <2>2 DEF Targets
<1>5. QED
    BY <1>1, <1>2, <1>3, <1>4

\* More edges reach no less.
LEMMA AboveIsMonotone ==
    ASSUME NEW edges, IsFiniteSet(edges), NEW more, IsFiniteSet(more), edges \subseteq more, NEW n
    PROVE  Above(edges, n) \subseteq Above(more, n)
<1>1. Step(more, {n} \cup Above(more, n)) \subseteq Above(more, n)
    BY AboveIsClosed
<1>2. Step(edges, {n}) \subseteq Above(more, n) /\ Step(edges, Above(more, n)) \subseteq Above(more, n)
    BY <1>1 DEF Step
<1>3. QED
    BY <1>2, AboveIsLeast

\* An end of a peeled edge is on no cycle, and nothing above it is.
LEMMA PeeledIsOffCycles ==
    ASSUME NEW edges, NEW a \in Ends(_acyclic_edges(edges))
    PROVE  a \notin OnCycle(NoLoops(edges))
<1>1. PICK e \in _acyclic_edges(edges) : a = e[1] \/ a = e[2]
    BY DEF Ends
<1>2. e \in NoLoops(edges) /\ a \notin Unpeeled(edges)
    BY <1>1 DEF _acyclic_edges
<1>3. a \in Ends(NoLoops(edges))
    BY <1>1, <1>2 DEF Ends
<1>4. QED
    BY <1>2, <1>3 DEF Unpeeled

\* Above an end that peels, everything peels.
LEMMA PeeledAbove ==
    ASSUME NEW edges, IsFiniteSet(edges), NEW n \in Ends(_acyclic_edges(edges))
    PROVE  Above(NoLoops(edges), n) \subseteq Above(_acyclic_edges(edges), n)
<1> DEFINE E == NoLoops(edges)
           A == _acyclic_edges(edges)
           T == Above(A, n) \cap Above(E, n)
<1>1. A \subseteq E /\ IsFiniteSet(E) /\ IsFiniteSet(A)
  <2>1. A \subseteq E /\ E \subseteq edges
      BY DEF _acyclic_edges, NoLoops
  <2>2. QED
      BY <2>1, FS_Subset
<1>2. ({n} \cup Above(E, n)) \cap OnCycle(E) = {}
  <2>1. PICK e \in A : n = e[1] \/ n = e[2]
      BY DEF Ends
  <2>2. e \in E /\ n \notin Unpeeled(edges)
      BY <2>1 DEF _acyclic_edges
  <2>3. n \in Ends(E)
      BY <2>1, <2>2 DEF Ends
  <2>4. QED
      BY <2>2, <2>3 DEF Unpeeled
<1>3. ASSUME NEW e \in E, e[1] = n \/ e[1] \in T PROVE e[2] \in T
  <2>1. \A x, y : y \in Above(E, x) => Above(E, y) \subseteq Above(E, x)
      BY <1>1, AboveIsReachable
  <2>2. e[2] \in Above(E, e[1])
      BY <1>1, AboveIsReachable
  <2>3. e[2] \in Above(E, n) /\ Above(E, e[1]) \subseteq Above(E, n) /\ Above(E, e[2]) \subseteq Above(E, n)
      BY <1>3, <2>1, <2>2
  <2>4. e[1] \notin Unpeeled(edges) /\ e[2] \notin Unpeeled(edges)
      BY <1>2, <1>3, <2>3 DEF Unpeeled
  <2>5. e \in A
      BY <2>4 DEF _acyclic_edges
  <2>6. e[2] \in Above(A, n)
    <3>1. Step(A, {n} \cup Above(A, n)) \subseteq Above(A, n)
        BY <1>1, AboveIsClosed
    <3>2. QED
        BY <1>3, <2>5, <3>1 DEF Step
  <2>7. QED
      BY <2>3, <2>6
<1>4. Step(E, {n}) \subseteq T /\ Step(E, T) \subseteq T
    BY <1>3 DEF Step
<1> HIDE DEF E, A, T
<1>5. Above(E, n) \subseteq T
    BY <1>1, <1>4, AboveIsLeast
<1>6. QED
    BY <1>5 DEF T, E, A

\* A roll-up edge stands for a path of edges that are no self-loops, from an
\* end that is on no cycle.
LEMMA RollupIsPath ==
    ASSUME NEW edges, IsFiniteSet(edges), NEW r \in transitive_closure(edges)
    PROVE  /\ r = <<r[1], r[2]>>
           /\ r[1] \notin OnCycle(NoLoops(edges))
           /\ r[2] \in Above(NoLoops(edges), r[1])
<1> DEFINE E == _acyclic_edges(edges)
<1>1. PICK n \in Ends(E) : \E a \in Above(E, n) : r = <<n, a>>
    BY DEF transitive_closure
<1>2. E \subseteq NoLoops(edges) /\ NoLoops(edges) \subseteq edges
    BY DEF _acyclic_edges, NoLoops
<1>3. IsFiniteSet(E) /\ IsFiniteSet(NoLoops(edges))
    BY <1>2, FS_Subset
<1>4. Above(E, n) \subseteq Above(NoLoops(edges), n)
  <2> HIDE DEF E
  <2>1. QED
      BY <1>2, <1>3, AboveIsMonotone
<1>5. n \notin OnCycle(NoLoops(edges))
    BY PeeledIsOffCycles
<1>6. QED
    BY <1>1, <1>4, <1>5

\* Roll-ups of reads that grow never close a cycle, although each leaves out
\* only the cycles it can see.  Of the edges on a would-be cycle, take one
\* whose read is the largest: that read has seen the whole cycle.
LEMMA RollupsOfAChain ==
    ASSUME NEW D, IsFiniteSet(D), NEW Rs \in SUBSET SUBSET D, Chain(Rs),
           NEW P, IsFiniteSet(P), \A r \in P : \E R \in Rs : r \in transitive_closure(R)
    PROVE  OnCycle(P) = {}
<1> SUFFICES ASSUME NEW n \in OnCycle(P) PROVE FALSE
    OBVIOUS
<1> DEFINE C == {x \in Above(P, n) : n \in Above(P, x)}
           Seen == {R \in Rs : \E r \in P : r \in transitive_closure(R) /\ r[1] \in C /\ r[2] \in C}
<1>1. n \in Above(P, n) /\ n \in C
    BY DEF OnCycle
<1>2. \A x, y : y \in Above(P, x) => Above(P, y) \subseteq Above(P, x)
    BY AboveIsReachable
<1>3. PICK R \in Seen : \A T \in Seen : T \subseteq R
  <2>1. PICK r \in P : r[1] = n /\ (r[2] = n \/ n \in Above(P, r[2]))
      BY <1>1, AboveIsReachable
  <2>2. r[2] \in C
      BY <1>1, <2>1, AboveIsReachable
  <2>3. Seen # {}
      BY <1>1, <2>1, <2>2
  <2>4. Seen \in SUBSET SUBSET D /\ Chain(Seen)
      BY DEF Chain
  <2> HIDE DEF Seen
  <2>5. QED
      BY <2>3, <2>4, ChainHasLargest
<1> DEFINE E == NoLoops(R)
<1>4. R \in SUBSET D /\ E \subseteq R /\ IsFiniteSet(R) /\ IsFiniteSet(E)
  <2>1. R \in SUBSET D /\ E \subseteq R
      BY DEF NoLoops
  <2>2. QED
      BY <2>1, FS_Subset
<1>5. PICK r \in P : r \in transitive_closure(R) /\ r[1] \in C /\ r[2] \in C
    BY <1>3
<1>6. r[1] \notin OnCycle(E) /\ r[2] \in Above(E, r[1])
    BY <1>4, <1>5, RollupIsPath
<1>7. ASSUME NEW s \in P, s[1] \in C, s[2] \in C
      PROVE  s[2] \in Above(E, s[1])
  <2>1. PICK T \in Rs : s \in transitive_closure(T)
      OBVIOUS
  <2>2. T \in Seen
      BY <1>7, <2>1
  <2>3. T \subseteq R /\ NoLoops(T) \subseteq E /\ IsFiniteSet(T) /\ IsFiniteSet(NoLoops(T))
    <3>1. T \subseteq R /\ NoLoops(T) \subseteq E /\ NoLoops(T) \subseteq T
        BY <1>3, <2>2 DEF NoLoops
    <3>2. QED
        BY <1>4, <3>1, FS_Subset
  <2>4. s[2] \in Above(NoLoops(T), s[1])
      BY <2>1, <2>3, RollupIsPath
  <2>5. QED
      BY <1>4, <2>3, <2>4, AboveIsMonotone
<1> DEFINE b == r[2]
           Walk == {z \in Above(P, b) : z \in C => z = b \/ z \in Above(E, b)}
<1> HIDE DEF Seen, E
<1>8. \A z : z \in Above(P, b) => z \in Above(P, n)
    BY <1>2, <1>5
<1>9. ASSUME NEW s \in P, s[1] = b \/ s[1] \in Walk PROVE s[2] \in Walk
  <2>1. s[2] \in Above(P, s[1]) /\ s[2] \in Above(P, b)
      BY <1>2, <1>9, AboveIsReachable
  <2>2. ASSUME s[2] \in C PROVE s[2] \in Above(E, b)
    <3>1. s[1] \in C
      <4>1. n \in Above(P, s[1])
          BY <1>2, <2>1, <2>2
      <4>2. QED
          BY <1>5, <1>8, <1>9, <4>1
    <3>2. s[2] \in Above(E, s[1]) /\ (s[1] = b \/ s[1] \in Above(E, b))
        BY <1>7, <1>9, <2>2, <3>1
    <3>3. QED
        BY <1>4, <3>2, AboveIsReachable
  <2>3. QED
      BY <2>1, <2>2
<1>10. Above(P, b) \subseteq Walk
  <2>1. Step(P, {b}) \subseteq Walk /\ Step(P, Walk) \subseteq Walk
      BY <1>9 DEF Step
  <2> HIDE DEF Walk, b
  <2>2. QED
      BY <2>1, AboveIsLeast
<1>11. r[1] \in Above(P, b)
    BY <1>2, <1>5
<1>12. r[1] \in Above(E, r[1])
  <2>1. r[1] = b \/ r[1] \in Above(E, b)
      BY <1>5, <1>10, <1>11
  <2>2. QED
      BY <1>4, <1>6, <2>1, AboveIsReachable
<1>13. r[1] \in Ends(E)
  <2>1. \A x, y : y \in Above(E, x) => \E e \in E : e[1] = x /\ (e[2] = y \/ y \in Above(E, e[2]))
      BY <1>4, AboveIsReachable
  <2>2. PICK e \in E : e[1] = r[1]
      BY <1>12, <2>1
  <2>3. QED
      BY <2>2 DEF Ends
<1>14. QED
    BY <1>6, <1>12, <1>13 DEF OnCycle

\* The number of ancestors grows along a part-whole step when the whole's
\* ancestors are the part's, the whole itself is one of the part's, and it is
\* none of its own.
LEMMA DeeperThanWhole ==
    ASSUME NEW closure, IsFiniteSet(closure), \A e \in closure : e = <<e[1], e[2]>>,
           NEW part, NEW whole, <<part, whole>> \in closure, <<whole, whole>> \notin closure,
           \A z : <<whole, z>> \in closure => <<part, z>> \in closure
    PROVE  derived_level(closure, part) > derived_level(closure, whole)
<1> DEFINE Up(n) == {e \in closure : e[1] = n}
           lift == [e \in Up(whole) |-> <<part, e[2]>>]
<1>1. \A n : IsFiniteSet(Up(n)) /\ Cardinality(Up(n)) \in Nat
  <2>1. \A n : Up(n) \in SUBSET closure
      OBVIOUS
  <2> HIDE DEF Up
  <2>2. QED
      BY <2>1, FS_Subset, FS_CardinalityType
<1>2. lift \in Injection(Up(whole), Up(part))
  <2>1. lift \in [Up(whole) -> Up(part)]
      OBVIOUS
  <2>2. \A d, e \in Up(whole) : lift[d] = lift[e] => d = e
      OBVIOUS
  <2>3. QED
      BY <2>1, <2>2 DEF Injection, IsInjective
<1>3. lift \notin Surjection(Up(whole), Up(part))
  <2>1. <<part, whole>> \in Up(part)
      OBVIOUS
  <2>2. \A e \in Up(whole) : lift[e] # <<part, whole>>
      OBVIOUS
  <2>3. QED
      BY <2>1, <2>2 DEF Surjection
<1>4. Cardinality(Up(whole)) <= Cardinality(Up(part)) /\ Cardinality(Up(whole)) # Cardinality(Up(part))
  <2> HIDE DEF lift, Up
  <2>1. QED
      BY <1>1, <1>2, <1>3, FS_Injection
<1>5. \A n : derived_level(closure, n) = Cardinality(Up(n))
    BY DEF derived_level
<1> HIDE DEF Up
<1>6. QED
    BY <1>1, <1>4, <1>5

-----------------------------------------------------------------------------
(* Equivalence classes: those of core/resolve.py are the least sets that   *)
(* no link leaves or enters.                                               *)

\* A set no link leaves or enters.
Tied(T, links) == \A l \in links : l \cap T # {} => l \subseteq T

\* The class of e under the links: the least set with e that no link leaves.
Class(e, links) == {f \in {e} \cup UNION links : \A T : e \in T /\ Tied(T, links) => f \in T}

\* Class is tied, and in every tied set with e.
LEMMA ClassIsLeastTied ==
    ASSUME NEW e, NEW links
    PROVE  /\ e \in Class(e, links) /\ Tied(Class(e, links), links)
           /\ \A T : e \in T /\ Tied(T, links) => Class(e, links) \subseteq T
<1>1. ASSUME NEW l \in links, NEW f \in l, f \in Class(e, links), NEW g \in l
      PROVE  g \in Class(e, links)
  <2>1. g \in UNION links
      OBVIOUS
  <2>2. \A T : e \in T /\ Tied(T, links) => g \in T
      BY <1>1 DEF Class, Tied
  <2>3. QED
      BY <2>1, <2>2 DEF Class
<1>2. Tied(Class(e, links), links)
    BY <1>1 DEF Tied
<1>3. QED
    BY <1>2 DEF Class

\* A member's class is the class.
LEMMA ClassOfMember ==
    ASSUME NEW e, NEW links, NEW f \in Class(e, links)
    PROVE  Class(f, links) = Class(e, links)
<1>1. Class(f, links) \subseteq Class(e, links)
    BY ClassIsLeastTied
<1>2. e \in Class(f, links)
  <2> SUFFICES ASSUME e \notin Class(f, links) PROVE FALSE
      OBVIOUS
  <2> DEFINE rest == Class(e, links) \ Class(f, links)
  <2>1. Tied(rest, links)
      BY ClassIsLeastTied DEF Tied
  <2>2. e \in rest
      BY ClassIsLeastTied
  <2>3. Class(e, links) \subseteq rest
    <3> HIDE DEF rest
    <3>1. QED
        BY <2>1, <2>2, ClassIsLeastTied
  <2>4. QED
      BY <2>3, ClassIsLeastTied
<1>3. Class(e, links) \subseteq Class(f, links)
    BY <1>2, ClassIsLeastTied
<1>4. QED
    BY <1>1, <1>3

\* grow is the table of the classes under way (Classes, in Resolution).
Unfolds(grow, items, links) ==
    /\ grow \in [0 .. Cardinality(links) -> [items -> SUBSET items]]
    /\ \A x \in items : grow[0][x] = {x}
    /\ \A i \in 1 .. Cardinality(links) : \A x \in items :
          grow[i][x] = grow[i - 1][x] \cup UNION {l \in links : l \cap grow[i - 1][x] # {}}
    /\ Classes(items, links) = {grow[Cardinality(links)][x] : x \in items}

\* The classes of Resolution unfold: each is grown as often as there are links.
LEMMA ClassesIterate ==
    ASSUME NEW items, NEW links, IsFiniteSet(links), \A l \in links : l \subseteq items
    PROVE  \E grow : Unfolds(grow, items, links)
<1> DEFINE N == Cardinality(links)
           S == [items -> SUBSET items]
           Linked(T) == T \cup UNION {l \in links : l \cap T # {}}
           base == [x \in items |-> {x}]
           step == [f \in S |-> [x \in items |-> Linked(f[x])]]
           Eq(g) == g = [i \in 0 .. N |-> [x \in items |-> IF i = 0 THEN {x} ELSE Linked(g[i - 1][x])]]
           grow == CHOOSE g : Eq(g)
<1>1. N \in Nat
    BY FS_CardinalityType
<1>2. \A f \in S : [x \in items |-> Linked(f[x])] \in S
    OBVIOUS
<1>3. base \in S /\ step \in [S -> S]
    BY <1>2
<1>4. PICK g \in [0 .. N -> S] : Iterates(g, N, base, step)
  <2> HIDE DEF N, S, base, step
  <2>1. QED
      BY <1>1, <1>3, IterationExists
<1> HIDE DEF N
<1>5. Eq(g)
  <2>1. \A i \in 1 .. N : i - 1 \in 0 .. N
      BY <1>1
  <2>2. \A i \in 1 .. N : g[i] = step[g[i - 1]] /\ g[i - 1] \in S
      BY <1>4, <2>1 DEF Iterates
  <2>3. \A i \in 1 .. N : g[i] = [x \in items |-> Linked(g[i - 1][x])]
    <3> HIDE DEF S, Linked
    <3>1. QED
        BY <2>2
  <2>4. g[0] = [x \in items |-> {x}]
      BY <1>4 DEF Iterates
  <2>5. g = [i \in 0 .. N |-> g[i]]
      BY <1>4
  <2>6. ASSUME NEW i \in 0 .. N
        PROVE  g[i] = [x \in items |-> IF i = 0 THEN {x} ELSE Linked(g[i - 1][x])]
    <3> HIDE DEF Linked, S, step, base
    <3>1. CASE i = 0
        BY <2>4, <3>1
    <3>2. CASE i # 0
      <4>1. i \in 1 .. N
          BY <1>1, <3>2
      <4>2. QED
          BY <2>3, <3>2, <4>1
    <3>3. QED
        BY <3>1, <3>2
  <2> HIDE DEF Linked, S, step, base
  <2>7. QED
      BY <2>5, <2>6
<1>6. Eq(grow)
  <2> HIDE DEF Eq
  <2>1. QED
      BY <1>5
<1>7. Classes(items, links) = {grow[N][x] : x \in items}
    BY DEF Classes, N
<1> HIDE DEF grow, S, base, step
<1>8. /\ grow = [i \in 0 .. N |-> grow[i]]
      /\ grow[0] = [x \in items |-> {x}]
      /\ \A i \in 1 .. N : grow[i] = [x \in items |-> Linked(grow[i - 1][x])]
  <2> HIDE DEF Linked
  <2>1. 0 \in 0 .. N /\ \A i \in 1 .. N : i \in 0 .. N /\ i # 0
      BY <1>1
  <2>2. QED
      BY <1>6, <2>1
<1>9. 0 .. N \subseteq {i \in 0 .. N : grow[i] \in S}
  <2> DEFINE holds == {i \in 0 .. N : grow[i] \in S}
  <2>1. 0 \in holds
    <3>1. grow[0] = base
        BY <1>8 DEF base
    <3>2. QED
        BY <1>1, <1>3, <3>1
  <2>2. ASSUME NEW k \in 0 .. N - 1, k \in holds PROVE k + 1 \in holds
    <3>1. k + 1 \in 1 .. N /\ k + 1 \in 0 .. N /\ (k + 1) - 1 = k
        BY <1>1
    <3>2. grow[k + 1] = [x \in items |-> Linked(grow[k][x])] /\ grow[k] \in S
      <4> HIDE DEF Linked
      <4>1. QED
          BY <1>8, <2>2, <3>1
    <3>3. grow[k + 1] \in S
      <4> HIDE DEF Linked
      <4>1. QED
        BY <1>2, <3>2
    <3>4. QED
        BY <3>1, <3>3
  <2> HIDE DEF holds
  <2>3. 0 .. N \subseteq holds
      BY <1>1, <2>1, <2>2, CountingUp
  <2>4. QED
      BY <2>3 DEF holds
<1>10. grow \in [0 .. N -> S]
    BY <1>8, <1>9
<1>11. \A x \in items : grow[0][x] = {x}
    BY <1>8
<1>12. \A i \in 1 .. N : \A x \in items :
          grow[i][x] = grow[i - 1][x] \cup UNION {l \in links : l \cap grow[i - 1][x] # {}}
  <2>1. \A i \in 1 .. N : \A x \in items : grow[i][x] = Linked(grow[i - 1][x])
    <3> HIDE DEF Linked
    <3>1. QED
        BY <1>8
  <2>2. QED
      BY <2>1
<1>13. QED
    BY <1>7, <1>10, <1>11, <1>12 DEF Unfolds, N, S

\* Growing a class link by link ends with the least tied set of its item.
LEMMA ClassOf ==
    ASSUME NEW items, NEW links, IsFiniteSet(links), \A l \in links : l \subseteq items
    PROVE  \E cl \in [items -> SUBSET items] :
              /\ Classes(items, links) = {cl[x] : x \in items}
              /\ \A x \in items : x \in cl[x] /\ Tied(cl[x], links)
              /\ \A x \in items : \A T : x \in T /\ Tied(T, links) => cl[x] \subseteq T
<1> DEFINE N == Cardinality(links)
           Meet(T) == {l \in links : l \cap T # {}}
<1>1. N \in Nat
    BY FS_CardinalityType
<1>2. PICK grow : Unfolds(grow, items, links)
    BY ClassesIterate
<1> DEFINE cl == [x \in items |-> grow[N][x]]
<1>3. /\ grow \in [0 .. N -> [items -> SUBSET items]]
      /\ \A x \in items : grow[0][x] = {x}
      /\ \A i \in 1 .. N : \A x \in items : grow[i][x] = grow[i - 1][x] \cup UNION Meet(grow[i - 1][x])
    BY <1>2 DEF Unfolds
<1>4. cl \in [items -> SUBSET items] /\ Classes(items, links) = {cl[x] : x \in items}
  <2>1. grow[N] \in [items -> SUBSET items]
    <3> HIDE DEF N
    <3>1. QED
        BY <1>1, <1>3
  <2>2. Classes(items, links) = {grow[N][x] : x \in items}
      BY <1>2 DEF Unfolds
  <2>3. QED
      BY <2>1, <2>2
<1>5. ASSUME NEW x \in items
      PROVE  x \in cl[x] /\ Tied(cl[x], links) /\ \A T : x \in T /\ Tied(T, links) => cl[x] \subseteq T
  <2> DEFINE S == SUBSET items
             h == [i \in 0 .. N |-> grow[i][x]]
             step == [T \in S |-> T \cup UNION Meet(T)]
             m == [T \in S |-> Meet(T)]
  <2>1. \A T \in S : T \cup UNION Meet(T) \in S
      OBVIOUS
  <2>2. Settles(S, step, links, m)
    <3>1. step \in [S -> S] /\ m \in [S -> SUBSET links]
        BY <2>1
    <3>2. ASSUME NEW T \in S
          PROVE  /\ m[T] \subseteq m[step[T]]
                 /\ m[T] = {} => step[T] = T
                 /\ m[step[T]] = m[T] => step[step[T]] = step[T]
      <4> DEFINE U == T \cup UNION Meet(T)
      <4>1. U \in S /\ step[T] = U /\ step[U] = U \cup UNION Meet(U) /\ m[T] = Meet(T) /\ m[U] = Meet(U)
          BY <2>1
      <4>2. Meet(T) \subseteq Meet(U) /\ (Meet(T) = {} => U = T)
          OBVIOUS
      <4>3. Meet(U) = Meet(T) => U \cup UNION Meet(U) = U
        <5> HIDE DEF Meet
        <5>1. QED
            OBVIOUS
      <4> HIDE DEF U, m, step, Meet, S
      <4>4. QED
          BY <4>1, <4>2, <4>3
    <3>3. QED
        BY <3>1, <3>2 DEF Settles
  <2>3. h \in [0 .. N -> S] /\ Iterates(h, N, {x}, step)
    <3> HIDE DEF N
    <3>1. \A i \in 0 .. N : grow[i][x] \in S
        BY <1>3
    <3>2. h \in [0 .. N -> S]
        BY <3>1
    <3>3. h[0] = {x}
        BY <1>1, <1>3
    <3>4. \A i \in 1 .. N : h[i] = step[h[i - 1]]
      <4>1. \A i \in 1 .. N : i - 1 \in 0 .. N /\ i \in 0 .. N
          BY <1>1
      <4> HIDE DEF Meet
      <4>2. \A i \in 1 .. N : h[i] = h[i - 1] \cup UNION Meet(h[i - 1]) /\ h[i - 1] \in S
          BY <1>3, <3>1, <4>1
      <4> HIDE DEF h, S
      <4>3. QED
          BY <4>2
    <3>5. QED
        BY <3>2, <3>3, <3>4 DEF Iterates
  <2>4. step[h[N]] = h[N]
    <3>1. Cardinality(links) <= N
        BY <1>1
    <3> HIDE DEF N, S, h, step, m
    <3>2. QED
        BY <1>1, <2>2, <2>3, <3>1, IterationSettles
  <2>5. cl[x] = h[N] /\ h[N] \in S
    <3> HIDE DEF N
    <3>1. QED
        BY <1>1, <2>3
  <2>6. Tied(cl[x], links)
    <3>1. UNION Meet(h[N]) \subseteq h[N]
      <4> HIDE DEF h, N, S
      <4>1. QED
        BY <2>4, <2>5
    <3>2. \A T : UNION Meet(T) \subseteq T => Tied(T, links)
        BY DEF Tied
    <3> HIDE DEF Meet, h, N, cl
    <3>3. QED
        BY <2>5, <3>1, <3>2
  <2>7. ASSUME NEW i \in 1 .. N
        PROVE  h[i] = h[i - 1] \cup UNION Meet(h[i - 1])
    <3> HIDE DEF N
    <3>1. i - 1 \in 0 .. N /\ i \in 0 .. N
        BY <1>1
    <3> HIDE DEF Meet
    <3>2. QED
        BY <1>3, <3>1
  <2>8. h[0] = {x}
    <3> HIDE DEF N
    <3>1. QED
      BY <1>1, <1>3
  <2> HIDE DEF h, N
  <2>9. x \in h[N]
    <3> DEFINE holds == {i \in 0 .. N : x \in h[i]}
    <3>1. 0 \in holds
        BY <1>1, <2>8
    <3>2. ASSUME NEW k \in 0 .. N - 1, k \in holds PROVE k + 1 \in holds
      <4>1. k + 1 \in 1 .. N /\ k + 1 \in 0 .. N /\ (k + 1) - 1 = k
          BY <1>1
      <4>2. h[k + 1] = h[k] \cup UNION Meet(h[k])
          BY <2>7, <4>1
      <4>3. QED
          BY <3>2, <4>1, <4>2
    <3> HIDE DEF holds
    <3>3. N \in holds
        BY <1>1, <3>1, <3>2, CountingUp
    <3>4. QED
        BY <3>3 DEF holds
  <2>10. ASSUME NEW T, x \in T, Tied(T, links) PROVE h[N] \subseteq T
    <3> DEFINE holds == {i \in 0 .. N : h[i] \subseteq T}
    <3>1. 0 \in holds
        BY <1>1, <2>8, <2>10
    <3>2. ASSUME NEW k \in 0 .. N - 1, k \in holds PROVE k + 1 \in holds
      <4>1. k + 1 \in 1 .. N /\ k + 1 \in 0 .. N /\ (k + 1) - 1 = k
          BY <1>1
      <4>2. h[k + 1] = h[k] \cup UNION Meet(h[k])
          BY <2>7, <4>1
      <4>3. UNION Meet(h[k]) \subseteq T
          BY <2>10, <3>2 DEF Tied
      <4>4. QED
          BY <3>2, <4>1, <4>2, <4>3
    <3> HIDE DEF holds
    <3>3. N \in holds
        BY <1>1, <3>1, <3>2, CountingUp
    <3>4. QED
        BY <3>3 DEF holds
  <2> HIDE DEF cl
  <2>11. QED
      BY <2>5, <2>6, <2>9, <2>10
<1> HIDE DEF cl
<1>6. QED
    BY <1>4, <1>5

\* The classes of some items are their least tied sets ...
LEMMA ClassesAreLeast ==
    ASSUME NEW items, NEW links, IsFiniteSet(links), \A l \in links : l \subseteq items
    PROVE  Classes(items, links) = {Class(x, links) : x \in items}
<1>1. PICK cl \in [items -> SUBSET items] :
              /\ Classes(items, links) = {cl[x] : x \in items}
              /\ \A x \in items : x \in cl[x] /\ Tied(cl[x], links)
              /\ \A x \in items : \A T : x \in T /\ Tied(T, links) => cl[x] \subseteq T
    BY ClassOf
<1>2. ASSUME NEW x \in items PROVE cl[x] = Class(x, links)
  <2>1. cl[x] \subseteq Class(x, links) /\ Class(x, links) \subseteq cl[x]
      BY <1>1, ClassIsLeastTied
  <2>2. QED
      BY <2>1
<1>3. QED
    BY <1>1, <1>2

\* ... and partition the items.
LEMMA ClassesArePartition ==
    ASSUME NEW items, NEW links, IsFiniteSet(links), \A l \in links : l \subseteq items
    PROVE  LET C == Classes(items, links)
           IN  /\ C \subseteq SUBSET items
               /\ \A x \in items : \E c \in C : x \in c
               /\ \A c, d \in C : c \cap d # {} => c = d
               /\ \A c \in C : c # {} /\ Tied(c, links)
<1>1. Classes(items, links) = {Class(x, links) : x \in items}
    BY ClassesAreLeast
<1>2. \A x \in items : x \in Class(x, links) /\ Tied(Class(x, links), links) /\ Class(x, links) \subseteq items
  <2>1. \A x \in items : Class(x, links) \subseteq items
      BY DEF Class
  <2>2. QED
      BY <2>1, ClassIsLeastTied
<1>3. \A x, y : Class(x, links) \cap Class(y, links) # {} => Class(x, links) = Class(y, links)
  <2>1. ASSUME NEW x, NEW y, NEW z \in Class(x, links), z \in Class(y, links)
        PROVE  Class(x, links) = Class(y, links)
      BY <2>1, ClassOfMember
  <2>2. QED
      BY <2>1
<1>4. QED
    BY <1>1, <1>2, <1>3

\* What no pair mentions is alone; the rest are the components.
LEMMA ComponentsAreClasses ==
    ASSUME NEW pairs, IsFiniteSet(pairs)
    PROVE  /\ components(pairs) = {Class(x, pairs) : x \in UNION pairs}
           /\ \A e : e \notin UNION pairs => Class(e, pairs) = {e}
<1>1. ASSUME NEW e, e \notin UNION pairs PROVE Class(e, pairs) = {e}
  <2>1. Tied({e}, pairs)
      BY <1>1 DEF Tied
  <2>2. QED
      BY <2>1, ClassIsLeastTied
<1>2. components(pairs) = {Class(x, pairs) : x \in UNION pairs}
  <2> DEFINE items == UNION pairs
  <2>1. components(pairs) = Classes(items, pairs) /\ \A l \in pairs : l \subseteq items
      BY DEF components
  <2> HIDE DEF items
  <2>2. components(pairs) = {Class(x, pairs) : x \in items}
      BY <2>1, ClassesAreLeast
  <2>3. QED
      BY <2>2 DEF items
<1>3. QED
    BY <1>1, <1>2

\* One more pair {a, b} joins the classes of a and b and leaves the others.
With(pairs, a, b) == pairs \cup {{a, b}}

Joint(pairs, a, b) == Class(a, pairs) \cup Class(b, pairs)

LEMMA JoiningClasses ==
    ASSUME NEW pairs, NEW a, NEW b, NEW e
    PROVE  /\ e \in Joint(pairs, a, b) => Class(e, With(pairs, a, b)) = Joint(pairs, a, b)
           /\ e \notin Joint(pairs, a, b) => Class(e, With(pairs, a, b)) = Class(e, pairs)
<1>0. PICK more, joint : more = pairs \cup {{a, b}} /\ joint = Class(a, pairs) \cup Class(b, pairs)
    OBVIOUS
<1>1. Tied(joint, more) /\ a \in joint /\ b \in joint
  <2>1. a \in Class(a, pairs) /\ b \in Class(b, pairs)
        /\ Tied(Class(a, pairs), pairs) /\ Tied(Class(b, pairs), pairs)
      BY ClassIsLeastTied
  <2>2. QED
      BY <1>0, <2>1 DEF Tied
<1>2. ASSUME NEW T, Tied(T, more) PROVE Tied(T, pairs) /\ (a \in T <=> b \in T)
  <2>1. Tied(T, pairs)
      BY <1>0, <1>2 DEF Tied
  <2>2. {a, b} \in more /\ (a \in T \/ b \in T => {a, b} \cap T # {})
      BY <1>0
  <2>3. a \in T \/ b \in T => {a, b} \subseteq T
      BY <1>2, <2>2 DEF Tied
  <2>4. QED
      BY <2>1, <2>3
<1>3. joint \subseteq Class(a, more)
  <2>1. Tied(Class(a, more), pairs) /\ a \in Class(a, more) /\ b \in Class(a, more)
    <3>1. QED
        BY <1>1, <1>2, ClassIsLeastTied
  <2>2. QED
      BY <1>0, <2>1, ClassIsLeastTied
<1>4. ASSUME e \in joint PROVE Class(e, more) = joint
  <2>1. Class(e, more) \subseteq joint
      BY <1>1, <1>4, ClassIsLeastTied
  <2>2. Class(e, more) = Class(a, more)
      BY <1>3, <1>4, ClassOfMember
  <2>3. QED
      BY <1>3, <2>1, <2>2
<1>5. ASSUME e \notin joint PROVE Class(e, more) = Class(e, pairs)
  <2>1. Class(e, pairs) \cap joint = {}
    <3> SUFFICES ASSUME NEW f \in Class(e, pairs), f \in joint PROVE FALSE
        OBVIOUS
    <3>1. Class(f, pairs) = Class(e, pairs) /\ (Class(f, pairs) = Class(a, pairs) \/ Class(f, pairs) = Class(b, pairs))
        BY <1>0, ClassOfMember
    <3>2. QED
        BY <1>0, <1>5, <3>1, ClassIsLeastTied
  <2>2. Tied(Class(e, pairs), more)
    <3>1. Tied(Class(e, pairs), pairs) /\ a \notin Class(e, pairs) /\ b \notin Class(e, pairs)
        BY <1>1, <2>1, ClassIsLeastTied
    <3>2. QED
        BY <1>0, <3>1 DEF Tied
  <2>3. Class(e, more) \subseteq Class(e, pairs)
      BY <2>2, ClassIsLeastTied
  <2>4. Tied(Class(e, more), pairs) /\ e \in Class(e, more)
      BY <1>2, ClassIsLeastTied
  <2>5. Class(e, pairs) \subseteq Class(e, more)
      BY <2>4, ClassIsLeastTied
  <2>6. QED
      BY <2>3, <2>5
<1>6. QED
    BY <1>0, <1>4, <1>5 DEF With, Joint

-----------------------------------------------------------------------------
(* References. The flag is set in the transaction that binds, and only the *)
(* backfill rewrites the reasons afterwards: from a read that is still     *)
(* true it keeps every reason off its own axis, from any other it is       *)
(* recorded in raced.                                                      *)

\* Reasons are kept per proposition, and what the binder works on are
\* propositions.
BindingTyped ==
    /\ facts \subseteq Proposition /\ DOMAIN refers_to \subseteq Proposition
    /\ DOMAIN reasons = Proposition /\ reasons = [p \in Proposition |-> reasons[p]]
    /\ DOMAIN binding = DOMAIN NoBinding
    /\ binding = [f \in DOMAIN NoBinding |-> binding[f]]
    /\ binding.todo \subseteq Proposition

ReferenceInv == BindingTyped /\ OpenReferenceIsFlagged

LEMMA ReferenceInit == Init => ReferenceInv
  BY DEF Init, StoreInit, BindingInit, NoBinding, ReferenceInv, BindingTyped, OpenReferenceIsFlagged

\* What the backfill writes keeps the flag.
LEMMA ReassessKeepsUnbound ==
    ASSUME NEW existing, NEW verdict, Unbound \in existing
    PROVE  Unbound \in reassess_faithfulness_reasons(existing, verdict)
  BY DEF reassess_faithfulness_reasons, Axis, Unbound, Low, Unassessed

\* Steps of the other operators write neither reasons nor references.
LEMMA OthersKeepReferences ==
    ASSUME ReferenceInv, UNCHANGED referenceBinding, facts' \subseteq Proposition
    PROVE  ReferenceInv'
  BY DEF ReferenceInv, BindingTyped, OpenReferenceIsFlagged, referenceBinding

LEMMA PersistKeepsReferences ==
    ASSUME ReferenceInv, NEW p \in binding.todo, NEW mentions, _persist(p, mentions),
           UNCHANGED facts
    PROVE  ReferenceInv'
<1> DEFINE states == Bound(p, mentions)
<1>1. p \in Proposition
    BY DEF ReferenceInv, BindingTyped
<1>2. /\ DOMAIN refers_to' = DOMAIN refers_to \cup {p} /\ refers_to'[p] = states
      /\ \A q \in DOMAIN refers_to \ {p} : refers_to'[q] = refers_to[q]
    BY DEF _persist
<1>3. /\ DOMAIN reasons' = Proposition /\ reasons' = [q \in Proposition |-> reasons'[q]]
      /\ \A q \in Proposition \ {p} : reasons'[q] = reasons[q]
      /\ any_open(states) => Unbound \in reasons'[p]
    BY <1>1 DEF _persist, ReferenceInv, BindingTyped
<1>4. /\ DOMAIN binding' = DOMAIN NoBinding /\ binding' = [f \in DOMAIN NoBinding |-> binding'[f]]
      /\ binding'.todo \subseteq Proposition
    BY DEF _persist, ReferenceInv, BindingTyped, NoBinding
<1>5. BindingTyped'
    BY <1>1, <1>2, <1>3, <1>4 DEF ReferenceInv, BindingTyped
<1>6. states \cap {"candidate", "unresolved"} # {} => any_open(states)
    BY DEF any_open
<1>7. raced' = raced
    BY DEF _persist
<1>8. ASSUME NEW q \in DOMAIN refers_to' \ raced', refers_to'[q] \cap {"candidate", "unresolved"} # {}
      PROVE  Unbound \in reasons'[q]
  <2>1. CASE q = p
    <3>1. any_open(states)
        BY <1>2, <1>6, <1>8, <2>1
    <3>2. QED
        BY <1>3, <2>1, <3>1
  <2>2. CASE q # p
    <3>1. q \in DOMAIN refers_to \ raced /\ refers_to'[q] = refers_to[q]
        BY <1>2, <1>7, <1>8, <2>2
    <3>2. q \in Proposition /\ Unbound \in reasons[q]
        BY <1>8, <3>1 DEF ReferenceInv, BindingTyped, OpenReferenceIsFlagged
    <3>3. QED
        BY <1>3, <2>2, <3>2
  <2>3. QED
      BY <2>1, <2>2
<1>9. QED
    BY <1>5, <1>8 DEF ReferenceInv, OpenReferenceIsFlagged

\* The binder's other steps write no reference and no reason.
LEMMA BinderKeepsReferences ==
    ASSUME ReferenceInv, bind_box \/ LoadPending \/ BindEnds, UNCHANGED facts
    PROVE  ReferenceInv'
<1>1. UNCHANGED <<reasons, refers_to, raced>>
    BY DEF bind_box, LoadPending, BindEnds
<1> DEFINE Held(b) == /\ DOMAIN b = {"pc", "facts", "todo", "taxonomy"}
                      /\ b = [f \in {"pc", "facts", "todo", "taxonomy"} |-> b[f]]
                      /\ b.todo \subseteq Proposition
<1>2. Held(binding)
    BY DEF ReferenceInv, BindingTyped, NoBinding
<1>3. ASSUME bind_box PROVE Held(binding')
    BY <1>3 DEF bind_box, NoBinding
<1>4. ASSUME LoadPending PROVE Held(binding')
  <2>1. binding' = [f \in {"pc", "facts", "todo", "taxonomy"} |->
                      CASE f = "pc" -> "persist" [] f = "todo" -> facts \ DOMAIN refers_to
                        [] f = "taxonomy" -> load_active_taxonomy [] OTHER -> binding[f]]
      BY <1>2, <1>4 DEF LoadPending
  <2>2. binding'.todo = facts \ DOMAIN refers_to
      BY <1>2, <1>4 DEF LoadPending
  <2>3. facts \subseteq Proposition
      BY DEF ReferenceInv, BindingTyped
  <2>4. QED
      BY <2>1, <2>2, <2>3
<1>5. ASSUME BindEnds PROVE Held(binding')
    BY <1>5 DEF BindEnds, NoBinding
<1>6. Held(binding')
    BY <1>3, <1>4, <1>5
<1>7. QED
    BY <1>1, <1>6 DEF ReferenceInv, BindingTyped, OpenReferenceIsFlagged, NoBinding

LEMMA VerifierKeepsReferences ==
    ASSUME ReferenceInv, NEW p \in Proposition, UNCHANGED facts,
           VerifyLoad(p) \/ \E verdict \in {"good", "low", "failed"} : VerifyWrite(p, verdict)
    PROVE  ReferenceInv'
<1>1. CASE VerifyLoad(p)
    BY <1>1 DEF VerifyLoad, ReferenceInv, BindingTyped, OpenReferenceIsFlagged
<1>2. ASSUME NEW verdict \in {"good", "low", "failed"}, VerifyWrite(p, verdict)
      PROVE  ReferenceInv'
  <2> DEFINE new == reassess_faithfulness_reasons(verifying[p], verdict)
  <2>1. /\ DOMAIN reasons' = Proposition /\ reasons' = [q \in Proposition |-> reasons'[q]]
        /\ reasons'[p] = new
        /\ \A q \in Proposition \ {p} : reasons'[q] = reasons[q]
      BY <1>2 DEF VerifyWrite, ReferenceInv, BindingTyped
  <2>2. UNCHANGED <<refers_to, binding>>
      BY <1>2 DEF VerifyWrite
  <2>3. /\ raced \subseteq raced'
        /\ verifying[p] # reasons[p] => p \in raced'
      BY <1>2 DEF VerifyWrite
  <2>4. BindingTyped'
      BY <2>1, <2>2 DEF ReferenceInv, BindingTyped
  <2>5. ASSUME NEW q \in DOMAIN refers_to' \ raced', refers_to'[q] \cap {"candidate", "unresolved"} # {}
        PROVE  Unbound \in reasons'[q]
    <3>1. q \in Proposition /\ Unbound \in reasons[q]
        BY <2>2, <2>3, <2>5 DEF ReferenceInv, BindingTyped, OpenReferenceIsFlagged
    <3>2. CASE q = p
      <4>1. Unbound \in verifying[p]
          BY <2>3, <2>5, <3>1, <3>2
      <4>2. QED
          BY <2>1, <3>2, <4>1, ReassessKeepsUnbound
    <3>3. CASE q # p
        BY <2>1, <3>1, <3>3
    <3>4. QED
        BY <3>2, <3>3
  <2>6. QED
      BY <2>4, <2>5 DEF ReferenceInv, OpenReferenceIsFlagged
<1>3. QED
    BY <1>1, <1>2

LEMMA ReferenceNext == ReferenceInv /\ [Next]_vars => ReferenceInv'
<1> SUFFICES ASSUME ReferenceInv, [Next]_vars PROVE ReferenceInv'
    OBVIOUS
<1>1. facts \subseteq Proposition
    BY DEF ReferenceInv, BindingTyped
<1>2. CASE Extract
    BY <1>1, <1>2, OthersKeepReferences DEF Extract, extract_proposition
<1>3. CASE Retract
    BY <1>1, <1>3, OthersKeepReferences DEF Retract, RetractFact
<1>4. CASE Packs
    BY <1>1, <1>4, OthersKeepReferences DEF Packs, load_pack, deprecate_pack
<1>5. CASE Resolve \/ MergeOrSplit \/ Link
    BY <1>1, <1>5, OthersKeepReferences DEF Resolve, MergeOrSplit, Link, KeepOthers, store
<1>6. CASE Induce
    BY <1>1, <1>6, OthersKeepReferences DEF Induce, store
<1>7. CASE Bind
  <2>1. UNCHANGED facts
      BY <1>7 DEF Bind, store
  <2>2. CASE bind_box \/ LoadPending \/ BindEnds
      BY <2>1, <2>2, BinderKeepsReferences
  <2>3. ASSUME NEW p \in binding.todo, NEW mentions \in Mentions[p], _persist(p, mentions)
        PROVE  ReferenceInv'
      BY <2>1, <2>3, PersistKeepsReferences
  <2>4. ASSUME NEW p \in Proposition,
               VerifyLoad(p) \/ \E verdict \in {"good", "low", "failed"} : VerifyWrite(p, verdict)
        PROVE  ReferenceInv'
      BY <2>1, <2>4, VerifierKeepsReferences
  <2>5. QED
      BY <1>7, <2>2, <2>3, <2>4 DEF Bind, BindingNext
<1>8. CASE UNCHANGED vars
    BY <1>1, <1>8, OthersKeepReferences DEF vars, store
<1>9. QED
    BY <1>2, <1>3, <1>4, <1>5, <1>6, <1>7, <1>8 DEF Next

\* A bound proposition with an open mention carries unresolved_reference
\* through deaths, re-runs and later verification (reference.py, _persist),
\* whatever the entities, mentions and packs; except where a backfill wrote
\* back what it had read before.
THEOREM OpenReferencesFlagged == Spec => []OpenReferenceIsFlagged
<1>1. ReferenceInv => OpenReferenceIsFlagged
    BY DEF ReferenceInv
<1>2. QED
    BY <1>1, ReferenceInit, ReferenceNext, PTL DEF Spec

-----------------------------------------------------------------------------
(* Who relates whom: the types of what the resolver, the reviewer and the  *)
(* linker write.                                                           *)

\* What the operators handle: the ids of entities, edges between them, and
\* referents of them.
Uid == Ids(Proposition)

Edge == Uid \X Uid

Referent ==
    {[canonical |-> e.id, ids |-> ids, label |-> e.label, type |-> e.type, kind |-> e.kind] :
        e \in RowsOf(Proposition), ids \in SUBSET Uid}

\* Referents stand for entities of the box.
LEMMA ReferentsAreTyped ==
    ASSUME NEW P \in SUBSET Proposition
    PROVE  _load_referents(P) \subseteq Referent
<1>1. RowsOf(P) \subseteq RowsOf(Proposition)
    BY DEF RowsOf
<1>2. \A e \in RowsOf(P) : e.id \in Uid
    BY <1>1 DEF Uid, Ids
<1> DEFINE kept == {e \in RowsOf(P) : e.id \notin {} /\ e.label # {}}
           Group(e) == {x.id : x \in {y \in kept : y.kind = e.kind /\ y.label = e.label}}
<1>3. kept \subseteq RowsOf(Proposition) /\ \A e : Group(e) \in SUBSET Uid
    BY <1>1, <1>2
<1>4. _load_referents(P) =
        {[canonical |-> e.id, ids |-> Group(e), label |-> e.label, type |-> e.type, kind |-> e.kind] :
            e \in {x \in kept : x.id = Min(Group(x))}}
    BY DEF _load_referents, group_referents
<1> HIDE DEF Group, kept
<1>5. QED
    BY <1>3, <1>4 DEF Referent

\* Entities have finitely many numbers for ids, none of them a taxonomy node's.
LEMMA FiniteUid == IsFiniteSet(Uid) /\ Uid \subseteq Nat /\ Uid \cap NodeIds = {}
<1> DEFINE f == [e \in RowsOf(Proposition) |-> e.id]
<1>1. f \in Surjection(RowsOf(Proposition), Uid)
    BY DEF Surjection, Uid, Ids
<1>2. IsFiniteSet(Uid)
    BY <1>1, FiniteRows, FS_Surjection
<1>3. QED
    BY <1>2, IdsAreNumbers, EntitiesAreNoNodes DEF Uid

\* canonical_id is a member of its component.
LEMMA LeastIsMember ==
    ASSUME NEW c \in SUBSET Uid, c # {}
    PROVE  canonical_id(c) \in c
<1>1. \E least \in c : \A k \in c : least <= k
    BY FiniteUid, LeastNatural
<1>2. QED
    BY <1>1 DEF canonical_id, Min

\* SAME_AS edges are whole records.
EdgeFields == {"pair", "state", "open", "by"}

Whole(s) == DOMAIN s = EdgeFields /\ s = [f \in EdgeFields |-> s[f]]

WholeEdges == \A s \in same_as : Whole(s)

\* Every edge is written whole; a split changes one field of it.
LEMMA WholeEdgesInit == Init => WholeEdges
  BY DEF Init, IdentityInit, WholeEdges

LEMMA WholeEdgesNext == WholeEdges /\ [Next]_vars => WholeEdges'
<1> SUFFICES ASSUME WholeEdges, [Next]_vars PROVE WholeEdges'
    OBVIOUS
<1>1. ASSUME UNCHANGED same_as PROVE WholeEdges'
    BY <1>1 DEF WholeEdges
<1>2. ASSUME resolve_box_write PROVE WholeEdges'
  <2>1. \A n \in Resolved(resolving.facts) : Whole(n)
    <3>1. \A n \in Scored(resolving.facts) : \E p, st :
              n = [pair |-> p, state |-> st, open |-> TRUE, by |-> "resolver"]
        BY DEF Scored
    <3>2. QED
        BY <3>1 DEF Resolved, Whole, EdgeFields
  <2>2. \A s \in same_as' : s \in same_as \/ s \in Resolved(resolving.facts)
      BY <1>2 DEF resolve_box_write
  <2>3. QED
      BY <2>1, <2>2 DEF WholeEdges
<1>3. ASSUME NEW pair, merge(pair) PROVE WholeEdges'
  <2>1. \A s \in same_as' : s \in same_as
                             \/ s = [pair |-> pair, state |-> "confirmed", open |-> TRUE, by |-> "reviewer"]
      BY <1>3 DEF merge, Upsert
  <2>2. QED
      BY <2>1 DEF WholeEdges, Whole, EdgeFields
<1>4. ASSUME NEW pair, split(pair) PROVE WholeEdges'
  <2>1. \A s \in same_as' : s \in same_as \/ \E x \in same_as : s = [x EXCEPT !.open = FALSE]
      BY <1>4 DEF split
  <2>2. ASSUME NEW x, Whole(x) PROVE Whole([x EXCEPT !.open = FALSE])
      BY <2>2 DEF Whole, EdgeFields
  <2>3. QED
      BY <2>1, <2>2 DEF WholeEdges
<1>5. CASE Extract \/ Retract \/ Packs
    BY <1>1, <1>5 DEF Extract, Retract, Packs, KeepIdentity
<1>6. CASE Resolve
    BY <1>1, <1>2, <1>6 DEF Resolve, resolve_box_load
<1>7. CASE MergeOrSplit
    BY <1>3, <1>4, <1>7 DEF MergeOrSplit, Review
<1>8. CASE Link
    BY <1>1, <1>8 DEF Link, anchor_box_load, anchor_box_write
<1>9. CASE Induce \/ Bind \/ UNCHANGED vars
    BY <1>1, <1>9 DEF Induce, Bind, vars, identity
<1>10. QED
    BY <1>5, <1>6, <1>7, <1>8, <1>9 DEF Next

\* The taxonomy nodes any pack may have.
Taxa == UNION {k.nodes : k \in Pack}

\* SAME_AS relates entities, ANCHORS_TO an entity and a taxonomy node; what the
\* resolver and the linker have read are Facts and taxonomy nodes.
IdentityTyped ==
    /\ facts \subseteq Proposition /\ loaded \subseteq Pack
    /\ \A s \in same_as : s.pair \subseteq Uid
    /\ \A a \in anchors_to : a.src \in Uid /\ a.dst \in NodeIds
    /\ resolving.facts \subseteq Proposition
    /\ linking.facts \subseteq Proposition /\ linking.taxonomy \subseteq Taxa

\* The linker anchors to nodes of the taxonomy it has read.
LEMMA AnchorsAreTaxa ==
    ASSUME NEW e, NEW nodes
    PROVE  decide_anchor(e, nodes).targets \subseteq nodes
<1> DEFINE score == [n \in block_anchors(e, nodes) |-> score_anchor(e, n)]
<1>1. Decide(score).targets \subseteq DOMAIN score
  <2> HIDE DEF score
  <2>1. QED
      BY DEF Decide, Unresolved
<1>2. DOMAIN score \subseteq nodes
    BY DEF block_anchors, Sharing
<1>3. QED
    BY <1>1, <1>2 DEF decide_anchor

\* No edges and no reads to begin with.
LEMMA IdentityTypedInit == Init => IdentityTyped
  BY DEF Init, StoreInit, IdentityInit, IdentityTyped

\* Each operator writes between what it has read.
LEMMA IdentityTypedNext == IdentityTyped /\ WholeEdges /\ [Next]_vars => IdentityTyped'
<1> SUFFICES ASSUME IdentityTyped, WholeEdges, [Next]_vars PROVE IdentityTyped'
    OBVIOUS
<1>1. ASSUME facts' \subseteq Proposition, loaded' \subseteq Pack,
             UNCHANGED <<same_as, anchors_to, resolving, linking>>
      PROVE  IdentityTyped'
    BY <1>1 DEF IdentityTyped
<1>2. CASE Extract \/ Retract
    BY <1>1, <1>2 DEF Extract, extract_proposition, Retract, RetractFact, KeepIdentity, IdentityTyped
<1>3. CASE Packs
    BY <1>1, <1>3 DEF Packs, load_pack, deprecate_pack, KeepIdentity, IdentityTyped
<1>4. CASE Induce \/ Bind \/ UNCHANGED vars
    BY <1>1, <1>4 DEF Induce, Bind, vars, store, identity, IdentityTyped
<1>5. CASE Resolve
  <2>1. UNCHANGED <<facts, loaded>>
      BY <1>5 DEF Resolve, KeepOthers, store
  <2>2. CASE resolve_box_load
      BY <2>1, <2>2 DEF resolve_box_load, IdentityTyped
  <2>3. CASE resolve_box_write
    <3>1. \A s \in same_as' : s \in same_as \/ s \in Resolved(resolving.facts)
        BY <2>3 DEF resolve_box_write
    <3>2. RowsOf(resolving.facts) \subseteq RowsOf(Proposition)
        BY DEF RowsOf, IdentityTyped
    <3>3. \A x \in _load_entities(resolving.facts) : x.id \in Uid
        BY <3>2 DEF _load_entities, Uid, Ids
    <3>4. ASSUME NEW s \in Resolved(resolving.facts) PROVE s.pair \subseteq Uid
      <4>1. s \in Scored(resolving.facts)
          BY DEF Resolved
      <4>2. PICK q \in _load_entities(resolving.facts) \X _load_entities(resolving.facts) :
                s = [pair |-> {q[1].id, q[2].id}, state |-> decide(score_pair(q[1], q[2])),
                     open |-> TRUE, by |-> "resolver"]
          BY <4>1 DEF Scored
      <4>3. QED
          BY <3>3, <4>2
    <3>5. resolving'.facts = {} /\ UNCHANGED <<anchors_to, linking>>
        BY <2>3 DEF resolve_box_write
    <3>6. QED
        BY <2>1, <3>1, <3>4, <3>5 DEF IdentityTyped
  <2>4. QED
      BY <1>5, <2>2, <2>3 DEF Resolve
<1>6. CASE MergeOrSplit
  <2>1. UNCHANGED <<facts, loaded, anchors_to, resolving, linking>>
      BY <1>6 DEF MergeOrSplit, KeepOthers, store, Review, merge, split
  <2>2. ASSUME NEW pair, merge(pair) PROVE \A s \in same_as' : s.pair \subseteq Uid
    <3>1. pair \subseteq Uid
        BY <2>2 DEF merge, Ids, RowsOf, Uid, IdentityTyped
    <3>2. QED
        BY <2>2, <3>1 DEF merge, Upsert, IdentityTyped
  <2>3. ASSUME NEW pair, split(pair) PROVE \A s \in same_as' : s.pair \subseteq Uid
    <3>1. \A s \in same_as' : s \in same_as \/ \E x \in same_as : s = [x EXCEPT !.open = FALSE]
        BY <2>3 DEF split
    <3>2. \A x \in same_as : [x EXCEPT !.open = FALSE].pair = x.pair
        BY DEF WholeEdges, Whole, EdgeFields
    <3>3. QED
        BY <3>1, <3>2 DEF IdentityTyped
  <2>4. QED
      BY <1>6, <2>1, <2>2, <2>3 DEF MergeOrSplit, Review, IdentityTyped
<1>7. CASE Link
  <2>1. UNCHANGED <<facts, loaded>>
      BY <1>7 DEF Link, KeepOthers, store
  <2>2. CASE anchor_box_load
    <3>1. load_active_taxonomy \subseteq Taxa
        BY DEF load_active_taxonomy, Taxa, IdentityTyped
    <3>2. QED
        BY <2>1, <2>2, <3>1 DEF anchor_box_load, IdentityTyped
  <2>3. CASE anchor_box_write
    <3>1. \A a \in anchors_to' : \/ a \in anchors_to
                                 \/ \E e \in _load_referents(linking.facts) :
                                        /\ a.src = e.canonical
                                        /\ \E n \in decide_anchor(e, linking.taxonomy).targets : a.dst = n.id
        BY <2>3 DEF anchor_box_write, _load_referents
    <3>2. \A e \in _load_referents(linking.facts) : e.canonical \in Uid
      <4>1. \A e \in RowsOf(Proposition) : e.id \in Uid
          BY DEF Uid, Ids
      <4>2. \A e \in Referent : e.canonical \in Uid
          BY <4>1 DEF Referent
      <4>3. QED
          BY <4>2, ReferentsAreTyped DEF IdentityTyped
    <3>3. \A n \in linking.taxonomy : n.id \in NodeIds
        BY DEF IdentityTyped, Taxa, NodeIds, PackIds
    <3>4. \A a \in anchors_to' : a.src \in Uid /\ a.dst \in NodeIds
        BY <3>1, <3>2, <3>3, AnchorsAreTaxa DEF IdentityTyped
    <3>5. linking'.facts = {} /\ linking'.taxonomy = {} /\ UNCHANGED <<same_as, resolving>>
        BY <2>3 DEF anchor_box_write
    <3>6. QED
        BY <2>1, <3>4, <3>5 DEF IdentityTyped
  <2>4. QED
      BY <1>7, <2>2, <2>3 DEF Link
<1>8. QED
    BY <1>2, <1>3, <1>4, <1>5, <1>6, <1>7 DEF Next

-----------------------------------------------------------------------------
(* The resolver's bar. The score adds the label, the type and what         *)
(* saturates below one third of what the bar asks; none of the three can   *)
(* be missing. Later Facts only add context, so what was related stays     *)
(* related.                                                                *)

\* A label in a context is an extracted row's, so what two contexts share can
\* be counted.
LEMMA FiniteContexts ==
    ASSUME NEW P \in SUBSET Proposition, NEW a \in _load_entities(P)
    PROVE  IsFiniteSet(a.context)
<1> DEFINE f == [e \in RowsOf(Proposition) |-> e.label]
           labels == {e.label : e \in RowsOf(Proposition)}
<1>1. f \in Surjection(RowsOf(Proposition), labels)
    BY DEF Surjection
<1>2. IsFiniteSet(labels)
  <2> HIDE DEF f, labels
  <2>1. QED
      BY <1>1, FiniteRows, FS_Surjection
<1>3. a.context \subseteq labels
  <2>1. RowsOf(P) \subseteq RowsOf(Proposition)
      BY DEF RowsOf
  <2>2. QED
      BY <2>1 DEF _load_entities
<1>4. QED
    BY <1>2, <1>3, FS_Subset

\* Max and Min, where the score takes them.
LEMMA MaxOfTwo ==
    ASSUME NEW n \in Int
    PROVE  Max({0, n}) = IF n > 0 THEN n ELSE 0
<1> DEFINE most == IF n > 0 THEN n ELSE 0
<1>1. most \in {0, n} /\ \A y \in {0, n} : most >= y
    OBVIOUS
<1>2. Max({0, n}) \in {0, n} /\ \A y \in {0, n} : Max({0, n}) >= y
    BY <1>1 DEF Max
<1>3. QED
    BY <1>2

LEMMA MinOfTwo ==
    ASSUME NEW n \in Nat
    PROVE  Min({n, 6}) = IF n < 6 THEN n ELSE 6
<1> DEFINE least == IF n < 6 THEN n ELSE 6
<1>1. least \in {n, 6} /\ \A y \in {n, 6} : least <= y
    OBVIOUS
<1>2. Min({n, 6}) \in {n, 6} /\ \A y \in {n, 6} : Min({n, 6}) <= y
    BY <1>1 DEF Min
<1>3. QED
    BY <1>2

\* The relational part of a score is nothing without a common neighbour or role,
\* and saturates below one.
LEMMA SaturateIsBounded ==
    ASSUME NEW n \in Nat
    PROVE  _saturate(n) \in 0 .. 875 /\ _saturate(0) = 0
<1> DEFINE known == <<0, 293, 500, 646, 750, 823, 875>>
<1>1. Min({n, 6}) \in 0 .. 6 /\ Min({0, 6}) = 0
    BY MinOfTwo
<1>2. \A i \in 0 .. 6 : known[i + 1] \in 0 .. 875
    OBVIOUS
<1>3. _saturate(n) = known[Min({n, 6}) + 1] /\ _saturate(0) = known[Min({0, 6}) + 1]
    BY DEF _saturate
<1>4. known[1] = 0
    OBVIOUS
<1> HIDE DEF known
<1>5. QED
    BY <1>1, <1>2, <1>3, <1>4

\* Only a common label, a stated type in common and a relation in common
\* together reach the bar.
LEMMA ConfirmedScore ==
    ASSUME NEW a, NEW b, IsFiniteSet(a.context), decide(score_pair(a, b)) = "confirmed"
    PROVE  /\ a.label = b.label /\ a.type = b.type /\ a.type # ""
           /\ a.context \cap b.context # {} \/ a.roles \cap b.roles # {}
<1> DEFINE label == IF a.label = b.label THEN 500 ELSE 0
           n == 2 * Cardinality(a.context \cap b.context) + (IF a.roles \cap b.roles # {} THEN 1 ELSE 0)
           relational == (350 * _saturate(n)) \div 1000
           sum == label + TypeAgreement(a, b) + relational
<1>1. Cardinality(a.context \cap b.context) \in Nat
    BY FS_Intersection, FS_CardinalityType
<1>2. n \in Nat /\ ((a.context \cap b.context = {} /\ a.roles \cap b.roles = {}) => n = 0)
    BY <1>1, FS_EmptySet
<1> HIDE DEF n
<1>3. relational \in 0 .. 306 /\ (n = 0 => relational = 0)
  <2>1. _saturate(n) \in 0 .. 875 /\ (n = 0 => _saturate(n) = 0)
      BY <1>2, SaturateIsBounded
  <2>2. QED
      BY <2>1
<1>4. TypeAgreement(a, b) \in {-250, 0, 250} /\ (TypeAgreement(a, b) = 250 => a.type = b.type /\ a.type # "")
  <2>1. \/ TypeAgreement(a, b) = 0
        \/ TypeAgreement(a, b) = 250 /\ "" \notin {a.type, b.type} /\ a.type = b.type
        \/ TypeAgreement(a, b) = -250
      BY Zenon DEF TypeAgreement
  <2>2. "" \notin {a.type, b.type} => a.type # ""
      OBVIOUS
  <2>3. TypeAgreement(a, b) \in {-250, 0, 250}
      BY <2>1
  <2>4. TypeAgreement(a, b) = 250 => "" \notin {a.type, b.type} /\ a.type = b.type
    <3>1. 0 # 250 /\ -250 # 250
        OBVIOUS
    <3>2. QED
        BY <2>1, <3>1, Zenon
  <2>5. QED
      BY <2>2, <2>3, <2>4
<1>5. score_pair(a, b) = Max({0, sum})
    BY DEF score_pair, n
<1> DEFINE agreed == TypeAgreement(a, b)
<1> HIDE DEF relational
<1>6. label \in {0, 500} /\ agreed \in {-250, 0, 250} /\ relational \in 0 .. 306 /\ sum \in Int
  <2>1. label \in {0, 500} /\ agreed \in {-250, 0, 250} /\ relational \in 0 .. 306
      BY <1>3, <1>4
  <2> HIDE DEF label, agreed
  <2>2. sum \in Int
      BY <2>1 DEF agreed
  <2>3. QED
      BY <2>1, <2>2
<1>7. sum >= 850
  <2>1. score_pair(a, b) >= 850
      BY DEF decide
  <2> HIDE DEF sum
  <2>2. QED
      BY <1>5, <1>6, <2>1, MaxOfTwo
<1>8. label = 500 /\ agreed = 250 /\ relational # 0
  <2>1. label + agreed + relational >= 850
      BY <1>7
  <2> HIDE DEF label, agreed
  <2>2. QED
      BY <1>6, <2>1
<1>9. a.label = b.label
    BY <1>8
<1>10. n # 0
    BY <1>3, <1>8
<1>11. a.type = b.type /\ a.type # ""
    BY <1>4, <1>8
<1>12. QED
    BY <1>2, <1>9, <1>10, <1>11

\* What more facts add to an entity is context.
LEMMA EntitiesGrow ==
    ASSUME NEW P, NEW Q, P \subseteq Q, NEW a \in _load_entities(P)
    PROVE  \E b \in _load_entities(Q) : /\ b.id = a.id /\ b.label = a.label /\ b.type = a.type
                                        /\ b.roles = a.roles /\ a.context \subseteq b.context
<1> DEFINE Context(e, R) == {c.label : c \in {x \in RowsOf(R) : x.id # e.id
                                                 /\ \E p \in R : {e, x} \subseteq Entities[p]}}
           Loaded(e, R) == [id |-> e.id, label |-> e.label, type |-> e.type, kind |-> e.kind,
                            roles |-> {e.role}, context |-> Context(e, R)]
<1>1. RowsOf(P) \subseteq RowsOf(Q)
    BY DEF RowsOf
<1>2. \A e : Context(e, P) \subseteq Context(e, Q)
    BY <1>1
<1>3. \A R : _load_entities(R) = {Loaded(e, R) : e \in RowsOf(R)}
    BY DEF _load_entities
<1> HIDE DEF Context
<1>4. PICK e \in RowsOf(P) : a = Loaded(e, P)
    BY <1>3
<1>5. Loaded(e, Q) \in _load_entities(Q)
    BY <1>1, <1>3, <1>4
<1>6. QED
    BY <1>2, <1>4, <1>5

\* One edge keeps ConfirmedNeedsRelation over the facts P.
Related(s, P) ==
    (s.by = "resolver" /\ s.state = "confirmed") =>
        \E a, b \in _load_entities(P) :
            /\ s.pair = {a.id, b.id}
            /\ a.label = b.label /\ a.type = b.type /\ a.type # ""
            /\ a.context \cap b.context # {} \/ a.roles \cap b.roles # {}

\* The resolver writes what it scored on a read of Facts that are still there.
RelationInv ==
    /\ facts \subseteq Proposition /\ resolving.facts \subseteq facts
    /\ ConfirmedNeedsRelation

\* A relation once seen stays: context is only added to.
LEMMA RelatedGrows ==
    ASSUME NEW P, NEW Q, P \subseteq Q, NEW s, Related(s, P)
    PROVE  Related(s, Q)
<1> SUFFICES ASSUME s.by = "resolver", s.state = "confirmed"
             PROVE  \E a, b \in _load_entities(Q) :
                        /\ s.pair = {a.id, b.id}
                        /\ a.label = b.label /\ a.type = b.type /\ a.type # ""
                        /\ a.context \cap b.context # {} \/ a.roles \cap b.roles # {}
    BY DEF Related
<1>1. PICK a, b \in _load_entities(P) :
            /\ s.pair = {a.id, b.id}
            /\ a.label = b.label /\ a.type = b.type /\ a.type # ""
            /\ a.context \cap b.context # {} \/ a.roles \cap b.roles # {}
    BY DEF Related
<1>2. PICK a2 \in _load_entities(Q) : /\ a2.id = a.id /\ a2.label = a.label /\ a2.type = a.type
                                      /\ a2.roles = a.roles /\ a.context \subseteq a2.context
    BY EntitiesGrow
<1>3. PICK b2 \in _load_entities(Q) : /\ b2.id = b.id /\ b2.label = b.label /\ b2.type = b.type
                                      /\ b2.roles = b.roles /\ b.context \subseteq b2.context
    BY EntitiesGrow
<1>4. QED
    BY <1>1, <1>2, <1>3

\* What the resolver confirms is related by what it has read.
LEMMA ResolvedAreRelated ==
    ASSUME NEW P \in SUBSET Proposition, NEW s \in Resolved(P)
    PROVE  Related(s, P)
<1>1. s \in Scored(P)
    BY DEF Resolved
<1>2. PICK q \in _load_entities(P) \X _load_entities(P) :
            s = [pair |-> {q[1].id, q[2].id}, state |-> decide(score_pair(q[1], q[2])),
                 open |-> TRUE, by |-> "resolver"]
    BY <1>1 DEF Scored
<1>3. IsFiniteSet(q[1].context)
    BY FiniteContexts
<1>4. QED
    BY <1>2, <1>3, ConfirmedScore DEF Related

\* The property, one edge at a time.
LEMMA RelationByEdge == ConfirmedNeedsRelation <=> \A s \in same_as : Related(s, facts)
  BY DEF ConfirmedNeedsRelation, Related

\* No edges to begin with.
LEMMA RelationInit == Init => RelationInv
  BY DEF Init, StoreInit, IdentityInit, RelationInv, ConfirmedNeedsRelation

\* Facts only grow, and reviewers' edges are not the resolver's.
LEMMA RelationNext == RelationInv /\ WholeEdges /\ [Next]_vars => RelationInv'
<1> SUFFICES ASSUME RelationInv, WholeEdges, [Next]_vars PROVE RelationInv'
    OBVIOUS
<1>0. \A s \in same_as : Related(s, facts)
    BY RelationByEdge DEF RelationInv
<1>1. ASSUME facts \subseteq facts', facts' \subseteq Proposition, resolving'.facts \subseteq facts',
             \A s \in same_as' : s \in same_as \/ Related(s, facts)
      PROVE  RelationInv'
  <2>1. \A s \in same_as' : Related(s, facts')
      BY <1>0, <1>1, RelatedGrows
  <2>2. ConfirmedNeedsRelation'
      BY <2>1 DEF ConfirmedNeedsRelation, Related
  <2>3. QED
      BY <1>1, <2>2 DEF RelationInv
<1>2. ASSUME UNCHANGED <<facts, resolving, same_as>> PROVE RelationInv'
    BY <1>1, <1>2 DEF RelationInv
<1>3. CASE Extract
    BY <1>1, <1>3 DEF Extract, extract_proposition, KeepIdentity, RelationInv
<1>4. CASE Retract \/ Packs
    BY <1>2, <1>4 DEF Retract, RetractFact, Packs, load_pack, deprecate_pack, KeepIdentity
<1>5. CASE Resolve
  <2>1. UNCHANGED facts
      BY <1>5 DEF Resolve, KeepOthers, store
  <2>2. CASE resolve_box_load
      BY <1>1, <2>1, <2>2 DEF resolve_box_load, RelationInv
  <2>3. CASE resolve_box_write
    <3>1. resolving.facts \in SUBSET Proposition /\ resolving.facts \subseteq facts
        BY DEF RelationInv
    <3>2. \A s \in same_as' : s \in same_as \/ s \in Resolved(resolving.facts)
        BY <2>3 DEF resolve_box_write
    <3>3. \A s \in same_as' : s \in same_as \/ Related(s, facts)
        BY <3>1, <3>2, ResolvedAreRelated, RelatedGrows
    <3>4. resolving'.facts = {}
        BY <2>3 DEF resolve_box_write
    <3>5. QED
        BY <1>1, <2>1, <3>3, <3>4 DEF RelationInv
  <2>4. QED
      BY <1>5, <2>2, <2>3 DEF Resolve
<1>6. CASE MergeOrSplit
  <2>1. UNCHANGED <<facts, resolving>>
      BY <1>6 DEF MergeOrSplit, KeepOthers, store, Review, merge, split
  <2>2. ASSUME NEW pair, merge(pair) PROVE \A s \in same_as' : s \in same_as \/ Related(s, facts)
    <3>1. \A s \in same_as' : s \in same_as
                               \/ s = [pair |-> pair, state |-> "confirmed", open |-> TRUE, by |-> "reviewer"]
        BY <2>2 DEF merge, Upsert
    <3>2. Related([pair |-> pair, state |-> "confirmed", open |-> TRUE, by |-> "reviewer"], facts)
        BY DEF Related
    <3>3. QED
        BY <3>1, <3>2
  <2>3. ASSUME NEW pair, split(pair) PROVE \A s \in same_as' : s \in same_as \/ Related(s, facts)
    <3>1. \A s \in same_as' : s \in same_as \/ \E x \in same_as : s = [x EXCEPT !.open = FALSE]
        BY <2>3 DEF split
    <3>2. ASSUME NEW x \in same_as PROVE Related([x EXCEPT !.open = FALSE], facts)
      <4>1. Related(x, facts) /\ Whole(x)
          BY <1>0 DEF WholeEdges
      <4>2. LET y == [x EXCEPT !.open = FALSE] IN y.pair = x.pair /\ y.state = x.state /\ y.by = x.by
          BY <4>1 DEF Whole, EdgeFields
      <4>3. QED
          BY <4>1, <4>2 DEF Related
    <3>3. QED
        BY <3>1, <3>2
  <2>4. QED
      BY <1>1, <1>6, <2>1, <2>2, <2>3 DEF MergeOrSplit, Review, RelationInv
<1>7. CASE Link
    BY <1>2, <1>7 DEF Link, KeepOthers, store, anchor_box_load, anchor_box_write
<1>8. CASE Induce \/ Bind \/ UNCHANGED vars
    BY <1>2, <1>8 DEF Induce, Bind, vars, store, identity
<1>9. QED
    BY <1>3, <1>4, <1>5, <1>6, <1>7, <1>8 DEF Next

\* The resolver (core/resolve.py, score_pair and decide) confirms a pair by
\* itself only with one label, one stated type, and a neighbour or a role in
\* common among the current Facts; whatever reviewers and later passes write.
THEOREM ConfirmationNeedsRelation == Spec => []ConfirmedNeedsRelation
<1>1. RelationInv => ConfirmedNeedsRelation
    BY DEF RelationInv
<1>2. QED
    BY <1>1, RelationInit, RelationNext, WholeEdgesInit, WholeEdgesNext, PTL DEF Spec

-----------------------------------------------------------------------------
(* Representatives. A class goes by its only taxonomy node or by its least *)
(* member; an anchored node ties its mentions, so it is in one class only, *)
(* and entities are no nodes.                                              *)

\* One representative per class, whichever the links: a class goes by the only
\* taxonomy node of its members, or by the least of them.
LEMMA ComponentsHaveOwnNames ==
    ASSUME NEW pairs, \A p \in pairs : p \subseteq Uid,
           NEW anchors, DOMAIN anchors \subseteq Uid, \A e \in DOMAIN anchors : anchors[e] \in NodeIds
    PROVE  LET C == anchored_components(pairs, anchors)
           IN  /\ \A c, d \in C : c # d => c.canonical # d.canonical /\ c.members \cap d.members = {}
               /\ \A e \in DOMAIN anchors : \E c \in C :
                     e \in c.members /\ (Cardinality(c.anchors) = 1 => c.canonical = anchors[e])
<1> DEFINE items == (UNION pairs) \cup DOMAIN anchors
           links == pairs \cup Anchored(anchors)
           K == Classes(items, links)
           Of(c) == {anchors[m] : m \in c \cap DOMAIN anchors}
<1>1. items \subseteq Uid /\ links \in SUBSET SUBSET Uid /\ (\A l \in links : l \subseteq items)
  <2>1. \A l \in Anchored(anchors) : l \subseteq DOMAIN anchors
      BY DEF Anchored
  <2>2. items \subseteq Uid
      OBVIOUS
  <2>3. \A l \in links : l \subseteq items
      BY <2>1
  <2> HIDE DEF items, links
  <2>4. QED
      BY <2>2, <2>3
<1>2. IsFiniteSet(links)
    BY <1>1, FiniteUid, FS_SUBSET, FS_Subset
<1>3. /\ K \subseteq SUBSET items
      /\ \A x \in items : \E c \in K : x \in c
      /\ \A c, d \in K : c \cap d # {} => c = d
      /\ \A c \in K : c # {} /\ Tied(c, links)
  <2> HIDE DEF items, links
  <2>1. QED
      BY <1>1, <1>2, ClassesArePartition
<1>4. anchored_components(pairs, anchors) = {Component(c, anchors) : c \in K}
    BY DEF anchored_components
<1> HIDE DEF K
<1>5. ASSUME NEW c \in K
      PROVE  /\ Component(c, anchors).members = c /\ Component(c, anchors).anchors = Of(c)
             /\ Cardinality(Of(c)) = 1 => Of(c) = {Component(c, anchors).canonical}
             /\ Cardinality(Of(c)) # 1 => Component(c, anchors).canonical \in c
  <2>1. Of(c) \subseteq NodeIds /\ IsFiniteSet(Of(c))
    <3>1. Of(c) \subseteq NodeIds
        BY DEF Of
    <3> HIDE DEF Of
    <3>2. QED
        BY <3>1, FiniteTaxonomies, FS_Subset
  <2>2. c \in SUBSET Uid /\ c # {}
      BY <1>1, <1>3
  <2>3. canonical_id(c) \in c
      BY <2>2, LeastIsMember
  <2>4. Component(c, anchors) =
          [members |-> c, anchors |-> Of(c),
           canonical |-> IF Cardinality(Of(c)) = 1 THEN CHOOSE t \in Of(c) : TRUE ELSE canonical_id(c)]
      BY DEF Component
  <2> HIDE DEF Of
  <2>5. Cardinality(Of(c)) = 1 => \E t : Of(c) = {t}
      BY <2>1, FS_Singleton
  <2>6. Cardinality(Of(c)) = 1 => Of(c) = {CHOOSE t \in Of(c) : TRUE}
      BY <2>5
  <2>7. QED
      BY <2>3, <2>4, <2>6
<1>6. ASSUME NEW c \in K, NEW d \in K, c # d
      PROVE  Component(c, anchors).canonical # Component(d, anchors).canonical /\ c \cap d = {}
  <2>1. c \cap d = {} /\ Of(c) \subseteq NodeIds /\ Of(d) \subseteq NodeIds /\ c \subseteq Uid /\ d \subseteq Uid
      BY <1>1, <1>3, <1>6 DEF Of
  <2>2. Of(c) \cap Of(d) = {}
    <3> SUFFICES ASSUME NEW t, t \in Of(c), t \in Of(d) PROVE FALSE
        OBVIOUS
    <3>1. PICK m \in c \cap DOMAIN anchors : anchors[m] = t
        BY DEF Of
    <3>2. PICK n \in d \cap DOMAIN anchors : anchors[n] = t
        BY DEF Of
    <3> DEFINE l == {e \in DOMAIN anchors : anchors[e] = t}
    <3>3. l \in links /\ m \in l /\ n \in l
        BY <3>1, <3>2 DEF Anchored
    <3>4. l \subseteq c
        BY <1>3, <3>1, <3>3 DEF Tied
    <3>5. QED
        BY <2>1, <3>2, <3>3, <3>4
  <2>3. \/ Of(c) = {Component(c, anchors).canonical} \/ Component(c, anchors).canonical \in c
      BY <1>5
  <2>4. \/ Of(d) = {Component(d, anchors).canonical} \/ Component(d, anchors).canonical \in d
      BY <1>5
  <2> HIDE DEF Of
  <2>5. QED
      BY <2>1, <2>2, <2>3, <2>4, FiniteUid
<1>7. ASSUME NEW e \in DOMAIN anchors
      PROVE  \E c \in K : e \in c /\ (Cardinality(Of(c)) = 1 => Component(c, anchors).canonical = anchors[e])
  <2>1. PICK c \in K : e \in c
    <3>1. e \in items
        OBVIOUS
    <3> HIDE DEF items
    <3>2. QED
        BY <1>3, <3>1
  <2>2. anchors[e] \in Of(c)
      BY <2>1
  <2> HIDE DEF Of
  <2>3. QED
      BY <1>5, <2>1, <2>2
<1> HIDE DEF Of
<1>8. QED
    BY <1>4, <1>5, <1>6, <1>7

\* anchored_components (core/resolve.py) names every component once: no two share
\* a member or a representative, and mentions confirmed to one taxonomy node are
\* one component that goes by the node, for any pairs and any anchors.
THEOREM EveryEntityHasOneRepresentative == Spec => []OneRepresentative
<1>1. IdentityTyped => OneRepresentative
  <2> SUFFICES ASSUME IdentityTyped, NEW anchors \in anchored_targets
               PROVE  LET C == canonical_components(anchors)
                      IN  /\ \A c, d \in C : c # d => c.canonical # d.canonical /\ c.members \cap d.members = {}
                          /\ \A e \in DOMAIN anchors : \E c \in C :
                                e \in c.members /\ (Cardinality(c.anchors) = 1 => c.canonical = anchors[e])
      BY DEF OneRepresentative
  <2> DEFINE pairs == {s.pair : s \in {x \in same_as : x.state = "confirmed"}}
  <2>1. \A p \in pairs : p \subseteq Uid
      BY DEF IdentityTyped
  <2>2. DOMAIN anchors \subseteq Uid /\ \A e \in DOMAIN anchors : anchors[e] \in NodeIds
      BY DEF anchored_targets, ConfirmedAnchors, IdentityTyped
  <2>3. canonical_components(anchors) = anchored_components(pairs, anchors)
      BY DEF canonical_components
  <2> HIDE DEF pairs
  <2>4. QED
      BY <2>1, <2>2, <2>3, ComponentsHaveOwnNames
<1>2. QED
    BY <1>1, IdentityTypedInit, IdentityTypedNext, WholeEdgesInit, WholeEdgesNext, PTL DEF Spec

-----------------------------------------------------------------------------
(* Merges and splits. Evidence is aggregated over the components of the    *)
(* confirmed pairs that are not split, so it is a function of those pairs  *)
(* and of the current Facts. A fresh merge adds one pair to them and a     *)
(* split of that pair takes exactly it away again; every step in between   *)
(* that could move a Fact or another pair ends the episode.                *)

\* The confirmed pairs that are not split.
OpenPairs == {s.pair : s \in {x \in same_as : x.state = "confirmed" /\ x.open}}

\* canonical_map and aggregate as functions of the Facts F, those retracted R and
\* the open pairs.
MapFrom(F, pairs) ==
    LET C == components(pairs)
    IN  [e \in {x.id : x \in UNION {Entities[p] : p \in F}} |->
            LET mine == {c \in C : e \in c}
            IN  IF mine = {} THEN e ELSE canonical_id(CHOOSE c \in mine : TRUE)]

NodesFrom(F, R, c, map) == {p \in F \ R : \E e \in Entities[p] : map[e.id] = c}

EvidenceBy(F, R, map) ==
    LET current == {x.id : x \in UNION {Entities[p] : p \in F \ R}}
    IN  [c \in {map[e] : e \in current} |->
            [members |-> {e \in current : map[e] = c}, nodes |-> NodesFrom(F, R, c, map),
             support_count |-> Cardinality(NodesFrom(F, R, c, map)),
             confidence |-> Max({Faith[p] : p \in NodesFrom(F, R, c, map)})]]

EvidenceFrom(F, R, pairs) == EvidenceBy(F, R, MapFrom(F, pairs))

\* aggregate is a function of them and of what is retracted.
LEMMA AggregateOfOpenPairs == aggregate = EvidenceFrom(facts, retracted, OpenPairs)
  BY DEF aggregate, aggregate_components, canonical_map, _load_components, NodesOf, Support, Ids, RowsOf,
         EvidenceFrom, EvidenceBy, MapFrom, NodesFrom, OpenPairs

\* While the last step of interest was a fresh merge, the evidence recorded is
\* that of the other open pairs; after its split it is that of all of them.
Revised == {"op", "pair", "fresh", "evidence", "map"}

Episode ==
    /\ last.op \in {"merge", "split"} =>
          DOMAIN last = Revised /\ last = [f \in Revised |-> last[f]]
    /\ (last.op = "merge" /\ last.fresh) =>
          last.evidence = EvidenceFrom(facts, retracted, OpenPairs \ {last.pair})
    /\ (last.op = "split" /\ last.fresh) =>
          last.evidence = EvidenceFrom(facts, retracted, OpenPairs)

\* No revision to begin with.
LEMMA EpisodeInit == Init => Episode
  BY DEF Init, IdentityInit, NoRevision, Episode

\* An episode ends with any step that could change the evidence otherwise.
LEMMA ForgetEndsEpisode == ASSUME Forget PROVE Episode'
  BY DEF Forget, NoRevision, Episode

LEMMA QuietKeepsEpisode ==
    ASSUME Episode, UNCHANGED <<facts, retracted, same_as, last>> PROVE Episode'
<1>1. OpenPairs' = OpenPairs
    BY DEF OpenPairs
<1>2. QED
    BY <1>1 DEF Episode

LEMMA MergeOpensEpisode ==
    ASSUME Episode, NEW pair, merge(pair), UNCHANGED <<facts, retracted>> PROVE Episode'
<1>1. /\ last' = [op |-> "merge", pair |-> pair, fresh |-> Separate(pair),
                  evidence |-> aggregate, map |-> canonical_map]
      /\ same_as' = Upsert(pair, "confirmed", "reviewer")
    BY DEF merge
<1>2. OpenPairs' \ {pair} = OpenPairs \ {pair}
  <2>1. \A q \in OpenPairs \ {pair} : q \in OpenPairs'
      BY <1>1 DEF OpenPairs, Upsert
  <2>2. \A q \in OpenPairs' \ {pair} : q \in OpenPairs
      BY <1>1 DEF OpenPairs, Upsert
  <2>3. QED
      BY <2>1, <2>2
<1>3. Separate(pair) => OpenPairs \ {pair} = OpenPairs
    BY DEF Separate, OpenPairs
<1>4. last'.fresh => last'.evidence = EvidenceFrom(facts', retracted', OpenPairs' \ {last'.pair})
    BY <1>1, <1>2, <1>3, AggregateOfOpenPairs
<1>5. last'.op = "merge" /\ DOMAIN last' = Revised /\ last' = [f \in Revised |-> last'[f]]
    BY <1>1 DEF Revised
<1>6. QED
    BY <1>4, <1>5 DEF Episode

LEMMA SplitClosesEpisode ==
    ASSUME Episode, WholeEdges, NEW pair, split(pair), UNCHANGED <<facts, retracted>> PROVE Episode'
<1>1. CASE last.op = "merge" /\ last.pair = pair
  <2>1. /\ last' = [last EXCEPT !.op = "split"]
        /\ same_as' = {IF s.pair = pair THEN [s EXCEPT !.open = FALSE] ELSE s : s \in same_as}
      BY <1>1 DEF split
  <2>2. OpenPairs' = OpenPairs \ {pair}
    <3>1. \A s \in same_as : /\ [s EXCEPT !.open = FALSE].open = FALSE
                             /\ [s EXCEPT !.open = FALSE].pair = s.pair
        BY DEF WholeEdges, Whole, EdgeFields
    <3>2. ASSUME NEW q \in OpenPairs \ {pair} PROVE q \in OpenPairs'
      <4>1. PICK s \in same_as : s.pair = q /\ s.state = "confirmed" /\ s.open
          BY DEF OpenPairs
      <4>2. s \in same_as'
          BY <2>1, <4>1
      <4>3. QED
          BY <4>1, <4>2 DEF OpenPairs
    <3>3. ASSUME NEW q \in OpenPairs' PROVE q \in OpenPairs \ {pair}
      <4>1. PICK s \in same_as' : s.pair = q /\ s.state = "confirmed" /\ s.open
          BY DEF OpenPairs
      <4>2. PICK x \in same_as : s = IF x.pair = pair THEN [x EXCEPT !.open = FALSE] ELSE x
          BY <2>1
      <4>3. x.pair # pair /\ s = x
          BY <3>1, <4>1, <4>2
      <4>4. QED
          BY <4>1, <4>3 DEF OpenPairs
    <3>4. QED
        BY <3>2, <3>3
  <2>3. /\ last'.op = "split" /\ last'.fresh = last.fresh /\ last'.evidence = last.evidence
        /\ DOMAIN last' = Revised /\ last' = [f \in Revised |-> last'[f]]
      BY <1>1, <2>1 DEF Episode, Revised
  <2>4. last.fresh => last.evidence = EvidenceFrom(facts, retracted, OpenPairs \ {pair})
      BY <1>1 DEF Episode
  <2>5. QED
      BY <2>2, <2>3, <2>4 DEF Episode
<1>2. CASE ~(last.op = "merge" /\ last.pair = pair)
    BY <1>2, ForgetEndsEpisode DEF split, Forget
<1>3. QED
    BY <1>1, <1>2

LEMMA EpisodeNext == Episode /\ WholeEdges /\ [Next]_vars => Episode'
<1> SUFFICES ASSUME Episode, WholeEdges, [Next]_vars PROVE Episode'
    OBVIOUS
<1>1. CASE Extract \/ Retract \/ Packs
    BY <1>1, ForgetEndsEpisode DEF Extract, Retract, Packs
<1>2. CASE Resolve
  <2>1. CASE resolve_box_load
      BY <1>2, <2>1, QuietKeepsEpisode DEF Resolve, KeepOthers, store, resolve_box_load
  <2>2. CASE resolve_box_write
      BY <2>2, ForgetEndsEpisode DEF resolve_box_write
  <2>3. QED
      BY <1>2, <2>1, <2>2 DEF Resolve
<1>3. CASE MergeOrSplit
    BY <1>3, MergeOpensEpisode, SplitClosesEpisode DEF MergeOrSplit, Review, KeepOthers, store
<1>4. CASE Link
  <2>1. CASE anchor_box_load
      BY <1>4, <2>1, QuietKeepsEpisode DEF Link, KeepOthers, store, anchor_box_load
  <2>2. CASE anchor_box_write
      BY <2>2, ForgetEndsEpisode DEF anchor_box_write
  <2>3. QED
      BY <1>4, <2>1, <2>2 DEF Link
<1>5. CASE Induce \/ Bind \/ UNCHANGED vars
    BY <1>5, QuietKeepsEpisode DEF Induce, Bind, vars, store, identity
<1>6. QED
    BY <1>1, <1>2, <1>3, <1>4, <1>5 DEF Next

\* "Over-merging is recoverable" (component_aggregate.py, split): the split of
\* the pair a merge joined gives back the components and the evidence of
\* before the merge, whatever else is merged, retracted or extracted.
THEOREM OverMergingIsRecoverable == Spec => []SplitUndoesMerge
<1>1. Episode => SplitUndoesMerge
    BY AggregateOfOpenPairs DEF Episode, SplitUndoesMerge
<1>2. QED
    BY <1>1, EpisodeInit, EpisodeNext, WholeEdgesInit, WholeEdgesNext, PTL DEF Spec

-----------------------------------------------------------------------------
(* What a merge does to the evidence. One more pair makes one class of two *)
(* and no other; so the entities of the two go by one representative, and  *)
(* what was counted for either is counted for it.                          *)

\* The canonical map sends an entity to the least of its class; two entities
\* have one representative exactly when they are of one class.
LEMMA MapIsLeast ==
    ASSUME NEW pairs \in SUBSET SUBSET Uid, NEW F \in SUBSET Proposition
    PROVE  /\ DOMAIN MapFrom(F, pairs) = Ids(F) /\ Ids(F) \subseteq Uid
           /\ \A e \in Ids(F) : MapFrom(F, pairs)[e] = Min(Class(e, pairs))
           /\ \A e \in Uid : Class(e, pairs) \subseteq Uid /\ Min(Class(e, pairs)) \in Class(e, pairs)
<1>1. Ids(F) = {x.id : x \in UNION {Entities[p] : p \in F}} /\ Ids(F) \subseteq Uid
    BY DEF Ids, RowsOf, Uid
<1>2. ASSUME NEW e \in Uid PROVE Class(e, pairs) \subseteq Uid /\ Min(Class(e, pairs)) \in Class(e, pairs)
  <2>1. Class(e, pairs) \in SUBSET Uid
      BY DEF Class
  <2>2. Class(e, pairs) # {}
      BY ClassIsLeastTied
  <2>3. QED
      BY <2>1, <2>2, LeastIsMember DEF canonical_id
<1>3. IsFiniteSet(pairs)
    BY FiniteUid, FS_SUBSET, FS_Subset
<1> DEFINE C == components(pairs)
           mine(e) == {c \in C : e \in c}
           map == [e \in Ids(F) |-> IF mine(e) = {} THEN e ELSE canonical_id(CHOOSE c \in mine(e) : TRUE)]
<1>4. MapFrom(F, pairs) = map
    BY <1>1 DEF MapFrom
<1>5. ASSUME NEW e \in Ids(F) PROVE map[e] = Min(Class(e, pairs))
  <2>1. CASE e \in UNION pairs
    <3>1. mine(e) = {Class(e, pairs)}
      <4>1. Class(e, pairs) \in C /\ e \in Class(e, pairs)
          BY <1>3, <2>1, ComponentsAreClasses, ClassIsLeastTied
      <4>2. \A c \in C : e \in c => c = Class(e, pairs)
          BY <1>3, ComponentsAreClasses, ClassOfMember
      <4>3. QED
          BY <4>1, <4>2
    <3> HIDE DEF mine
    <3>2. map[e] = canonical_id(Class(e, pairs))
        BY <3>1
    <3>3. QED
        BY <3>2 DEF canonical_id
  <2>2. CASE e \notin UNION pairs
    <3>1. Class(e, pairs) = {e}
        BY <1>3, <2>2, ComponentsAreClasses
    <3>2. mine(e) = {}
      <4> SUFFICES ASSUME NEW c \in C, e \in c PROVE FALSE
          OBVIOUS
      <4>1. PICK x \in UNION pairs : c = Class(x, pairs)
          BY <1>3, ComponentsAreClasses
      <4>2. QED
          BY <2>2, <4>1 DEF Class
    <3>3. Min({e}) = e
      <4>1. e \in Nat
          BY <1>1, FiniteUid
      <4>2. e <= e
          BY <4>1
      <4>3. QED
          BY <4>2 DEF Min
    <3> HIDE DEF mine
    <3>4. QED
        BY <3>1, <3>2, <3>3
  <2>3. QED
      BY <2>1, <2>2
<1> HIDE DEF map
<1>6. QED
    BY <1>1, <1>2, <1>4, <1>5 DEF map

\* In the new map the entities of the two joined components have one
\* representative, and no other entity has it or changes its own.
Joins(map, new, F, a, b) ==
    /\ new[a] = new[b]
    /\ \A e \in Ids(F) : new[e] = new[a] <=> map[e] \in {map[a], map[b]}
    /\ \A e \in Ids(F) : map[e] \notin {map[a], map[b]} => new[e] = map[e]

LEMMA MergeJoins ==
    ASSUME NEW pairs \in SUBSET SUBSET Uid, NEW F \in SUBSET Proposition, NEW a \in Ids(F), NEW b \in Ids(F)
    PROVE  Joins(MapFrom(F, pairs), MapFrom(F, With(pairs, a, b)), F, a, b)
<1> DEFINE more == With(pairs, a, b)
           map == MapFrom(F, pairs)
           new == MapFrom(F, more)
           joint == Joint(pairs, a, b)
<1>1. a \in Uid /\ b \in Uid /\ Ids(F) \subseteq Uid
    BY MapIsLeast
<1>2. more \in SUBSET SUBSET Uid
    BY <1>1 DEF With
<1>3. /\ \A e : e \in joint => Class(e, more) = joint
      /\ \A e : e \notin joint => Class(e, more) = Class(e, pairs)
    BY JoiningClasses
<1> HIDE DEF more
<1>4. /\ \A e \in Ids(F) : map[e] = Min(Class(e, pairs)) /\ new[e] = Min(Class(e, more))
      /\ \A e \in Uid : Min(Class(e, pairs)) \in Class(e, pairs) /\ Min(Class(e, more)) \in Class(e, more)
    BY <1>2, MapIsLeast
<1>5. a \in joint /\ b \in joint
    BY ClassIsLeastTied DEF Joint
<1>6. \A e \in joint : Class(e, pairs) = Class(a, pairs) \/ Class(e, pairs) = Class(b, pairs)
    BY ClassOfMember DEF Joint
<1>7. \A e \in Ids(F) : e \in joint <=> map[e] \in {map[a], map[b]}
  <2>1. ASSUME NEW e \in Ids(F), e \in joint PROVE map[e] \in {map[a], map[b]}
      BY <1>4, <1>6, <2>1
  <2>2. ASSUME NEW e \in Ids(F), NEW x \in {a, b}, map[e] = map[x] PROVE e \in joint
    <3>1. Min(Class(e, pairs)) \in Class(e, pairs) /\ Min(Class(e, pairs)) \in Class(x, pairs)
        BY <1>1, <1>4, <2>2
    <3>2. Class(e, pairs) = Class(x, pairs)
        BY <3>1, ClassOfMember
    <3>3. QED
        BY <3>2, ClassIsLeastTied DEF Joint
  <2>3. QED
      BY <2>1, <2>2
<1> HIDE DEF map, new, joint
<1>8. \A e \in Ids(F) : e \in joint => new[e] = Min(joint)
    BY <1>3, <1>4
<1>9. \A e \in Ids(F) : e \notin joint => new[e] = map[e]
    BY <1>3, <1>4
<1>10. Min(joint) \in joint
    BY <1>1, <1>3, <1>4, <1>5
<1>11. \A e \in Ids(F) : e \notin joint => new[e] # Min(joint)
  <2> SUFFICES ASSUME NEW e \in Ids(F), e \notin joint, new[e] = Min(joint) PROVE FALSE
      OBVIOUS
  <2>1. Min(joint) \in Class(e, pairs)
      BY <1>1, <1>4, <1>9
  <2>2. Class(Min(joint), pairs) = Class(e, pairs)
      BY <2>1, ClassOfMember
  <2>3. e \in joint
      BY <1>6, <1>10, <2>2, ClassIsLeastTied DEF joint, Joint
  <2>4. QED
      BY <2>3
<1>12. Joins(map, new, F, a, b)
    BY <1>5, <1>7, <1>8, <1>9, <1>11 DEF Joins
<1>13. QED
    BY <1>12 DEF map, new, more

\* What the merge of {a, b} does to the evidence.
Pooled(F, R, map, new, a, b) ==
    LET old == EvidenceBy(F, R, map)
        joined == {map[e] : e \in {a, b}}
        before == joined \cap DOMAIN old
        nodes == UNION {old[c].nodes : c \in before}
        now == {new[e] : e \in {a, b}}
    IN  /\ Cardinality(now) = 1
        /\ \A c \in now :
             IF nodes = {} THEN c \notin DOMAIN EvidenceBy(F, R, new)
             ELSE /\ EvidenceBy(F, R, new)[c].nodes = nodes
                  /\ EvidenceBy(F, R, new)[c].support_count = Cardinality(nodes)
                  /\ EvidenceBy(F, R, new)[c].confidence = Max({old[d].confidence : d \in before})
        /\ \A c \in DOMAIN old \ joined : EvidenceBy(F, R, new)[c] = old[c]

LEMMA JoiningPoolsEvidence ==
    ASSUME NEW F \in SUBSET Proposition, IsFiniteSet(F), NEW R,
           NEW map, NEW new, NEW a, NEW b, Joins(map, new, F, a, b)
    PROVE  Pooled(F, R, map, new, a, b)
<1> DEFINE old == EvidenceBy(F, R, map)
           after == EvidenceBy(F, R, new)
           joined == {map[a], map[b]}
           current == {x.id : x \in UNION {Entities[p] : p \in F \ R}}
           before == joined \cap DOMAIN old
           nodes == UNION {old[c].nodes : c \in before}
           now == new[a]
           Entry(c, m) ==
              [members |-> {e \in current : m[e] = c}, nodes |-> NodesFrom(F, R, c, m),
               support_count |-> Cardinality(NodesFrom(F, R, c, m)),
               confidence |-> Max({Faith[p] : p \in NodesFrom(F, R, c, m)})]
<1>1. current \subseteq Ids(F)
    BY DEF Ids, RowsOf
<1>2. /\ DOMAIN old = {map[e] : e \in current} /\ DOMAIN after = {new[e] : e \in current}
      /\ \A c \in DOMAIN old : old[c] = Entry(c, map)
      /\ \A c \in DOMAIN after : after[c] = Entry(c, new)
    BY DEF EvidenceBy
<1>0. \A c, m : /\ Entry(c, m).nodes = NodesFrom(F, R, c, m)
                /\ Entry(c, m).support_count = Cardinality(NodesFrom(F, R, c, m))
                /\ Entry(c, m).confidence = Max({Faith[p] : p \in NodesFrom(F, R, c, m)})
    OBVIOUS
<1>14. \A c : (/\ {e \in current : map[e] = c} = {e \in current : new[e] = c}
               /\ NodesFrom(F, R, c, map) = NodesFrom(F, R, c, new))
              => Entry(c, map) = Entry(c, new)
    OBVIOUS
<1>3. \A p \in F \ R : \A e \in Entities[p] : e.id \in current
    OBVIOUS
<1>4. /\ new[a] = new[b]
      /\ \A e \in current : new[e] = now <=> map[e] \in joined
      /\ \A e \in current : map[e] \notin joined => new[e] = map[e]
    BY <1>1 DEF Joins
<1> HIDE DEF old, after, current, now, Entry
<1>5. \A c \in DOMAIN old \ joined :
          c \in DOMAIN after /\ \A e \in current : map[e] = c <=> new[e] = c
  <2> SUFFICES ASSUME NEW c \in DOMAIN old \ joined
               PROVE  c \in DOMAIN after /\ \A e \in current : map[e] = c <=> new[e] = c
      OBVIOUS
  <2>1. PICK x \in current : c = map[x]
      BY <1>2
  <2>2. new[x] = c /\ c # now
      BY <1>4, <2>1
  <2>3. QED
      BY <1>2, <1>4, <2>2
<1>6. \A c \in DOMAIN old \ joined : after[c] = old[c]
  <2> SUFFICES ASSUME NEW c \in DOMAIN old \ joined PROVE after[c] = old[c]
      OBVIOUS
  <2>1. {e \in current : map[e] = c} = {e \in current : new[e] = c}
      BY <1>5
  <2>2. NodesFrom(F, R, c, map) = NodesFrom(F, R, c, new)
      BY <1>3, <1>5 DEF NodesFrom
  <2>3. Entry(c, map) = Entry(c, new)
      BY <1>14, <2>1, <2>2
  <2>4. QED
      BY <1>2, <1>5, <2>3
<1>7. nodes = NodesFrom(F, R, now, new)
  <2>1. \A c \in before : old[c].nodes = NodesFrom(F, R, c, map)
      BY <1>0, <1>2
  <2>2. ASSUME NEW p \in nodes PROVE p \in NodesFrom(F, R, now, new)
    <3>1. PICK c \in before : p \in NodesFrom(F, R, c, map)
        BY <2>1
    <3>2. QED
        BY <1>3, <1>4, <3>1 DEF NodesFrom
  <2>3. ASSUME NEW p \in NodesFrom(F, R, now, new) PROVE p \in nodes
    <3>1. p \in F \ R /\ \E e \in Entities[p] : new[e.id] = now
        BY DEF NodesFrom
    <3>2. PICK e \in Entities[p] : new[e.id] = now
        BY <3>1
    <3>3. e.id \in current /\ map[e.id] \in joined
        BY <1>3, <1>4, <3>1, <3>2
    <3>4. map[e.id] \in before
        BY <1>2, <3>3
    <3>5. p \in NodesFrom(F, R, map[e.id], map)
        BY <3>1 DEF NodesFrom
    <3>6. QED
        BY <2>1, <3>4, <3>5
  <2>4. QED
      BY <2>2, <2>3
<1>8. now \in DOMAIN after <=> nodes # {}
  <2>1. ASSUME now \in DOMAIN after PROVE nodes # {}
    <3>1. PICK e \in current : new[e] = now
        BY <1>2, <2>1
    <3>2. PICK p \in F \ R : \E x \in Entities[p] : x.id = e
        BY DEF current
    <3>3. p \in NodesFrom(F, R, now, new)
        BY <3>1, <3>2 DEF NodesFrom
    <3>4. QED
        BY <1>7, <3>3
  <2>2. ASSUME nodes # {} PROVE now \in DOMAIN after
    <3>1. PICK p \in F \ R : \E e \in Entities[p] : new[e.id] = now
        BY <1>7, <2>2 DEF NodesFrom
    <3>2. QED
        BY <1>2, <1>3, <3>1
  <2>3. QED
      BY <2>1, <2>2
<1>9. ASSUME nodes # {}
      PROVE  Max({Faith[p] : p \in nodes}) = Max({old[c].confidence : c \in before})
  <2> DEFINE group == [c \in before |-> old[c].nodes]
  <2>1. \A c \in before : group[c] = NodesFrom(F, R, c, map)
      BY <1>0, <1>2
  <2>2. \A c \in before : group[c] # {}
    <3> SUFFICES ASSUME NEW c \in before PROVE NodesFrom(F, R, c, map) # {}
        BY <2>1
    <3>1. PICK e \in current : map[e] = c
        BY <1>2
    <3>2. PICK p \in F \ R : \E x \in Entities[p] : x.id = e
        BY DEF current
    <3>3. p \in NodesFrom(F, R, c, map)
        BY <3>1, <3>2 DEF NodesFrom
    <3>4. QED
        BY <3>3
  <2>3. nodes = UNION {group[c] : c \in before}
      OBVIOUS
  <2>4. nodes \in SUBSET F
      BY <1>7 DEF NodesFrom
  <2>5. IsFiniteSet(nodes) /\ \A p \in nodes : Faith[p] \in Nat
      BY <2>4, FS_Subset, FaithIsANumber
  <2>6. \A c \in before : old[c].confidence = Max({Faith[p] : p \in group[c]})
    <3>1. \A c \in before : old[c].confidence = Max({Faith[p] : p \in NodesFrom(F, R, c, map)})
        BY <1>0, <1>2
    <3> HIDE DEF before, group
    <3>2. QED
        BY <2>1, <3>1
  <2> HIDE DEF nodes, before, group
  <2> DEFINE all == {Faith[p] : p \in nodes}
             values == [c \in before |-> {Faith[p] : p \in group[c]}]
             tops == {old[c].confidence : c \in before}
  <2>7. all \in SUBSET Nat /\ IsFiniteSet(all) /\ all # {}
    <3> DEFINE f == [p \in nodes |-> Faith[p]]
    <3>1. f \in Surjection(nodes, all)
        BY DEF Surjection
    <3>2. all \in SUBSET Nat /\ all # {}
        BY <1>9, <2>5
    <3> HIDE DEF f, all
    <3>3. QED
        BY <2>5, <3>1, <3>2, FS_Surjection
  <2>8. \A c \in before : values[c] \subseteq all /\ values[c] # {}
      BY <2>2, <2>3
  <2>9. \A v \in all : \E c \in before : v \in values[c]
      BY <2>3
  <2>10. (\A c \in before : Max(values[c]) \in tops) /\ \A t \in tops : \E c \in before : t = Max(values[c])
      BY <2>6
  <2> HIDE DEF all, values, tops
  <2>11. Max(tops) = Max(all)
    <3>1. Grouped(all, before, values, tops)
        BY <2>8, <2>9, <2>10 DEF Grouped
    <3>2. QED
        BY <2>7, <3>1, MaxOfGroups
  <2>12. QED
      BY <2>11 DEF tops, all
<1>10. nodes # {} => /\ after[now].nodes = nodes /\ after[now].support_count = Cardinality(nodes)
                     /\ after[now].confidence = Max({old[c].confidence : c \in before})
  <2> HIDE DEF nodes, before
  <2>1. QED
      BY <1>0, <1>2, <1>7, <1>8, <1>9
<1>11. joined = {map[e] : e \in {a, b}} /\ {new[e] : e \in {a, b}} = {now}
    BY <1>4 DEF now
<1>12. Cardinality({now}) = 1
    BY FS_Singleton
<1>13. QED
  <2> HIDE DEF joined
  <2>1. before = joined \cap DOMAIN EvidenceBy(F, R, map)
      BY DEF old
  <2>2. nodes = UNION {EvidenceBy(F, R, map)[c].nodes : c \in before}
      BY DEF old
  <2> HIDE DEF before, nodes
  <2>3. QED
    BY <1>6, <1>8, <1>10, <1>11, <1>12, <2>1, <2>2 DEF Pooled, old, after

\* Extraction is one Fact at a time.
FinitelyMany == facts \subseteq Proposition /\ IsFiniteSet(facts)

\* No Fact to begin with.
LEMMA FinitelyManyInit == Init => FinitelyMany
  BY FS_EmptySet DEF Init, StoreInit, FinitelyMany

LEMMA FinitelyManyNext == FinitelyMany /\ [Next]_vars => FinitelyMany'
<1> SUFFICES ASSUME FinitelyMany, [Next]_vars PROVE FinitelyMany'
    OBVIOUS
<1>1. ASSUME UNCHANGED facts PROVE FinitelyMany'
    BY <1>1 DEF FinitelyMany
<1>2. CASE Extract
    BY <1>2, FS_AddElement DEF Extract, extract_proposition, FinitelyMany
<1>3. CASE Retract \/ Packs
    BY <1>1, <1>3 DEF Retract, RetractFact, Packs, load_pack, deprecate_pack
<1>4. CASE Resolve \/ MergeOrSplit \/ Link \/ Induce \/ Bind \/ UNCHANGED vars
    BY <1>1, <1>4 DEF Resolve, MergeOrSplit, Link, KeepOthers, Induce, Bind, vars, store
<1>5. QED
    BY <1>2, <1>3, <1>4 DEF Next

\* canonical_map is a function of the current Facts and the open pairs.
LEMMA MapOfOpenPairs == canonical_map = MapFrom(facts, OpenPairs)
  BY DEF canonical_map, _load_components, Ids, RowsOf, MapFrom, OpenPairs

\* While the last step of interest was a merge of {a, b}, what it recorded is
\* the map and the evidence of some open pairs, and {a, b} is all that has been
\* added to them.
Before(pairs, a, b) ==
    /\ last.pair = {a, b} /\ OpenPairs = With(pairs, a, b)
    /\ last.map = MapFrom(facts, pairs) /\ last.evidence = EvidenceFrom(facts, retracted, pairs)

MergeEpisode ==
    last.op = "merge" => \E pairs \in SUBSET SUBSET Uid : \E a, b \in Ids(facts) : Before(pairs, a, b)

\* No merge to begin with.
LEMMA MergeEpisodeInit == Init => MergeEpisode
  BY DEF Init, IdentityInit, NoRevision, MergeEpisode

\* A merge records the map and the evidence before it.
LEMMA MergeStartsEpisode ==
    ASSUME IdentityTyped, NEW pair \in Reviewed, merge(pair), UNCHANGED <<facts, retracted>>
    PROVE  MergeEpisode'
<1>1. PICK a, b : pair = {a, b}
    BY ReviewedArePairs
<1>2. a \in Ids(facts) /\ b \in Ids(facts)
    BY <1>1 DEF merge
<1>3. /\ last'.pair = {a, b} /\ last'.evidence = aggregate /\ last'.map = canonical_map
      /\ same_as' = Upsert({a, b}, "confirmed", "reviewer")
    BY <1>1 DEF merge
<1>4. PICK pairs : pairs = OpenPairs
    OBVIOUS
<1>5. pairs \in SUBSET SUBSET Uid
    BY <1>4 DEF OpenPairs, IdentityTyped
<1>6. OpenPairs' = With(pairs, a, b)
  <2>1. ASSUME NEW q \in OpenPairs' PROVE q \in With(pairs, a, b)
      BY <1>3, <1>4 DEF OpenPairs, Upsert, With
  <2>2. ASSUME NEW q \in pairs, q # {a, b} PROVE q \in OpenPairs'
      BY <1>3, <1>4, <2>2 DEF OpenPairs, Upsert
  <2>3. {a, b} \in OpenPairs'
      BY <1>3 DEF OpenPairs, Upsert
  <2>4. QED
      BY <2>1, <2>2, <2>3 DEF With
<1>7. canonical_map = MapFrom(facts, pairs)
    BY <1>4, MapOfOpenPairs
<1>8. aggregate = EvidenceFrom(facts, retracted, pairs)
    BY <1>4, AggregateOfOpenPairs
<1>9. Before(pairs, a, b)'
    BY <1>3, <1>6, <1>7, <1>8 DEF Before
<1>10. QED
    BY <1>2, <1>5, <1>9 DEF MergeEpisode

\* Whatever else changes Facts or pairs ends the episode.
LEMMA MergeEpisodeNext == MergeEpisode /\ Episode /\ IdentityTyped /\ [Next]_vars => MergeEpisode'
<1> SUFFICES ASSUME MergeEpisode, Episode, IdentityTyped, [Next]_vars PROVE MergeEpisode'
    OBVIOUS
<1>1. ASSUME Forget PROVE MergeEpisode'
    BY <1>1 DEF Forget, NoRevision, MergeEpisode
<1>2. ASSUME UNCHANGED <<facts, retracted, same_as, last>> PROVE MergeEpisode'
  <2>1. OpenPairs' = OpenPairs
      BY <1>2 DEF OpenPairs
  <2>2. \A pairs, a, b : Before(pairs, a, b) => Before(pairs, a, b)'
      BY <1>2, <2>1 DEF Before
  <2>3. QED
      BY <1>2, <2>2 DEF MergeEpisode
<1>3. CASE Extract \/ Retract \/ Packs
    BY <1>1, <1>3 DEF Extract, Retract, Packs
<1>4. CASE Resolve
    BY <1>1, <1>2, <1>4 DEF Resolve, KeepOthers, store, resolve_box_load, resolve_box_write
<1>5. CASE MergeOrSplit
  <2>1. UNCHANGED <<facts, retracted>>
      BY <1>5 DEF MergeOrSplit, KeepOthers, store
  <2>2. ASSUME NEW pair, split(pair) PROVE MergeEpisode'
    <3>1. CASE last.op = "merge" /\ last.pair = pair
      <4>1. last' = [last EXCEPT !.op = "split"]
          BY <2>2, <3>1 DEF split
      <4>2. last'.op = "split"
          BY <3>1, <4>1 DEF Episode, Revised
      <4>3. QED
          BY <4>2 DEF MergeEpisode
    <3>2. CASE ~(last.op = "merge" /\ last.pair = pair)
        BY <1>1, <2>2, <3>2 DEF split, Forget
    <3>3. QED
        BY <3>1, <3>2
  <2>3. QED
      BY <1>5, <2>1, <2>2, MergeStartsEpisode DEF MergeOrSplit, Review
<1>6. CASE Link
    BY <1>1, <1>2, <1>6 DEF Link, KeepOthers, store, anchor_box_load, anchor_box_write
<1>7. CASE Induce \/ Bind \/ UNCHANGED vars
    BY <1>2, <1>7 DEF Induce, Bind, vars, store, identity
<1>8. QED
    BY <1>3, <1>4, <1>5, <1>6, <1>7 DEF Next

\* merge (core/component_aggregate.py) pools the evidence of the two components
\* it joins, each current Fact once and with the best of their confidences, and
\* leaves that of every other component as it was.
THEOREM MergesPoolEvidence == Spec => []MergeAccumulates
<1>1. MergeEpisode /\ FinitelyMany => MergeAccumulates
  <2> SUFFICES ASSUME FinitelyMany, last.op = "merge",
                      NEW pairs \in SUBSET SUBSET Uid, NEW a \in Ids(facts), NEW b \in Ids(facts),
                      Before(pairs, a, b)
               PROVE  MergeAccumulates
      BY DEF MergeEpisode, MergeAccumulates
  <2>1. PICK map : map = MapFrom(facts, pairs)
      OBVIOUS
  <2>2. PICK new : new = MapFrom(facts, With(pairs, a, b))
      OBVIOUS
  <2>3. Pooled(facts, retracted, map, new, a, b)
    <3>1. Joins(map, new, facts, a, b)
        BY <2>1, <2>2, MergeJoins DEF FinitelyMany
    <3>2. QED
        BY <3>1, JoiningPoolsEvidence DEF FinitelyMany
  <2>4. last.map = map /\ last.evidence = EvidenceBy(facts, retracted, map) /\ last.pair = {a, b}
      BY <2>1 DEF Before, EvidenceFrom
  <2>5. canonical_map = new
      BY <2>2, MapOfOpenPairs DEF Before
  <2>6. aggregate = EvidenceBy(facts, retracted, new)
      BY <2>2, AggregateOfOpenPairs DEF Before, EvidenceFrom
  <2>7. QED
      BY <2>3, <2>4, <2>5, <2>6 DEF Pooled, MergeAccumulates
<1>2. QED
    BY <1>1, FinitelyManyInit, FinitelyManyNext, MergeEpisodeInit, MergeEpisodeNext, IdentityTypedInit, IdentityTypedNext,
       EpisodeInit, EpisodeNext, WholeEdgesInit, WholeEdgesNext, PTL DEF Spec

-----------------------------------------------------------------------------
(* The inducer. Safe edges only grow until one is retyped, so the reads    *)
(* that closures are built from are a chain. Were there a cycle of roll-   *)
(* ups, the largest read behind one of its edges has seen all the others,  *)
(* so it has seen the cycle, and left those edges out.                     *)

\* What one call of the inducer holds.
Inducing == [pc : {"idle", "referents", "persist", "rebuild"}, referents : SUBSET Referent,
             todo : SUBSET Proposition, read : SUBSET Edge]

PartWholeTyped ==
    /\ facts \subseteq Proposition
    /\ partOf \subseteq Edge /\ \A d \in direct : d.edge \in Edge
    /\ inducing \in [Inducer -> Inducing]

\* Every closure committed so far was built from a read of the safe edges, and
\* as these only grow, the reads, with those still to be written, are a chain.
Reads == {inducing[i].read : i \in Inducer}

BuiltFrom(Rs) ==
    /\ Rs \cup Reads \in SUBSET SUBSET Safe(direct)
    /\ Chain(Rs \cup Reads)
    /\ partOf = UNION {transitive_closure(R) : R \in Rs}
    /\ closed = UNION Rs

ClosureInv == retyped \/ \E Rs : BuiltFrom(Rs)

\* There are finitely many entities, hence edges between them.
LEMMA FiniteEdges == IsFiniteSet(Edge)
<1> DEFINE f == [e \in RowsOf(Proposition) |-> e.id]
<1>1. f \in Surjection(RowsOf(Proposition), Uid)
    BY DEF Surjection, Uid, Ids
<1>2. IsFiniteSet(Uid)
    BY <1>1, FiniteRows, FS_Surjection
<1>3. QED
    BY <1>2, FS_Product DEF Edge

\* The safe edges are edges between entities.
LEMMA SafeEdges == PartWholeTyped => Safe(direct) \in SUBSET Edge
  BY DEF PartWholeTyped, Safe

\* Roll-ups relate entities.
LEMMA RollupsAreEdges ==
    ASSUME NEW R \in SUBSET Edge
    PROVE  transitive_closure(R) \subseteq Edge
<1> SUFFICES ASSUME NEW r \in transitive_closure(R) PROVE r \in Edge
    OBVIOUS
<1> DEFINE E == _acyclic_edges(R)
<1>1. E \subseteq Edge /\ IsFiniteSet(E)
  <2>1. E \subseteq Edge
      BY DEF _acyclic_edges, NoLoops
  <2>2. QED
      BY <2>1, FiniteEdges, FS_Subset
<1>2. PICK n \in Ends(E) : \E a \in Above(E, n) : r = <<n, a>>
    BY DEF transitive_closure
<1>3. Ends(E) \subseteq Uid
    BY <1>1 DEF Ends, Edge
<1> HIDE DEF E
<1>4. \A a \in Above(E, n) : a \in Ends(E)
    BY <1>1, AboveIsReachable DEF Ends
<1>5. QED
    BY <1>2, <1>3, <1>4 DEF Edge

\* A relation the detector finds is resolved to two entities of the box.
LEMMA EndpointsAreTyped ==
    ASSUME NEW relations, NEW referents \in SUBSET Referent, NEW f \in _resolve_endpoints(relations, referents)
    PROVE  f.edge \in Edge
<1>1. \A r \in Referent : r.canonical \in Uid
  <2>1. \A e \in RowsOf(Proposition) : e.id \in Uid
      BY DEF Uid, Ids
  <2>2. QED
      BY <2>1 DEF Referent
<1>2. \A label : ByNorm(referents, label) \subseteq Uid
    BY <1>1 DEF ByNorm
<1>3. QED
    BY <1>2 DEF _resolve_endpoints, Edge

\* Before any induction there is nothing to roll up.
LEMMA InductionInit == Init => PartWholeTyped /\ ClosureInv
<1> SUFFICES ASSUME Init PROVE PartWholeTyped /\ ClosureInv
    OBVIOUS
<1>1. facts = {} /\ direct = {} /\ partOf = {} /\ closed = {} /\ inducing = [i \in Inducer |-> NoInduction]
    BY DEF Init, StoreInit, PartWholeInit
<1>2. NoInduction \in Inducing
    BY DEF NoInduction, Inducing
<1>3. PartWholeTyped
    BY <1>1, <1>2 DEF PartWholeTyped
<1>4. BuiltFrom({})
  <2>1. Reads \subseteq {{}}
      BY <1>1 DEF Reads, NoInduction
  <2>2. QED
      BY <1>1, <2>1 DEF BuiltFrom, Chain
<1>5. QED
    BY <1>3, <1>4 DEF ClosureInv

\* A step that reads nothing new and commits nothing.
LEMMA QuietInduction ==
    ASSUME ClosureInv, Reads' \subseteq Reads \cup {{}}, Safe(direct) \subseteq Safe(direct'),
           UNCHANGED <<partOf, closed>>, retyped => retyped'
    PROVE  ClosureInv'
<1>1. ASSUME NEW Rs, BuiltFrom(Rs) PROVE BuiltFrom(Rs)'
    BY <1>1 DEF BuiltFrom, Chain
<1>2. QED
    BY <1>1 DEF ClosureInv

\* One call's holdings change, the others' reads stay.
LEMMA HeldReads ==
    ASSUME PartWholeTyped, NEW i \in Inducer, NEW held \in Inducing, Keep(i, held)
    PROVE  inducing' \in [Inducer -> Inducing] /\ Reads' \subseteq Reads \cup {held.read}
  BY DEF PartWholeTyped, Keep, Reads

\* Each step of an inducer.
LEMMA InductionStep ==
    ASSUME PartWholeTyped, ClosureInv, PartWholeNext, UNCHANGED facts
    PROVE  PartWholeTyped' /\ ClosureInv'
<1>1. PICK i \in Inducer :
        \/ induce_box(i) \/ _load_propositions(i)
        \/ \E p \in inducing[i].todo : \E relations \in Meronymy[p] : _persist_direct(i, p, relations)
        \/ RebuildLoad(i) \/ RebuildWrite(i) \/ InducerDies(i)
    BY DEF PartWholeNext
<1>2. inducing[i] \in Inducing /\ facts \in SUBSET Proposition /\ NoInduction \in Inducing
    BY DEF PartWholeTyped, NoInduction, Inducing
<1>3. CASE induce_box(i)
  <2> DEFINE held == [NoInduction EXCEPT !.pc = "referents", !.referents = _load_referents(facts)]
  <2>1. held \in Inducing /\ held.read = {}
      BY <1>2, ReferentsAreTyped DEF NoInduction, Inducing
  <2>2. inducing' \in [Inducer -> Inducing] /\ Reads' \subseteq Reads \cup {{}}
    <3>1. Keep(i, held)
        BY <1>3 DEF induce_box
    <3> HIDE DEF held
    <3>2. QED
        BY <2>1, <3>1, HeldReads
  <2>3. QED
      BY <1>3, <2>2, QuietInduction DEF induce_box, PartWholeTyped
<1>4. CASE _load_propositions(i)
  <2> DEFINE held == [inducing[i] EXCEPT !.pc = "persist", !.todo = facts \ induced]
  <2>1. held \in Inducing /\ held.read = inducing[i].read
      BY <1>2 DEF Inducing
  <2>2. inducing' \in [Inducer -> Inducing] /\ Reads' \subseteq Reads \cup {{}}
    <3>1. Keep(i, held)
        BY <1>4 DEF _load_propositions
    <3> HIDE DEF held
    <3>2. inducing[i].read \in Reads
        BY DEF Reads
    <3>3. QED
        BY <2>1, <3>1, <3>2, HeldReads
  <2>3. QED
      BY <1>4, <2>2, QuietInduction DEF _load_propositions, PartWholeTyped
<1>5. ASSUME NEW p \in inducing[i].todo, NEW relations \in Meronymy[p], _persist_direct(i, p, relations)
      PROVE  PartWholeTyped' /\ ClosureInv'
  <2> DEFINE held == [inducing[i] EXCEPT !.todo = inducing[i].todo \ {p}]
  <2>1. held \in Inducing /\ held.read = inducing[i].read
      BY <1>2 DEF Inducing
  <2>2. inducing' \in [Inducer -> Inducing] /\ Reads' \subseteq Reads
    <3>1. Keep(i, held)
        BY <1>5 DEF _persist_direct
    <3> HIDE DEF held
    <3>2. inducing[i].read \in Reads
        BY DEF Reads
    <3>3. QED
        BY <2>1, <3>1, <3>2, HeldReads
  <2>3. PICK new \in OneEach(_resolve_endpoints(relations, inducing[i].referents)) :
          /\ direct' = {d \in direct : d.edge \notin {n.edge : n \in new}} \cup new
          /\ retyped' = (retyped \/ \E d \in direct : Overwrites(d, new))
      BY <1>5 DEF _persist_direct
  <2>4. \A d \in new : d.edge \in Edge
    <3>1. new \subseteq _resolve_endpoints(relations, inducing[i].referents)
        BY DEF OneEach
    <3>2. inducing[i].referents \in SUBSET Referent
        BY <1>2 DEF Inducing
    <3>3. QED
        BY <3>1, <3>2, EndpointsAreTyped
  <2>5. PartWholeTyped'
      BY <1>2, <1>5, <2>2, <2>3, <2>4 DEF PartWholeTyped, _persist_direct
  <2>6. retyped' \/ Safe(direct) \subseteq Safe(direct')
      BY <2>3 DEF Overwrites, Safe
  <2>7. ClosureInv'
    <3>1. CASE retyped'
        BY <3>1 DEF ClosureInv
    <3>2. CASE ~retyped'
        BY <1>5, <2>2, <2>3, <2>6, <3>2, QuietInduction DEF _persist_direct
    <3>3. QED
        BY <3>1, <3>2
  <2>8. QED
      BY <2>5, <2>7
<1>6. CASE RebuildLoad(i)
  <2> DEFINE held == [inducing[i] EXCEPT !.pc = "rebuild", !.referents = {}, !.read = Safe(direct)]
  <2>1. held \in Inducing /\ held.read = Safe(direct)
      BY <1>2, SafeEdges DEF Inducing
  <2>2. inducing' \in [Inducer -> Inducing] /\ Reads' \subseteq Reads \cup {Safe(direct)}
    <3>1. Keep(i, held)
        BY <1>6 DEF RebuildLoad
    <3> HIDE DEF held
    <3>2. QED
        BY <2>1, <3>1, HeldReads
  <2>3. UNCHANGED <<direct, partOf, closed, retyped>>
      BY <1>6 DEF RebuildLoad
  <2>4. ASSUME NEW Rs, BuiltFrom(Rs) PROVE BuiltFrom(Rs)'
      BY <2>2, <2>3, <2>4 DEF BuiltFrom, Chain
  <2>5. QED
      BY <2>2, <2>3, <2>4 DEF PartWholeTyped, ClosureInv
<1>7. CASE RebuildWrite(i)
  <2>1. inducing' \in [Inducer -> Inducing] /\ Reads' \subseteq Reads \cup {{}}
    <3>1. Keep(i, NoInduction) /\ NoInduction.read = {}
        BY <1>7 DEF RebuildWrite, NoInduction
    <3>2. QED
        BY <1>2, <3>1, HeldReads
  <2>0. PICK R : R = inducing[i].read
      OBVIOUS
  <2>2. /\ UNCHANGED <<direct, retyped>>
        /\ partOf' = partOf \cup transitive_closure(R) /\ closed' = closed \cup R
      BY <1>7, <2>0 DEF RebuildWrite
  <2>3. R \in Reads
      BY <2>0 DEF Reads
  <2>4. ASSUME NEW Rs, BuiltFrom(Rs) PROVE BuiltFrom(Rs \cup {R})'
    <3>1. Rs \cup {R} \cup Reads' \subseteq Rs \cup Reads \cup {{}}
        BY <2>1, <2>3
    <3>2. (Rs \cup {R} \cup Reads' \in SUBSET SUBSET Safe(direct)) /\ Chain(Rs \cup {R} \cup Reads')
        BY <2>4, <3>1 DEF BuiltFrom, Chain
    <3>3. Safe(direct)' = Safe(direct)
        BY <2>2
    <3>4. partOf' = UNION {transitive_closure(T) : T \in Rs \cup {R}} /\ closed' = UNION (Rs \cup {R})
        BY <2>2, <2>4 DEF BuiltFrom
    <3>5. QED
        BY <3>2, <3>3, <3>4 DEF BuiltFrom
  <2>5. partOf' \subseteq Edge
    <3>1. R \in SUBSET Edge
        BY <1>2, <2>0 DEF Inducing
    <3>2. QED
        BY <2>2, <3>1, RollupsAreEdges DEF PartWholeTyped
  <2>6. QED
      BY <2>1, <2>2, <2>4, <2>5 DEF PartWholeTyped, ClosureInv
<1>8. CASE InducerDies(i)
  <2>1. inducing' \in [Inducer -> Inducing] /\ Reads' \subseteq Reads \cup {{}}
    <3>1. Keep(i, NoInduction) /\ NoInduction.read = {}
        BY <1>8 DEF InducerDies, NoInduction
    <3>2. QED
        BY <1>2, <3>1, HeldReads
  <2>2. QED
      BY <1>8, <2>1, QuietInduction DEF InducerDies, PartWholeTyped
<1>9. QED
    BY <1>1, <1>3, <1>4, <1>5, <1>6, <1>7, <1>8

\* The others' steps leave the partonomy alone.
LEMMA InductionNext == PartWholeTyped /\ ClosureInv /\ [Next]_vars => (PartWholeTyped /\ ClosureInv)'
<1> SUFFICES ASSUME PartWholeTyped, ClosureInv, [Next]_vars PROVE (PartWholeTyped /\ ClosureInv)'
    OBVIOUS
<1>1. ASSUME UNCHANGED partWhole, facts' \subseteq Proposition
      PROVE  (PartWholeTyped /\ ClosureInv)'
  <2>1. UNCHANGED <<direct, partOf, inducing, retyped, closed>>
      BY <1>1 DEF partWhole
  <2>2. Reads' = Reads
      BY <2>1 DEF Reads
  <2>3. QED
      BY <1>1, <2>1, <2>2, QuietInduction DEF PartWholeTyped
<1>2. facts \subseteq Proposition
    BY DEF PartWholeTyped
<1>3. CASE Extract
    BY <1>1, <1>2, <1>3 DEF Extract, extract_proposition
<1>4. CASE Retract \/ Packs
    BY <1>1, <1>2, <1>4 DEF Retract, RetractFact, Packs, load_pack, deprecate_pack
<1>5. CASE Resolve \/ MergeOrSplit \/ Link
    BY <1>1, <1>2, <1>5 DEF Resolve, MergeOrSplit, Link, KeepOthers, store
<1>6. CASE Induce
    BY <1>6, InductionStep DEF Induce, store
<1>7. CASE Bind \/ UNCHANGED vars
    BY <1>1, <1>2, <1>7 DEF Bind, vars, store
<1>8. QED
    BY <1>3, <1>4, <1>5, <1>6, <1>7 DEF Next

\* _rebuild_closure (core/partwhole.py) never makes the roll-up circular: whatever
\* the statements, the runs that overlap and those that die, partOf has no cycle
\* until a component-integral edge is overwritten by one of another type.
THEOREM RollupsAreAcyclic == Spec => []RollupIsADag
<1>1. PartWholeTyped /\ ClosureInv => RollupIsADag
  <2> SUFFICES ASSUME PartWholeTyped, NEW Rs, BuiltFrom(Rs)
               PROVE  OnCycle(partOf) = {}
      BY DEF ClosureInv, RollupIsADag
  <2>1. Safe(direct) \in SUBSET Edge /\ IsFiniteSet(Safe(direct))
      BY SafeEdges, FiniteEdges, FS_Subset
  <2>2. Rs \in SUBSET SUBSET Safe(direct) /\ Chain(Rs)
      BY DEF BuiltFrom, Chain
  <2>3. IsFiniteSet(partOf)
      BY FiniteEdges, FS_Subset DEF PartWholeTyped
  <2>4. \A r \in partOf : \E R \in Rs : r \in transitive_closure(R)
      BY DEF BuiltFrom
  <2>5. QED
      BY <2>1, <2>2, <2>3, <2>4, RollupsOfAChain
<1>2. QED
    BY <1>1, InductionInit, InductionNext, PTL DEF Spec

-----------------------------------------------------------------------------
(* Levels. A level counts ancestors. Once a closure over all the safe      *)
(* edges is committed the ancestors of an end that peels are those of this *)
(* closure; a loaded pack has no cycle, and no node of it is an entity's   *)
(* or another pack's.                                                      *)

\* Of the packs loaded no two are of one box, and none is cyclic.
PacksInv ==
    /\ loaded \subseteq Pack
    /\ \A k, l \in loaded : k.box = l.box => k = l
    /\ \A k \in loaded : _reject_cycles(k.direct)

\* A pack is loaded once per box and never when it is cyclic.
LEMMA PacksInit == Init => PacksInv
  BY DEF Init, StoreInit, PacksInv

LEMMA PacksNext == PacksInv /\ [Next]_vars => PacksInv'
<1> SUFFICES ASSUME PacksInv, [Next]_vars PROVE PacksInv'
    OBVIOUS
<1>1. ASSUME UNCHANGED loaded PROVE PacksInv'
    BY <1>1 DEF PacksInv
<1>2. ASSUME NEW k \in Pack, load_pack(k) PROVE PacksInv'
    BY <1>2 DEF load_pack, PacksInv
<1>3. CASE Packs
    BY <1>1, <1>2, <1>3 DEF Packs, deprecate_pack
<1>4. CASE Extract \/ Retract
    BY <1>1, <1>4 DEF Extract, extract_proposition, Retract, RetractFact
<1>5. CASE Resolve \/ MergeOrSplit \/ Link \/ Induce \/ Bind \/ UNCHANGED vars
    BY <1>1, <1>5 DEF Resolve, MergeOrSplit, Link, KeepOthers, Induce, Bind, vars, store
<1>6. QED
    BY <1>3, <1>4, <1>5 DEF Next

\* What a pack declares, and its closure, is finite and between its own nodes.
LEMMA PackClosureIsInside ==
    ASSUME NEW k \in Pack
    PROVE  /\ IsFiniteSet(Safe(k.direct)) /\ PackClosure(k.direct) \subseteq PackIds(k) \X PackIds(k)
           /\ IsFiniteSet({d.edge : d \in k.direct})
<1> DEFINE E == Safe(k.direct)
           All == {d.edge : d \in k.direct}
<1>1. E \subseteq All /\ All \subseteq PackIds(k) \X PackIds(k)
    BY RelationsAreInside DEF Safe
<1>2. IsFiniteSet(E) /\ IsFiniteSet(All)
  <2>1. PackIds(k) \in SUBSET NodeIds
      BY DEF NodeIds
  <2>2. IsFiniteSet(PackIds(k) \X PackIds(k))
      BY <2>1, FiniteTaxonomies, FS_Subset, FS_Product
  <2>3. QED
      BY <1>1, <2>2, FS_Subset
<1>3. Ends(E) \subseteq PackIds(k)
    BY <1>1 DEF Ends
<1>4. \A n : \A a \in Above(E, n) : a \in Ends(E)
  <2> HIDE DEF E
  <2>1. QED
      BY <1>2, AboveIsReachable DEF Ends
<1>5. QED
    BY <1>1, <1>2, <1>3, <1>4 DEF PackClosure

\* So are the roll-ups of all the packs that are loaded.
LEMMA FinitePackPartOf ==
    ASSUME PacksInv
    PROVE  IsFiniteSet(PackPartOf) /\ PackPartOf \subseteq NodeIds \X NodeIds
<1>1. PackPartOf \subseteq NodeIds \X NodeIds
  <2>1. ASSUME NEW k \in loaded PROVE PackClosure(k.direct) \subseteq NodeIds \X NodeIds
    <3>1. k \in Pack /\ PackIds(k) \subseteq NodeIds
        BY DEF PacksInv, NodeIds
    <3>2. QED
        BY <3>1, PackClosureIsInside
  <2>2. QED
      BY <2>1 DEF PackPartOf
<1>2. QED
    BY <1>1, FiniteTaxonomies, FS_Product, FS_Subset

\* The ancestors of an entity are the box's own, those of a node its pack's.
LEMMA LevelsAreSeparate ==
    ASSUME PacksInv, partOf \subseteq Edge
    PROVE  /\ \A n \in Uid : derived_level(partOf \cup PackPartOf, n) = derived_level(partOf, n)
           /\ \A k \in loaded : \A n \in PackIds(k) :
                derived_level(partOf \cup PackPartOf, n) = derived_level(PackClosure(k.direct), n)
<1>1. ASSUME NEW n \in Uid PROVE derived_level(partOf \cup PackPartOf, n) = derived_level(partOf, n)
  <2>1. \A e \in PackPartOf : e[1] # n
      BY FinitePackPartOf, EntitiesAreNoNodes DEF Uid
  <2>2. {e \in partOf \cup PackPartOf : e[1] = n} = {e \in partOf : e[1] = n}
      BY <2>1
  <2>3. QED
      BY <2>2 DEF derived_level
<1>2. ASSUME NEW k \in loaded, NEW n \in PackIds(k)
      PROVE  derived_level(partOf \cup PackPartOf, n) = derived_level(PackClosure(k.direct), n)
  <2>1. n \in NodeIds /\ k \in Pack
      BY DEF NodeIds, PacksInv
  <2>2. \A e \in partOf : e[1] # n
      BY <2>1, EntitiesAreNoNodes DEF Uid, Edge
  <2>3. ASSUME NEW l \in loaded, NEW e \in PackClosure(l.direct), e[1] = n
        PROVE  l = k
    <3>1. l \in Pack /\ n \in PackIds(l)
        BY <2>3, PackClosureIsInside DEF PacksInv
    <3>2. l.box = k.box
        BY <2>1, <3>1, BoxesShareNoNode
    <3>3. QED
        BY <3>2 DEF PacksInv
  <2>4. {e \in partOf \cup PackPartOf : e[1] = n} = {e \in PackClosure(k.direct) : e[1] = n}
      BY <2>2, <2>3 DEF PackPartOf
  <2>5. QED
      BY <2>4 DEF derived_level
<1>3. QED
    BY <1>1, <1>2

\* Once a closure over the current safe edges has been committed, the roll-ups
\* above an end that peels are those of that closure.
LEMMA InducedDeeper ==
    ASSUME PartWholeTyped, PacksInv, ClosureInv, closed = Safe(direct), ~retyped,
           NEW e \in _acyclic_edges(Safe(direct))
    PROVE  derived_level(partOf, e[1]) > derived_level(partOf, e[2])
<1> DEFINE D == Safe(direct)
           E == NoLoops(D)
           A == _acyclic_edges(D)
<1>1. D \in SUBSET Edge /\ IsFiniteSet(D)
    BY SafeEdges, FiniteEdges, FS_Subset
<1>2. A \subseteq E /\ E \subseteq D /\ IsFiniteSet(A) /\ IsFiniteSet(E)
  <2>1. A \subseteq E /\ E \subseteq D
      BY DEF _acyclic_edges, NoLoops
  <2>2. QED
      BY <1>1, <2>1, FS_Subset
<1>3. PICK Rs : BuiltFrom(Rs)
    BY DEF ClosureInv
<1>4. Rs \in SUBSET SUBSET D /\ Chain(Rs) /\ D = UNION Rs
    BY <1>3 DEF BuiltFrom, Chain
<1>5. D \in Rs
  <2>1. Rs # {}
      BY <1>2, <1>4
  <2> HIDE DEF D
  <2>2. PICK R \in Rs : \A T \in Rs : T \subseteq R
      BY <1>1, <1>4, <2>1, ChainHasLargest
  <2>3. R = D
      BY <1>4, <2>2
  <2>4. QED
      BY <2>3
<1>6. e[1] \in Ends(A) /\ e[2] \in Ends(A) /\ e[2] \in Above(A, e[1])
  <2>1. e[1] \in Ends(A) /\ e[2] \in Ends(A)
      BY DEF Ends
  <2>2. e[2] \in Above(A, e[1])
      BY <1>2, AboveIsReachable
  <2>3. QED
      BY <2>1, <2>2
<1>7. \A n \in Ends(A) : \A a \in Above(A, n) : <<n, a>> \in partOf
  <2>1. transitive_closure(D) \subseteq partOf
      BY <1>3, <1>5 DEF BuiltFrom
  <2>2. QED
      BY <2>1 DEF transitive_closure
<1>8. ASSUME NEW z, <<e[2], z>> \in partOf PROVE z \in Above(E, e[2]) /\ z \in Above(A, e[2])
  <2>1. PICK R \in Rs : <<e[2], z>> \in transitive_closure(R)
      BY <1>3, <1>8 DEF BuiltFrom
  <2>2. R \subseteq D /\ NoLoops(R) \subseteq E /\ IsFiniteSet(R) /\ IsFiniteSet(NoLoops(R))
    <3>1. R \subseteq D /\ NoLoops(R) \subseteq E /\ NoLoops(R) \subseteq R
        BY <1>4 DEF NoLoops
    <3>2. QED
        BY <1>1, <3>1, FS_Subset
  <2>3. z \in Above(NoLoops(R), e[2])
      BY <2>1, <2>2, RollupIsPath
  <2>4. z \in Above(E, e[2])
    <3> HIDE DEF E
    <3>1. QED
        BY <1>2, <2>2, <2>3, AboveIsMonotone
  <2>5. QED
      BY <1>1, <1>6, <2>4, PeeledAbove
<1>9. <<e[2], e[2]>> \notin partOf
  <2>1. e[2] \notin Above(E, e[2])
    <3>1. e[2] \notin OnCycle(E)
        BY <1>6, PeeledIsOffCycles
    <3>2. e[2] \in Ends(E)
        BY <1>2 DEF Ends
    <3>3. QED
        BY <3>1, <3>2 DEF OnCycle
  <2>2. QED
      BY <1>8, <2>1
<1>10. ASSUME NEW z, <<e[2], z>> \in partOf PROVE <<e[1], z>> \in partOf
  <2>1. z \in Above(A, e[2])
      BY <1>8, <1>10
  <2>2. z \in Above(A, e[1])
    <3> HIDE DEF A
    <3>1. QED
        BY <1>2, <1>6, <2>1, AboveIsReachable
  <2>3. QED
      BY <1>6, <1>7, <2>2
<1>11. partOf \in SUBSET Edge
    BY DEF PartWholeTyped
<1>12. IsFiniteSet(partOf) /\ \A x \in partOf : x = <<x[1], x[2]>>
  <2>1. IsFiniteSet(partOf)
      BY <1>11, FiniteEdges, FS_Subset
  <2>2. QED
      BY <1>11, <2>1 DEF Edge
<1>13. <<e[1], e[2]>> \in partOf
    BY <1>6, <1>7
<1> HIDE DEF A, D, E
<1>14. QED
    BY <1>9, <1>10, <1>12, <1>13, DeeperThanWhole

\* A pack is acyclic, and where all of its steps compose its closure is the
\* whole order.
LEMMA AnchoredDeeper ==
    ASSUME PacksInv, NEW k \in loaded, \A r \in k.direct : r.component, NEW e \in Safe(k.direct)
    PROVE  derived_level(PackClosure(k.direct), e[1]) > derived_level(PackClosure(k.direct), e[2])
<1> DEFINE E == Safe(k.direct)
           C == PackClosure(k.direct)
<1>1. k \in Pack /\ IsFiniteSet(E) /\ C \subseteq PackIds(k) \X PackIds(k) /\ E = {d.edge : d \in k.direct}
    BY PackClosureIsInside DEF PacksInv, Safe
<1>2. OnCycle(E) = {}
    BY <1>1 DEF PacksInv, _reject_cycles
<1>3. E \subseteq PackIds(k) \X PackIds(k) /\ e = <<e[1], e[2]>>
    BY <1>1, RelationsAreInside
<1>4. \A n, a : <<n, a>> \in C <=> a \in Above(E, n)
  <2>1. ASSUME NEW n, NEW a, a \in Above(E, n) PROVE <<n, a>> \in C
    <3>1. PICK f \in E : f[1] = n
      <4>1. IsFiniteSet(E)
          BY <1>1
      <4> HIDE DEF E
      <4>2. \A x, y : y \in Above(E, x) => \E f \in E : f[1] = x /\ (f[2] = y \/ y \in Above(E, f[2]))
          BY <4>1, AboveIsReachable
      <4>3. QED
          BY <2>1, <4>2
    <3>2. n \in Ends(E)
        BY <3>1 DEF Ends
    <3>3. QED
        BY <2>1, <3>2 DEF PackClosure
  <2>2. ASSUME NEW n, NEW a, <<n, a>> \in C PROVE a \in Above(E, n)
    <3>1. CASE <<n, a>> \in E
      <4>1. \A f \in E : f[2] \in Above(E, f[1])
        <5> HIDE DEF E
        <5>1. QED
            BY <1>1, AboveIsReachable
      <4>2. QED
          BY <3>1, <4>1
    <3>2. CASE <<n, a>> \in UNION {{<<x, y>> : y \in Above(E, x)} : x \in Ends(E)}
        BY <3>2
    <3>3. QED
        BY <1>1, <2>2, <3>1, <3>2 DEF PackClosure
  <2>3. QED
      BY <2>1, <2>2
<1>5. e[2] \in Above(E, e[1]) /\ Above(E, e[2]) \subseteq Above(E, e[1]) /\ e[2] \notin Above(E, e[2])
  <2>1. e[2] \in Ends(E)
      BY DEF Ends
  <2>2. e[2] \notin Above(E, e[2])
      BY <1>2, <2>1 DEF OnCycle
  <2> HIDE DEF E
  <2>3. e \in E
      BY DEF E
  <2>4. QED
      BY <1>1, <2>2, <2>3, AboveIsReachable
<1>6. IsFiniteSet(C) /\ \A x \in C : x = <<x[1], x[2]>>
  <2>1. PackIds(k) \in SUBSET NodeIds
      BY <1>1 DEF NodeIds
  <2>2. IsFiniteSet(C)
    <3> HIDE DEF C
    <3>1. IsFiniteSet(PackIds(k) \X PackIds(k))
        BY <2>1, FiniteTaxonomies, FS_Subset, FS_Product
    <3>2. QED
        BY <1>1, <3>1, FS_Subset
  <2>3. QED
      BY <1>1, <2>2
<1> HIDE DEF C, E
<1>7. QED
    BY <1>4, <1>5, <1>6, DeeperThanWhole DEF C

\* entity_level (core/partwhole.py) reads a part strictly deeper than its whole:
\* off the box's own roll-up once a closure over the current edges is committed,
\* and off the taxonomy of a pack whose steps all compose; for any order of
\* extraction, induction, linking and loading and deprecating packs.
THEOREM PartsAreDeeper == Spec => []PartIsDeeper
<1>1. PartWholeTyped /\ PacksInv /\ ClosureInv => PartIsDeeper
  <2> SUFFICES ASSUME PartWholeTyped, PacksInv, ClosureInv, NEW anchors \in anchored_targets
               PROVE  InducedIsDeeper(anchors) /\ AnchoredIsDeeper(anchors)
      BY DEF PartIsDeeper
  <2>1. InducedIsDeeper(anchors)
    <3> SUFFICES ASSUME closed = Safe(direct), ~retyped, NEW e \in _acyclic_edges(Safe(direct)),
                        entity_level(e[1], anchors).provenance = "induced",
                        entity_level(e[2], anchors).provenance = "induced",
                        _canonical_map(e[1]) = e[1], _canonical_map(e[2]) = e[2]
                 PROVE  entity_level(e[1], anchors).depth > entity_level(e[2], anchors).depth
        BY DEF InducedIsDeeper
    <3>1. \A n : (_canonical_map(n) = n /\ entity_level(n, anchors).provenance = "induced")
                 => entity_level(n, anchors).depth = derived_level(partOf \cup PackPartOf, n)
        BY DEF entity_level
    <3>2. e[1] \in Uid /\ e[2] \in Uid
      <4>1. e \in Edge
          BY SafeEdges DEF _acyclic_edges, NoLoops
      <4>2. QED
          BY <4>1 DEF Edge
    <3>3. partOf \subseteq Edge
        BY DEF PartWholeTyped
    <3>4. QED
        BY <3>1, <3>2, <3>3, LevelsAreSeparate, InducedDeeper
  <2>2. AnchoredIsDeeper(anchors)
    <3> SUFFICES ASSUME NEW k \in loaded, \A r \in k.direct : r.component, NEW e \in Safe(k.direct),
                        NEW part \in DOMAIN anchors, NEW whole \in DOMAIN anchors,
                        anchors[part] = e[1], anchors[whole] = e[2],
                        _canonical_map(part) = part, _canonical_map(whole) = whole
                 PROVE  entity_level(part, anchors).depth > entity_level(whole, anchors).depth
        BY DEF AnchoredIsDeeper
    <3>1. \A n \in DOMAIN anchors : _canonical_map(n) = n
                 => entity_level(n, anchors).depth = derived_level(partOf \cup PackPartOf, anchors[n])
        BY DEF entity_level
    <3>2. e[1] \in PackIds(k) /\ e[2] \in PackIds(k)
        BY RelationsAreInside DEF PacksInv, Safe
    <3>3. partOf \subseteq Edge
        BY DEF PartWholeTyped
    <3>4. \A n \in PackIds(k) :
            derived_level(partOf \cup PackPartOf, n) = derived_level(PackClosure(k.direct), n)
        BY <3>3, LevelsAreSeparate
    <3>5. derived_level(PackClosure(k.direct), e[1]) > derived_level(PackClosure(k.direct), e[2])
        BY AnchoredDeeper
    <3>6. QED
        BY <3>1, <3>2, <3>4, <3>5
  <2>3. QED
      BY <2>1, <2>2
<1>2. QED
    BY <1>1, InductionInit, InductionNext, PacksInit, PacksNext, PTL DEF Spec

=============================================================================
