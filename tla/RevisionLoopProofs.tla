------------------------- MODULE RevisionLoopProofs -------------------------
(***************************************************************************)
(* The parts of a belief-revision run and the run itself.  First valuate   *)
(* of Layer B as it runs.  Then what a run may do to the store, whatever   *)
(* Layer B and the adjudication compute: those proofs rest on the loop,    *)
(* the gate and the commit alone.  Then that it leaves what a fresh load   *)
(* computes, which does rest on both, and that a retraction withdraws what *)
(* rests on it.  Last the adjudication by itself: what solve computes.     *)
(***************************************************************************)
EXTENDS RevisionLoop, Confidence, Adjudication, Counting, SequenceTheorems

-----------------------------------------------------------------------------
(* Layer B: a rule body is folded one member at a time.                     *)

Picked(s) == CHOOSE m \in s : TRUE
Folded(semiring, f, s, g) ==
    IF s = {} THEN One ELSE times(semiring, f[Picked(s)], g[s \ {Picked(s)}])

FoldOver(semiring, f, B, g) ==
    g \in [SUBSET B -> Level] /\ \A s \in SUBSET B : g[s] = Folded(semiring, f, s, g)

\* A product of levels is a level, no higher than either, and grows with both.
LEMMA ProductOfLevels ==
    ASSUME NEW semiring \in Semiring, NEW x \in Level, NEW y \in Level
    PROVE  /\ times(semiring, x, y) \in Level
           /\ times(semiring, x, y) <= x /\ times(semiring, x, y) <= y
           /\ \A u, v \in Level : x <= u /\ y <= v => times(semiring, x, y) <= times(semiring, u, v)
BY TopIsANatural DEF Semiring, times, _godel_times, _viterbi_times, Level

\* The fold over a body exists, and is a level on every part of the body.
LEMMA BodyFolds ==
    ASSUME NEW semiring \in Semiring, NEW B, IsFiniteSet(B), NEW f, \A m \in B : f[m] \in Level
    PROVE  \E g : FoldOver(semiring, f, B, g) /\ combine_body(semiring, f, B) = g[B]
<1> DEFINE step == [x \in B \X Level |-> times(semiring, f[x[1]], x[2])]
<1>2. One \in Level
    BY TopIsANatural DEF Level
<1>3. \A s \in SUBSET B : s # {} => Picked(s) \in s
    BY DEF Picked
<1>4. Foldable(step, One, B, Level) /\ \A m \in B, x \in Level : step[<<m, x>>] = times(semiring, f[m], x)
    BY <1>2, ProductOfLevels DEF Foldable
<1> HIDE DEF step
<1>5. PICK g \in [SUBSET B -> Level] : Folds(step, One, B, g)
    BY <1>4, FoldExists
<1>6. \A s \in SUBSET B : g[s] = Folded(semiring, f, s, g)
  <2> TAKE s \in SUBSET B
  <2>1. g[s] = FoldedBy(step, One, s, g) /\ Taken(s) = Picked(s) /\ s \ {Picked(s)} \in SUBSET B
      BY <1>5 DEF Folds, Taken, Picked
  <2>2. g[s \ {Picked(s)}] \in Level /\ (s # {} => Picked(s) \in B)
      BY <1>3, <1>5, <2>1
  <2>3. QED
      BY <1>4, <2>1, <2>2 DEF FoldedBy, Folded
<1> DEFINE fold(g2) == g2 = [s \in SUBSET B |-> IF s = {} THEN One
                                   ELSE times(semiring, f[CHOOSE m \in s : TRUE],
                                              g2[s \ {CHOOSE m \in s : TRUE}])]
<1>7. fold(g)
  <2>1. g = [s \in SUBSET B |-> Folded(semiring, f, s, g)]
      BY <1>6
  <2>2. QED
      BY <2>1 DEF Folded, Picked
<1> DEFINE chosen == CHOOSE g2 : fold(g2)
<1>8. fold(chosen)
    BY <1>7
<1>9. combine_body(semiring, f, B) = chosen[B]
    BY DEF combine_body, FoldFunctionOnSet, MapThenFoldSet
<1> HIDE DEF chosen
<1>10. \A s \in SUBSET B : chosen[s] = Folded(semiring, f, s, chosen)
    BY <1>8 DEF Folded, Picked
<1> DEFINE levels == {s \in SUBSET B : chosen[s] \in Level}
<1>11. ASSUME NEW s \in SUBSET B, s # {}, \A m \in s : s \ {m} \in levels
       PROVE  s \in levels
  <2>1. f[Picked(s)] \in Level /\ chosen[s \ {Picked(s)}] \in Level
      BY <1>3, <1>11
  <2>2. chosen[s] = times(semiring, f[Picked(s)], chosen[s \ {Picked(s)}])
      BY <1>10, <1>11 DEF Folded
  <2>3. QED
      BY <2>1, <2>2, ProductOfLevels
<1>12. {} \in levels
    BY <1>2, <1>10 DEF Folded
<1>13. SUBSET B \subseteq levels
  <2> HIDE DEF levels
  <2>1. QED
      BY <1>11, <1>12, SubsetsByOne
<1>14. chosen \in [SUBSET B -> Level]
    BY <1>8, <1>13
<1>15. QED
    BY <1>9, <1>10, <1>14 DEF FoldOver

\* ... One on the empty set.
LEMMA EmptyBody ==
    ASSUME NEW semiring, NEW f, NEW B, NEW g, FoldOver(semiring, f, B, g)
    PROVE  g[{}] = One
<1>1. {} \in SUBSET B
    OBVIOUS
<1>2. QED
    BY <1>1 DEF FoldOver, Folded

\* A body is worth a level, and no more than any of its members.
LEMMA BodyIsALevel ==
    ASSUME NEW semiring \in Semiring, NEW B, IsFiniteSet(B), NEW f, \A m \in B : f[m] \in Level
    PROVE  combine_body(semiring, f, B) \in Level /\ \A m \in B : combine_body(semiring, f, B) <= f[m]
<1>1. PICK g : FoldOver(semiring, f, B, g) /\ combine_body(semiring, f, B) = g[B]
    BY BodyFolds
<1> DEFINE holds == {s \in SUBSET B : \A m \in s : g[s] <= f[m]}
<1>2. ASSUME NEW s \in SUBSET B, s # {}, \A m \in s : s \ {m} \in holds
      PROVE  s \in holds
  <2>1. Picked(s) \in s
      BY <1>2 DEF Picked
  <2> DEFINE rest == s \ {Picked(s)}
  <2>2. rest \in SUBSET B /\ g[rest] \in Level /\ f[Picked(s)] \in Level /\ g[s] \in Level
      BY <1>1, <2>1 DEF FoldOver
  <2>3. g[s] = times(semiring, f[Picked(s)], g[rest])
      BY <1>1, <1>2 DEF Folded, FoldOver
  <2>4. g[s] <= f[Picked(s)] /\ g[s] <= g[rest]
      BY <2>2, <2>3, ProductOfLevels
  <2>5. \A m \in rest : g[rest] <= f[m] /\ f[m] \in Level
      BY <1>2, <2>1
  <2> HIDE DEF rest
  <2>6. \A m \in rest : g[s] <= f[m]
      BY <2>2, <2>4, <2>5 DEF Level
  <2>7. QED
      BY <2>4, <2>6 DEF rest
<1>3. B \in holds
  <2>1. {} \in holds
      OBVIOUS
  <2> HIDE DEF holds
  <2>2. QED
      BY <1>2, <2>1, SubsetsByOne
<1>4. g[B] \in Level
    BY <1>1 DEF FoldOver
<1>5. QED
    BY <1>1, <1>3, <1>4

\* ... which grows with the members.
LEMMA BodyGrows ==
    ASSUME NEW semiring \in Semiring, NEW B, IsFiniteSet(B), NEW f, NEW h,
           \A m \in B : f[m] \in Level /\ h[m] \in Level /\ f[m] <= h[m]
    PROVE  combine_body(semiring, f, B) <= combine_body(semiring, h, B)
<1>1. PICK g : FoldOver(semiring, f, B, g) /\ combine_body(semiring, f, B) = g[B]
    BY BodyFolds
<1>2. PICK k : FoldOver(semiring, h, B, k) /\ combine_body(semiring, h, B) = k[B]
    BY BodyFolds
<1> DEFINE holds == {s \in SUBSET B : g[s] <= k[s]}
<1>3. ASSUME NEW s \in SUBSET B, s # {}, \A m \in s : s \ {m} \in holds
      PROVE  s \in holds
  <2>1. Picked(s) \in s
      BY <1>3 DEF Picked
  <2> DEFINE rest == s \ {Picked(s)}
  <2>2. /\ g[rest] \in Level /\ k[rest] \in Level /\ g[rest] <= k[rest]
        /\ f[Picked(s)] \in Level /\ h[Picked(s)] \in Level /\ f[Picked(s)] <= h[Picked(s)]
      BY <1>1, <1>2, <1>3, <2>1 DEF FoldOver
  <2>3. /\ g[s] = times(semiring, f[Picked(s)], g[rest])
        /\ k[s] = times(semiring, h[Picked(s)], k[rest])
      BY <1>1, <1>2, <1>3 DEF Folded, FoldOver
  <2> HIDE DEF rest
  <2>4. QED
      BY <2>2, <2>3, ProductOfLevels
<1>4. B \in holds
  <2>1. {} \in holds
      BY <1>1, <1>2, EmptyBody, TopIsANatural
  <2> HIDE DEF holds
  <2>2. QED
      BY <1>3, <2>1, SubsetsByOne
<1>5. QED
    BY <1>1, <1>2, <1>4

\* Only the members count.
LEMMA BodyReadsMembers ==
    ASSUME NEW semiring \in Semiring, NEW B, IsFiniteSet(B), NEW f, NEW h,
           \A m \in B : f[m] \in Level /\ h[m] = f[m]
    PROVE  combine_body(semiring, f, B) = combine_body(semiring, h, B)
<1>1. combine_body(semiring, f, B) \in Level /\ combine_body(semiring, h, B) \in Level
    BY BodyIsALevel
<1>2. \A m \in B : f[m] <= h[m] /\ h[m] <= f[m] /\ h[m] \in Level
    BY DEF Level
<1>3. combine_body(semiring, f, B) <= combine_body(semiring, h, B)
    BY <1>2, BodyGrows
<1>4. combine_body(semiring, h, B) <= combine_body(semiring, f, B)
    BY <1>2, BodyGrows
<1>5. QED
    BY <1>1, <1>3, <1>4 DEF Level

\* Under Goedel a body is worth its weakest member.
LEMMA GodelBodyIsWeakest ==
    ASSUME NEW B, IsFiniteSet(B), NEW f, NEW t \in Level, \A m \in B : f[m] \in Level /\ t <= f[m]
    PROVE  t <= combine_body("godel", f, B)
<1>1. PICK g : FoldOver("godel", f, B, g) /\ combine_body("godel", f, B) = g[B]
    BY BodyFolds DEF Semiring
<1> DEFINE holds == {s \in SUBSET B : t <= g[s]}
<1>2. ASSUME NEW s \in SUBSET B, s # {}, \A m \in s : s \ {m} \in holds
      PROVE  s \in holds
  <2>1. Picked(s) \in s
      BY <1>2 DEF Picked
  <2>2. /\ g[s] = times("godel", f[Picked(s)], g[s \ {Picked(s)}])
        /\ t <= f[Picked(s)] /\ t <= g[s \ {Picked(s)}]
      BY <1>1, <1>2, <2>1 DEF Folded, FoldOver
  <2>3. QED
      BY <2>2 DEF times, _godel_times
<1>3. B \in holds
  <2>1. {} \in holds
      BY <1>1, EmptyBody DEF Level
  <2> HIDE DEF holds
  <2>2. QED
      BY <1>2, <2>1, SubsetsByOne
<1>4. QED
    BY <1>1, <1>3

-----------------------------------------------------------------------------
(* Layer B: one round.                                                      *)

\* The nodes' confidences, and what valuate may be called with.
Valued == [Node -> Level]
IsCall(a) ==
    /\ a.graph.base_facts \subseteq Node /\ a.graph.derivations \subseteq Derivation
    /\ a.supported \subseteq Node
    /\ \A n \in a.graph.base_facts : a.base_confidence[n] \in Level
    /\ \A d \in a.graph.derivations : a.strength[d] \in Level
    /\ a.semiring \in Semiring

Below(f, h) == \A n \in Node : f[n] <= h[n]
NextRound(a, f) == [n \in Node |-> Revalue(a, f, n)]

\* The best of some levels is one of them or zero, and none is better.
LEMMA BestOfLevels ==
    ASSUME NEW values \in SUBSET Level
    PROVE  /\ combine_alternatives(values) \in Level
           /\ combine_alternatives(values) \in values \cup {0}
           /\ \A x \in values : x <= combine_alternatives(values)
<1> DEFINE S == values \cup {0}
<1>1. IsFiniteSet(Level)
    BY TopIsANatural, FS_Interval DEF Level
<1>2. S \in SUBSET Level /\ S \in SUBSET Nat /\ S # {}
    BY TopIsANatural DEF Level
<1>3. IsFiniteSet(S)
    BY <1>1, <1>2, FS_Subset
<1>4. Max(S) \in S /\ \A y \in S : y <= Max(S)
    BY <1>2, <1>3, MaxIsLargest
<1>5. QED
    BY <1>2, <1>4 DEF combine_alternatives

\* A contribution is a level, no higher than its strength or any premise, and
\* grows with the premises.
LEMMA ContributionIsALevel ==
    ASSUME NEW a, IsCall(a), NEW d \in a.graph.derivations, NEW f \in Valued
    PROVE  /\ Contribution(a, f, d) \in Level
           /\ Contribution(a, f, d) <= a.strength[d]
           /\ \A m \in d.body : m \in Node /\ Contribution(a, f, d) <= f[m]
           /\ \A h \in Valued : (\A m \in d.body : f[m] <= h[m])
                => Contribution(a, f, d) <= Contribution(a, h, d)
<1>1. d.body \subseteq Node /\ IsFiniteSet(d.body) /\ a.strength[d] \in Level /\ a.semiring \in Semiring
  <2>1. d.body \in SUBSET Node
      BY DEF IsCall, Derivation
  <2>2. IsFiniteSet(d.body)
      BY <2>1, FiniteUniverse, FS_Subset
  <2>3. QED
      BY <2>1, <2>2 DEF IsCall
<1>2. ASSUME NEW h \in Valued
      PROVE  /\ combine_body(a.semiring, h, d.body) \in Level
             /\ \A m \in d.body : h[m] \in Level /\ combine_body(a.semiring, h, d.body) <= h[m]
  <2>1. \A m \in d.body : h[m] \in Level
      BY <1>1 DEF Valued
  <2>2. QED
      BY <1>1, <2>1, BodyIsALevel
<1> DEFINE b(h) == combine_body(a.semiring, h, d.body)
<1>3. /\ Contribution(a, f, d) \in Level
      /\ Contribution(a, f, d) <= a.strength[d] /\ Contribution(a, f, d) <= b(f)
    BY <1>1, <1>2, ProductOfLevels DEF Contribution
<1>4. ASSUME NEW m \in d.body PROVE m \in Node /\ Contribution(a, f, d) <= f[m]
  <2>1. b(f) \in Level /\ f[m] \in Level /\ b(f) <= f[m]
      BY <1>2
  <2>2. QED
      BY <1>1, <1>3, <2>1 DEF Level
<1>5. ASSUME NEW h \in Valued, \A m \in d.body : f[m] <= h[m]
      PROVE  Contribution(a, f, d) <= Contribution(a, h, d)
  <2>1. b(f) <= b(h) /\ b(f) \in Level /\ b(h) \in Level
      BY <1>1, <1>2, <1>5, BodyGrows
  <2> HIDE DEF b
  <2>2. times(a.semiring, a.strength[d], b(f)) <= times(a.semiring, a.strength[d], b(h))
    <3>1. a.strength[d] <= a.strength[d]
        BY <1>1 DEF Level
    <3>2. QED
        BY <1>1, <2>1, <3>1, ProductOfLevels
  <2>3. QED
      BY <2>2 DEF b, Contribution
<1>6. QED
    BY <1>3, <1>4, <1>5

\* A round gives a supported node the best of its evidence and of what its
\* grounds contribute, and any other node zero.
LEMMA RevalueIsBest ==
    ASSUME NEW a, IsCall(a), NEW f \in Valued, NEW n \in Node
    PROVE  /\ Revalue(a, f, n) \in Level
           /\ n \notin a.supported => Revalue(a, f, n) = 0
           /\ n \in a.supported \cap a.graph.base_facts => a.base_confidence[n] <= Revalue(a, f, n)
           /\ \A d \in Grounds(a, n) : Contribution(a, f, d) <= Revalue(a, f, n)
           /\ \/ Revalue(a, f, n) = 0
              \/ n \in a.graph.base_facts /\ Revalue(a, f, n) = a.base_confidence[n]
              \/ \E d \in Grounds(a, n) : Revalue(a, f, n) = Contribution(a, f, d)
<1> DEFINE evidence == {a.base_confidence[m] : m \in {n} \cap a.graph.base_facts}
           contributed == {Contribution(a, f, d) : d \in Grounds(a, n)}
<1>1. CASE n \notin a.supported
    BY <1>1, TopIsANatural DEF Revalue, Grounds, Level
<1>2. CASE n \in a.supported
  <2>1. Revalue(a, f, n) = combine_alternatives(evidence \cup contributed)
      BY <1>2 DEF Revalue
  <2>2. evidence \cup contributed \in SUBSET Level
    <3>1. \A d \in Grounds(a, n) : Contribution(a, f, d) \in Level
        BY ContributionIsALevel DEF Grounds
    <3>2. evidence \subseteq Level
        BY DEF IsCall
    <3>3. QED
        BY <3>1, <3>2
  <2>3. n \in a.graph.base_facts => a.base_confidence[n] \in evidence
      OBVIOUS
  <2>4. \A d \in Grounds(a, n) : Contribution(a, f, d) \in contributed
      OBVIOUS
  <2>5. \A x \in evidence : n \in a.graph.base_facts /\ x = a.base_confidence[n]
      OBVIOUS
  <2>6. \A x \in contributed : \E d \in Grounds(a, n) : x = Contribution(a, f, d)
      OBVIOUS
  <2> HIDE DEF evidence, contributed
  <2>7. /\ Revalue(a, f, n) \in Level
        /\ Revalue(a, f, n) \in evidence \cup contributed \cup {0}
        /\ \A x \in evidence \cup contributed : x <= Revalue(a, f, n)
      BY <2>1, <2>2, BestOfLevels
  <2>8. QED
      BY <1>2, <2>3, <2>4, <2>5, <2>6, <2>7
<1>3. QED
    BY <1>1, <1>2

\* A round is monotone.
LEMMA RevalueGrows ==
    ASSUME NEW a, IsCall(a), NEW f \in Valued, NEW h \in Valued, Below(f, h), NEW n \in Node
    PROVE  Revalue(a, f, n) <= Revalue(a, h, n)
<1>1. /\ Revalue(a, f, n) \in Level /\ Revalue(a, h, n) \in Level
      /\ n \notin a.supported => Revalue(a, f, n) = 0
    BY RevalueIsBest
<1>2. CASE Revalue(a, f, n) = 0
    BY <1>1, <1>2 DEF Level
<1>3. CASE n \in a.supported /\ n \in a.graph.base_facts /\ Revalue(a, f, n) = a.base_confidence[n]
    BY <1>3, RevalueIsBest
<1>4. ASSUME NEW d \in Grounds(a, n), Revalue(a, f, n) = Contribution(a, f, d)
      PROVE  Revalue(a, f, n) <= Revalue(a, h, n)
  <2>1. d \in a.graph.derivations /\ d.body \subseteq Node
      BY DEF Grounds, IsCall, Derivation
  <2>2. \A m \in d.body : f[m] <= h[m]
      BY <2>1 DEF Below
  <2>3. /\ Contribution(a, f, d) \in Level /\ Contribution(a, h, d) \in Level
        /\ Contribution(a, f, d) <= Contribution(a, h, d)
      BY <2>1, <2>2, ContributionIsALevel
  <2>4. Contribution(a, h, d) <= Revalue(a, h, n)
      BY RevalueIsBest
  <2>5. QED
      BY <1>1, <1>4, <2>3, <2>4 DEF Level
<1>5. n \in a.supported \/ Revalue(a, f, n) = 0
    BY <1>1
<1>6. QED
    BY <1>2, <1>3, <1>4, <1>5, RevalueIsBest

\* To be closed under the grounds is to gain nothing in a round.
LEMMA ClosedGainsNothing ==
    ASSUME NEW a, IsCall(a), NEW f \in Valued
    PROVE  PreFixpoint(a, f) <=> \A n \in Node : Revalue(a, f, n) <= f[n]
<1>1. ASSUME PreFixpoint(a, f), NEW n \in Node PROVE Revalue(a, f, n) <= f[n]
  <2>1. f[n] \in Level
      BY DEF Valued
  <2>2. CASE Revalue(a, f, n) = 0
      BY <2>1, <2>2 DEF Level
  <2>3. CASE n \in a.supported /\ n \in a.graph.base_facts /\ Revalue(a, f, n) = a.base_confidence[n]
      BY <1>1, <2>3 DEF PreFixpoint
  <2>4. ASSUME NEW d \in Grounds(a, n), Revalue(a, f, n) = Contribution(a, f, d)
        PROVE  Revalue(a, f, n) <= f[n]
      BY <1>1, <2>4 DEF PreFixpoint, Grounds
  <2>5. n \in a.supported \/ Revalue(a, f, n) = 0
      BY RevalueIsBest
  <2>6. QED
      BY <2>2, <2>3, <2>4, <2>5, RevalueIsBest
<1>2. ASSUME \A n \in Node : Revalue(a, f, n) <= f[n] PROVE PreFixpoint(a, f)
  <2>1. ASSUME NEW n \in a.supported \cap a.graph.base_facts PROVE a.base_confidence[n] <= f[n]
    <3>1. n \in Node /\ a.base_confidence[n] \in Level
        BY DEF IsCall
    <3>2. a.base_confidence[n] <= Revalue(a, f, n) /\ Revalue(a, f, n) \in Level /\ f[n] \in Level
        BY <3>1, RevalueIsBest DEF Valued
    <3>3. QED
        BY <1>2, <3>1, <3>2 DEF Level
  <2>2. ASSUME NEW d \in a.graph.derivations, d.conclusion \in a.supported, d.body \subseteq a.supported
        PROVE  Contribution(a, f, d) <= f[d.conclusion]
    <3>1. d \in Grounds(a, d.conclusion) /\ d.conclusion \in Node
        BY <2>2 DEF Grounds, IsCall
    <3>2. /\ Contribution(a, f, d) <= Revalue(a, f, d.conclusion)
          /\ Revalue(a, f, d.conclusion) \in Level /\ f[d.conclusion] \in Level
        BY <3>1, RevalueIsBest DEF Valued
    <3>3. Contribution(a, f, d) \in Level
        BY ContributionIsALevel
    <3>4. QED
        BY <1>2, <3>1, <3>2, <3>3 DEF Level
  <2>3. QED
      BY <2>1, <2>2 DEF PreFixpoint
<1>3. QED
    BY <1>1, <1>2

-----------------------------------------------------------------------------
(* Layer B: the least solution, and the ascent to it.                       *)

IsLeast(a, v) ==
    /\ v \in Valued /\ PreFixpoint(a, v)
    /\ \A f \in Valued : PreFixpoint(a, f) => Below(v, f)
Least(a) == CHOOSE v : IsLeast(a, v)

\* Of all the confidences closed under the grounds, one is below every other.
LEMMA LeastExists ==
    ASSUME NEW a, IsCall(a)
    PROVE  IsLeast(a, Least(a))
<1> DEFINE closed == {f \in Valued : PreFixpoint(a, f)}
           valuesAt(n) == {f[n] : f \in closed}
           low(n) == CHOOSE x \in valuesAt(n) : \A y \in valuesAt(n) : x <= y
           v == [n \in Node |-> low(n)]
<1>1. closed # {}
  <2>1. [n \in Node |-> One] \in Valued
      BY TopIsANatural DEF Valued, Level
  <2>2. \A n \in Node : Revalue(a, [m \in Node |-> One], n) <= [m \in Node |-> One][n]
      BY <2>1, RevalueIsBest DEF Level
  <2>3. QED
      BY <2>1, <2>2, ClosedGainsNothing
<1>2. ASSUME NEW n \in Node
      PROVE  low(n) \in valuesAt(n) /\ \A y \in valuesAt(n) : low(n) <= y
  <2>1. valuesAt(n) \in SUBSET Nat /\ valuesAt(n) # {}
    <3>1. \A f \in closed : f[n] \in Nat
        BY TopIsANatural DEF Valued, Level
    <3>2. QED
        BY <1>1, <3>1
  <2> HIDE DEF valuesAt
  <2>2. QED
      BY <2>1, LeastNatural
<1>3. v \in Valued
  <2>1. \A n \in Node : valuesAt(n) \subseteq Level
      BY DEF Valued
  <2>2. \A n \in Node : low(n) \in Level
      BY <1>2, <2>1
  <2> HIDE DEF low
  <2>3. QED
      BY <2>2 DEF Valued
<1>4. \A f \in closed : Below(v, f)
  <2>1. ASSUME NEW f \in closed, NEW n \in Node PROVE v[n] <= f[n]
    <3>1. f[n] \in valuesAt(n)
        OBVIOUS
    <3> HIDE DEF valuesAt, closed
    <3>2. low(n) <= f[n]
        BY <1>2, <3>1
    <3>3. QED
        BY <3>2
  <2>2. QED
      BY <2>1 DEF Below
<1>5. ASSUME NEW n \in Node PROVE Revalue(a, v, n) <= v[n]
  <2>1. PICK f \in closed : low(n) = f[n]
    <3> HIDE DEF low
    <3>1. QED
        BY <1>2
  <2>2. f \in Valued /\ Below(v, f) /\ Revalue(a, f, n) <= f[n] /\ v[n] = f[n]
    <3>1. v[n] = f[n]
        BY <2>1
    <3>2. QED
        BY <1>4, <3>1, ClosedGainsNothing
  <2> HIDE DEF v
  <2>3. /\ Revalue(a, v, n) <= Revalue(a, f, n)
        /\ Revalue(a, v, n) \in Level /\ Revalue(a, f, n) \in Level /\ f[n] \in Level
      BY <1>3, <2>2, RevalueGrows, RevalueIsBest DEF Valued
  <2>4. QED
      BY <2>2, <2>3 DEF Level
<1> HIDE DEF v
<1>6. PreFixpoint(a, v)
    BY <1>3, <1>5, ClosedGainsNothing
<1>7. IsLeast(a, v)
    BY <1>3, <1>4, <1>6 DEF IsLeast
<1>8. QED
    BY <1>7 DEF Least

\* A round leaves it as it is.
LEMMA LeastIsFixed ==
    ASSUME NEW a, IsCall(a)
    PROVE  /\ Least(a) \in Valued
           /\ \A n \in Node : Revalue(a, Least(a), n) = Least(a)[n]
<1> DEFINE v == Least(a)
           w == NextRound(a, v)
<1>1. IsLeast(a, v) /\ v \in Valued
    BY LeastExists DEF IsLeast
<1> HIDE DEF v
<1>2. \A n \in Node : Revalue(a, v, n) <= v[n] /\ Revalue(a, v, n) \in Level /\ v[n] \in Level
    BY <1>1, ClosedGainsNothing, RevalueIsBest DEF IsLeast, Valued
<1>3. w \in Valued /\ Below(w, v) /\ \A n \in Node : w[n] = Revalue(a, v, n)
    BY <1>2 DEF Valued, NextRound, Below
<1> HIDE DEF w
<1>4. \A n \in Node : Revalue(a, w, n) <= w[n]
    BY <1>1, <1>3, RevalueGrows
<1>5. Below(v, w)
    BY <1>1, <1>3, <1>4, ClosedGainsNothing DEF IsLeast
<1>6. \A n \in Node : Revalue(a, v, n) = v[n]
    BY <1>2, <1>3, <1>5 DEF Below, Level
<1>7. QED
    BY <1>1, <1>6 DEF v

\* The nodes an iterate has settled.
Settled(a, f) == {n \in a.supported : f[n] = Least(a)[n]}

\* An iterate below the least solution that a round does not lower.
Rising(a, f) ==
    f \in Valued /\ Below(f, Least(a)) /\ \A n \in Node : f[n] <= Revalue(a, f, n)

\* A round keeps that, and what is settled.
LEMMA RoundRises ==
    ASSUME NEW a, IsCall(a), NEW f, Rising(a, f)
    PROVE  /\ Rising(a, NextRound(a, f))
           /\ Settled(a, f) \subseteq Settled(a, NextRound(a, f))
<1> DEFINE v == Least(a)
           w == NextRound(a, f)
<1>1. v \in Valued /\ \A n \in Node : Revalue(a, v, n) = v[n]
    BY LeastIsFixed
<1>2. f \in Valued /\ Below(f, v) /\ \A n \in Node : f[n] <= Revalue(a, f, n)
    BY DEF Rising
<1> HIDE DEF v
<1>3. \A n \in Node : w[n] = Revalue(a, f, n) /\ w[n] \in Level /\ w[n] <= v[n]
  <2>1. \A n \in Node : Revalue(a, f, n) \in Level /\ Revalue(a, f, n) <= Revalue(a, v, n)
      BY <1>1, <1>2, RevalueGrows, RevalueIsBest
  <2>2. QED
      BY <1>1, <2>1 DEF NextRound
<1>4. w \in Valued /\ Below(w, v) /\ Below(f, w)
    BY <1>2, <1>3 DEF Valued, NextRound, Below
<1> HIDE DEF w
<1>5. \A n \in Node : w[n] <= Revalue(a, w, n)
    BY <1>2, <1>3, <1>4, RevalueGrows
<1>6. \A n \in a.supported : f[n] = v[n] => w[n] = v[n]
  <2>1. \A n \in Node : f[n] <= w[n] /\ w[n] <= v[n] /\ f[n] \in Level /\ w[n] \in Level /\ v[n] \in Level
      BY <1>1, <1>2, <1>4 DEF Below, Valued
  <2>2. a.supported \subseteq Node
      BY DEF IsCall
  <2>3. QED
      BY <2>1, <2>2 DEF Level
<1>7. QED
    BY <1>4, <1>5, <1>6 DEF Rising, Settled, v, w

\* Off the supported set the least solution is zero, so an iterate that has
\* settled every supported node has valuesAt it.
LEMMA AllSettled ==
    ASSUME NEW a, IsCall(a), NEW f, Rising(a, f), Settled(a, f) = a.supported
    PROVE  f = Least(a)
<1> DEFINE v == Least(a)
<1>1. v \in Valued /\ \A n \in Node : Revalue(a, v, n) = v[n]
    BY LeastIsFixed
<1>2. f \in Valued /\ \A n \in Node : f[n] <= v[n]
    BY DEF Rising, Below
<1>3. ASSUME NEW n \in Node PROVE f[n] = v[n]
  <2>1. CASE n \in a.supported
      BY <2>1 DEF Settled
  <2>2. CASE n \notin a.supported
    <3>1. v[n] = 0
        BY <1>1, <2>2, RevalueIsBest
    <3>2. f[n] \in Level /\ f[n] <= 0
        BY <1>2, <3>1 DEF Valued
    <3>3. QED
        BY <3>1, <3>2 DEF Level
  <2>3. QED
      BY <2>1, <2>2
<1> HIDE DEF v
<1>4. f = v
    BY <1>1, <1>2, <1>3 DEF Valued
<1>5. QED
    BY <1>4 DEF v

\* A round settles one more node: were it to settle none, the best of those
\* that are still open could do with less.
LEMMA RoundSettles ==
    ASSUME NEW a, IsCall(a), NEW f, Rising(a, f), Settled(a, f) # a.supported
    PROVE  Settled(a, NextRound(a, f)) # Settled(a, f)
<1> DEFINE v == Least(a)
           open == {n \in a.supported : f[n] # v[n]}
           values == {v[n] : n \in open}
           t == Max(values)
           top == {n \in open : v[n] = t}
           h == [n \in Node |-> IF n \in top THEN t - 1 ELSE v[n]]
<1> SUFFICES ASSUME \A n \in open : Revalue(a, f, n) # v[n]
             PROVE  FALSE
  <2>1. a.supported \subseteq Node
      BY DEF IsCall
  <2>2. QED
      BY <2>1 DEF Settled, NextRound
<1>1. v \in Valued /\ \A n \in Node : Revalue(a, v, n) = v[n]
    BY LeastIsFixed
<1>2. IsLeast(a, v)
    BY LeastExists
<1>3. f \in Valued /\ Below(f, v)
    BY DEF Rising
<1>4. open # {} /\ open \subseteq Node
    BY DEF Settled, IsCall
<1> HIDE DEF v
<1>5. \A n \in Node : v[n] \in Level /\ f[n] \in Level /\ f[n] <= v[n]
    BY <1>1, <1>3 DEF Valued, Below
<1>6. t \in values /\ \A y \in values : y <= t
  <2>1. values \in SUBSET Level /\ values # {}
      BY <1>4, <1>5
  <2>2. values \in SUBSET Nat /\ IsFiniteSet(values)
    <3>1. IsFiniteSet(Level) /\ Level \subseteq Nat
        BY TopIsANatural, FS_Interval DEF Level
    <3> HIDE DEF values
    <3>2. QED
        BY <2>1, <3>1, FS_Subset
  <2> HIDE DEF values
  <2>3. QED
      BY <2>1, <2>2, MaxIsLargest
<1> HIDE DEF t
<1>7. top # {} /\ top \subseteq open /\ \A n \in open : v[n] <= t
    BY <1>6
<1> HIDE DEF open
<1>8. t \in 1 .. One
  <2>1. PICK n \in top : TRUE
      BY <1>7
  <2>2. f[n] <= v[n] /\ f[n] # v[n] /\ v[n] = t /\ v[n] \in Level /\ f[n] \in Level
      BY <1>4, <1>5, <1>7, <2>1 DEF open
  <2>3. QED
      BY <2>2, TopIsANatural DEF Level
<1>9. h \in Valued /\ Below(h, v)
  <2>1. \A n \in Node : h[n] \in Level /\ h[n] <= v[n]
    <3>1. SUFFICES ASSUME NEW n \in Node PROVE h[n] \in Level /\ h[n] <= v[n]
        OBVIOUS
    <3>2. CASE n \in top
        BY <1>8, <3>2, TopIsANatural DEF Level
    <3>3. CASE n \notin top
        BY <1>5, <3>3 DEF Level
    <3>4. QED
        BY <3>2, <3>3
  <2>2. QED
      BY <2>1 DEF Valued, Below
<1>10. /\ \A n \in top : h[n] = t - 1 /\ v[n] = t
       /\ \A n \in Node \ top : h[n] = v[n]
    BY <1>4, <1>7
<1>11. \A n \in Node : v[n] >= t /\ n \in open => n \in top
    BY <1>5, <1>7, <1>8 DEF Level
<1> HIDE DEF h, top
<1>12. ASSUME NEW n \in Node PROVE Revalue(a, h, n) <= h[n]
  <2>1. Revalue(a, h, n) <= v[n] /\ Revalue(a, h, n) \in Level /\ Revalue(a, f, n) \in Level
      BY <1>1, <1>3, <1>9, RevalueGrows, RevalueIsBest
  <2>2. CASE n \notin top
      BY <1>10, <2>1, <2>2
  <2>3. CASE n \in top
    <3>1. SUFFICES ASSUME Revalue(a, h, n) >= t PROVE FALSE
        BY <1>8, <1>10, <2>1, <2>3 DEF Level
    <3>2. Revalue(a, f, n) <= v[n] /\ Revalue(a, f, n) # v[n] /\ v[n] = t /\ n \in a.supported
      <4>1. n \in open
          BY <1>7, <2>3
      <4>2. Revalue(a, f, n) <= Revalue(a, v, n)
          BY <1>1, <1>3, RevalueGrows
      <4>3. QED
          BY <1>1, <1>10, <2>3, <4>1, <4>2 DEF open
    <3>3. ASSUME NEW d \in Grounds(a, n), Revalue(a, h, n) = Contribution(a, h, d) PROVE FALSE
      <4>1. d \in a.graph.derivations
          BY DEF Grounds
      <4>2. ASSUME NEW m \in d.body PROVE m \in Node /\ h[m] = f[m]
        <5>1. m \in Node /\ Contribution(a, h, d) <= h[m] /\ Contribution(a, h, d) \in Level
            BY <1>9, <4>1, ContributionIsALevel
        <5>2. h[m] >= t /\ h[m] \in Level
            BY <1>8, <1>9, <3>1, <3>3, <5>1 DEF Level, Valued
        <5>3. m \notin top
            BY <1>8, <1>10, <5>2 DEF Level
        <5>4. m \notin open
            BY <1>10, <1>11, <5>1, <5>2, <5>3
        <5>5. m \in a.supported
            BY DEF Grounds
        <5>6. QED
            BY <1>10, <5>1, <5>3, <5>4, <5>5 DEF open
      <4>3. \A m \in d.body : h[m] <= f[m]
        <5>1. \A m \in Node : h[m] \in Level
            BY <1>9 DEF Valued
        <5>2. QED
            BY <4>2, <5>1 DEF Level
      <4>4. /\ Contribution(a, h, d) <= Contribution(a, f, d)
            /\ Contribution(a, h, d) \in Level /\ Contribution(a, f, d) \in Level
          BY <1>3, <1>9, <4>1, <4>3, ContributionIsALevel
      <4>5. Contribution(a, f, d) <= Revalue(a, f, n)
          BY <1>3, RevalueIsBest
      <4>6. QED
          BY <1>8, <2>1, <3>1, <3>2, <3>3, <4>4, <4>5 DEF Level
    <3>4. CASE n \in a.graph.base_facts /\ Revalue(a, h, n) = a.base_confidence[n]
      <4>1. a.base_confidence[n] <= Revalue(a, f, n)
          BY <1>3, <3>2, <3>4, RevalueIsBest
      <4>2. QED
          BY <1>8, <2>1, <3>1, <3>2, <3>4, <4>1 DEF Level
    <3>5. Revalue(a, h, n) # 0
        BY <1>8, <3>1 DEF Level
    <3>6. QED
        BY <1>9, <3>3, <3>4, <3>5, RevalueIsBest
  <2>4. QED
      BY <2>2, <2>3
<1>13. Below(v, h)
    BY <1>2, <1>9, <1>12, ClosedGainsNothing DEF IsLeast
<1>14. PICK n \in top : n \in Node
    BY <1>4, <1>7
<1>15. v[n] <= h[n]
    BY <1>13, <1>14 DEF Below
<1>16. QED
    BY <1>8, <1>10, <1>15

\* After so many round, an iterate has settled as many nodes or all of them.
Ascent(a, f, k) ==
    Rising(a, f) /\ (f = Least(a) \/ k <= Cardinality(Settled(a, f)))

LEMMA AscentStarts ==
    ASSUME NEW a, IsCall(a)
    PROVE  Ascent(a, AllZero, 0)
<1>1. AllZero \in Valued
    BY TopIsANatural DEF AllZero, Valued, Level
<1>2. \A n \in Node : Revalue(a, AllZero, n) \in Level /\ Least(a)[n] \in Level /\ AllZero[n] = 0
    BY <1>1, LeastIsFixed, RevalueIsBest DEF AllZero, Valued
<1>3. Rising(a, AllZero)
    BY <1>1, <1>2 DEF Rising, Below, Level
<1>4. Cardinality(Settled(a, AllZero)) \in Nat
  <2>1. Settled(a, AllZero) \in SUBSET Node
      BY DEF Settled, IsCall
  <2>2. QED
      BY <2>1, FiniteUniverse, FS_Subset, FS_CardinalityType
<1>5. QED
    BY <1>3, <1>4 DEF Ascent

LEMMA AscentGoesOn ==
    ASSUME NEW a, IsCall(a), NEW f, NEW k \in Nat, Ascent(a, f, k)
    PROVE  Ascent(a, NextRound(a, f), k + 1)
<1> DEFINE w == NextRound(a, f)
<1>1. Rising(a, w) /\ Settled(a, f) \subseteq Settled(a, w)
    BY RoundRises DEF Ascent
<1>2. Settled(a, f) \in SUBSET Node /\ Settled(a, w) \in SUBSET Node /\ Settled(a, w) \subseteq a.supported
    BY DEF Settled, IsCall
<1>3. CASE f = Least(a) \/ Settled(a, f) = a.supported
  <2>1. f = Least(a)
      BY <1>3, AllSettled DEF Ascent
  <2>2. w = Least(a)
    <3>1. Least(a) \in Valued /\ \A n \in Node : Revalue(a, Least(a), n) = Least(a)[n]
        BY LeastIsFixed
    <3>2. QED
        BY <2>1, <3>1 DEF NextRound, Valued
  <2> HIDE DEF w
  <2>3. QED
      BY <1>1, <2>2 DEF Ascent, w
<1>4. CASE f # Least(a) /\ Settled(a, f) # a.supported
  <2>1. Settled(a, w) # Settled(a, f)
      BY <1>4, RoundSettles DEF Ascent
  <2> HIDE DEF w
  <2>2. IsFiniteSet(Settled(a, w)) /\ Settled(a, f) \in SUBSET Settled(a, w)
      BY <1>1, <1>2, FiniteUniverse, FS_Subset
  <2>3. /\ Cardinality(Settled(a, f)) \in Nat /\ Cardinality(Settled(a, w)) \in Nat
        /\ Cardinality(Settled(a, f)) <= Cardinality(Settled(a, w))
        /\ Cardinality(Settled(a, f)) # Cardinality(Settled(a, w))
      BY <2>1, <2>2, FS_Subset, FS_CardinalityType
  <2>4. k <= Cardinality(Settled(a, f))
      BY <1>4 DEF Ascent
  <2>5. k + 1 <= Cardinality(Settled(a, w))
      BY <2>3, <2>4
  <2>6. QED
      BY <1>1, <2>5 DEF Ascent, w
<1>5. QED
    BY <1>3, <1>4

LEMMA AscentEnds ==
    ASSUME NEW a, IsCall(a), NEW f, NEW k \in Nat, Ascent(a, f, k), k >= Cardinality(a.supported)
    PROVE  f = Least(a)
<1>1. CASE f = Least(a)
    BY <1>1
<1>2. CASE k <= Cardinality(Settled(a, f))
  <2>1. a.supported \in SUBSET Node /\ Settled(a, f) \in SUBSET a.supported
      BY DEF Settled, IsCall
  <2>2. IsFiniteSet(a.supported)
      BY <2>1, FiniteUniverse, FS_Subset
  <2>3. /\ Cardinality(Settled(a, f)) \in Nat /\ Cardinality(a.supported) \in Nat
        /\ Cardinality(Settled(a, f)) <= Cardinality(a.supported)
        /\ Cardinality(Settled(a, f)) = Cardinality(a.supported) => Settled(a, f) = a.supported
      BY <2>1, <2>2, FS_Subset, FS_CardinalityType
  <2>4. Settled(a, f) = a.supported
      BY <1>2, <2>3
  <2>5. QED
      BY <2>4, AllSettled DEF Ascent
<1>3. QED
    BY <1>1, <1>2 DEF Ascent

\* What the other modules read as valuate is the least solution.
LEMMA ValuateIsLeast ==
    ASSUME NEW a, IsCall(a)
    PROVE  valuate(a) = Least(a)
<1> DEFINE n == Cardinality(a.supported)
           step == [f \in Valued |-> NextRound(a, f)]
           unfolds(g) == g = [i \in 0 .. n |->
                              IF i = 0 THEN AllZero
                              ELSE LET prev == g[i - 1] IN [m \in Node |-> Revalue(a, prev, m)]]
           chosen == CHOOSE g : unfolds(g)
<1>1. n \in Nat
  <2>1. a.supported \in SUBSET Node
      BY DEF IsCall
  <2>2. QED
      BY <2>1, FiniteUniverse, FS_Subset, FS_CardinalityType
<1>2. AllZero \in Valued /\ step \in [Valued -> Valued]
    BY TopIsANatural, RevalueIsBest DEF AllZero, NextRound, Valued, Level
<1>3. PICK g \in [0 .. n -> Valued] : Iterates(g, n, AllZero, step)
  <2> HIDE DEF n, step
  <2>1. QED
      BY <1>1, <1>2, IterationExists
<1>4. unfolds(g)
  <2>1. ASSUME NEW i \in 0 .. n
        PROVE  g[i] = IF i = 0 THEN AllZero
                      ELSE LET prev == g[i - 1] IN [m \in Node |-> Revalue(a, prev, m)]
    <3>1. CASE i = 0
        BY <1>3, <3>1 DEF Iterates
    <3>2. CASE i # 0
      <4>1. i \in 1 .. n /\ i - 1 \in 0 .. n
          BY <1>1, <3>2
      <4>2. g[i] = step[g[i - 1]] /\ g[i - 1] \in Valued
          BY <1>3, <4>1 DEF Iterates
      <4>3. QED
          BY <3>2, <4>2 DEF NextRound
    <3>3. QED
        BY <3>1, <3>2
  <2>2. QED
      BY <1>3, <2>1
<1>5. unfolds(chosen)
    BY <1>4
<1>6. valuate(a) = chosen[n]
    BY DEF valuate
<1> HIDE DEF chosen
<1> DEFINE holds == {i \in 0 .. n : Ascent(a, chosen[i], i)}
<1>7. 0 \in holds
  <2>1. chosen[0] = AllZero
      BY <1>1, <1>5
  <2>2. QED
      BY <1>1, <2>1, AscentStarts
<1>8. ASSUME NEW k \in 0 .. n - 1, k \in holds PROVE k + 1 \in holds
  <2>1. k \in Nat /\ k + 1 \in 0 .. n /\ k + 1 # 0 /\ (k + 1) - 1 = k
      BY <1>1
  <2>2. chosen[k + 1] = NextRound(a, chosen[k])
      BY <1>5, <2>1 DEF NextRound
  <2>3. QED
      BY <1>8, <2>1, <2>2, AscentGoesOn
<1>9. n \in holds
  <2> HIDE DEF holds, n
  <2>1. 0 .. n \subseteq holds
      BY <1>1, <1>7, <1>8, CountingUp
  <2>2. QED
      BY <1>1, <2>1
<1>10. n >= Cardinality(a.supported)
    BY <1>1
<1>11. QED
    BY <1>1, <1>6, <1>9, <1>10, AscentEnds

-----------------------------------------------------------------------------
(* Layer B: the run of valuate.                                             *)

AscentInv ==
    /\ ValuateTypeOK
    /\ answer = "run" => Ascent(arg, conf, round)
                         /\ round < Cardinality(arg.supported) + 2
    /\ answer = "done" => conf = Least(arg)
    /\ answer # "raised"

\* What the arguments of a call amount to.
LEMMA ArgumentsAreCalls ==
    ASSUME NEW g, g \in DerivationGraph, NEW a, a \in Arguments(g)
    PROVE  /\ IsCall(a)
           /\ a.graph = g
           /\ a.supported = WellFoundedSupport(g.base_facts, g.derivations)
           /\ Cardinality(a.supported) \in Nat
<1>1. /\ a.graph = g
      /\ a.supported = WellFoundedSupport(g.base_facts, g.derivations)
      /\ a.base_confidence \in [g.base_facts -> Level] /\ a.strength \in [g.derivations -> Level]
      /\ a.semiring \in Semiring
    BY EvidenceIsLevels DEF Arguments
<1>2. g.base_facts \subseteq Node /\ g.derivations \subseteq Derivation
    BY RulesAreDerivations DEF DerivationGraph
<1>3. a.supported \in SUBSET Node
    BY <1>1 DEF WellFoundedSupport
<1>4. QED
    BY <1>1, <1>2, <1>3, FiniteUniverse, FS_Subset, FS_CardinalityType DEF IsCall

LEMMA AscentInit == ValuateInit => AscentInv
<1> SUFFICES ASSUME ValuateInit PROVE AscentInv
    OBVIOUS
<1>1. PICK g \in DerivationGraph : arg \in Arguments(g)
    BY DEF ValuateInit
<1>2. conf = AllZero /\ round = 0 /\ answer = "run"
    BY DEF ValuateInit
<1>3. IsCall(arg) /\ Cardinality(arg.supported) \in Nat
    BY <1>1, ArgumentsAreCalls
<1>4. Ascent(arg, conf, round)
    BY <1>2, <1>3, AscentStarts
<1>5. ValuateTypeOK
    BY <1>1, <1>2, TopIsANatural DEF ValuateTypeOK, AllZero, Level
<1>6. QED
    BY <1>2, <1>3, <1>4, <1>5 DEF AscentInv

\* A round that changes nothing has arrived; the bound leaves room for every
\* round that changes something.
LEMMA AscentNext == AscentInv /\ [Round]_valuateVars => AscentInv'
<1> SUFFICES ASSUME AscentInv, [Round]_valuateVars PROVE AscentInv'
    OBVIOUS
<1>1. CASE UNCHANGED valuateVars
    BY <1>1 DEF AscentInv, ValuateTypeOK, valuateVars
<1>2. CASE Round
  <2> DEFINE nxt == NextRound(arg, conf)
  <2>1. /\ answer = "run"
        /\ conf' = nxt
        /\ answer' = IF nxt = conf THEN "done"
                     ELSE IF round + 1 = Cardinality(arg.supported) + 2 THEN "raised" ELSE "run"
        /\ round' = round + 1
        /\ arg' = arg
      BY <1>2 DEF Round, Rounds, NextRound
  <2>2. PICK g \in DerivationGraph : arg \in Arguments(g)
      BY DEF AscentInv, ValuateTypeOK
  <2>3. IsCall(arg) /\ Cardinality(arg.supported) \in Nat
      BY <2>2, ArgumentsAreCalls
  <2>4. /\ Ascent(arg, conf, round) /\ round \in Nat
        /\ round < Cardinality(arg.supported) + 2
      BY <2>1 DEF AscentInv, ValuateTypeOK
  <2>5. Ascent(arg, nxt, round + 1)
      BY <2>3, <2>4, AscentGoesOn
  <2>6. nxt \in Valued
      BY <2>5 DEF Ascent, Rising
  <2> HIDE DEF nxt
  <2>7. ASSUME nxt # conf PROVE round + 1 < Cardinality(arg.supported) + 2
    <3>1. SUFFICES ASSUME round >= Cardinality(arg.supported) PROVE FALSE
        BY <2>3, <2>4
    <3>2. conf = Least(arg) /\ nxt = Least(arg)
        BY <2>3, <2>4, <2>5, <3>1, AscentEnds
    <3>3. QED
        BY <2>7, <3>2
  <2>8. ASSUME nxt = conf PROVE nxt = Least(arg)
    <3>1. conf \in Valued /\ Below(conf, Least(arg))
        BY <2>4 DEF Ascent, Rising
    <3>2. \A n \in Node : Revalue(arg, conf, n) = conf[n]
        BY <2>8 DEF nxt, NextRound
    <3>3. \A n \in Node : conf[n] \in Level
        BY <3>1 DEF Valued
    <3>4. PreFixpoint(arg, conf)
        BY <2>3, <3>1, <3>2, <3>3, ClosedGainsNothing DEF Level
    <3>5. Below(Least(arg), conf) /\ Least(arg) \in Valued
        BY <2>3, <3>1, <3>4, LeastExists DEF IsLeast
    <3>6. \A n \in Node : conf[n] = Least(arg)[n]
        BY <3>1, <3>5 DEF Below, Valued, Level
    <3>7. QED
        BY <2>8, <3>1, <3>5, <3>6 DEF Valued
  <2>9. ValuateTypeOK'
      BY <2>1, <2>2, <2>4, <2>6 DEF AscentInv, ValuateTypeOK, Valued
  <2>10. CASE nxt = conf
      BY <2>1, <2>8, <2>9, <2>10 DEF AscentInv
  <2>11. CASE nxt # conf
    <3>1. answer' = "run"
        BY <2>1, <2>3, <2>4, <2>7, <2>11
    <3>2. QED
        BY <2>1, <2>5, <2>7, <2>9, <2>11, <3>1 DEF AscentInv
  <2>12. QED
      BY <2>10, <2>11
<1>3. QED
    BY <1>1, <1>2

LEMMA AscentInvariance == ValuateSpec => []AscentInv
<1>1. QED
    BY AscentInit, AscentNext, PTL DEF ValuateSpec

\* The iterates of Layer B are levels, whatever the evidence.
THEOREM ValuateTypeCorrect == ValuateSpec => []ValuateTypeOK
<1>1. AscentInv => ValuateTypeOK
    BY DEF AscentInv
<1>2. QED
    BY <1>1, AscentInvariance, PTL

\* valuate returns within its bound, for every graph, evidence and semiring,
\* and what it returns is the least solution of the confidence equations.
THEOREM ValuateIsLeastFixpoint == ValuateSpec => []ReturnsLeastFixpoint
<1>1. AscentInv => ReturnsLeastFixpoint
  <2> SUFFICES ASSUME AscentInv, answer # "run" PROVE ReturnsLeastFixpoint
      BY DEF ReturnsLeastFixpoint
  <2>1. PICK g \in DerivationGraph : arg \in Arguments(g)
      BY DEF AscentInv, ValuateTypeOK
  <2>2. IsCall(arg)
      BY <2>1, ArgumentsAreCalls
  <2>3. answer = "done" /\ conf = Least(arg)
      BY DEF AscentInv, ValuateTypeOK
  <2>4. conf = valuate(arg)
      BY <2>2, <2>3, ValuateIsLeast
  <2>5. IsLeast(arg, conf)
      BY <2>2, <2>3, LeastExists
  <2>6. QED
      BY <2>3, <2>4, <2>5 DEF ReturnsLeastFixpoint, IsLeast, Below, Valued
<1>2. QED
    BY <1>1, AscentInvariance, PTL

\* The base facts and the derivations close what Layer A certifies.
LEMMA SupportCloses ==
    ASSUME NEW base \in SUBSET Node, NEW derivs \in SUBSET Derivation
    PROVE  Closed(WellFoundedSupport(base, derivs), base, derivs)
<1> DEFINE W == WellFoundedSupport(base, derivs)
<1>1. base \subseteq W
    BY DEF WellFoundedSupport, Closed
<1>2. ASSUME NEW d \in derivs, d.body \subseteq W, NEW S \in SUBSET Node, Closed(S, base, derivs)
      PROVE  d.conclusion \in S
  <2>1. W \subseteq S
      BY <1>2 DEF WellFoundedSupport
  <2>2. QED
      BY <1>2, <2>1 DEF Closed
<1>3. \A d \in derivs : d.conclusion \in Node
    BY DEF Derivation
<1>4. \A d \in derivs : d.body \subseteq W => d.conclusion \in W
    BY <1>2, <1>3 DEF WellFoundedSupport
<1>5. QED
    BY <1>1, <1>4 DEF Closed

\* Under Goedel, cutting Layer B's answer at a level is what Layer A says of
\* the graph cut at that level.
LEMMA CutIsSupport ==
    ASSUME NEW a, IsCall(a), a.semiring = "godel",
           a.supported = WellFoundedSupport(a.graph.base_facts, a.graph.derivations),
           NEW t \in 1 .. One
    PROVE  {n \in Node : Least(a)[n] >= t} =
               WellFoundedSupport({n \in a.graph.base_facts : a.base_confidence[n] >= t},
                                  {d \in a.graph.derivations : a.strength[d] >= t})
<1> DEFINE v == Least(a)
           strong == {n \in a.graph.base_facts : a.base_confidence[n] >= t}
           firm == {d \in a.graph.derivations : a.strength[d] >= t}
           W == WellFoundedSupport(strong, firm)
           C == {n \in Node : v[n] >= t}
<1>1. v \in Valued /\ PreFixpoint(a, v) /\ \A f \in Valued : PreFixpoint(a, f) => Below(v, f)
    BY LeastExists DEF IsLeast
<1>2. \A n \in Node : n \notin a.supported => v[n] = 0
    BY LeastIsFixed, RevalueIsBest
<1>3. t \in Nat /\ t >= 1 /\ t <= One /\ One \in Nat /\ t - 1 \in Level /\ t \in Level
    BY TopIsANatural DEF Level
<1>4. Closed(a.supported, a.graph.base_facts, a.graph.derivations) /\ a.supported \subseteq Node
    BY SupportCloses DEF IsCall
<1>5. Closed(W, strong, firm)
    BY SupportCloses DEF IsCall
<1>6. \A n \in Node : v[n] \in Level
    BY <1>1 DEF Valued
<1> HIDE DEF v, W
<1>7. C \subseteq W
  <2> DEFINE f == [n \in Node |-> IF n \in W THEN One ELSE t - 1]
  <2>1. f \in Valued
      BY <1>3 DEF Valued, Level
  <2>2. ASSUME NEW n \in a.supported \cap a.graph.base_facts PROVE a.base_confidence[n] <= f[n]
    <3>1. n \in Node /\ a.base_confidence[n] \in Level
        BY DEF IsCall
    <3>2. n \notin W => ~(a.base_confidence[n] >= t)
        BY <1>5 DEF Closed
    <3>3. QED
        BY <1>3, <3>1, <3>2 DEF Level
  <2>3. ASSUME NEW d \in a.graph.derivations PROVE Contribution(a, f, d) <= f[d.conclusion]
    <3>1. d.conclusion \in Node
        BY DEF IsCall, Derivation
    <3>2. /\ Contribution(a, f, d) \in Level /\ Contribution(a, f, d) <= a.strength[d]
          /\ \A m \in d.body : m \in Node /\ Contribution(a, f, d) <= f[m]
        BY <2>1, ContributionIsALevel
    <3>3. CASE d.conclusion \in W
        BY <3>1, <3>2, <3>3 DEF Level
    <3>4. CASE d.conclusion \notin W
      <4>1. SUFFICES ASSUME Contribution(a, f, d) >= t PROVE FALSE
          BY <1>3, <3>1, <3>2, <3>4 DEF Level
      <4>2. a.strength[d] >= t
        <5>1. a.strength[d] \in Level
            BY DEF IsCall
        <5>2. QED
            BY <1>3, <3>2, <4>1, <5>1 DEF Level
      <4>3. d.body \subseteq W
        <5>1. ASSUME NEW m \in d.body, m \notin W PROVE FALSE
          <6>1. f[m] = t - 1 /\ Contribution(a, f, d) <= f[m]
              BY <3>2, <5>1
          <6>2. QED
              BY <1>3, <3>2, <4>1, <6>1 DEF Level
        <5>2. QED
            BY <5>1
      <4>4. QED
          BY <1>5, <3>4, <4>2, <4>3 DEF Closed
    <3>5. QED
        BY <3>3, <3>4
  <2>4. PreFixpoint(a, f)
      BY <2>2, <2>3 DEF PreFixpoint
  <2>5. Below(v, f)
      BY <1>1, <2>1, <2>4
  <2>6. ASSUME NEW n \in C, n \notin W PROVE FALSE
    <3>1. v[n] <= t - 1 /\ v[n] >= t /\ v[n] \in Level
        BY <1>6, <2>5, <2>6 DEF Below
    <3>2. QED
        BY <1>3, <3>1 DEF Level
  <2>7. QED
      BY <2>6
<1>8. W \subseteq C
  <2>1. strong \subseteq C
    <3>1. ASSUME NEW n \in strong PROVE n \in C
      <4>1. n \in Node /\ n \in a.supported /\ n \in a.graph.base_facts /\ a.base_confidence[n] >= t
            /\ a.base_confidence[n] \in Level
          BY <1>4 DEF Closed, IsCall
      <4>2. a.base_confidence[n] <= v[n]
          BY <1>1, <4>1 DEF PreFixpoint
      <4>3. QED
          BY <1>3, <1>6, <4>1, <4>2 DEF Level
    <3>2. QED
        BY <3>1
  <2>2. ASSUME NEW d \in firm, d.body \subseteq C PROVE d.conclusion \in C
    <3>1. d \in a.graph.derivations /\ d.conclusion \in Node /\ a.strength[d] >= t /\ a.strength[d] \in Level
        BY DEF IsCall, Derivation
    <3>2. d.body \subseteq a.supported
      <4>1. \A m \in d.body : m \in Node /\ v[m] >= t
          BY <2>2
      <4>2. QED
          BY <1>2, <1>3, <4>1
    <3>3. d.conclusion \in a.supported
        BY <1>4, <3>1, <3>2 DEF Closed
    <3>4. t <= combine_body("godel", v, d.body) /\ combine_body("godel", v, d.body) \in Level
      <4>1. IsFiniteSet(d.body)
          BY <3>2, <1>4, FiniteUniverse, FS_Subset
      <4>2. \A m \in d.body : v[m] \in Level /\ t <= v[m]
          BY <1>3, <1>6, <2>2 DEF Level
      <4>3. "godel" \in Semiring
          BY DEF Semiring
      <4>4. QED
          BY <1>3, <4>1, <4>2, <4>3, GodelBodyIsWeakest, BodyIsALevel
    <3>5. t <= Contribution(a, v, d) /\ Contribution(a, v, d) \in Level
      <4>1. Contribution(a, v, d) \in Level
          BY <1>1, <3>1, ContributionIsALevel
      <4>2. QED
          BY <1>3, <3>1, <3>4, <4>1 DEF Contribution, times, _godel_times, Level
    <3>6. Contribution(a, v, d) <= v[d.conclusion]
        BY <1>1, <3>1, <3>2, <3>3 DEF PreFixpoint
    <3>7. QED
        BY <1>3, <1>6, <3>1, <3>5, <3>6 DEF Level
  <2>3. Closed(C, strong, firm) /\ C \in SUBSET Node
      BY <2>1, <2>2 DEF Closed
  <2> HIDE DEF C, strong, firm
  <2>4. QED
      BY <2>3 DEF W, WellFoundedSupport
<1>9. QED
    BY <1>7, <1>8 DEF v, W

\* Under Goedel a node reaches a level exactly when Layer A still supports it
\* without the evidence and the derivations below that level.
THEOREM LayersAgree == ValuateSpec => []ThresholdCut
<1>1. AscentInv => ThresholdCut
  <2> SUFFICES ASSUME AscentInv, answer = "done", arg.semiring = "godel", NEW t \in 1 .. One
               PROVE  {n \in Node : conf[n] >= t} =
                          WellFoundedSupport(
                              {n \in arg.graph.base_facts : arg.base_confidence[n] >= t},
                              {d \in arg.graph.derivations : arg.strength[d] >= t})
      BY DEF ThresholdCut
  <2>1. PICK g \in DerivationGraph : arg \in Arguments(g)
      BY DEF AscentInv, ValuateTypeOK
  <2>2. /\ IsCall(arg)
        /\ arg.supported
             = WellFoundedSupport(arg.graph.base_facts, arg.graph.derivations)
      BY <2>1, ArgumentsAreCalls
  <2>3. conf = Least(arg)
      BY DEF AscentInv
  <2>4. QED
      BY <2>2, <2>3, CutIsSupport
<1>2. QED
    BY <1>1, AscentInvariance, PTL

-----------------------------------------------------------------------------
(* The revision loop: what its runs have in memory.                         *)

\* A draft is the only one of its proposal, which nobody has written yet.
Draft(a) == \E Value : a \in [proposal : Proposal, confidence : Value, fresh : BOOLEAN]
DraftsOf(ds, written) ==
    /\ \A a \in ds : Draft(a) /\ a.proposal \in Proposal \ written
    /\ \A a, b \in ds : a.proposal = b.proposal => a = b
DraftInv == derived \subseteq Rule /\ DraftsOf(drafts, derived)

\* A run goes by the edges it loaded and a policy that callers inject.
PlanInv ==
    /\ edges \subseteq EvidenceEdge
    /\ pc # "idle" => plan.policy \in Policy /\ plan.edges \subseteq EvidenceEdge

\* While a run iterates, the state it has reached is the last it recorded.
RunInv ==
    /\ pc \in {"idle", "loop", "commit"}
    /\ pc = "idle" => state = {}
    /\ pc = "loop" => /\ status = "running"
                      /\ trajectory \in Seq(SUBSET Node) /\ trajectory # <<>>
                      /\ state = trajectory[Len(trajectory)]
    /\ pc = "commit" => state \in SUBSET Node

\* A run that retracts anything does so on an authorised refutation.
RetractedInv == state # {} => authorise(plan.report)

\* A run that reports convergence stands at a fixpoint of the whole step.
FixpointInv == (pc = "commit" /\ status = "converged") => Revise(plan, state) = state

LoopInv == DraftInv /\ PlanInv /\ RunInv /\ RetractedInv /\ FixpointInv

-----------------------------------------------------------------------------
(* The step function.                                                       *)

\* Only hypotheses are judged, and only authorised refutations add anything
\* to what is retracted.
LEMMA RefutedAreHypotheses ==
    ASSUME NEW p, NEW r
    PROVE  RefutedIn(adjudicate_at(p, r)) \subseteq Hypothesis
<1>1. DOMAIN adjudicate_at(p, r).verdicts \subseteq Hypothesis
    BY DEF adjudicate_at
<1>2. QED
    BY <1>1 DEF RefutedIn

\* A step of any known policy goes from nodes to nodes, and whatever it
\* retracts beyond what was retracted is backed by the ensemble.
LEMMA ReviseStep ==
    ASSUME NEW p, NEW r \in SUBSET Node,
           p.policy \in Policy, p.edges \subseteq EvidenceEdge
    PROVE  /\ Revise(p, r) \in SUBSET Node
           /\ Revise(p, r) \subseteq r \/ authorise(p.report)
<1> DEFINE snap == adjudicate_at(p, r)
<1>1. RefutedIn(snap) \subseteq Node
    BY RefutedAreHypotheses, GraphIsTyped
<1>2. {h \in RefutedIn(snap) : Authorised(p, h)} # {} => authorise(p.report)
    BY DEF Authorised
<1>3. CASE p.policy = "default"
    BY <1>1, <1>2, <1>3 DEF Revise, retract_authorised_refuted
<1>4. CASE p.policy = "supporters"
  <2>1. Revise(p, r) = RetractSupporters(p, snap, r)
      BY <1>4 DEF Revise
  <2>2. \A e \in p.edges : e.source \in Node
      BY GraphIsTyped
  <2>3. RetractSupporters(p, snap, r) \in SUBSET Node
      BY <2>2 DEF RetractSupporters
  <2>4. RetractSupporters(p, snap, r) \subseteq r \/ authorise(p.report)
      BY DEF RetractSupporters, Authorised
  <2>5. QED
      BY <2>1, <2>3, <2>4
<1>5. CASE p.policy = "reviving"
  <2>1. Revise(p, r) = RetractWhileRefuted(p, snap, r)
      BY <1>5 DEF Revise
  <2>2. QED
      BY <1>1, <1>2, <2>1 DEF RetractWhileRefuted
<1>6. QED
    BY <1>3, <1>4, <1>5, PoliciesAreKnown

-----------------------------------------------------------------------------
(* The invariant.                                                           *)

LEMMA InvInit == Init => LoopInv
<1> SUFFICES ASSUME Init PROVE LoopInv
    OBVIOUS
<1>1. DraftInv
    BY DEF Init, DraftInv, DraftsOf
<1>2. PlanInv /\ FixpointInv
    BY DEF Init, PlanInv, FixpointInv
<1>3. RunInv /\ RetractedInv
    BY DEF Init, RunInv, RetractedInv, Loop!Start
<1>4. QED
    BY <1>1, <1>2, <1>3 DEF LoopInv

\* Drafts that are outdated are still drafts of the same proposals.
LEMMA OutdatedDrafts ==
    ASSUME NEW ds, NEW written, DraftsOf(ds, written)
    PROVE  DraftsOf(Outdated(ds), written)
<1> DEFINE stale(b) == [b EXCEPT !.fresh = FALSE]
<1>1. \A a \in Outdated(ds) : \E b \in ds : a = stale(b)
    BY DEF Outdated
<1>2. ASSUME NEW b \in ds
      PROVE  stale(b).proposal = b.proposal /\ Draft(stale(b))
  <2>1. PICK Value : b \in [proposal : Proposal, confidence : Value, fresh : BOOLEAN]
      BY DEF DraftsOf, Draft
  <2>2. /\ stale(b).proposal = b.proposal
        /\ stale(b) \in [proposal : Proposal, confidence : Value, fresh : BOOLEAN]
      BY <2>1
  <2>3. QED
      BY <2>2 DEF Draft
<1> HIDE DEF stale
<1>3. QED
    BY <1>1, <1>2 DEF DraftsOf

\* The load fixes the plan and starts from nothing retracted.
LEMMA LoadInv ==
    ASSUME LoopInv, NEW q \in Caller, Load(q.policy, q.asked, q.report)
    PROVE  LoopInv'
<1> USE DEF Load
<1>1. DraftInv'
    BY DEF LoopInv, DraftInv, deriving
<1>2. PlanInv'
    BY DEF LoopInv, PlanInv, load_evidential_edges, Policy
<1>3. trajectory' = <<{}>> /\ state' = {} /\ status' = "running" /\ pc' = "loop"
    BY DEF Restart
<1>4. RunInv'
    BY <1>3 DEF RunInv
<1>5. RetractedInv' /\ FixpointInv'
    BY <1>3 DEF RetractedInv, FixpointInv
<1>6. QED
    BY <1>1, <1>2, <1>4, <1>5 DEF LoopInv

\* An iteration records the revision of the state reached, or stops with it.
LEMMA IterateInv ==
    ASSUME LoopInv, Iterate
    PROVE  LoopInv'
<1> DEFINE nxt == Revise(plan, Loop!current)
<1>1. /\ pc = "loop" /\ status = "running" /\ trajectory \in Seq(SUBSET Node)
      /\ trajectory # <<>> /\ state = Loop!current
    BY DEF Iterate, LoopInv, RunInv, Loop!current
<1>2. Len(trajectory) \in Nat \ {0} /\ state \in SUBSET Node
    BY <1>1 DEF Loop!current
<1>3. plan.policy \in Policy /\ plan.edges \subseteq EvidenceEdge
    BY <1>1 DEF LoopInv, PlanInv
<1>4. nxt \in SUBSET Node /\ (nxt \subseteq state \/ authorise(plan.report))
    BY <1>1, <1>2, <1>3, ReviseStep
<1>5. nxt # {} => authorise(plan.report)
    BY <1>4 DEF LoopInv, RetractedInv
<1>6. Loop!Converge(nxt) \/ Loop!Oscillate(nxt) \/ Loop!Advance(nxt)
    BY DEF Iterate, Loop!Iterate
<1>7. DraftInv' /\ PlanInv'
    BY DEF LoopInv, DraftInv, PlanInv, Iterate, deriving
<1>8. state' = nxt /\ plan' = plan
    BY <1>6 DEF Iterate, Loop!Converge, Loop!Oscillate, Loop!Advance
<1>9. RunInv'
  <2>1. pc' = IF status' = "running" THEN "loop" ELSE "commit"
      BY DEF Iterate
  <2>2. CASE status' = "running"
    <3>1. trajectory' = Append(trajectory, nxt)
        BY <1>6, <2>2 DEF Loop!Converge, Loop!Oscillate, Loop!Advance
    <3>2. trajectory' \in Seq(SUBSET Node) /\ trajectory' # <<>> /\ trajectory'[Len(trajectory')] = nxt
        BY <3>1, <1>1, <1>2, <1>4
    <3>3. QED
        BY <2>1, <2>2, <3>2, <1>8 DEF RunInv
  <2>3. CASE status' # "running"
      BY <2>1, <2>3, <1>4, <1>8 DEF RunInv
  <2>4. QED
      BY <2>2, <2>3
<1>10. RetractedInv'
    BY <1>5, <1>8 DEF RetractedInv
<1>11. FixpointInv'
  <2> SUFFICES ASSUME status' = "converged"
               PROVE  Revise(plan, nxt) = nxt
      BY <1>8 DEF FixpointInv
  <2>1. Loop!Converge(nxt)
      BY <1>6 DEF Loop!Oscillate, Loop!Advance
  <2>2. nxt = Loop!current
      BY <2>1 DEF Loop!Converge, Identity
  <2>3. QED
      BY <2>2
<1>12. QED
    BY <1>7, <1>9, <1>10, <1>11 DEF LoopInv

\* A commit ends the run.
LEMMA CommitInv ==
    ASSUME LoopInv, Commit
    PROVE  LoopInv'
<1>1. pc' = "idle" /\ state' = {} /\ edges' = edges /\ derived' = derived
    BY DEF Commit, Restart
<1>2. drafts' = drafts \/ drafts' = Outdated(drafts)
    BY DEF Commit
<1>3. DraftInv'
    BY <1>1, <1>2, OutdatedDrafts DEF LoopInv, DraftInv
<1>4. PlanInv' /\ RunInv' /\ RetractedInv' /\ FixpointInv'
    BY <1>1 DEF LoopInv, PlanInv, RunInv, RetractedInv, FixpointInv
<1>5. QED
    BY <1>3, <1>4 DEF LoopInv

\* Other sessions change edges and boxes, and make drafts stale.
LEMMA SessionInv ==
    ASSUME LoopInv,
           (\E e \in EvidenceEdge : AddEvidence(e)) \/ (\E b \in Box : deprecate_box(b))
    PROVE  LoopInv'
<1>1. /\ UNCHANGED <<derived, plan, loop, pc>>
      /\ edges' \subseteq EvidenceEdge
      /\ drafts' = drafts \/ drafts' = Outdated(drafts)
    BY DEF AddEvidence, deprecate_box, deriving, LoopInv, PlanInv
<1>2. DraftInv'
    BY <1>1, OutdatedDrafts DEF LoopInv, DraftInv
<1>3. PlanInv' /\ RunInv' /\ RetractedInv' /\ FixpointInv'
    BY <1>1 DEF LoopInv, PlanInv, RunInv, RetractedInv, FixpointInv, loop, Revise,
                retract_authorised_refuted, RetractSupporters, RetractWhileRefuted, Authorised
<1>4. QED
    BY <1>2, <1>3 DEF LoopInv

\* A derive call drafts a proposal nobody has drafted or written, and writes
\* it once.
LEMMA DeriveInv ==
    ASSUME LoopInv,
           (\E d \in Proposal : DeriveLoad(d)) \/ (\E draft \in drafts : DeriveWrite(draft))
    PROVE  LoopInv'
<1>1. UNCHANGED <<edges, plan, loop, pc>>
    BY DEF DeriveLoad, DeriveWrite
<1>2. DraftInv'
  <2>1. ASSUME NEW d \in Proposal, DeriveLoad(d)
        PROVE  DraftInv'
    <3>1. PICK m \in StrengthMaps :
            drafts' = drafts \cup {[proposal |-> d, fresh |-> TRUE,
                                   confidence |-> value_conclusion(ActiveSubgraph(m), d)]}
        BY <2>1 DEF DeriveLoad
    <3> DEFINE value == value_conclusion(ActiveSubgraph(m), d)
               new == [proposal |-> d, confidence |-> value, fresh |-> TRUE]
    <3> HIDE DEF value
    <3>2. new \in [proposal : Proposal, confidence : {value}, fresh : BOOLEAN] /\ new.proposal = d
        OBVIOUS
    <3>3. drafts' = drafts \cup {new}
        BY <3>1 DEF value
    <3> HIDE DEF new
    <3>4. d \notin derived /\ derived' = derived /\ \A a \in drafts : a.proposal # d
        BY <2>1 DEF DeriveLoad
    <3>5. DraftsOf(drafts', derived)
        BY <3>2, <3>3, <3>4 DEF LoopInv, DraftInv, DraftsOf, Draft
    <3>6. QED
        BY <3>4, <3>5 DEF LoopInv, DraftInv
  <2>2. ASSUME NEW draft \in drafts, DeriveWrite(draft)
        PROVE  DraftInv'
    <3>1. /\ drafts' = Outdated(drafts \ {draft})
          /\ derived' = derived \cup {draft.proposal}
          /\ draft.proposal \in Rule
        BY <2>2, GraphIsTyped DEF DeriveWrite, LoopInv, DraftInv, DraftsOf
    <3>2. DraftsOf(drafts \ {draft}, derived')
        BY <3>1 DEF LoopInv, DraftInv, DraftsOf
    <3>3. QED
        BY <3>1, <3>2, OutdatedDrafts DEF LoopInv, DraftInv
  <2>3. QED
      BY <2>1, <2>2
<1>3. PlanInv' /\ RunInv' /\ RetractedInv' /\ FixpointInv'
    BY <1>1 DEF LoopInv, PlanInv, RunInv, RetractedInv, FixpointInv, loop, Revise,
                retract_authorised_refuted, RetractSupporters, RetractWhileRefuted, Authorised
<1>4. QED
    BY <1>2, <1>3 DEF LoopInv

LEMMA InvNext == LoopInv /\ [Next]_vars => LoopInv'
<1>1. ASSUME LoopInv, Next PROVE LoopInv'
    BY <1>1, LoadInv, IterateInv, CommitInv, SessionInv, DeriveInv DEF Next
<1>2. ASSUME LoopInv, UNCHANGED vars PROVE LoopInv'
    BY <1>2 DEF vars, loop, deriving, LoopInv, DraftInv, PlanInv, RunInv, RetractedInv, FixpointInv
<1>3. QED
    BY <1>1, <1>2

-----------------------------------------------------------------------------
(* The action properties.                                                   *)

\* authorise is what the ensemble's agreement comes down to.
LEMMA AuthorisedIsAgreed == \A report : authorise(report) => EnsembleAgreed(report)
BY DEF authorise, EnsembleAgreed, DEFAULT_GATE

\* A step that marks a hypothesis refuted or retracts a node is a commit of
\* a run whose report the gate passed.
LEMMA FlipStep ==
    ASSUME LoopInv, [Next]_vars,
           \/ \E h \in Hypothesis : hstate'[h] = "refuted" /\ hstate[h] # "refuted"
           \/ current \ current' # {}
    PROVE  EnsembleAgreed(plan.report)
<1>1. Commit /\ MayPersist
  <2>1. CASE UNCHANGED store
      BY <2>1 DEF store
  <2>2. CASE \E draft \in drafts : DeriveWrite(draft)
      BY <2>2 DEF DeriveWrite
  <2>3. CASE Commit
      BY <2>3 DEF Commit, store
  <2>4. QED
      BY <2>1, <2>2, <2>3 DEF Next, vars, Iterate, Load, AddEvidence, deprecate_box, DeriveLoad
<1> DEFINE snap == adjudicate_at(plan, state)
<1>2. persist(snap, state)
    BY <1>1 DEF Commit
<1>3. CASE current \ current' # {}
  <2>1. state # {}
      BY <1>2, <1>3 DEF persist
  <2>2. QED
      BY <2>1, AuthorisedIsAgreed DEF LoopInv, RetractedInv
<1>4. ASSUME NEW h \in Hypothesis, hstate'[h] = "refuted", hstate[h] # "refuted"
      PROVE  EnsembleAgreed(plan.report)
  <2> DEFINE judged == DOMAIN snap.verdicts \cap current
             held == {g \in judged : refutation_held(plan, g, snap.verdicts[g])}
  <2>1. hstate'[h] = IF h \in held THEN PriorState(h)
                     ELSE IF h \in judged THEN snap.verdicts[h] ELSE hstate[h]
      BY <1>2 DEF persist, persist_verdicts
  <2>2. h \in judged /\ h \notin held /\ snap.verdicts[h] = "refuted"
      BY <2>1, <1>4 DEF PriorState
  <2>3. Authorised(plan, h)
      BY <2>2 DEF refutation_held
  <2>4. QED
      BY <2>3, AuthorisedIsAgreed DEF Authorised
<1>5. QED
    BY <1>3, <1>4

\* Only a commit of a run that converged changes stored beliefs without
\* deriving anything.
LEMMA CommitsPersist ==
    ASSUME LoopInv, [Next]_vars, derived' = derived, store' # store
    PROVE  Commit /\ MayPersist
<1>1. CASE \E draft \in drafts : DeriveWrite(draft)
    BY <1>1 DEF DeriveWrite, LoopInv, DraftInv, DraftsOf
<1>2. CASE Commit
    BY <1>2 DEF Commit
<1>3. QED
    BY <1>1, <1>2 DEF Next, vars, Iterate, Load, AddEvidence, deprecate_box, DeriveLoad

\* What it commits is a genuine fixpoint.
LEMMA CommitStep ==
    ASSUME LoopInv, [Next]_vars, derived' = derived, store' # store
    PROVE  Revise(plan, state) = state
<1>1. pc = "commit" /\ status = "converged"
    BY CommitsPersist DEF Commit, MayPersist
<1>2. QED
    BY <1>1 DEF LoopInv, FixpointInv

\* Whatever the graph, the numbers and the injected policy: no hypothesis is
\* marked refuted and no node retracted unless the ensemble agreed.
THEOREM RefutationIsAuthorised == Spec => NothingFlipsUnauthorised
<1>1. LoopInv /\ [Next]_vars =>
        [((\E h \in Hypothesis : hstate'[h] = "refuted" /\ hstate[h] # "refuted")
            \/ current \ current' # {}) => EnsembleAgreed(plan.report)]_vars
    BY FlipStep
<1>2. QED
    BY <1>1, InvInit, InvNext, PTL DEF Spec, NothingFlipsUnauthorised

\* Whatever the policy, a run commits only what it computed at a fixpoint.
THEOREM CommitsAreFixpoints == Spec => CommitsOnlyFixpoints
<1>1. LoopInv /\ [Next]_vars =>
        [(derived' = derived /\ store' # store) => Revise(plan, state) = state]_vars
    BY CommitStep
<1>2. QED
    BY <1>1, InvInit, InvNext, PTL DEF Spec, CommitsOnlyFixpoints

-----------------------------------------------------------------------------
(* The default policy converges.                                            *)

\* Only the policy that retracts supporters takes more than hypotheses.
HypothesesInv == (pc # "idle" /\ plan.policy # "supporters") => state \subseteq Hypothesis

\* Under the default policy every iteration so far has added a hypothesis to
\* those retracted, and none has met an earlier state again.
GrowthInv ==
    (pc # "idle" /\ plan.policy = "default") =>
        /\ pc = "commit" => status = "converged"
        /\ pc = "loop" => /\ iterations \in Nat /\ iterations <= Cardinality(state)
                          /\ \A i \in 1 .. Len(trajectory) : trajectory[i] \subseteq state

\* A step of the other policies goes from hypotheses to hypotheses, and the
\* default one only adds to them.
LEMMA ReviseHypotheses ==
    ASSUME NEW p, NEW r, p.policy \in Policy
    PROVE  /\ (p.policy # "supporters" /\ r \subseteq Hypothesis) => Revise(p, r) \subseteq Hypothesis
           /\ p.policy = "default" => r \subseteq Revise(p, r)
<1>1. RefutedIn(adjudicate_at(p, r)) \subseteq Hypothesis
    BY RefutedAreHypotheses
<1>2. QED
    BY <1>1, PoliciesAreKnown DEF Revise, retract_authorised_refuted, RetractWhileRefuted

LEMMA HypothesesNext == LoopInv /\ HypothesesInv /\ [Next]_vars => HypothesesInv'
<1> SUFFICES ASSUME LoopInv, HypothesesInv, [Next]_vars
             PROVE  HypothesesInv'
    OBVIOUS
<1>1. CASE Iterate
  <2>1. pc = "loop" /\ plan' = plan /\ state = Loop!current /\ plan.policy \in Policy
      BY <1>1 DEF Iterate, LoopInv, RunInv, PlanInv, Loop!current
  <2>2. state' = Revise(plan, state)
      BY <1>1, <2>1 DEF Iterate, Loop!Iterate, Loop!Converge, Loop!Oscillate, Loop!Advance
  <2>3. QED
      BY <2>1, <2>2, ReviseHypotheses DEF HypothesesInv
<1>2. CASE Commit
    BY <1>2 DEF Commit, HypothesesInv
<1>3. CASE \E q \in Caller : Load(q.policy, q.asked, q.report)
    BY <1>3 DEF Load, Restart, HypothesesInv
<1>4. CASE UNCHANGED <<plan, loop, pc>>
    BY <1>4 DEF HypothesesInv, loop
<1>5. QED
    BY <1>1, <1>2, <1>3, <1>4
       DEF Next, vars, AddEvidence, deprecate_box, DeriveLoad, DeriveWrite

\* A strictly greater set of hypotheses has at least one more.
LEMMA GrowthCounts ==
    ASSUME NEW r, NEW s, r \subseteq s, r # s, s \subseteq Hypothesis
    PROVE  /\ Cardinality(r) \in Nat /\ Cardinality(s) \in Nat /\ Cardinality(Hypothesis) \in Nat
           /\ Cardinality(r) + 1 <= Cardinality(s)
           /\ Cardinality(s) <= Cardinality(Hypothesis)
<1>1. IsFiniteSet(Hypothesis)
    BY FiniteUniverse, GraphIsTyped, FS_Subset
<1>2. IsFiniteSet(r) /\ IsFiniteSet(s)
    BY <1>1, FS_Subset
<1>3. /\ Cardinality(r) \in Nat /\ Cardinality(s) \in Nat /\ Cardinality(Hypothesis) \in Nat
      /\ Cardinality(s) <= Cardinality(Hypothesis)
      /\ Cardinality(r) <= Cardinality(s) /\ (Cardinality(r) = Cardinality(s) => r = s)
    BY <1>1, <1>2, FS_Subset, FS_CardinalityType
<1>4. QED
    BY <1>3

\* One iteration of the default policy: it converges, or adds a hypothesis
\* and has iterations left as long as the bound exceeds their number.
LEMMA GrowthIterate ==
    ASSUME MaxSteps > Cardinality(Hypothesis), LoopInv, HypothesesInv, GrowthInv, Iterate
    PROVE  GrowthInv'
<1> SUFFICES ASSUME plan.policy = "default"
             PROVE  GrowthInv'
    BY DEF GrowthInv, Iterate
<1> DEFINE nxt == Revise(plan, state)
<1>1. /\ pc = "loop" /\ plan' = plan /\ state = Loop!current /\ plan.policy \in Policy
      /\ trajectory \in Seq(SUBSET Node) /\ trajectory # <<>>
      /\ state = trajectory[Len(trajectory)] /\ iterations' = iterations + 1
      /\ state \subseteq Hypothesis /\ iterations \in Nat /\ iterations <= Cardinality(state)
      /\ \A i \in 1 .. Len(trajectory) : trajectory[i] \subseteq state
    BY DEF Iterate, LoopInv, RunInv, PlanInv, HypothesesInv, GrowthInv, Loop!current, Loop!Iterate
<1>2. state \subseteq nxt /\ nxt \subseteq Hypothesis
    BY <1>1, ReviseHypotheses
<1>3. /\ Loop!Converge(nxt) \/ Loop!Oscillate(nxt) \/ Loop!Advance(nxt)
      /\ pc' = IF status' = "running" THEN "loop" ELSE "commit"
    BY <1>1 DEF Iterate, Loop!Iterate
<1>4. CASE Loop!Converge(nxt)
    BY <1>3, <1>4 DEF Loop!Converge, GrowthInv
<1>5. CASE Loop!Oscillate(nxt)
  <2>1. nxt # state /\ \E i \in 1 .. Len(trajectory) : trajectory[i] = nxt
      BY <1>1, <1>5 DEF Loop!Oscillate, Loop!Seen, Identity
  <2>2. QED
      BY <1>1, <1>2, <2>1
<1>6. CASE Loop!Advance(nxt)
  <2>1. nxt # state /\ state' = nxt /\ trajectory' = Append(trajectory, nxt)
      BY <1>1, <1>6 DEF Loop!Advance, Identity
  <2>2. /\ Cardinality(state) \in Nat /\ Cardinality(nxt) \in Nat
        /\ Cardinality(Hypothesis) \in Nat
        /\ Cardinality(state) + 1 <= Cardinality(nxt)
        /\ Cardinality(nxt) <= Cardinality(Hypothesis)
      BY <1>2, <2>1, GrowthCounts
  <2>3. iterations' \in Nat /\ iterations' <= Cardinality(nxt)
      BY <1>1, <2>2
  <2>4. ~Loop!LastOne
      BY <1>1, <2>2, StepsArePositive DEF Loop!LastOne
  <2>5. status' = "running" /\ pc' = "loop"
      BY <1>3, <1>6, <2>4 DEF Loop!Advance
  <2>6. \A i \in 1 .. Len(trajectory') : trajectory'[i] \subseteq nxt
      BY <1>1, <1>2, <2>1
  <2>7. QED
      BY <2>1, <2>3, <2>5, <2>6 DEF GrowthInv
<1>7. QED
    BY <1>3, <1>4, <1>5, <1>6

LEMMA GrowthNext ==
    ASSUME MaxSteps > Cardinality(Hypothesis), LoopInv, HypothesesInv, GrowthInv, [Next]_vars
    PROVE  GrowthInv'
<1>1. CASE Iterate
    BY <1>1, GrowthIterate
<1>2. CASE Commit
    BY <1>2 DEF Commit, GrowthInv
<1>3. CASE \E q \in Caller : Load(q.policy, q.asked, q.report)
  <2>1. trajectory' = <<{}>> /\ iterations' = 0 /\ state' = {} /\ pc' = "loop"
      BY <1>3 DEF Load, Restart
  <2>2. Cardinality({}) = 0
      BY FS_EmptySet
  <2>3. QED
      BY <2>1, <2>2 DEF GrowthInv
<1>4. CASE UNCHANGED <<plan, loop, pc>>
    BY <1>4 DEF GrowthInv, loop
<1>5. QED
    BY <1>1, <1>2, <1>3, <1>4
       DEF Next, vars, AddEvidence, deprecate_box, DeriveLoad, DeriveWrite

\* With more iterations than hypotheses the default policy always converges:
\* what it has retracted only grows, so it cannot come back to an earlier
\* state, and it cannot grow that often.
THEOREM DefaultConverges ==
    ASSUME MaxSteps > Cardinality(Hypothesis)
    PROVE  Spec => []DefaultPolicyConverges
<1>1. Init => HypothesesInv /\ GrowthInv
    BY DEF Init, HypothesesInv, GrowthInv
<1>2. GrowthInv => DefaultPolicyConverges
    BY DEF GrowthInv, DefaultPolicyConverges
<1>3. QED
    BY <1>1, <1>2, InvInit, InvNext, HypothesesNext, GrowthNext, PTL DEF Spec

-----------------------------------------------------------------------------
(* Premises that stand.                                                     *)

\* Premises are given and no hypotheses: they exist from the start, and no
\* policy but the one that retracts supporters takes them away.
PremisesStand == \A d \in Rule : d.body \subseteq Given \ Hypothesis

StandingInv == Given \ Hypothesis \subseteq current

LEMMA StandingNext ==
    ASSUME "supporters" \notin Policy, LoopInv, HypothesesInv, StandingInv, [Next]_vars
    PROVE  StandingInv'
<1>1. CASE Commit
  <2>1. state \subseteq Hypothesis
      BY <1>1 DEF Commit, HypothesesInv, LoopInv, PlanInv
  <2>2. current \ state \subseteq current'
      BY <1>1 DEF Commit, persist, store
  <2>3. QED
      BY <2>1, <2>2 DEF StandingInv
<1>2. CASE \E draft \in drafts : DeriveWrite(draft)
    BY <1>2 DEF DeriveWrite, StandingInv
<1>3. CASE UNCHANGED current
    BY <1>3 DEF StandingInv
<1>4. QED
    BY <1>1, <1>2, <1>3
       DEF Next, vars, store, Iterate, Load, AddEvidence, deprecate_box, DeriveLoad

\* Where every premise stands, a group is read as it was written.
LEMMA ReadAsWritten ==
    ASSUME PremisesStand, StandingInv, derived \subseteq Rule, NEW d \in derived
    PROVE  Reading(d) = d
<1>1. d \in [conclusion : Node, body : SUBSET Node] /\ d.body \subseteq current
    BY RulesAreDerivations DEF Derivation, PremisesStand, StandingInv
<1>2. d.body \cap current = d.body
    BY <1>1
<1>3. QED
    BY <1>1, <1>2 DEF Reading, LoadedBody

-----------------------------------------------------------------------------
(* Graphs that share a part.                                                *)

\* Two graphs share a part K: the same facts, and the same derivations, which
\* take no premise from outside.
SharedOn(K, base, derivs, base2, derivs2) ==
    /\ base \cap K = base2 \cap K
    /\ {d \in derivs : d.conclusion \in K} = {d \in derivs2 : d.conclusion \in K}
    /\ \A d \in derivs : d.conclusion \in K => d.body \subseteq K

\* What the rest of a graph looks like does not matter to the support of K.
LEMMA SharedSupport ==
    ASSUME NEW K, NEW base \in SUBSET Node, NEW derivs \in SUBSET Derivation,
           NEW base2 \in SUBSET Node, NEW derivs2 \in SUBSET Derivation,
           SharedOn(K, base, derivs, base2, derivs2)
    PROVE  WellFoundedSupport(base, derivs) \cap K \subseteq WellFoundedSupport(base2, derivs2)
<1> DEFINE W == WellFoundedSupport(base2, derivs2)
           S == (W \cap K) \cup (Node \ K)
<1>1. Closed(W, base2, derivs2) /\ W \subseteq Node
    BY SupportCloses DEF WellFoundedSupport
<1> HIDE DEF W
<1>2. base \subseteq S
    BY <1>1 DEF SharedOn, Closed
<1>3. ASSUME NEW d \in derivs, d.body \subseteq S
      PROVE  d.conclusion \in S
  <2>1. d.conclusion \in Node
      BY DEF Derivation
  <2>2. CASE d.conclusion \in K
    <3>1. d \in derivs2 /\ d.body \subseteq K
        BY <2>2 DEF SharedOn
    <3>2. d.body \subseteq W
        BY <1>3, <3>1
    <3>3. QED
        BY <1>1, <2>2, <3>1, <3>2 DEF Closed
  <2>3. QED
      BY <2>1, <2>2
<1>4. S \in SUBSET Node /\ Closed(S, base, derivs)
    BY <1>1, <1>2, <1>3 DEF Closed
<1> HIDE DEF S
<1>5. WellFoundedSupport(base, derivs) \subseteq S
    BY <1>4 DEF WellFoundedSupport
<1>6. QED
    BY <1>5 DEF S, W

\* Two calls on what Layer A certifies, which agree on a part K.
Certified(a) == a.supported = WellFoundedSupport(a.graph.base_facts, a.graph.derivations)
Sharing(a, b, K) ==
    /\ IsCall(a) /\ IsCall(b) /\ Certified(a) /\ Certified(b)
    /\ SharedOn(K, a.graph.base_facts, a.graph.derivations, b.graph.base_facts, b.graph.derivations)
    /\ a.semiring = b.semiring
    /\ \A d \in a.graph.derivations : d.conclusion \in K => a.strength[d] = b.strength[d]

\* On K the second is worth no more than the first, if its evidence is not.
LEMMA SharedBound ==
    ASSUME NEW a, NEW b, NEW K, Sharing(a, b, K),
           \A n \in b.graph.base_facts \cap K : b.base_confidence[n] <= Least(a)[n]
    PROVE  \A n \in Node \cap K : Least(b)[n] <= Least(a)[n]
<1> DEFINE v == Least(a)
           w == [n \in Node |-> IF n \in K THEN v[n] ELSE One]
<1>1. IsCall(a) /\ IsCall(b) /\ Certified(a) /\ Certified(b)
      /\ SharedOn(K, a.graph.base_facts, a.graph.derivations, b.graph.base_facts, b.graph.derivations)
    BY DEF Sharing
<1>2. v \in Valued /\ PreFixpoint(a, v)
    BY <1>1, LeastExists DEF IsLeast
<1>3. \A n \in b.graph.base_facts \cap K : b.base_confidence[n] <= v[n]
    OBVIOUS
<1> HIDE DEF v
<1>4. w \in Valued /\ \A n \in Node : w[n] = IF n \in K THEN v[n] ELSE One
    BY <1>2, TopIsANatural DEF Valued, Level
<1> HIDE DEF w
<1>5. b.supported \cap K \subseteq a.supported
  <2>1. SharedOn(K, b.graph.base_facts, b.graph.derivations, a.graph.base_facts, a.graph.derivations)
      BY <1>1 DEF SharedOn
  <2>2. QED
      BY <1>1, <2>1, SharedSupport DEF IsCall, Certified
<1>6. ASSUME NEW n \in b.supported \cap b.graph.base_facts
      PROVE  b.base_confidence[n] <= w[n]
    BY <1>1, <1>3, <1>4 DEF IsCall, Level
<1>7. ASSUME NEW d \in b.graph.derivations, d.conclusion \in b.supported, d.body \subseteq b.supported
      PROVE  Contribution(b, w, d) <= w[d.conclusion]
  <2>1. d.conclusion \in Node /\ Contribution(b, w, d) \in Level
      BY <1>1, <1>4, ContributionIsALevel DEF IsCall, Derivation
  <2>2. CASE d.conclusion \in K
    <3>1. d \in a.graph.derivations /\ d.body \subseteq K /\ b.strength[d] = a.strength[d]
          /\ a.semiring = b.semiring
        BY <2>2, <1>1 DEF SharedOn, Sharing
    <3>2. d.conclusion \in a.supported /\ d.body \subseteq a.supported
        BY <1>5, <1>7, <2>2, <3>1
    <3>3. d.body \in SUBSET Node /\ IsFiniteSet(d.body) /\ b.semiring \in Semiring
        BY <1>1, FiniteUniverse, FS_Subset DEF IsCall, Derivation
    <3>4. combine_body(b.semiring, v, d.body) = combine_body(b.semiring, w, d.body)
      <4>1. \A m \in d.body : v[m] \in Level /\ w[m] = v[m]
          BY <1>2, <1>4, <3>1, <3>3 DEF Valued
      <4>2. QED
          BY <3>3, <4>1, BodyReadsMembers
    <3>5. Contribution(b, w, d) = Contribution(a, v, d)
        BY <3>1, <3>4 DEF Contribution
    <3>6. Contribution(a, v, d) <= v[d.conclusion]
        BY <1>2, <3>1, <3>2 DEF PreFixpoint
    <3>7. QED
        BY <1>4, <2>1, <2>2, <3>5, <3>6
  <2>3. CASE d.conclusion \notin K
      BY <1>4, <2>1, <2>3 DEF Level
  <2>4. QED
      BY <2>2, <2>3
<1>8. PreFixpoint(b, w)
    BY <1>6, <1>7 DEF PreFixpoint
<1>9. Below(Least(b), w)
    BY <1>1, <1>4, <1>8, LeastExists DEF IsLeast
<1>10. QED
    BY <1>4, <1>9 DEF Below, v

\* Raising the evidence of facts up to what they are worth anyway, as the
\* write-back does, changes nothing.
LEMMA SharedValues ==
    ASSUME NEW a, NEW b, NEW K, Sharing(a, b, K),
           \A n \in a.graph.base_facts \cap K :
               a.base_confidence[n] <= b.base_confidence[n] /\ b.base_confidence[n] <= Least(a)[n]
    PROVE  \A n \in Node \cap K : valuate(b)[n] = valuate(a)[n]
<1>1. /\ IsCall(a) /\ IsCall(b) /\ Certified(a) /\ Certified(b) /\ Sharing(b, a, K)
      /\ a.graph.base_facts \cap K = b.graph.base_facts \cap K
    BY DEF Sharing, SharedOn
<1>2. Least(a) \in Valued /\ Least(b) \in Valued /\ PreFixpoint(b, Least(b))
    BY <1>1, LeastExists DEF IsLeast
<1>3. ASSUME NEW n \in a.graph.base_facts \cap K
      PROVE  a.base_confidence[n] <= Least(b)[n]
  <2>1. n \in b.graph.base_facts /\ n \in b.supported /\ n \in Node
      BY <1>1 DEF Certified, WellFoundedSupport, Closed, IsCall
  <2>2. b.base_confidence[n] <= Least(b)[n]
      BY <1>2, <2>1 DEF PreFixpoint
  <2>3. a.base_confidence[n] \in Level /\ b.base_confidence[n] \in Level /\ Least(b)[n] \in Level
      BY <1>1, <1>2, <2>1 DEF IsCall, Valued
  <2>4. QED
      BY <2>2, <2>3 DEF Level
<1>4. \A n \in Node \cap K : Least(b)[n] <= Least(a)[n]
    BY <1>1, SharedBound
<1>5. \A n \in Node \cap K : Least(a)[n] <= Least(b)[n]
    BY <1>1, <1>3, SharedBound
<1>6. \A n \in Node \cap K : Least(a)[n] = Least(b)[n]
    BY <1>2, <1>4, <1>5 DEF Valued, Level
<1>7. QED
    BY <1>1, <1>6, ValuateIsLeast

-----------------------------------------------------------------------------
(* The valuation of a plan.                                                 *)

\* The call of valuate that LayerB makes.
CallOf(p, g) == [graph |-> g, supported |-> LayerA(g), base_confidence |-> p.confidence,
                 strength |-> p.strength, semiring |-> DEFAULT_SEMIRING]

\* Confidences and strengths are levels, and what is to be valued is a graph.
Valuable(p, g) ==
    /\ p.confidence \in Valued
    /\ g.base_facts \subseteq Node /\ g.derivations \subseteq Derivation
    /\ \A d \in g.derivations : p.strength[d] \in Level

\* The same of a graph whose derivations are read as they were written.
Sound(p, g) ==
    /\ p.confidence \in Valued
    /\ g.base_facts \subseteq Node /\ g.derivations \subseteq Rule
    /\ \A d \in g.derivations : p.strength[d] = Strengths[d]

LEMMA GraphsAreCalls ==
    ASSUME NEW p, NEW g, Valuable(p, g)
    PROVE  /\ IsCall(CallOf(p, g)) /\ Certified(CallOf(p, g))
           /\ LayerB(p, g) = Least(CallOf(p, g))
           /\ LayerB(p, g) \in Valued
           /\ \A n \in g.base_facts : p.confidence[n] <= LayerB(p, g)[n]
           /\ \A n \in Node \ LayerA(g) : LayerB(p, g)[n] = 0
<1> DEFINE a == CallOf(p, g)
<1>1. /\ a.graph = g /\ a.supported = WellFoundedSupport(g.base_facts, g.derivations)
      /\ a.base_confidence = p.confidence /\ a.strength = p.strength /\ a.semiring = "godel"
      /\ LayerB(p, g) = valuate(a)
    BY DEF CallOf, LayerA, LayerB, DEFAULT_SEMIRING
<1> HIDE DEF a
<1>2. a.supported \subseteq Node /\ g.base_facts \subseteq a.supported
    BY <1>1 DEF WellFoundedSupport, Closed, Valuable
<1>3. \A d \in g.derivations : a.strength[d] \in Level
    BY <1>1 DEF Valuable
<1>4. IsCall(a) /\ Certified(a)
    BY <1>1, <1>2, <1>3 DEF IsCall, Certified, Valuable, Valued, Semiring
<1>5. /\ LayerB(p, g) = Least(a) /\ Least(a) \in Valued /\ PreFixpoint(a, Least(a))
      /\ \A n \in Node : Revalue(a, Least(a), n) = Least(a)[n]
    BY <1>1, <1>4, ValuateIsLeast, LeastExists, LeastIsFixed DEF IsLeast
<1>6. \A n \in g.base_facts : p.confidence[n] <= Least(a)[n]
    BY <1>1, <1>2, <1>5 DEF PreFixpoint
<1>7. \A n \in Node \ LayerA(g) : Least(a)[n] = 0
    BY <1>1, <1>5 DEF Revalue, LayerA
<1>8. QED
    BY <1>4, <1>5, <1>6, <1>7 DEF a

LEMMA PlansAreCalls ==
    ASSUME NEW p, NEW g, Sound(p, g)
    PROVE  /\ IsCall(CallOf(p, g)) /\ Certified(CallOf(p, g))
           /\ LayerB(p, g) = Least(CallOf(p, g))
           /\ LayerB(p, g) \in Valued
           /\ \A n \in g.base_facts : p.confidence[n] <= LayerB(p, g)[n]
           /\ \A n \in Node \ LayerA(g) : LayerB(p, g)[n] = 0
<1>1. Valuable(p, g)
    BY GraphIsTyped, RulesAreDerivations DEF Sound, Valuable
<1>2. QED
    BY <1>1, GraphsAreCalls

\* Two plans share a part of their graphs, where the second may hold the
\* evidence of a fact at what the first makes of it.
PlansShare(K, p, g, p2, g2) ==
    /\ Sound(p, g) /\ Sound(p2, g2)
    /\ SharedOn(K, g.base_facts, g.derivations, g2.base_facts, g2.derivations)
    /\ \A n \in g.base_facts \cap K :
          p2.confidence[n] = p.confidence[n] \/ p2.confidence[n] = LayerB(p, g)[n]

\* They value it alike.
LEMMA SharedLayerB ==
    ASSUME NEW p, NEW g, NEW p2, NEW g2, NEW K, PlansShare(K, p, g, p2, g2)
    PROVE  \A n \in Node \cap K : LayerB(p2, g2)[n] = LayerB(p, g)[n]
<1> DEFINE a == CallOf(p, g)
           b == CallOf(p2, g2)
<1>1. /\ Sound(p, g) /\ Sound(p2, g2)
      /\ SharedOn(K, g.base_facts, g.derivations, g2.base_facts, g2.derivations)
    BY DEF PlansShare
<1>2. /\ a.graph = g /\ b.graph = g2 /\ a.semiring = b.semiring
      /\ a.base_confidence = p.confidence /\ b.base_confidence = p2.confidence
      /\ a.strength = p.strength /\ b.strength = p2.strength
    BY DEF CallOf
<1>3. /\ IsCall(a) /\ IsCall(b) /\ Certified(a) /\ Certified(b)
      /\ LayerB(p, g) = Least(a) /\ LayerB(p2, g2) = Least(b)
      /\ Least(a) \in Valued /\ \A n \in g.base_facts : p.confidence[n] <= Least(a)[n]
    BY <1>1, PlansAreCalls
<1> HIDE DEF a, b
<1>4. \A d \in g.derivations : d.conclusion \in K => p.strength[d] = p2.strength[d]
    BY <1>1 DEF Sound, SharedOn
<1>5. Sharing(a, b, K)
    BY <1>1, <1>2, <1>3, <1>4 DEF Sharing
<1>6. ASSUME NEW n \in g.base_facts \cap K
      PROVE  p.confidence[n] <= p2.confidence[n] /\ p2.confidence[n] <= Least(a)[n]
  <2>1. p.confidence[n] \in Level /\ Least(a)[n] \in Level /\ p.confidence[n] <= Least(a)[n]
      BY <1>1, <1>3 DEF Sound, Valued
  <2>2. p2.confidence[n] = p.confidence[n] \/ p2.confidence[n] = Least(a)[n]
      BY <1>3 DEF PlansShare
  <2>3. QED
      BY <2>1, <2>2 DEF Level
<1>7. \A n \in Node \cap K : valuate(b)[n] = valuate(a)[n]
    BY <1>2, <1>5, <1>6, SharedValues
<1>8. QED
    BY <1>3, <1>7, ValuateIsLeast

-----------------------------------------------------------------------------
(* The adjudication.                                                        *)

\* Edges that their keys put in an order.
Sortable(es) == IsFiniteSet(es) /\ \A e \in es : Id(e.src) \in Nat /\ e.strength \in Strength

LEMMA StrengthsAreNumbers == Strength \subseteq Int
BY QbafBounds DEF Strength

\* Of them, one comes last.
LEMMA LastComesLast ==
    ASSUME NEW es, Sortable(es), es # {}
    PROVE  LastEdge(es) \in es /\ \A d \in es : ~SortsBefore(LastEdge(es), d)
<1> DEFINE id == [e \in es |-> Id(e.src)]
           weight == [e \in es |-> e.strength]
<1>1. /\ IsFiniteSet(es) /\ \A e \in es : id[e] \in Int /\ weight[e] \in Int
      /\ \A e \in es : id[e] = Id(e.src) /\ weight[e] = e.strength
  <2>1. \A e \in es : Id(e.src) \in Nat /\ e.strength \in Int
      BY StrengthsAreNumbers DEF Sortable
  <2>2. \A e \in es : id[e] = Id(e.src) /\ weight[e] = e.strength
      OBVIOUS
  <2>3. QED
      BY <2>1, <2>2 DEF Sortable
<1> HIDE DEF id, weight
<1>2. PICK m \in es : \A e \in es : id[e] <= id[m]
  <2>1. \A e \in es : id[e] \in Int
      BY <1>1
  <2>2. QED
      BY <1>1, <2>1, SomeIsGreatest
<1> DEFINE heads == {e \in es : id[e] = id[m]}
<1>3. PICK l \in heads : \A e \in heads : weight[e] <= weight[l]
  <2>1. heads \subseteq es /\ m \in heads
      OBVIOUS
  <2> HIDE DEF heads
  <2>2. IsFiniteSet(heads) /\ heads # {} /\ \A e \in heads : weight[e] \in Int
      BY <1>1, <2>1, FS_Subset
  <2>3. QED
      BY <2>2, SomeIsGreatest
<1>4. ASSUME NEW d \in es PROVE ~SortsBefore(l, d)
  <2>1. l \in es /\ id[d] <= id[l] /\ (id[d] = id[l] => weight[d] <= weight[l])
      BY <1>2, <1>3
  <2>2. /\ id[d] = Id(d.src) /\ id[l] = Id(l.src) /\ weight[d] = d.strength /\ weight[l] = l.strength
        /\ id[d] \in Int /\ id[l] \in Int /\ weight[d] \in Int /\ weight[l] \in Int
      BY <1>1, <2>1
  <2>3. QED
      BY <2>1, <2>2 DEF SortsBefore
<1>5. l \in es
    OBVIOUS
<1>6. QED
    BY <1>4, <1>5 DEF LastEdge

\* And so in any part of them.
LEMMA PartsSort ==
    ASSUME NEW es, Sortable(es), NEW s \in SUBSET es
    PROVE  Sortable(s) /\ (s # {} => LastEdge(s) \in s)
<1>1. Sortable(s)
    BY FS_Subset DEF Sortable
<1>2. QED
    BY <1>1, LastComesLast

\* What an edge contributes, and a fold of contributions in that order.
Contributed(e, f) == Scaled(e.strength, f[e.src])
Aggregating(es, f, it) ==
    it = [s \in SUBSET es |-> IF s = {} THEN 0
                              ELSE Joined(it[s \ {LastEdge(s)}], Contributed(LastEdge(s), f))]
LEMMA AggregateFolds ==
    ASSUME NEW es, NEW f
    PROVE  _prob_sum(es, f) = (CHOOSE it : Aggregating(es, f, it))[es]
BY DEF _prob_sum, MapThenFoldSet, Aggregating, Contributed

\* An aggregate reads the strengths at the sources of its edges.
LEMMA AggregateReadsSources ==
    ASSUME NEW es, Sortable(es), NEW f, NEW g, \A e \in es : f[e.src] = g[e.src]
    PROVE  _prob_sum(es, f) = _prob_sum(es, g)
<1>1. ASSUME NEW it PROVE Aggregating(es, f, it) <=> Aggregating(es, g, it)
  <2>1. ASSUME NEW s \in SUBSET es, s # {}
        PROVE  Contributed(LastEdge(s), f) = Contributed(LastEdge(s), g)
    <3>1. LastEdge(s) \in es
        BY <2>1, PartsSort
    <3>2. QED
        BY <3>1 DEF Contributed
  <2>2. QED
      BY <2>1 DEF Aggregating
<1>2. (CHOOSE it : Aggregating(es, f, it)) = (CHOOSE it : Aggregating(es, g, it))
    BY <1>1, Zenon
<1>3. QED
    BY <1>2, AggregateFolds

\* Without edges it is zero.
LEMMA NothingAggregates ==
    ASSUME NEW f
    PROVE  _prob_sum({}, f) = 0
<1> DEFINE chosen == CHOOSE it : Aggregating({}, f, it)
<1>1. Aggregating({}, f, [s \in SUBSET {} |-> 0])
    BY DEF Aggregating
<1>2. Aggregating({}, f, chosen)
    BY <1>1
<1> HIDE DEF chosen
<1>3. chosen[{}] = 0
    BY <1>2 DEF Aggregating
<1>4. QED
    BY <1>3, AggregateFolds DEF chosen


\* The sweeps of a solve, from the base scores.
Sweep(baf, base, i, prev) ==
    LET nxt == sweep(baf, base, prev.sigma)
    IN  IF prev.converged THEN prev
        ELSE [sigma |-> nxt, converged |-> nxt = prev.sigma, iterations |-> i]
Unswept(baf, base) ==
    [sigma |-> [a \in baf.arguments |-> base[a]], converged |-> FALSE, iterations |-> 0]
Sweeps(baf, base, k, run) ==
    run = [i \in 0 .. k |-> IF i = 0 THEN Unswept(baf, base) ELSE Sweep(baf, base, i, run[i - 1])]

\* What solve returns is where they end.
Solved(baf, base, end) ==
    [acceptability |-> end.sigma, converged |-> end.converged, iterations |-> end.iterations,
     unstable |-> IF end.converged THEN {} ELSE StillMoving(baf, base, end.sigma)]
LEMMA SolveSweeps ==
    ASSUME NEW baf, NEW base
    PROVE  \E run : /\ Sweeps(baf, base, MaxSweeps, run)
                    /\ solve(baf, base) = Solved(baf, base, run[MaxSweeps])
<1> DEFINE holds == {k \in Nat : \E run : Sweeps(baf, base, k, run)}
<1>1. 0 \in holds
  <2>1. Sweeps(baf, base, 0, [i \in 0 .. 0 |-> Unswept(baf, base)])
      BY DEF Sweeps
  <2>2. QED
      BY <2>1
<1>2. ASSUME NEW k \in Nat, k \in holds PROVE k + 1 \in holds
  <2>1. PICK run : Sweeps(baf, base, k, run)
      BY <1>2
  <2> DEFINE more == [i \in 0 .. k + 1 |-> IF i = 0 THEN Unswept(baf, base)
                                           ELSE Sweep(baf, base, i, run[i - 1])]
  <2>2. \A i \in 0 .. k : i \in 0 .. k + 1 /\ more[i] = run[i]
      BY <2>1 DEF Sweeps
  <2>3. \A i \in 0 .. k + 1 : i # 0 => i - 1 \in 0 .. k
      OBVIOUS
  <2>4. Sweeps(baf, base, k + 1, more)
      BY <2>2, <2>3 DEF Sweeps
  <2>5. QED
      BY <2>4
<1> DEFINE chosen == CHOOSE run : Sweeps(baf, base, MaxSweeps, run)
<1>3. Sweeps(baf, base, MaxSweeps, chosen)
  <2>1. MaxSweeps \in Nat
      BY QbafBounds
  <2> HIDE DEF holds
  <2>2. 0 .. MaxSweeps \subseteq holds
      BY <1>1, <1>2, <2>1, CountingUp
  <2>3. MaxSweeps \in holds
      BY <2>1, <2>2
  <2>4. QED
      BY <2>3 DEF holds
<1>4. solve(baf, base) = Solved(baf, base, chosen[MaxSweeps])
    BY DEF solve, Solved, Sweeps, Sweep, Unswept
<1>5. QED
    BY <1>3, <1>4

\* An argument without edges is left at its base score.
LEMMA UntouchedStands ==
    ASSUME NEW b \in Strength
    PROVE  _df_quad_combine(b, 0, 0) = b
<1>1. b \in Int /\ b * (0 - 0) = 0 /\ Unit \in Nat \ {0}
    BY QbafBounds DEF Strength
<1>2. 0 \div Unit = 0
    BY <1>1
<1>3. QED
    BY <1>1, <1>2 DEF _df_quad_combine, Scaled

\* Two frameworks with the same edges, between arguments of the first; the
\* second has further arguments.
Extends(baf, base, baf2, base2) ==
    /\ baf.arguments \subseteq baf2.arguments
    /\ baf.supports = baf2.supports /\ baf.attacks = baf2.attacks
    /\ Sortable(baf.supports) /\ Sortable(baf.attacks)
    /\ \A e \in baf.supports \cup baf.attacks : e.src \in baf.arguments /\ e.dst \in baf.arguments
    /\ \A a \in baf.arguments : base[a] = base2[a]
    /\ \A a \in baf2.arguments \ baf.arguments : base2[a] \in Level

\* Aggregates do not see them.
LEMMA SameAggregates ==
    ASSUME NEW baf, NEW base, NEW baf2, NEW base2, Extends(baf, base, baf2, base2),
           NEW f, NEW f2, \A a \in baf.arguments : f[a] = f2[a]
    PROVE  \A a \in baf.arguments : /\ AggregateSupport(baf, f, a) = AggregateSupport(baf2, f2, a)
                                    /\ AggregateAttack(baf, f, a) = AggregateAttack(baf2, f2, a)
<1> TAKE a \in baf.arguments
<1>1. /\ Incoming(baf, baf.supports, a) = Incoming(baf2, baf2.supports, a)
      /\ Incoming(baf, baf.attacks, a) = Incoming(baf2, baf2.attacks, a)
    BY DEF Extends, Incoming
<1>2. /\ \A e \in Incoming(baf, baf.supports, a) : f[e.src] = f2[e.src]
      /\ \A e \in Incoming(baf, baf.attacks, a) : f[e.src] = f2[e.src]
    BY DEF Extends, Incoming
<1>3. Sortable(Incoming(baf, baf.supports, a)) /\ Sortable(Incoming(baf, baf.attacks, a))
    BY PartsSort DEF Extends, Incoming
<1>4. QED
    BY <1>1, <1>2, <1>3, AggregateReadsSources DEF AggregateSupport, AggregateAttack

\* Nor does a sweep, and the further arguments stand still in it.
LEMMA SameSweep ==
    ASSUME NEW baf, NEW base, NEW baf2, NEW base2, Extends(baf, base, baf2, base2),
           NEW f, NEW f2, \A a \in baf.arguments : f[a] = f2[a]
    PROVE  /\ \A a \in baf.arguments : sweep(baf, base, f)[a] = sweep(baf2, base2, f2)[a]
           /\ \A a \in baf2.arguments \ baf.arguments : sweep(baf2, base2, f2)[a] = base2[a]
<1>1. \A a \in baf.arguments : sweep(baf, base, f)[a] = sweep(baf2, base2, f2)[a]
  <2> TAKE a \in baf.arguments
  <2>1. a \in baf2.arguments /\ base[a] = base2[a]
      BY DEF Extends
  <2>2. QED
      BY <2>1, SameAggregates DEF sweep
<1>2. ASSUME NEW a \in baf2.arguments \ baf.arguments
      PROVE  sweep(baf2, base2, f2)[a] = base2[a]
  <2>1. Incoming(baf2, baf2.supports, a) = {} /\ Incoming(baf2, baf2.attacks, a) = {}
      BY DEF Extends, Incoming
  <2>2. AggregateSupport(baf2, f2, a) = 0 /\ AggregateAttack(baf2, f2, a) = 0
      BY <2>1, NothingAggregates DEF AggregateSupport, AggregateAttack
  <2>3. base2[a] \in Strength
      BY OneScale DEF Extends, Strength, Level
  <2>4. QED
      BY <2>2, <2>3, UntouchedStands DEF sweep
<1>3. QED
    BY <1>1, <1>2

\* So solve gives the shared arguments the same strengths.
LEMMA SameSolution ==
    ASSUME NEW baf, NEW base, NEW baf2, NEW base2, Extends(baf, base, baf2, base2)
    PROVE  \A a \in baf.arguments :
               solve(baf, base).acceptability[a] = solve(baf2, base2).acceptability[a]
<1>1. PICK run : /\ Sweeps(baf, base, MaxSweeps, run)
                 /\ solve(baf, base).acceptability = run[MaxSweeps].sigma
    BY SolveSweeps DEF Solved
<1>2. PICK run2 : /\ Sweeps(baf2, base2, MaxSweeps, run2)
                  /\ solve(baf2, base2).acceptability = run2[MaxSweeps].sigma
    BY SolveSweeps DEF Solved
<1>3. MaxSweeps \in Nat
    BY QbafBounds
<1> DEFINE agree(s, s2) ==
               /\ s.converged = s2.converged
               /\ s.sigma = [a \in baf.arguments |-> s.sigma[a]]
               /\ s2.sigma = [a \in baf2.arguments |-> s2.sigma[a]]
               /\ \A a \in baf.arguments : s.sigma[a] = s2.sigma[a]
               /\ \A a \in baf2.arguments \ baf.arguments : s2.sigma[a] = base2[a]
           holds == {i \in 0 .. MaxSweeps : agree(run[i], run2[i])}
<1>4. 0 \in holds
  <2>1. run[0] = Unswept(baf, base) /\ run2[0] = Unswept(baf2, base2)
      BY <1>1, <1>2, <1>3 DEF Sweeps
  <2>2. agree(Unswept(baf, base), Unswept(baf2, base2))
      BY DEF Extends, Unswept
  <2>3. QED
      BY <1>3, <2>1, <2>2
<1>5. ASSUME NEW s, NEW s2, agree(s, s2), NEW i
      PROVE  agree(Sweep(baf, base, i, s), Sweep(baf2, base2, i, s2))
  <2>1. CASE s.converged
      BY <1>5, <2>1 DEF Sweep
  <2>2. CASE ~s.converged
    <3> DEFINE nxt == sweep(baf, base, s.sigma)
               nxt2 == sweep(baf2, base2, s2.sigma)
    <3>1. nxt = [a \in baf.arguments |-> nxt[a]] /\ nxt2 = [a \in baf2.arguments |-> nxt2[a]]
        BY DEF sweep
    <3>2. /\ \A a \in baf.arguments : nxt[a] = nxt2[a]
          /\ \A a \in baf2.arguments \ baf.arguments : nxt2[a] = base2[a]
      <4>1. \A a \in baf.arguments : s.sigma[a] = s2.sigma[a]
          BY <1>5
      <4> HIDE DEF agree
      <4>2. QED
          BY <4>1, SameSweep
    <3> HIDE DEF nxt, nxt2
    <3>3. (nxt = s.sigma) <=> (nxt2 = s2.sigma)
      <4>1. (nxt = s.sigma) <=> \A a \in baf.arguments : nxt[a] = s.sigma[a]
          BY <1>5, <3>1
      <4>2. (nxt2 = s2.sigma) <=> \A a \in baf2.arguments : nxt2[a] = s2.sigma[a]
          BY <1>5, <3>1
      <4>3. baf.arguments \subseteq baf2.arguments
          BY DEF Extends
      <4>4. QED
          BY <1>5, <3>2, <4>1, <4>2, <4>3
    <3>4. /\ Sweep(baf, base, i, s) = [sigma |-> nxt, converged |-> nxt = s.sigma, iterations |-> i]
          /\ Sweep(baf2, base2, i, s2) = [sigma |-> nxt2, converged |-> nxt2 = s2.sigma, iterations |-> i]
        BY <1>5, <2>2 DEF Sweep, nxt, nxt2
    <3>5. QED
        BY <3>1, <3>2, <3>3, <3>4
  <2>3. QED
      BY <2>1, <2>2
<1>6. ASSUME NEW k \in 0 .. MaxSweeps - 1, k \in holds PROVE k + 1 \in holds
  <2>1. k + 1 \in 0 .. MaxSweeps /\ k + 1 # 0 /\ (k + 1) - 1 = k
      BY <1>3
  <2>2. /\ run[k + 1] = Sweep(baf, base, k + 1, run[k])
        /\ run2[k + 1] = Sweep(baf2, base2, k + 1, run2[k])
      BY <1>1, <1>2, <2>1 DEF Sweeps
  <2>3. agree(run[k], run2[k])
      BY <1>6
  <2> HIDE DEF agree
  <2>4. QED
      BY <1>5, <2>1, <2>2, <2>3
<1>7. MaxSweeps \in holds
  <2> HIDE DEF holds
  <2>1. 0 .. MaxSweeps \subseteq holds
      BY <1>3, <1>4, <1>6, CountingUp
  <2>2. QED
      BY <1>3, <2>1
<1>8. QED
    BY <1>1, <1>2, <1>7


\* The edges a run assembles have an order.
Assembled(es, sign, args) ==
    {[src |-> e.source, dst |-> e.target, strength |-> e.strength] :
       e \in {x \in es : x.sign = sign /\ {x.source, x.target} \subseteq args}}
LEMMA EdgesSort ==
    ASSUME NEW es \in SUBSET EvidenceEdge, NEW sign, NEW args
    PROVE  Sortable(Assembled(es, sign, args))
<1> DEFINE side == {x \in es : x.sign = sign /\ {x.source, x.target} \subseteq args}
           as == [e \in side |-> [src |-> e.source, dst |-> e.target, strength |-> e.strength]]
           read == {[src |-> e.source, dst |-> e.target, strength |-> e.strength] : e \in side}
<1>1. side \subseteq EvidenceEdge /\ IsFiniteSet(EvidenceEdge)
    BY GraphIsTyped
<1>2. IsFiniteSet(side)
  <2> HIDE DEF side
  <2>1. QED
      BY <1>1, FS_Subset
<1>3. \A e \in side : e.source \in Node /\ Id(e.source) \in Nat /\ e.strength \in Strength
    BY <1>1, GraphIsTyped
<1> HIDE DEF side
<1>4. as \in Surjection(side, read)
    BY DEF Surjection
<1>5. IsFiniteSet(read)
  <2> HIDE DEF as, read
  <2>1. QED
      BY <1>2, <1>4, FS_Surjection
<1>6. \A e \in read : Id(e.src) \in Nat /\ e.strength \in Strength
    BY <1>3
<1>7. QED
    BY <1>5, <1>6 DEF Sortable, side, Assembled

\* Two plans whose runs adjudicate the same edges on the same scores reach the
\* same verdicts, the second having further arguments that are no hypotheses.
LEMMA SameVerdicts ==
    ASSUME NEW p, NEW r, NEW p2, NEW r2, NEW args, NEW args2,
           args = ActiveIn(p, r), args2 = ActiveIn(p2, r2), p.edges \subseteq EvidenceEdge,
           args \subseteq args2, Hypothesis \cap args2 \subseteq args,
           {e \in p.edges : {e.source, e.target} \subseteq args}
             = {e \in p2.edges : {e.source, e.target} \subseteq args2},
           NEW worth, NEW worth2,
           worth = LayerB(p, assemble_subgraph(p, r)), worth2 = LayerB(p2, assemble_subgraph(p2, r2)),
           \A n \in args : base_score(p, worth, n) = base_score(p2, worth2, n),
           \A n \in args2 \ args : base_score(p2, worth2, n) \in Level
    PROVE  adjudicate_at(p2, r2).verdicts = adjudicate_at(p, r).verdicts
<1> DEFINE baf == assemble_baf(p, r)
           baf2 == assemble_baf(p2, r2)
           base == [n \in baf.arguments |-> base_score(p, worth, n)]
           base2 == [n \in baf2.arguments |-> base_score(p2, worth2, n)]
           f == solve(baf, base).acceptability
           f2 == solve(baf2, base2).acceptability
<1>1. baf.arguments = args /\ baf2.arguments = args2
    BY DEF assemble_baf
<1>2. ASSUME NEW sign
      PROVE  {e \in p.edges : e.sign = sign /\ {e.source, e.target} \subseteq args}
               = {e \in p2.edges : e.sign = sign /\ {e.source, e.target} \subseteq args2}
  <2>1. ASSUME NEW e
        PROVE  e \in p.edges /\ {e.source, e.target} \subseteq args
                 <=> e \in p2.edges /\ {e.source, e.target} \subseteq args2
    <3>1. e \in {x \in p.edges : {x.source, x.target} \subseteq args}
            <=> e \in {x \in p2.edges : {x.source, x.target} \subseteq args2}
        OBVIOUS
    <3>2. QED
        BY <3>1
  <2>2. QED
      BY <2>1
<1>3. baf.supports = baf2.supports /\ baf.attacks = baf2.attacks
  <2> DEFINE side(es) == {[src |-> e.source, dst |-> e.target, strength |-> e.strength] : e \in es}
             signed(sign) == {e \in p.edges : e.sign = sign /\ {e.source, e.target} \subseteq args}
             signed2(sign) == {e \in p2.edges : e.sign = sign /\ {e.source, e.target} \subseteq args2}
  <2>1. /\ baf.supports = side(signed("supports")) /\ baf.attacks = side(signed("refutes"))
        /\ baf2.supports = side(signed2("supports")) /\ baf2.attacks = side(signed2("refutes"))
      BY DEF assemble_baf
  <2>2. signed("supports") = signed2("supports") /\ signed("refutes") = signed2("refutes")
      BY <1>2
  <2> HIDE DEF side, signed, signed2, baf, baf2
  <2>3. QED
      BY <2>1, <2>2
<1>4. \A e \in baf.supports \cup baf.attacks : e.src \in args /\ e.dst \in args
    BY DEF assemble_baf
<1>5. Extends(baf, base, baf2, base2)
  <2>1. baf.supports = Assembled(p.edges, "supports", args) /\ baf.attacks = Assembled(p.edges, "refutes", args)
      BY DEF assemble_baf, Assembled
  <2> HIDE DEF baf, baf2
  <2>2. Sortable(baf.supports) /\ Sortable(baf.attacks)
      BY <2>1, EdgesSort
  <2>3. QED
      BY <1>1, <1>3, <1>4, <2>2 DEF Extends
<1>6. \A a \in args : f[a] = f2[a]
  <2> HIDE DEF baf, baf2, base, base2
  <2>1. QED
      BY <1>1, <1>5, SameSolution
<1>7. \A a \in args : StateOf(baf, f, a) = StateOf(baf2, f2, a)
  <2> HIDE DEF f, f2, baf, baf2, base, base2
  <2>1. \A a \in args : /\ AggregateSupport(baf, f, a) = AggregateSupport(baf2, f2, a)
                        /\ AggregateAttack(baf, f, a) = AggregateAttack(baf2, f2, a)
      BY <1>1, <1>5, <1>6, SameAggregates
  <2>2. QED
      BY <1>6, <2>1 DEF StateOf
<1>8. /\ adjudicate_at(p, r).verdicts = [h \in Hypothesis \cap baf.arguments |-> StateOf(baf, f, h)]
      /\ adjudicate_at(p2, r2).verdicts = [h \in Hypothesis \cap baf2.arguments |-> StateOf(baf2, f2, h)]
    BY DEF adjudicate_at
<1>9. Hypothesis \cap baf.arguments = Hypothesis \cap baf2.arguments
    BY <1>1
<1> HIDE DEF f, f2, baf, baf2
<1>10. \A h \in Hypothesis \cap baf.arguments : StateOf(baf, f, h) = StateOf(baf2, f2, h)
    BY <1>1, <1>7
<1>11. QED
    BY <1>8, <1>9, <1>10


-----------------------------------------------------------------------------
(* What a load of the store reads, for stores where every premise stands.   *)

\* A derive call mints the id of its conclusion: nothing else concludes it,
\* and it is neither a fact nor a hypothesis.
FreshConclusions ==
    \A d \in Proposal : /\ d.conclusion \notin Fact \cup Hypothesis
                        /\ \A x \in Rule : x.conclusion = d.conclusion => x = d

\* The groups of ds that a load of the nodes cur sees, and the rows of a load.
Rows(cur, ds) == {d \in ds : d.conclusion \in cur /\ d.body # {}}
RowStrengths(cur, ds) == [d \in Rows(cur, ds) |-> Strengths[d]]
Governed(cur, ds) == (Fact \cap cur) \cup {d.conclusion : d \in Rows(cur, ds)}
Between(cur, es) == {e \in es : e.source \in cur /\ e.target \in cur}
PlanOf(cur, cs, ds, es, boxes) ==
    [nodes |-> cur, confidence |-> cs, base_fact_ids |-> Fact \cap cur,
     strength |-> RowStrengths(cur, ds), edges |-> Between(cur, es), boxes |-> boxes,
     policy |-> "default", asked |-> {}, report |-> <<>>]
SubgraphOf(cur, cs, ds, boxes) ==
    [nodes |-> cur, confidence |-> cs, base_fact_ids |-> Fact \cap cur,
     strength |-> RowStrengths(cur, ds), boxes |-> boxes]
\* The nodes of active boxes, and the derivations of those.
Living(cur, boxes) == {n \in cur : BoxOf[n] \in boxes}
Over(rows, act) == {d \in rows : d.conclusion \in act}

PlanNow == PlanOf(current, confidence, derived, edges, activeBoxes)

\* What a run that retracts r makes of a plan's nodes.
Worth(p, r) == LayerB(p, assemble_subgraph(p, r))

\* Every group is read as it was written, so the rows decide the load.
LEMMA OneReading ==
    ASSUME PremisesStand, StandingInv, derived \subseteq Rule
    PROVE  /\ load_derived_rows = Rows(current, derived)
           /\ StrengthMaps = {RowStrengths(current, derived)}
           /\ FreshPlans = {PlanNow}
<1>1. \A d \in derived : Reading(d) = d /\ LoadedBody(d) = d.body
  <2> TAKE d \in derived
  <2>1. Reading(d) = d
      BY ReadAsWritten
  <2>2. d.body \subseteq current
      BY DEF PremisesStand, StandingInv
  <2>3. QED
      BY <2>1, <2>2 DEF LoadedBody
<1>2. load_derived_rows = Rows(current, derived)
    BY <1>1 DEF load_derived_rows, Rows
<1>3. {Reading(d) : d \in load_derived_rows} = Rows(current, derived)
  <2>1. \A d \in load_derived_rows : Reading(d) = d
      BY <1>1 DEF load_derived_rows
  <2>2. QED
      BY <1>2, <2>1
<1>4. \A d \in Rows(current, derived) : Strengths[d] \in Level
    BY GraphIsTyped DEF Rows
<1>5. StrengthMaps = {RowStrengths(current, derived)}
  <2> DEFINE rows == Rows(current, derived)
             decides(m) == \A s \in rows : \E d \in rows : Reading(d) = s /\ m[s] = Strengths[d]
  <2>1. StrengthMaps = {m \in [rows -> Level] : decides(m)}
      BY <1>2, <1>3 DEF StrengthMaps
  <2>2. \A d \in rows : Reading(d) = d
      BY <1>1 DEF Rows
  <2> HIDE DEF rows
  <2>3. [d \in rows |-> Strengths[d]] \in [rows -> Level]
      BY <1>4 DEF rows
  <2>4. decides([d \in rows |-> Strengths[d]])
      BY <2>2
  <2>5. ASSUME NEW m \in [rows -> Level], decides(m)
        PROVE  m = [d \in rows |-> Strengths[d]]
      BY <2>2, <2>5
  <2> HIDE DEF decides
  <2>6. QED
      BY <2>1, <2>3, <2>4, <2>5 DEF RowStrengths, rows
<1>6. load_evidential_edges = Between(current, edges)
    BY DEF load_evidential_edges, Between
<1>7. FreshPlans = {PlanNow}
    BY <1>5, <1>6 DEF FreshPlans, PlanNow, PlanOf
<1>8. QED
    BY <1>2, <1>5, <1>7

\* The graph such a plan is valued over.
LEMMA PlansAreSound ==
    ASSUME NEW p, NEW r, NEW g, g = assemble_subgraph(p, r), NEW rows \in SUBSET Rule,
           p.confidence \in Valued, p.base_fact_ids \subseteq Node,
           p.strength = [d \in rows |-> Strengths[d]]
    PROVE  /\ Sound(p, g)
           /\ g.base_facts = p.base_fact_ids \cap ActiveIn(p, r)
           /\ g.derivations = Over(rows, ActiveIn(p, r))
<1>1. g.base_facts = p.base_fact_ids \cap ActiveIn(p, r)
    BY DEF assemble_subgraph
<1>2. g.derivations = Over(rows, ActiveIn(p, r))
    BY DEF assemble_subgraph, Over
<1>3. QED
    BY <1>1, <1>2 DEF Sound, Over

\* A load of the store is such a plan.
LoadOf(p, cur, cs, ds, es, boxes) ==
    /\ cur \in SUBSET Node /\ cs \in Valued /\ ds \in SUBSET Rule
    /\ p = PlanOf(cur, cs, ds, es, boxes)
LEMMA StorePlans ==
    ASSUME NEW p, NEW cur, NEW cs, NEW ds, NEW es, NEW boxes, LoadOf(p, cur, cs, ds, es, boxes),
           NEW g, g = assemble_subgraph(p, {})
    PROVE  /\ Sound(p, g) /\ p.confidence = cs
           /\ ActiveIn(p, {}) = Living(cur, boxes)
           /\ g.base_facts = Fact \cap Living(cur, boxes)
           /\ g.derivations = Over(Rows(cur, ds), Living(cur, boxes))
           /\ governed(p) = Governed(cur, ds)
           /\ LayerB(p, g) \in Valued
<1>1. /\ p.nodes = cur /\ p.boxes = boxes /\ p.confidence = cs
      /\ p.base_fact_ids = Fact \cap cur
      /\ p.strength = [d \in Rows(cur, ds) |-> Strengths[d]]
    BY DEF LoadOf, PlanOf, RowStrengths
<1>2. Rows(cur, ds) \in SUBSET Rule /\ p.base_fact_ids \subseteq Node /\ p.confidence \in Valued
    BY <1>1 DEF Rows, LoadOf
<1>3. ActiveIn(p, {}) = Living(cur, boxes)
    BY <1>1 DEF ActiveIn, Living
<1>4. /\ Sound(p, g)
      /\ g.base_facts = p.base_fact_ids \cap ActiveIn(p, {})
      /\ g.derivations = Over(Rows(cur, ds), Living(cur, boxes))
    BY <1>1, <1>2, <1>3, PlansAreSound
<1>5. g.base_facts = Fact \cap Living(cur, boxes)
    BY <1>1, <1>3, <1>4 DEF Living
<1>6. governed(p) = Governed(cur, ds)
    BY <1>1 DEF governed, Governed
<1>7. LayerB(p, g) \in Valued
    BY <1>4, PlansAreCalls
<1>8. QED
    BY <1>1, <1>3, <1>4, <1>5, <1>6, <1>7


-----------------------------------------------------------------------------
(* A derivation is written.                                                 *)

\* The value a derive call drafts is Layer B's for the loaded graph and the
\* proposal; what is not grounded is worth nothing there either.
Augmented(s, g, cur, cs, ds, boxes, d) ==
    /\ Sound(s, g) /\ s.confidence = cs
    /\ g.base_facts = Fact \cap Living(cur, boxes)
    /\ g.derivations = Over(Rows(cur, ds), Living(cur, boxes)) \cup {d}
    /\ value_conclusion(SubgraphOf(cur, cs, ds, boxes), d) = LayerB(s, g)[d.conclusion]
LEMMA DraftsAreValued ==
    ASSUME NEW cur \in SUBSET Node, NEW cs \in Valued, NEW ds \in SUBSET Rule, NEW boxes,
           NEW d \in Proposal
    PROVE  \E s, g : Augmented(s, g, cur, cs, ds, boxes, d)
<1> DEFINE active == Living(cur, boxes)
           sub == SubgraphOf(cur, cs, ds, boxes)
           plain == assemble_subgraph(sub, {})
           g == [plain EXCEPT !.derivations = @ \cup {d}]
           s == [sub EXCEPT !.strength = [r \in DOMAIN @ \cup {d} |-> IF r = d THEN Strengths[d] ELSE @[r]]]
<1>1. /\ sub.strength = [e \in Rows(cur, ds) |-> Strengths[e]] /\ sub.confidence = cs
      /\ sub.base_fact_ids = Fact \cap cur
    BY DEF SubgraphOf, RowStrengths
<1>2. ActiveIn(sub, {}) = active
    BY DEF ActiveIn, SubgraphOf, Living
<1>3. /\ Rows(cur, ds) \in SUBSET Rule /\ d \in Rule /\ d.conclusion \in Node
      /\ sub.base_fact_ids \subseteq Node
    BY <1>1, GraphIsTyped, RulesAreDerivations DEF Rows, Derivation
<1>4. /\ plain.base_facts = Fact \cap active
      /\ plain.derivations = Over(Rows(cur, ds), active)
  <2>1. /\ plain.base_facts = sub.base_fact_ids \cap ActiveIn(sub, {})
        /\ plain.derivations = Over(Rows(cur, ds), ActiveIn(sub, {}))
    <3> HIDE DEF sub
    <3>1. QED
        BY <1>1, <1>3, PlansAreSound
  <2> HIDE DEF sub, plain
  <2>2. QED
      BY <1>1, <1>2, <2>1 DEF Living
<1>5. g = [base_facts |-> Fact \cap active,
           derivations |-> Over(Rows(cur, ds), active) \cup {d}]
  <2>1. plain = [base_facts |-> plain.base_facts, derivations |-> plain.derivations]
      BY DEF assemble_subgraph
  <2> HIDE DEF plain
  <2>2. g = [base_facts |-> plain.base_facts, derivations |-> plain.derivations \cup {d}]
      BY <2>1
  <2>3. QED
      BY <1>4, <2>2
<1>6. s.confidence = cs /\ s.strength = [r \in Rows(cur, ds) \cup {d} |-> Strengths[r]]
    BY <1>1 DEF SubgraphOf
<1>7. value_conclusion(sub, d) = IF d.conclusion \notin LayerA(g) THEN 0 ELSE LayerB(s, g)[d.conclusion]
    BY DEF value_conclusion
<1> HIDE DEF s, g, sub
<1>8. Sound(s, g)
    BY <1>3, <1>5, <1>6 DEF Sound, Over, Living
<1>9. d.conclusion \notin LayerA(g) => LayerB(s, g)[d.conclusion] = 0
    BY <1>3, <1>8, PlansAreCalls
<1>10. value_conclusion(sub, d) = LayerB(s, g)[d.conclusion]
    BY <1>7, <1>9
<1>11. QED
    BY <1>5, <1>6, <1>8, <1>10 DEF sub, Augmented

LEMMA DraftsAreLevels ==
    ASSUME NEW cur \in SUBSET Node, NEW cs \in Valued, NEW ds \in SUBSET Rule, NEW boxes,
           NEW d \in Proposal
    PROVE  value_conclusion(SubgraphOf(cur, cs, ds, boxes), d) \in Level
<1>1. PICK s, g : Augmented(s, g, cur, cs, ds, boxes, d)
    BY DraftsAreValued
<1>2. d.conclusion \in Node
    BY GraphIsTyped, RulesAreDerivations DEF Derivation
<1>3. QED
    BY <1>1, <1>2, PlansAreCalls DEF Valued, Augmented

\* Writing it changes no other node's value, and its own is what was drafted,
\* as long as the store is the one it was drafted on.
Written(p, cur, cs, ds, es, boxes, d, c, p2, cs2) ==
    /\ LoadOf(p, cur, cs, ds, es, boxes)
    /\ d \in Proposal /\ c = d.conclusion /\ c \notin cur
    /\ LoadOf(p2, cur \cup {c}, cs2, ds \cup {d}, es, boxes)
    /\ \A n \in Node \ {c} : cs2[n] = cs[n]
LEMMA WriteValues ==
    ASSUME PremisesStand, FreshConclusions,
           NEW p, NEW cur, NEW cs, NEW ds, NEW es, NEW boxes, NEW d, NEW c, NEW p2, NEW cs2,
           Written(p, cur, cs, ds, es, boxes, d, c, p2, cs2)
    PROVE  /\ \A n \in Node \ {c} : Worth(p2, {})[n] = Worth(p, {})[n]
           /\ c \in governed(p2) \cap ActiveIn(p2, {}) =>
                Worth(p2, {})[c] = value_conclusion(SubgraphOf(cur, cs, ds, boxes), d)
           /\ governed(p2) \ {c} = governed(p)
           /\ ActiveIn(p2, {}) \ {c} = ActiveIn(p, {})
<1> DEFINE g == assemble_subgraph(p, {})
           g2 == assemble_subgraph(p2, {})
           act == Living(cur, boxes)
           act2 == Living(cur \cup {c}, boxes)
<1>0. /\ LoadOf(p, cur, cs, ds, es, boxes) /\ LoadOf(p2, cur \cup {c}, cs2, ds \cup {d}, es, boxes)
      /\ d \in Proposal /\ c = d.conclusion /\ c \notin cur
      /\ \A n \in Node \ {c} : cs2[n] = cs[n]
    BY DEF Written
<1> USE <1>0
<1>1. /\ d \in Rule /\ c \in Node /\ c \notin Fact /\ c \notin cur
      /\ \A e \in Rule : e.conclusion = c => e = d
      /\ \A e \in Rule : e.body \subseteq Node /\ c \notin e.body
  <2>1. \A e \in Rule : e.conclusion \in Node /\ e.body \subseteq Node
      BY RulesAreDerivations DEF Derivation
  <2>2. d \in Rule /\ c \notin Given
      BY GraphIsTyped DEF Given
  <2>3. QED
      BY <2>1, <2>2 DEF FreshConclusions, PremisesStand
<1> HIDE DEF g, g2, act, act2
<1>2. Sound(p, g) /\ Sound(p2, g2) /\ p.confidence = cs /\ p2.confidence = cs2
    BY StorePlans DEF g, g2
<1>3. /\ ActiveIn(p, {}) = act /\ g.base_facts = Fact \cap act
      /\ g.derivations = Over(Rows(cur, ds), act)
      /\ governed(p) = Governed(cur, ds)
    BY StorePlans DEF g, act
<1>4. /\ ActiveIn(p2, {}) = act2 /\ g2.base_facts = Fact \cap act2
      /\ g2.derivations = Over(Rows(cur \cup {c}, ds \cup {d}), act2)
      /\ governed(p2) = Governed(cur \cup {c}, ds \cup {d})
    BY StorePlans DEF g2, act2
<1>5. /\ Rows(cur, ds) \subseteq Rule /\ \A e \in Rows(cur, ds) : e.conclusion \in cur
      /\ Rows(cur \cup {c}, ds \cup {d}) = Rows(cur, ds) \cup {e \in {d} : d.body # {}}
    BY <1>1 DEF Rows, LoadOf
<1>6. \A n \in Node \ {c} : LayerB(p2, g2)[n] = LayerB(p, g)[n]
  <2>1. SharedOn(Node \ {c}, g.base_facts, g.derivations, g2.base_facts, g2.derivations)
    <3>1. g.base_facts \cap (Node \ {c}) = g2.base_facts \cap (Node \ {c})
        BY <1>1, <1>3, <1>4 DEF act, act2, Living, Over
    <3>2. {e \in g.derivations : e.conclusion \in Node \ {c}}
            = {e \in g2.derivations : e.conclusion \in Node \ {c}}
        BY <1>1, <1>3, <1>4, <1>5 DEF act, act2, Living, Over
    <3>3. \A e \in g.derivations : e.body \subseteq Node \ {c}
        BY <1>1, <1>3, <1>5 DEF Over
    <3>4. QED
        BY <3>1, <3>2, <3>3 DEF SharedOn
  <2>2. \A n \in g.base_facts \cap (Node \ {c}) : p2.confidence[n] = p.confidence[n]
      BY <1>2
  <2>3. PlansShare(Node \ {c}, p, g, p2, g2)
      BY <1>2, <2>1, <2>2 DEF PlansShare
  <2>4. QED
      BY <2>3, SharedLayerB
<1>7. ASSUME c \in governed(p2) \cap ActiveIn(p2, {})
      PROVE  LayerB(p2, g2)[c] = value_conclusion(SubgraphOf(cur, cs, ds, boxes), d)
  <2>1. d.body # {} /\ c \in act2
      BY <1>1, <1>4, <1>5, <1>7 DEF Governed, Over
  <2>2. PICK s, h : Augmented(s, h, cur, cs, ds, boxes, d)
      BY DraftsAreValued DEF LoadOf
  <2>3. h.base_facts = g2.base_facts
      BY <1>1, <1>4, <2>2 DEF act, act2, Augmented, Living, Over
  <2>4. h.derivations = g2.derivations
      BY <1>1, <1>4, <1>5, <2>1, <2>2 DEF act, act2, Augmented, Living, Over
  <2>5. SharedOn(Node, h.base_facts, h.derivations, g2.base_facts, g2.derivations)
    <3>1. \A e \in h.derivations : e.body \subseteq Node
        BY <1>1, <2>2 DEF Sound, Augmented
    <3>2. QED
        BY <2>3, <2>4, <3>1 DEF SharedOn
  <2>6. \A n \in h.base_facts \cap Node : p2.confidence[n] = s.confidence[n]
      BY <1>1, <1>2, <2>2 DEF Augmented
  <2>7. PlansShare(Node, s, h, p2, g2)
      BY <1>2, <2>2, <2>5, <2>6 DEF PlansShare, Augmented
  <2>8. \A n \in Node \cap Node : LayerB(p2, g2)[n] = LayerB(s, h)[n]
      BY <2>7, SharedLayerB
  <2>9. QED
      BY <1>1, <2>2, <2>8 DEF Augmented
<1>8. governed(p2) \ {c} = governed(p)
  <2>1. c \notin governed(p)
      BY <1>1, <1>3, <1>5 DEF Governed
  <2>2. governed(p) \subseteq governed(p2)
      BY <1>3, <1>4, <1>5 DEF Governed
  <2>3. governed(p2) \subseteq governed(p) \cup {c}
      BY <1>1, <1>3, <1>4, <1>5 DEF Governed
  <2>4. QED
      BY <2>1, <2>2, <2>3
<1>9. ActiveIn(p2, {}) \ {c} = ActiveIn(p, {})
    BY <1>1, <1>3, <1>4 DEF act, act2, Living, Over
<1>10. QED
    BY <1>6, <1>7, <1>8, <1>9 DEF Worth, g, g2


-----------------------------------------------------------------------------
(* The store and what is loaded from it.                                    *)

\* Stored confidences are levels, and so is what a plan loaded of them.
ConfidenceInv == current \in SUBSET Node /\ confidence \in Valued
LoadedInv ==
    pc # "idle" =>
        /\ plan.confidence \in Valued /\ plan.base_fact_ids \subseteq Node
        /\ \E rows \in SUBSET Rule : plan.strength = [d \in rows |-> Strengths[d]]

\* A conclusion does not exist before it is written, nor does evidence on it.
UnbornInv ==
    \A d \in Proposal \ derived :
        d.conclusion \notin current /\ \A e \in edges : d.conclusion \notin {e.source, e.target}

\* A draft that the store has not moved past holds what it would hold now.
DraftValueInv ==
    \A a \in drafts :
        /\ a.confidence \in Level
        /\ a.fresh => a.confidence = value_conclusion(
                          SubgraphOf(current, confidence, derived, activeBoxes), a.proposal)

StoreInv == ConfidenceInv /\ LoadedInv /\ UnbornInv /\ DraftValueInv

LEMMA StoreInit == Init => StoreInv /\ StandingInv
<1> SUFFICES ASSUME Init PROVE StoreInv /\ StandingInv
    OBVIOUS
<1>1. current = Given /\ confidence = Seed /\ edges = {} /\ drafts = {} /\ pc = "idle"
    BY DEF Init
<1>2. ConfidenceInv
    BY <1>1, GraphIsTyped DEF ConfidenceInv, Given, Valued
<1>3. \A d \in Proposal : d.conclusion \notin Given
    BY DEF Given
<1>4. QED
    BY <1>1, <1>2, <1>3 DEF StoreInv, LoadedInv, UnbornInv, DraftValueInv, StandingInv

\* What a load of the store reads.
LEMMA StoreLoads ==
    ASSUME StoreInv, LoopInv
    PROVE  LoadOf(PlanNow, current, confidence, derived, edges, activeBoxes)
BY DEF StoreInv, ConfidenceInv, LoopInv, DraftInv, PlanNow, LoadOf

\* Drafts that are outdated keep their value.
LEMMA OutdatedValues ==
    ASSUME NEW ds, NEW written, DraftsOf(ds, written), \A a \in ds : a.confidence \in Level
    PROVE  \A a \in Outdated(ds) : a.confidence \in Level /\ ~a.fresh
<1> SUFFICES ASSUME NEW a \in Outdated(ds) PROVE a.confidence \in Level /\ ~a.fresh
    OBVIOUS
<1>1. PICK b \in ds : a = [b EXCEPT !.fresh = FALSE]
    BY DEF Outdated
<1>2. PICK Value : b \in [proposal : Proposal, confidence : Value, fresh : BOOLEAN]
    BY DEF DraftsOf, Draft
<1>3. a.confidence = b.confidence /\ a.fresh = FALSE
    BY <1>1, <1>2
<1>4. QED
    BY <1>3

\* What a run would write back is a level.
LEMMA SnapsAreValued ==
    ASSUME StoreInv, pc # "idle", NEW r
    PROVE  /\ Worth(plan, r) \in Valued
           /\ adjudicate_at(plan, r).confidence = Worth(plan, r)
<1>1. PICK rows \in SUBSET Rule : plan.strength = [d \in rows |-> Strengths[d]]
    BY DEF StoreInv, LoadedInv
<1>2. Sound(plan, assemble_subgraph(plan, r))
    BY <1>1, PlansAreSound DEF StoreInv, LoadedInv
<1>3. Worth(plan, r) \in Valued
    BY <1>2, PlansAreCalls DEF Worth
<1>4. adjudicate_at(plan, r).confidence = Worth(plan, r)
    BY DEF adjudicate_at, Worth
<1>5. QED
    BY <1>3, <1>4

LEMMA StoreLoad ==
    ASSUME PremisesStand, StandingInv, LoopInv, StoreInv,
           NEW policy, NEW asked, NEW report, Load(policy, asked, report)
    PROVE  StoreInv'
<1>1. PICK m \in StrengthMaps :
        plan' = [nodes |-> current, confidence |-> confidence, base_fact_ids |-> Fact \cap current,
                 strength |-> m, edges |-> load_evidential_edges, boxes |-> activeBoxes,
                 policy |-> policy, asked |-> asked, report |-> report]
    BY DEF Load
<1>2. m = RowStrengths(current, derived)
    BY <1>1, OneReading DEF LoopInv, DraftInv
<1>3. /\ plan'.confidence \in Valued /\ plan'.base_fact_ids \subseteq Node
      /\ plan'.strength = [d \in Rows(current, derived) |-> Strengths[d]]
    BY <1>1, <1>2 DEF StoreInv, ConfidenceInv, RowStrengths
<1>4. Rows(current, derived) \in SUBSET Rule
    BY DEF LoopInv, DraftInv, Rows
<1>5. LoadedInv'
    BY <1>3, <1>4 DEF LoadedInv
<1>6. ConfidenceInv' /\ UnbornInv' /\ DraftValueInv'
    BY DEF Load, store, deriving, StoreInv, ConfidenceInv, UnbornInv, DraftValueInv
<1>7. QED
    BY <1>5, <1>6 DEF StoreInv

LEMMA StoreCommit ==
    ASSUME LoopInv, StoreInv, Commit
    PROVE  StoreInv'
<1> DEFINE snap == adjudicate_at(plan, state)
<1>1. pc = "commit" /\ pc' = "idle" /\ UNCHANGED <<activeBoxes, edges, derived>>
    BY DEF Commit
<1>2. LoadedInv'
    BY <1>1 DEF LoadedInv
<1>3. snap.confidence \in Valued
    BY <1>1, SnapsAreValued
<1>4. current' \subseteq current /\ confidence' \in Valued
  <2>1. CASE MayPersist
    <3>1. persist(snap, state)
        BY <2>1 DEF Commit
    <3> HIDE DEF snap
    <3>2. confidence' = [n \in Node |-> IF n \in WriteBack(plan, snap, state) \cap current'
                                        THEN snap.confidence[n] ELSE confidence[n]]
        BY <3>1 DEF persist
    <3>3. \A n \in Node : snap.confidence[n] \in Level /\ confidence[n] \in Level
        BY <1>3 DEF StoreInv, ConfidenceInv, Valued
    <3>4. confidence' \in Valued
        BY <3>2, <3>3 DEF Valued
    <3>5. QED
        BY <3>1, <3>4 DEF persist
  <2>2. CASE ~MayPersist
      BY <2>2 DEF Commit, store, StoreInv, ConfidenceInv
  <2>3. QED
      BY <2>1, <2>2
<1>5. ConfidenceInv' /\ UnbornInv'
    BY <1>1, <1>4 DEF StoreInv, ConfidenceInv, UnbornInv
<1>6. DraftValueInv'
  <2>1. CASE store' = store
    <3>1. drafts' = drafts /\ current' = current /\ confidence' = confidence
        BY <2>1 DEF Commit, store
    <3>2. QED
        BY <1>1, <3>1 DEF StoreInv, DraftValueInv
  <2>2. CASE store' # store
    <3>1. drafts' = Outdated(drafts)
        BY <2>2 DEF Commit
    <3>2. \A a \in drafts' : a.confidence \in Level /\ ~a.fresh
        BY <3>1, OutdatedValues DEF StoreInv, DraftValueInv, LoopInv, DraftInv
    <3>3. QED
        BY <3>2 DEF DraftValueInv
  <2>3. QED
      BY <2>1, <2>2
<1>7. QED
    BY <1>2, <1>5, <1>6 DEF StoreInv

LEMMA StoreSession ==
    ASSUME FreshConclusions, LoopInv, StoreInv,
           (\E e \in EvidenceEdge : AddEvidence(e)) \/ (\E b \in Box : deprecate_box(b))
    PROVE  StoreInv'
<1>1. UNCHANGED <<current, confidence, derived, plan, pc>>
    BY DEF AddEvidence, deprecate_box, store, deriving
<1>2. ConfidenceInv' /\ LoadedInv'
    BY <1>1 DEF StoreInv, ConfidenceInv, LoadedInv
<1>3. ASSUME NEW e \in EvidenceEdge, AddEvidence(e)
      PROVE  UnbornInv' /\ DraftValueInv'
  <2>1. /\ edges' = edges \cup {e} /\ e.source \in current /\ e.target \in current
        /\ drafts' = drafts /\ activeBoxes' = activeBoxes
      BY <1>3 DEF AddEvidence, deriving
  <2>2. QED
      BY <1>1, <2>1 DEF StoreInv, UnbornInv, DraftValueInv
<1>4. ASSUME NEW b \in Box, deprecate_box(b)
      PROVE  UnbornInv' /\ DraftValueInv'
  <2>1. edges' = edges /\ drafts' = Outdated(drafts)
      BY <1>4 DEF deprecate_box
  <2>2. \A a \in drafts' : a.confidence \in Level /\ ~a.fresh
      BY <2>1, OutdatedValues DEF StoreInv, DraftValueInv, LoopInv, DraftInv
  <2>3. QED
      BY <1>1, <2>1, <2>2 DEF StoreInv, UnbornInv, DraftValueInv
<1>5. QED
    BY <1>2, <1>3, <1>4 DEF StoreInv

LEMMA StoreDerive ==
    ASSUME PremisesStand, FreshConclusions, StandingInv, LoopInv, StoreInv,
           (\E d \in Proposal : DeriveLoad(d)) \/ (\E draft \in drafts : DeriveWrite(draft))
    PROVE  StoreInv'
<1>1. ASSUME NEW d \in Proposal, DeriveLoad(d)
      PROVE  StoreInv'
  <2>1. UNCHANGED <<current, confidence, derived, edges, activeBoxes, plan, pc>>
      BY <1>1 DEF DeriveLoad, store
  <2> DEFINE sub == SubgraphOf(current, confidence, derived, activeBoxes)
             new == [proposal |-> d, confidence |-> value_conclusion(sub, d), fresh |-> TRUE]
  <2>2. drafts' = drafts \cup {new}
    <3>1. PICK m \in StrengthMaps :
            drafts' = drafts \cup {[proposal |-> d, confidence |-> value_conclusion(ActiveSubgraph(m), d),
                                    fresh |-> TRUE]}
        BY <1>1 DEF DeriveLoad
    <3>2. m = RowStrengths(current, derived)
        BY <3>1, OneReading DEF LoopInv, DraftInv
    <3>3. ActiveSubgraph(m) = sub
        BY <3>2 DEF ActiveSubgraph, SubgraphOf
    <3>4. QED
        BY <3>1, <3>3
  <2>3. value_conclusion(sub, d) \in Level
      BY DraftsAreLevels DEF StoreInv, ConfidenceInv, LoopInv, DraftInv
  <2>4. DraftValueInv'
    <3>1. new.confidence = value_conclusion(sub, d) /\ new.proposal = d
        OBVIOUS
    <3>2. sub' = sub
        BY <2>1
    <3> HIDE DEF new
    <3>3. QED
        BY <2>1, <2>2, <2>3, <3>1 DEF StoreInv, DraftValueInv
  <2>5. QED
      BY <2>1, <2>4 DEF StoreInv, ConfidenceInv, LoadedInv, UnbornInv
<1>2. ASSUME NEW draft \in drafts, DeriveWrite(draft)
      PROVE  StoreInv'
  <2> DEFINE d == draft.proposal
  <2>1. /\ derived' = derived \cup {d} /\ current' = current \cup {d.conclusion}
        /\ confidence' = [confidence EXCEPT ![d.conclusion] = draft.confidence]
        /\ drafts' = Outdated(drafts \ {draft}) /\ UNCHANGED <<edges, plan, pc>>
      BY <1>2 DEF DeriveWrite
  <2>2. d \in Proposal \ derived /\ draft.confidence \in Level
      BY DEF LoopInv, DraftInv, DraftsOf, StoreInv, DraftValueInv
  <2>3. d.conclusion \in Node
      BY <2>2, GraphIsTyped, RulesAreDerivations DEF Derivation
  <2> HIDE DEF d
  <2>4. ConfidenceInv'
      BY <2>1, <2>2, <2>3 DEF StoreInv, ConfidenceInv, Valued
  <2>5. UnbornInv'
      BY <2>1, <2>2, GraphIsTyped DEF StoreInv, UnbornInv, FreshConclusions
  <2>6. \A a \in drafts' : a.confidence \in Level /\ ~a.fresh
    <3>1. DraftsOf(drafts \ {draft}, derived)
        BY DEF LoopInv, DraftInv, DraftsOf
    <3>2. QED
        BY <2>1, <3>1, OutdatedValues DEF StoreInv, DraftValueInv
  <2>7. QED
      BY <2>1, <2>4, <2>5, <2>6 DEF StoreInv, LoadedInv, DraftValueInv
<1>3. QED
    BY <1>1, <1>2

LEMMA StoreNext ==
    ASSUME PremisesStand, FreshConclusions, StandingInv, LoopInv, StoreInv, [Next]_vars
    PROVE  StoreInv'
<1>1. CASE Iterate
    BY <1>1 DEF Iterate, store, deriving, StoreInv, ConfidenceInv, LoadedInv, UnbornInv, DraftValueInv
<1>2. CASE UNCHANGED vars
    BY <1>2 DEF vars, store, deriving, StoreInv, ConfidenceInv, LoadedInv, UnbornInv, DraftValueInv
<1>3. QED
    BY <1>1, <1>2, StoreLoad, StoreCommit, StoreSession, StoreDerive DEF Next


-----------------------------------------------------------------------------
(* What a run left in the store is what a load of it would compute.         *)

\* The plan p of a run whose load the store has not moved past, but for
\* conclusions written meanwhile, which nothing rests on and no edge touches.
RunsOn(p, cur, cs, ds, es, boxes) ==
    /\ p.nodes \subseteq cur /\ p.confidence \in Valued /\ \A n \in p.nodes : p.confidence[n] = cs[n]
    /\ p.base_fact_ids = Fact \cap p.nodes /\ p.strength = RowStrengths(p.nodes, ds)
    /\ p.edges = Between(cur, es) /\ p.boxes = boxes
    /\ \A n \in cur \ p.nodes : n \notin Given /\ \A e \in es : n \notin {e.source, e.target}

\* The run retracts r and writes its values back, which leaves cs2.
Committed(p, r, cur, cs, ds, es, boxes, cs2) ==
    /\ RunsOn(p, cur, cs, ds, es, boxes) /\ r \subseteq Hypothesis
    /\ cur \in SUBSET Node /\ cs \in Valued /\ cs2 \in Valued /\ ds \in SUBSET Rule
    /\ es \in SUBSET EvidenceEdge
    /\ \A n \in Node : cs2[n] = IF n \in (p.nodes \ r) \cap governed(p) THEN Worth(p, r)[n] ELSE cs[n]

\* What such a run works on.
LEMMA RunPlans ==
    ASSUME NEW p, NEW r, NEW cur, NEW cs, NEW ds, NEW es, NEW boxes, NEW cs2,
           Committed(p, r, cur, cs, ds, es, boxes, cs2), NEW g, g = assemble_subgraph(p, r)
    PROVE  /\ Sound(p, g)
           /\ ActiveIn(p, r) = Living(p.nodes \ r, boxes)
           /\ g.base_facts = Fact \cap Living(p.nodes \ r, boxes)
           /\ g.derivations = Over(Rows(p.nodes, ds), Living(p.nodes \ r, boxes))
           /\ governed(p) = Governed(p.nodes, ds)
<1>1. /\ p.nodes \subseteq Node /\ p.boxes = boxes /\ p.confidence \in Valued
      /\ p.base_fact_ids = Fact \cap p.nodes
      /\ p.strength = [d \in Rows(p.nodes, ds) |-> Strengths[d]]
    BY DEF Committed, RunsOn, RowStrengths
<1>2. Rows(p.nodes, ds) \in SUBSET Rule /\ p.base_fact_ids \subseteq Node
    BY <1>1 DEF Rows, Committed
<1>3. ActiveIn(p, r) = Living(p.nodes \ r, boxes)
    BY <1>1 DEF ActiveIn, Living
<1>4. /\ Sound(p, g)
      /\ g.base_facts = p.base_fact_ids \cap ActiveIn(p, r)
      /\ g.derivations = Over(Rows(p.nodes, ds), ActiveIn(p, r))
    BY <1>1, <1>2, PlansAreSound
<1>5. g.base_facts = Fact \cap Living(p.nodes \ r, boxes)
    BY <1>1, <1>3, <1>4 DEF Living
<1>6. governed(p) = Governed(p.nodes, ds)
    BY <1>1 DEF governed, Governed
<1>7. QED
    BY <1>3, <1>4, <1>5, <1>6

\* The run values what it loaded and kept as a load of the whole store would.
LEMMA RunValues ==
    ASSUME PremisesStand,
           NEW p, NEW r, NEW cur, NEW cs, NEW ds, NEW es, NEW boxes, NEW cs2,
           Committed(p, r, cur, cs, ds, es, boxes, cs2),
           NEW q, LoadOf(q, cur, cs, ds, es, boxes)
    PROVE  \A n \in p.nodes \ r : Worth(q, {})[n] = Worth(p, r)[n]
<1> DEFINE g == assemble_subgraph(p, r)
           h == assemble_subgraph(q, {})
           late == cur \ p.nodes
           K == Node \ (late \cup r)
<1> HIDE DEF g, h
<1>1. /\ Sound(p, g)
      /\ g.base_facts = Fact \cap Living(p.nodes \ r, boxes)
      /\ g.derivations = Over(Rows(p.nodes, ds), Living(p.nodes \ r, boxes))
    BY RunPlans DEF g
<1>2. /\ Sound(q, h) /\ q.confidence = cs
      /\ h.base_facts = Fact \cap Living(cur, boxes)
      /\ h.derivations = Over(Rows(cur, ds), Living(cur, boxes))
    BY StorePlans DEF h
<1>3. /\ p.nodes \subseteq cur /\ cur \subseteq Node /\ r \subseteq Hypothesis
      /\ \A n \in late : n \notin Given
      /\ \A n \in p.nodes : p.confidence[n] = cs[n]
    BY DEF Committed, RunsOn
<1>4. SharedOn(K, g.base_facts, g.derivations, h.base_facts, h.derivations)
  <2>1. g.base_facts \cap K = h.base_facts \cap K
      BY <1>1, <1>2, <1>3 DEF Living
  <2>2. {e \in g.derivations : e.conclusion \in K} = {e \in h.derivations : e.conclusion \in K}
      BY <1>1, <1>2, <1>3 DEF Living, Over, Rows
  <2>3. \A e \in g.derivations : e.body \subseteq K
    <3>1. \A e \in g.derivations : e.body \subseteq Given \ Hypothesis
        BY <1>1 DEF PremisesStand, Sound
    <3>2. Given \ Hypothesis \subseteq K
        BY <1>3 DEF Given
    <3>3. QED
        BY <3>1, <3>2
  <2>4. QED
      BY <2>1, <2>2, <2>3 DEF SharedOn
<1>5. \A n \in g.base_facts \cap K : q.confidence[n] = p.confidence[n]
    BY <1>1, <1>2, <1>3 DEF Living
<1>6. PlansShare(K, p, g, q, h)
    BY <1>1, <1>2, <1>4, <1>5 DEF PlansShare
<1>7. \A n \in Node \cap K : LayerB(q, h)[n] = LayerB(p, g)[n]
    BY <1>6, SharedLayerB
<1>8. p.nodes \ r \subseteq Node \cap K
    BY <1>3
<1>9. QED
    BY <1>7, <1>8 DEF Worth, g, h

\* What the run leaves is valued as the store was before.
LEMMA CommitValues ==
    ASSUME PremisesStand,
           NEW p, NEW r, NEW cur, NEW cs, NEW ds, NEW es, NEW boxes, NEW cs2,
           Committed(p, r, cur, cs, ds, es, boxes, cs2),
           NEW q, LoadOf(q, cur, cs, ds, es, boxes),
           NEW q2, LoadOf(q2, cur \ r, cs2, ds, es, boxes)
    PROVE  \A n \in Node \ r : Worth(q2, {})[n] = Worth(q, {})[n]
<1> DEFINE g == assemble_subgraph(q, {})
           h == assemble_subgraph(q2, {})
           K == Node \ r
<1> HIDE DEF g, h
<1>1. /\ Sound(q, g) /\ q.confidence = cs
      /\ g.base_facts = Fact \cap Living(cur, boxes)
      /\ g.derivations = Over(Rows(cur, ds), Living(cur, boxes))
    BY StorePlans DEF g
<1>2. /\ Sound(q2, h) /\ q2.confidence = cs2
      /\ h.base_facts = Fact \cap Living(cur \ r, boxes)
      /\ h.derivations = Over(Rows(cur \ r, ds), Living(cur \ r, boxes))
    BY StorePlans DEF h
<1>3. /\ cur \subseteq Node /\ r \subseteq Hypothesis
      /\ \A n \in Node : cs2[n] = IF n \in (p.nodes \ r) \cap governed(p) THEN Worth(p, r)[n] ELSE cs[n]
    BY DEF Committed
<1>4. SharedOn(K, g.base_facts, g.derivations, h.base_facts, h.derivations)
  <2>1. g.base_facts \cap K = h.base_facts \cap K
      BY <1>1, <1>2, <1>3 DEF Living
  <2>2. {e \in g.derivations : e.conclusion \in K} = {e \in h.derivations : e.conclusion \in K}
      BY <1>1, <1>2, <1>3 DEF Living, Over, Rows
  <2>3. \A e \in g.derivations : e.body \subseteq K
    <3>1. \A e \in g.derivations : e.body \subseteq Given \ Hypothesis
        BY <1>1 DEF PremisesStand, Sound
    <3>2. Given \ Hypothesis \subseteq K
        BY <1>3 DEF Given
    <3>3. QED
        BY <3>1, <3>2
  <2>4. QED
      BY <2>1, <2>2, <2>3 DEF SharedOn
<1>5. \A n \in p.nodes \ r : Worth(q, {})[n] = Worth(p, r)[n]
    BY RunValues
<1>6. ASSUME NEW n \in g.base_facts \cap K
      PROVE  q2.confidence[n] = q.confidence[n] \/ q2.confidence[n] = LayerB(q, g)[n]
  <2>1. n \in Node /\ q2.confidence[n] = cs2[n] /\ q.confidence[n] = cs[n]
      BY <1>1, <1>2, <1>3
  <2>2. CASE n \in (p.nodes \ r) \cap governed(p)
    <3>1. cs2[n] = Worth(q, {})[n]
        BY <1>3, <1>5, <2>1, <2>2
    <3>2. QED
        BY <2>1, <3>1 DEF Worth, g
  <2>3. CASE n \notin (p.nodes \ r) \cap governed(p)
      BY <1>3, <2>1, <2>3
  <2>4. QED
      BY <2>2, <2>3
<1>7. PlansShare(K, q, g, q2, h)
    BY <1>1, <1>2, <1>4, <1>6 DEF PlansShare
<1>8. \A n \in Node \cap K : LayerB(q2, h)[n] = LayerB(q, g)[n]
    BY <1>7, SharedLayerB
<1>9. QED
    BY <1>8 DEF Worth, g, h

\* Outside N, what Layer A and B own is stored at what a load makes of it.
Stored(q, cs, N) ==
    \A n \in (governed(q) \cap ActiveIn(q, {})) \ N : cs[n] = Worth(q, {})[n]

\* Values that were written during the run stay right.
LEMMA CommitStores ==
    ASSUME PremisesStand,
           NEW p, NEW r, NEW cur, NEW cs, NEW ds, NEW es, NEW boxes, NEW cs2,
           Committed(p, r, cur, cs, ds, es, boxes, cs2),
           NEW q, LoadOf(q, cur, cs, ds, es, boxes), Stored(q, cs, p.nodes),
           NEW q2, LoadOf(q2, cur \ r, cs2, ds, es, boxes)
    PROVE  Stored(q2, cs2, {})
<1>1. /\ ActiveIn(q, {}) = Living(cur, boxes) /\ governed(q) = Governed(cur, ds)
    BY StorePlans
<1>2. /\ ActiveIn(q2, {}) = Living(cur \ r, boxes) /\ governed(q2) = Governed(cur \ r, ds)
    BY StorePlans
<1>3. governed(p) = Governed(p.nodes, ds)
    BY DEF Committed, RunsOn, RowStrengths, governed, Governed
<1>4. /\ cur \subseteq Node
      /\ \A n \in Node : cs2[n] = IF n \in (p.nodes \ r) \cap governed(p) THEN Worth(p, r)[n] ELSE cs[n]
    BY DEF Committed
<1>5. \A n \in p.nodes \ r : Worth(q, {})[n] = Worth(p, r)[n]
    BY RunValues
<1>6. \A n \in Node \ r : Worth(q2, {})[n] = Worth(q, {})[n]
    BY CommitValues
<1>7. SUFFICES ASSUME NEW n \in governed(q2) \cap ActiveIn(q2, {})
               PROVE  cs2[n] = Worth(q2, {})[n]
    BY DEF Stored
<1>8. n \in cur \ r /\ n \in Governed(cur \ r, ds) /\ n \in Living(cur, boxes)
    BY <1>2 DEF Living
<1>9. n \in Governed(cur, ds) /\ (n \in p.nodes => n \in Governed(p.nodes, ds))
    BY <1>8 DEF Governed, Rows
<1>10. CASE n \in p.nodes
    BY <1>3, <1>4, <1>5, <1>6, <1>8, <1>9, <1>10
<1>11. CASE n \notin p.nodes
    BY <1>1, <1>4, <1>6, <1>8, <1>9, <1>11 DEF Stored
<1>12. QED
    BY <1>10, <1>11

\* The verdicts of the run are those of a load of what it leaves.
LEMMA CommitVerdicts ==
    ASSUME PremisesStand, FreshConclusions,
           NEW p, NEW r, NEW cur, NEW cs, NEW ds, NEW es, NEW boxes, NEW cs2,
           Committed(p, r, cur, cs, ds, es, boxes, cs2),
           NEW q, LoadOf(q, cur, cs, ds, es, boxes),
           NEW q2, LoadOf(q2, cur \ r, cs2, ds, es, boxes)
    PROVE  adjudicate_at(q2, {}).verdicts = adjudicate_at(p, r).verdicts
<1> DEFINE args == ActiveIn(p, r)
           args2 == ActiveIn(q2, {})
           worth == Worth(p, r)
           worth2 == Worth(q2, {})
<1>1. args = Living(p.nodes \ r, boxes) /\ governed(p) = Governed(p.nodes, ds)
    BY RunPlans
<1>2. /\ args2 = Living(cur \ r, boxes) /\ governed(q2) = Governed(cur \ r, ds)
      /\ q2.confidence = cs2 /\ worth2 \in Valued
    BY StorePlans DEF Worth
<1>3. /\ p.nodes \subseteq cur /\ cur \subseteq Node /\ r \subseteq Hypothesis /\ cs2 \in Valued
      /\ \A n \in p.nodes : p.confidence[n] = cs[n]
      /\ p.edges = Between(cur, es) /\ q2.edges = Between(cur \ r, es)
      /\ \A n \in cur \ p.nodes : n \notin Given /\ \A e \in es : n \notin {e.source, e.target}
      /\ \A n \in Node : cs2[n] = IF n \in (p.nodes \ r) \cap governed(p) THEN worth[n] ELSE cs[n]
    BY DEF Committed, RunsOn, LoadOf, PlanOf
<1>4. \A n \in p.nodes \ r : worth2[n] = worth[n]
  <2>1. \A n \in p.nodes \ r : Worth(q, {})[n] = Worth(p, r)[n]
      BY RunValues
  <2>2. \A n \in Node \ r : Worth(q2, {})[n] = Worth(q, {})[n]
      BY CommitValues
  <2>3. QED
      BY <1>3, <2>1, <2>2
<1> HIDE DEF args, args2, worth, worth2
<1>5. args \subseteq args2
    BY <1>1, <1>2, <1>3 DEF Living
<1>6. Hypothesis \cap args2 \subseteq args
  <2>1. Hypothesis \subseteq Given
      BY GraphIsTyped DEF FreshConclusions, Given
  <2>2. QED
      BY <1>1, <1>2, <1>3, <2>1 DEF Living
<1>7. {e \in p.edges : {e.source, e.target} \subseteq args}
        = {e \in q2.edges : {e.source, e.target} \subseteq args2}
    BY <1>1, <1>2, <1>3 DEF Living, Between
<1>8. \A n \in args : base_score(p, worth, n) = base_score(q2, worth2, n)
  <2> TAKE n \in args
  <2>1. n \in p.nodes \ r /\ n \in cur /\ n \in Node
      BY <1>1, <1>3 DEF Living
  <2>2. n \in governed(p) <=> n \in governed(q2)
      BY <1>1, <1>2, <2>1 DEF Governed, Rows
  <2>3. QED
      BY <1>2, <1>3, <1>4, <2>1, <2>2 DEF base_score
<1>9. \A n \in args2 \ args : base_score(q2, worth2, n) \in Level
    BY <1>2, <1>3 DEF base_score, Living, Valued
<1>10. /\ worth = LayerB(p, assemble_subgraph(p, r))
       /\ worth2 = LayerB(q2, assemble_subgraph(q2, {}))
    BY DEF worth, worth2, Worth
<1>11. args = ActiveIn(p, r) /\ args2 = ActiveIn(q2, {})
    BY DEF args, args2
<1>12. p.edges \subseteq EvidenceEdge
    BY <1>3 DEF Committed, Between
<1>13. QED
    BY <1>5, <1>6, <1>7, <1>8, <1>9, <1>10, <1>11, <1>12, SameVerdicts

-----------------------------------------------------------------------------
(* The loop leaves the store in agreement with a fresh load.                *)

\* The verdicts vs are stored, held refutations as pending ones.
VerdictsStored(vs) ==
    \A h \in DOMAIN vs : IF vs[h] = "refuted" THEN h \in pending \/ hstate[h] = "refuted"
                         ELSE hstate[h] = vs[h] /\ h \notin pending

\* While only the loop touches the store: between runs it holds what a load
\* would make of it, and during a run the plan is what was loaded of it.
SyncInv ==
    synced => IF pc = "idle"
              THEN /\ Stored(PlanNow, confidence, {})
                   /\ VerdictsStored(adjudicate_at(PlanNow, {}).verdicts)
              ELSE /\ RunsOn(plan, current, confidence, derived, edges, activeBoxes)
                   /\ Stored(PlanNow, confidence, plan.nodes)

\* What the steps keep, and where.
SyncContext ==
    /\ PremisesStand /\ FreshConclusions /\ "supporters" \notin Policy
    /\ StandingInv /\ LoopInv /\ HypothesesInv /\ StoreInv

LEMMA SyncMatches ==
    ASSUME SyncContext, SyncInv
    PROVE  StoreMatchesFreshLoad
<1> SUFFICES ASSUME pc = "idle", synced, NEW p \in FreshPlans
             PROVE  LET snap == adjudicate_at(p, {})
                    IN  /\ \A n \in governed(p) \cap ActiveIn(p, {}) : confidence[n] = snap.confidence[n]
                        /\ \A h \in DOMAIN snap.verdicts :
                             IF snap.verdicts[h] = "refuted"
                             THEN h \in pending \/ hstate[h] = "refuted"
                             ELSE hstate[h] = snap.verdicts[h] /\ h \notin pending
    BY DEF StoreMatchesFreshLoad
<1>1. p = PlanNow
    BY OneReading DEF SyncContext, LoopInv, DraftInv
<1>2. Stored(p, confidence, {}) /\ VerdictsStored(adjudicate_at(p, {}).verdicts)
    BY <1>1 DEF SyncInv
<1>3. adjudicate_at(p, {}).confidence = Worth(p, {})
    BY DEF adjudicate_at, Worth
<1>4. QED
    BY <1>2, <1>3 DEF Stored, VerdictsStored

LEMMA SyncLoad ==
    ASSUME SyncContext, NEW policy, NEW asked, NEW report, Load(policy, asked, report)
    PROVE  SyncInv'
<1>1. PICK m \in StrengthMaps :
        plan' = [nodes |-> current, confidence |-> confidence, base_fact_ids |-> Fact \cap current,
                 strength |-> m, edges |-> load_evidential_edges, boxes |-> activeBoxes,
                 policy |-> policy, asked |-> asked, report |-> report]
    BY DEF Load
<1>2. m = RowStrengths(current, derived)
    BY <1>1, OneReading DEF SyncContext, LoopInv, DraftInv
<1>3. load_evidential_edges = Between(current, edges)
    BY DEF load_evidential_edges, Between
<1>4. UNCHANGED <<current, confidence, derived, edges, activeBoxes>> /\ pc' = "loop"
    BY DEF Load, store, deriving
<1>5. confidence \in Valued /\ LoadOf(PlanNow, current, confidence, derived, edges, activeBoxes)
    BY StoreLoads DEF SyncContext, StoreInv, ConfidenceInv
<1>6. RunsOn(plan', current, confidence, derived, edges, activeBoxes)
  <2>1. /\ plan'.nodes = current /\ plan'.confidence = confidence
        /\ plan'.base_fact_ids = Fact \cap current /\ plan'.strength = RowStrengths(current, derived)
        /\ plan'.edges = Between(current, edges) /\ plan'.boxes = activeBoxes
      BY <1>1, <1>2, <1>3
  <2>2. QED
      BY <1>5, <2>1 DEF RunsOn
<1>7. PlanNow' = PlanNow /\ plan'.nodes = current
    BY <1>1, <1>4 DEF PlanNow
<1>8. Stored(PlanNow, confidence, current)
  <2>1. ActiveIn(PlanNow, {}) \subseteq current
      BY DEF ActiveIn, PlanNow, PlanOf
  <2>2. QED
      BY <2>1 DEF Stored
<1>9. QED
    BY <1>4, <1>6, <1>7, <1>8 DEF SyncInv

LEMMA SyncWrite ==
    ASSUME SyncContext, SyncInv, NEW draft \in drafts, DeriveWrite(draft)
    PROVE  SyncInv'
<1> DEFINE d == draft.proposal
           c == d.conclusion
<1> SUFFICES ASSUME synced' PROVE SyncInv'
    BY DEF SyncInv
<1>1. /\ derived' = derived \cup {d} /\ current' = current \cup {c}
      /\ confidence' = [confidence EXCEPT ![c] = draft.confidence]
      /\ UNCHANGED <<hstate, acceptability, pending, activeBoxes, edges, plan, pc>>
      /\ synced /\ draft.fresh
    BY DEF DeriveWrite
<1>2. d \in Proposal \ derived /\ d \in Rule /\ c \in Node
    BY GraphIsTyped, RulesAreDerivations DEF SyncContext, LoopInv, DraftInv, DraftsOf, Derivation
<1>3. /\ c \notin current /\ c \notin Given /\ c \notin Hypothesis
      /\ \A e \in edges : c \notin {e.source, e.target}
    BY <1>2 DEF SyncContext, StoreInv, UnbornInv, FreshConclusions, Given
<1>4. draft.confidence = value_conclusion(SubgraphOf(current, confidence, derived, activeBoxes), d)
    BY <1>1 DEF SyncContext, StoreInv, DraftValueInv
<1>5. LoadOf(PlanNow, current, confidence, derived, edges, activeBoxes)
    BY StoreLoads DEF SyncContext
<1> DEFINE p == PlanNow
           p2 == PlanOf(current \cup {c}, confidence', derived \cup {d}, edges, activeBoxes)
<1>6. PlanNow' = p2
    BY <1>1 DEF PlanNow
<1>7. confidence \in Valued /\ confidence' \in Valued /\ confidence'[c] = draft.confidence
      /\ \A n \in Node \ {c} : confidence'[n] = confidence[n]
  <2>1. draft.confidence \in Level /\ confidence \in [Node -> Level]
      BY DEF SyncContext, StoreInv, DraftValueInv, ConfidenceInv, Valued
  <2>2. QED
      BY <1>1, <1>2, <2>1 DEF Valued
<1>8. LoadOf(p2, current \cup {c}, confidence', derived \cup {d}, edges, activeBoxes)
    BY <1>2, <1>5, <1>7 DEF LoadOf
<1> HIDE DEF p, p2, d, c
<1>9. /\ \A n \in Node \ {c} : Worth(p2, {})[n] = Worth(p, {})[n]
      /\ c \in governed(p2) \cap ActiveIn(p2, {}) =>
           Worth(p2, {})[c] = value_conclusion(SubgraphOf(current, confidence, derived, activeBoxes), d)
      /\ governed(p2) \ {c} = governed(p)
      /\ ActiveIn(p2, {}) \ {c} = ActiveIn(p, {})
  <2>1. Written(p, current, confidence, derived, edges, activeBoxes, d, c, p2, confidence')
      BY <1>2, <1>3, <1>5, <1>7, <1>8 DEF Written, p, c
  <2>2. QED
      BY <2>1, WriteValues DEF SyncContext
<1>10. /\ ActiveIn(p, {}) = Living(current, activeBoxes) /\ ActiveIn(p, {}) \subseteq Node
       /\ p.edges = Between(current, edges) /\ p.confidence = confidence
  <2>1. current \subseteq Node
      BY DEF SyncContext, StoreInv, ConfidenceInv
  <2>2. QED
      BY <2>1 DEF p, PlanNow, PlanOf, ActiveIn, Living
<1>11. /\ ActiveIn(p2, {}) = Living(current \cup {c}, activeBoxes)
       /\ p2.edges = Between(current \cup {c}, edges) /\ p2.confidence = confidence'
       /\ Worth(p2, {}) \in Valued
  <2>1. Worth(p2, {}) \in Valued
      BY <1>8, StorePlans DEF Worth
  <2>2. QED
      BY <2>1 DEF p2, PlanOf, ActiveIn, Living
<1>12. ASSUME NEW N, Stored(p, confidence, N)
       PROVE  Stored(p2, confidence', N)
  <2>1. SUFFICES ASSUME NEW n \in (governed(p2) \cap ActiveIn(p2, {})) \ N
                 PROVE  confidence'[n] = Worth(p2, {})[n]
      BY DEF Stored
  <2>2. CASE n = c
      BY <1>4, <1>7, <1>9, <2>2
  <2>3. CASE n # c
    <3>1. n \in (governed(p) \cap ActiveIn(p, {})) \ N /\ n \in Node
        BY <1>9, <1>10, <2>3
    <3>2. confidence[n] = Worth(p, {})[n]
        BY <1>12, <3>1 DEF Stored
    <3>3. QED
        BY <1>7, <1>9, <2>3, <3>1, <3>2
  <2>4. QED
      BY <2>2, <2>3
<1>13. CASE pc = "idle"
  <2>1. adjudicate_at(p2, {}).verdicts = adjudicate_at(p, {}).verdicts
    <3> DEFINE args == ActiveIn(p, {})
               args2 == ActiveIn(p2, {})
               worth == Worth(p, {})
               worth2 == Worth(p2, {})
    <3> HIDE DEF args, args2, worth, worth2
    <3>1. args \subseteq args2 /\ args2 \subseteq args \cup {c} /\ c \notin args /\ args \subseteq Node
        BY <1>9, <1>10 DEF args, args2
    <3>2. Hypothesis \cap args2 \subseteq args
        BY <1>3, <3>1
    <3>3. {e \in p.edges : {e.source, e.target} \subseteq args}
            = {e \in p2.edges : {e.source, e.target} \subseteq args2}
        BY <1>3, <1>10, <1>11 DEF args, args2, Living, Between
    <3>4. \A n \in args : base_score(p, worth, n) = base_score(p2, worth2, n)
      <4> TAKE n \in args
      <4>1. n \in Node \ {c} /\ (n \in governed(p) <=> n \in governed(p2))
          BY <1>9, <3>1
      <4>2. QED
          BY <1>7, <1>9, <1>10, <1>11, <4>1 DEF base_score, worth, worth2
    <3>5. \A n \in args2 \ args : base_score(p2, worth2, n) \in Level
        BY <1>2, <1>7, <1>11, <3>1 DEF base_score, Valued, worth2
    <3>6. /\ worth = LayerB(p, assemble_subgraph(p, {}))
          /\ worth2 = LayerB(p2, assemble_subgraph(p2, {}))
        BY DEF worth, worth2, Worth
    <3>7. args = ActiveIn(p, {}) /\ args2 = ActiveIn(p2, {})
        BY DEF args, args2
    <3>8. p.edges \subseteq EvidenceEdge
        BY <1>10 DEF Between, SyncContext, LoopInv, PlanInv
    <3>9. QED
        BY <3>1, <3>2, <3>3, <3>4, <3>5, <3>6, <3>7, <3>8, SameVerdicts
  <2>2. Stored(p, confidence, {}) /\ VerdictsStored(adjudicate_at(p, {}).verdicts)
      BY <1>1, <1>13 DEF SyncInv, p
  <2>3. Stored(p2, confidence', {})
      BY <1>12, <2>2
  <2>5. QED
      BY <1>1, <1>6, <1>13, <2>1, <2>2, <2>3 DEF SyncInv, VerdictsStored
<1>14. CASE pc # "idle"
  <2>1. RunsOn(plan, current, confidence, derived, edges, activeBoxes) /\ Stored(p, confidence, plan.nodes)
      BY <1>1, <1>14 DEF SyncInv, p
  <2>2. RunsOn(plan, current \cup {c}, confidence', derived \cup {d}, edges, activeBoxes)
    <3>1. plan.nodes \subseteq current /\ current \subseteq Node
        BY <2>1 DEF RunsOn, SyncContext, StoreInv, ConfidenceInv
    <3>2. Rows(plan.nodes, derived \cup {d}) = Rows(plan.nodes, derived)
        BY <1>3, <3>1 DEF Rows, c
    <3>3. RowStrengths(plan.nodes, derived \cup {d}) = RowStrengths(plan.nodes, derived)
        BY <3>2 DEF RowStrengths
    <3>4. Between(current \cup {c}, edges) = Between(current, edges)
        BY <1>3 DEF Between
    <3>5. \A n \in plan.nodes : confidence'[n] = confidence[n]
        BY <1>3, <1>7, <3>1
    <3>6. QED
        BY <1>3, <2>1, <3>1, <3>3, <3>4, <3>5 DEF RunsOn
  <2>3. Stored(p2, confidence', plan.nodes)
      BY <1>12, <2>1
  <2>4. QED
      BY <1>1, <1>6, <1>14, <2>2, <2>3 DEF SyncInv, d, c
<1>15. QED
    BY <1>13, <1>14

LEMMA SyncCommit ==
    ASSUME SyncContext, SyncInv, Commit
    PROVE  SyncInv'
<1> SUFFICES ASSUME synced' PROVE SyncInv'
    BY DEF SyncInv
<1> DEFINE r == state
           snap == adjudicate_at(plan, r)
           p2 == PlanOf(current \ r, confidence', derived, edges, activeBoxes)
<1>1. /\ pc = "commit" /\ pc' = "idle" /\ synced /\ persist(snap, r)
      /\ UNCHANGED <<activeBoxes, edges, derived>>
    BY DEF Commit
<1>2. /\ RunsOn(plan, current, confidence, derived, edges, activeBoxes)
      /\ Stored(PlanNow, confidence, plan.nodes)
    BY <1>1 DEF SyncInv
<1>3. r \subseteq Hypothesis
    BY <1>1 DEF SyncContext, HypothesesInv, LoopInv, PlanInv
<1>4. snap.confidence = Worth(plan, r) /\ Worth(plan, r) \in Valued
    BY <1>1, SnapsAreValued DEF SyncContext
<1>5. LoadOf(PlanNow, current, confidence, derived, edges, activeBoxes)
    BY StoreLoads DEF SyncContext
<1>6. StoreInv'
    BY StoreCommit DEF SyncContext
<1>7. current' = current \ r
    BY <1>1 DEF persist
<1> HIDE DEF snap, r
<1>8. \A n \in Node : confidence'[n] = IF n \in (plan.nodes \ r) \cap governed(plan)
                                       THEN Worth(plan, r)[n] ELSE confidence[n]
  <2>1. confidence' = [n \in Node |-> IF n \in WriteBack(plan, snap, r) \cap current'
                                      THEN snap.confidence[n] ELSE confidence[n]]
      BY <1>1 DEF persist
  <2>2. WriteBack(plan, snap, r) \cap current' = (plan.nodes \ r) \cap governed(plan)
      BY <1>2, <1>7 DEF WriteBack, RunsOn
  <2>3. QED
      BY <1>4, <2>1, <2>2
<1>9. Committed(plan, r, current, confidence, derived, edges, activeBoxes, confidence')
    BY <1>2, <1>3, <1>5, <1>6, <1>8 DEF Committed, LoadOf, StoreInv, ConfidenceInv, SyncContext, LoopInv, PlanInv
<1>10. LoadOf(p2, current \ r, confidence', derived, edges, activeBoxes)
    BY <1>5, <1>6, <1>7 DEF LoadOf, StoreInv, ConfidenceInv
<1>11. PlanNow' = p2
    BY <1>1, <1>7 DEF PlanNow
<1> HIDE DEF p2
<1>12. PremisesStand /\ FreshConclusions
    BY DEF SyncContext
<1>13. Stored(p2, confidence', {})
    BY <1>2, <1>5, <1>9, <1>10, <1>12, CommitStores
<1>14. adjudicate_at(p2, {}).verdicts = snap.verdicts
    BY <1>5, <1>9, <1>10, <1>12, CommitVerdicts DEF snap
<1> DEFINE vs == snap.verdicts
           held == {h \in DOMAIN vs : refutation_held(plan, h, vs[h])}
<1>15. \A h \in DOMAIN vs : IF vs[h] = "refuted" THEN h \in pending' \/ hstate'[h] = "refuted"
                             ELSE hstate'[h] = vs[h] /\ h \notin pending'
  <2>1. DOMAIN vs \subseteq Hypothesis \cap plan.nodes
      BY DEF snap, adjudicate_at, assemble_baf, ActiveIn
  <2>2. DOMAIN vs \cap current = DOMAIN vs
      BY <1>2, <2>1 DEF RunsOn
  <2>3. /\ hstate' = [h \in Hypothesis |-> IF h \in held THEN PriorState(h)
                                           ELSE IF h \in DOMAIN vs THEN vs[h] ELSE hstate[h]]
        /\ pending' = (pending \ DOMAIN vs) \cup held
      BY <1>1, <2>2 DEF persist, persist_verdicts
  <2> HIDE DEF vs
  <2>4. QED
      BY <2>1, <2>3 DEF refutation_held
<1>16. adjudicate_at(p2, {}).verdicts = vs
    BY <1>14
<1> HIDE DEF vs
<1>17. QED
    BY <1>1, <1>11, <1>13, <1>15, <1>16 DEF SyncInv, VerdictsStored

LEMMA SyncNext ==
    ASSUME SyncContext, SyncInv, [Next]_vars
    PROVE  SyncInv'
<1>1. CASE \/ \E e \in EvidenceEdge : AddEvidence(e)
           \/ \E b \in Box : deprecate_box(b)
    BY <1>1 DEF AddEvidence, deprecate_box, SyncInv
<1>2. CASE UNCHANGED <<current, confidence, derived, edges, activeBoxes, plan, hstate, pending, synced>>
           /\ (pc = "idle" <=> pc' = "idle")
    BY <1>2 DEF SyncInv, PlanNow, VerdictsStored
<1>3. CASE Iterate
    BY <1>2, <1>3 DEF Iterate, store, deriving
<1>4. CASE \E d \in Proposal : DeriveLoad(d)
    BY <1>2, <1>4 DEF DeriveLoad, store
<1>5. CASE UNCHANGED vars
    BY <1>2, <1>5 DEF vars, store, deriving
<1>6. QED
    BY <1>1, <1>3, <1>4, <1>5, SyncLoad, SyncWrite, SyncCommit DEF Next

\* As long as only the loop and fresh derivations touch the store after a load,
\* what a run leaves there is what an independent load would compute of it,
\* refutations the gate held back flagged as pending.
THEOREM StoreAgreesWithLoad ==
    ASSUME PremisesStand, FreshConclusions, "supporters" \notin Policy
    PROVE  Spec => []StoreMatchesFreshLoad
<1>1. Init => HypothesesInv /\ SyncInv
    BY DEF Init, HypothesesInv, SyncInv
<1>2. LoopInv /\ HypothesesInv /\ StandingInv /\ StoreInv /\ SyncInv => StoreMatchesFreshLoad
    BY SyncMatches DEF SyncContext
<1>3. LoopInv /\ HypothesesInv /\ StandingInv /\ StoreInv /\ SyncInv /\ [Next]_vars => SyncInv'
    BY SyncNext DEF SyncContext
<1>4. LoopInv /\ HypothesesInv /\ StandingInv /\ StoreInv /\ [Next]_vars => StoreInv'
    BY StoreNext
<1>5. LoopInv /\ HypothesesInv /\ StandingInv /\ [Next]_vars => StandingInv'
    BY StandingNext
<1>6. QED
    BY <1>1, <1>2, <1>3, <1>4, <1>5, InvInit, InvNext, HypothesesNext, StoreInit, PTL DEF Spec

-----------------------------------------------------------------------------
(* What a retraction withdraws.  Nothing is assumed of the graph here: what *)
(* was read of a group may be less than was written, and several groups may *)
(* have been read as one.                                                   *)

\* What a run or a derive call has loaded of the graph.
Loaded(p) ==
    /\ p.confidence \in Valued
    /\ p.base_fact_ids \subseteq p.nodes \cap Node
    /\ DOMAIN p.strength \subseteq Derivation
    /\ \A d \in DOMAIN p.strength : d.conclusion \in p.nodes /\ p.strength[d] \in Level

ValuedInv ==
    /\ confidence \in Valued
    /\ \A a \in drafts : a.confidence \in Level
    /\ pc # "idle" => Loaded(plan)

\* Whatever is retracted of it, a load is valued in levels, and what Layer A
\* does not certify is worth nothing.
LEMMA LoadsAreValued ==
    ASSUME NEW p, Loaded(p), NEW r
    PROVE  /\ Worth(p, r) \in Valued
           /\ \A n \in Node \ LayerA(assemble_subgraph(p, r)) : Worth(p, r)[n] = 0
<1> DEFINE g == assemble_subgraph(p, r)
<1>1. /\ g.base_facts \subseteq p.base_fact_ids
      /\ g.derivations \subseteq DOMAIN p.strength
    BY DEF assemble_subgraph
<1>2. Worth(p, r) = LayerB(p, g)
    BY DEF Worth
<1> HIDE DEF g
<1>3. Valuable(p, g)
    BY <1>1 DEF Valuable, Loaded
<1>4. /\ LayerB(p, g) \in Valued
      /\ \A n \in Node \ LayerA(g) : LayerB(p, g)[n] = 0
    BY <1>3, GraphsAreCalls
<1>5. QED
    BY <1>2, <1>4 DEF g

\* The groups a load reads are derivations, and their strengths levels.
LEMMA MapsAreTyped ==
    ASSUME DraftInv, NEW m \in StrengthMaps
    PROVE  /\ DOMAIN m \subseteq Derivation
           /\ \A d \in DOMAIN m : d.conclusion \in current /\ m[d] \in Level
<1> DEFINE readings == {Reading(d) : d \in load_derived_rows}
<1>1. m \in [readings -> Level]
    BY DEF StrengthMaps
<1>2. ASSUME NEW d \in load_derived_rows
      PROVE  Reading(d) \in Derivation /\ Reading(d).conclusion \in current
  <2>1. d \in Derivation /\ d.conclusion \in current
      BY RulesAreDerivations DEF load_derived_rows, DraftInv
  <2>2. QED
      BY <2>1 DEF Reading, LoadedBody, Derivation
<1>3. QED
    BY <1>1, <1>2

\* What a derive call drafts is a level.
LEMMA ConclusionsAreValued ==
    ASSUME DraftInv, ValuedInv, NEW m \in StrengthMaps, NEW d \in Proposal
    PROVE  value_conclusion(ActiveSubgraph(m), d) \in Level
<1> DEFINE sub == ActiveSubgraph(m)
           plain == assemble_subgraph(sub, {})
           g == [plain EXCEPT !.derivations = @ \cup {d}]
           s == [sub EXCEPT !.strength = [r \in DOMAIN @ \cup {d} |-> IF r = d THEN Strengths[d] ELSE @[r]]]
<1>1. sub.strength = m /\ sub.confidence = confidence /\ sub.base_fact_ids = Fact \cap current
    BY DEF ActiveSubgraph
<1>2. plain.base_facts \subseteq Fact /\ plain.derivations \subseteq DOMAIN m
    BY <1>1 DEF assemble_subgraph
<1>3. g.base_facts \subseteq Fact /\ g.derivations \subseteq DOMAIN m \cup {d}
  <2>1. plain = [base_facts |-> plain.base_facts, derivations |-> plain.derivations]
      BY DEF assemble_subgraph
  <2> HIDE DEF plain
  <2>2. QED
      BY <1>2, <2>1
<1>4. s.confidence = confidence /\ \A r \in DOMAIN m \cup {d} :
          s.strength[r] = IF r = d THEN Strengths[d] ELSE m[r]
    BY <1>1 DEF ActiveSubgraph
<1>5. value_conclusion(sub, d) = IF d.conclusion \notin LayerA(g) THEN 0 ELSE LayerB(s, g)[d.conclusion]
    BY DEF value_conclusion
<1>6. d \in Derivation /\ Strengths[d] \in Level /\ d.conclusion \in Node /\ Fact \subseteq Node
    BY GraphIsTyped, RulesAreDerivations DEF Derivation
<1> HIDE DEF s, g, sub
<1>7. Valuable(s, g)
    BY <1>3, <1>4, <1>6, MapsAreTyped DEF Valuable, ValuedInv
<1>8. LayerB(s, g) \in Valued
    BY <1>7, GraphsAreCalls
<1>9. 0 \in Level
    BY TopIsANatural DEF Level
<1>10. QED
    BY <1>5, <1>6, <1>8, <1>9 DEF Valued, sub

LEMMA ValuedCommit ==
    ASSUME LoopInv, ValuedInv, Commit
    PROVE  ValuedInv'
<1> DEFINE snap == adjudicate_at(plan, state)
<1>1. pc = "commit" /\ pc' = "idle"
    BY DEF Commit
<1>2. snap.confidence \in Valued
  <2>1. snap.confidence = Worth(plan, state)
      BY DEF adjudicate_at, Worth
  <2>2. QED
      BY <1>1, <2>1, LoadsAreValued DEF ValuedInv
<1>3. confidence' \in Valued
  <2>1. CASE MayPersist
    <3>1. persist(snap, state)
        BY <2>1 DEF Commit
    <3> HIDE DEF snap
    <3>2. confidence' = [n \in Node |-> IF n \in WriteBack(plan, snap, state) \cap current'
                                        THEN snap.confidence[n] ELSE confidence[n]]
        BY <3>1 DEF persist
    <3>3. QED
        BY <1>2, <3>2 DEF ValuedInv, Valued
  <2>2. CASE ~MayPersist
      BY <2>2 DEF Commit, store, ValuedInv
  <2>3. QED
      BY <2>1, <2>2
<1>4. \A a \in drafts' : a.confidence \in Level
  <2>1. \A a \in Outdated(drafts) : a.confidence \in Level
      BY OutdatedValues DEF ValuedInv, LoopInv, DraftInv
  <2>2. drafts' = drafts \/ drafts' = Outdated(drafts)
      BY DEF Commit
  <2>3. QED
      BY <2>1, <2>2 DEF ValuedInv
<1>5. QED
    BY <1>1, <1>3, <1>4 DEF ValuedInv

LEMMA ValuedDerive ==
    ASSUME LoopInv, ValuedInv,
           \/ \E d \in Proposal : DeriveLoad(d)
           \/ \E draft \in drafts : DeriveWrite(draft)
    PROVE  ValuedInv'
<1>1. ASSUME NEW d \in Proposal, DeriveLoad(d)
      PROVE  ValuedInv'
  <2>1. PICK m \in StrengthMaps :
            drafts' = drafts \cup {[proposal |-> d, confidence |-> value_conclusion(ActiveSubgraph(m), d),
                                    fresh |-> TRUE]}
      BY <1>1 DEF DeriveLoad
  <2>2. value_conclusion(ActiveSubgraph(m), d) \in Level
      BY ConclusionsAreValued DEF LoopInv
  <2>3. \A a \in drafts' : a.confidence \in Level
      BY <2>1, <2>2 DEF ValuedInv
  <2>4. QED
      BY <1>1, <2>3 DEF DeriveLoad, store, ValuedInv
<1>2. ASSUME NEW draft \in drafts, DeriveWrite(draft)
      PROVE  ValuedInv'
  <2>1. draft.confidence \in Level
      BY DEF ValuedInv
  <2>2. confidence' = [confidence EXCEPT ![draft.proposal.conclusion] = draft.confidence]
      BY <1>2 DEF DeriveWrite
  <2>3. confidence' \in Valued
      BY <2>1, <2>2 DEF ValuedInv, Valued
  <2>4. DraftsOf(drafts \ {draft}, derived) /\ \A a \in drafts \ {draft} : a.confidence \in Level
      BY DEF LoopInv, DraftInv, DraftsOf, ValuedInv
  <2>5. \A a \in Outdated(drafts \ {draft}) : a.confidence \in Level
      BY <2>4, OutdatedValues
  <2>6. QED
      BY <1>2, <2>3, <2>5 DEF DeriveWrite, ValuedInv
<1>3. QED
    BY <1>1, <1>2

LEMMA ValuedNext ==
    ASSUME LoopInv, ValuedInv, [Next]_vars
    PROVE  ValuedInv'
<1>1. ASSUME NEW policy, NEW asked, NEW report, Load(policy, asked, report)
      PROVE  ValuedInv'
  <2>1. PICK m \in StrengthMaps :
          plan' = [nodes |-> current, confidence |-> confidence, base_fact_ids |-> Fact \cap current,
                   strength |-> m, edges |-> load_evidential_edges, boxes |-> activeBoxes,
                   policy |-> policy, asked |-> asked, report |-> report]
      BY <1>1 DEF Load
  <2>2. Loaded(plan')
      BY <2>1, MapsAreTyped, GraphIsTyped DEF Loaded, ValuedInv, LoopInv
  <2>3. QED
      BY <1>1, <2>2 DEF Load, store, deriving, ValuedInv
<1>2. CASE Iterate
    BY <1>2 DEF Iterate, store, deriving, ValuedInv
<1>3. CASE \E e \in EvidenceEdge : AddEvidence(e)
    BY <1>3 DEF AddEvidence, store, deriving, ValuedInv
<1>4. ASSUME NEW b \in Box, deprecate_box(b)
      PROVE  ValuedInv'
  <2>1. \A a \in Outdated(drafts) : a.confidence \in Level
      BY OutdatedValues DEF ValuedInv, LoopInv, DraftInv
  <2>2. QED
      BY <1>4, <2>1 DEF deprecate_box, store, ValuedInv
<1>5. CASE UNCHANGED vars
    BY <1>5 DEF vars, store, deriving, ValuedInv
<1>6. QED
    BY <1>1, <1>2, <1>3, <1>4, <1>5, ValuedCommit, ValuedDerive DEF Next

\* What Layer A certifies without r stands also if every derivation that
\* touches r is left out: an inactive antecedent is never supported.
LEMMA CertifiedStands ==
    ASSUME NEW p, NEW r
    PROVE  LayerA(assemble_subgraph(p, r)) \subseteq
               WellFoundedSupport(p.base_fact_ids \ r,
                                  {d \in DOMAIN p.strength : d.conclusion \notin r /\ d.body \cap r = {}})
<1> DEFINE g == assemble_subgraph(p, r)
           clear == {d \in DOMAIN p.strength : d.conclusion \notin r /\ d.body \cap r = {}}
<1>1. SUFFICES ASSUME NEW n \in LayerA(g), NEW S \in SUBSET Node, Closed(S, p.base_fact_ids \ r, clear)
               PROVE  n \in S
    BY DEF WellFoundedSupport, LayerA
<1>2. /\ g.base_facts \subseteq p.base_fact_ids \ r
      /\ \A d \in g.derivations : d \in DOMAIN p.strength /\ d.conclusion \notin r
    BY DEF assemble_subgraph, ActiveIn
<1> HIDE DEF g
<1>3. g.base_facts \subseteq S \ r
    BY <1>1, <1>2 DEF Closed
<1>4. ASSUME NEW d \in g.derivations, d.body \subseteq S \ r
      PROVE  d.conclusion \in S \ r
  <2>1. d \in clear
      BY <1>2, <1>4
  <2>2. QED
      BY <1>1, <1>2, <1>4, <2>1 DEF Closed
<1>5. Closed(S \ r, g.base_facts, g.derivations)
    BY <1>3, <1>4 DEF Closed
<1>6. QED
    BY <1>1, <1>5 DEF LayerA, WellFoundedSupport

LEMMA WithdrawStep ==
    ASSUME LoopInv, ValuedInv, [Next]_vars, derived' = derived, store' # store,
           NEW n \in governed(plan) \cap current', confidence'[n] > 0
    PROVE  n \in WellFoundedSupport(
                   plan.base_fact_ids \ state,
                   {d \in DOMAIN plan.strength : d.conclusion \notin state /\ d.body \cap state = {}})
<1> DEFINE snap == adjudicate_at(plan, state)
<1>1. Commit /\ MayPersist
    BY CommitsPersist
<1>2. persist(snap, state) /\ Loaded(plan)
    BY <1>1 DEF Commit, ValuedInv
<1>3. snap.confidence = Worth(plan, state)
    BY DEF adjudicate_at, Worth
<1>4. n \in plan.nodes /\ n \in Node
    BY <1>2 DEF governed, Loaded, Derivation
<1> HIDE DEF snap
<1>5. n \in WriteBack(plan, snap, state) \cap current'
    BY <1>2, <1>4 DEF persist, WriteBack
<1>6. confidence'[n] = Worth(plan, state)[n]
    BY <1>2, <1>3, <1>4, <1>5 DEF persist
<1>7. n \in LayerA(assemble_subgraph(plan, state))
    BY <1>2, <1>4, <1>6, LoadsAreValued
<1>8. QED
    BY <1>7, CertifiedStands

\* Whatever the graph, its numbers, the groups' premises and the injected
\* policy, what a run writes back with any confidence stands without the nodes
\* it retracted and all that rests on them.
THEOREM WhatIsRetractedGroundsNothing == Spec => RetractionWithdraws
<1>1. Init => ValuedInv
    BY GraphIsTyped DEF Init, ValuedInv, Valued
<1>2. LoopInv /\ ValuedInv /\ [Next]_vars =>
        [(derived' = derived /\ store' # store) =>
            \A n \in governed(plan) \cap current' :
                confidence'[n] > 0 =>
                    n \in WellFoundedSupport(
                            plan.base_fact_ids \ state,
                            {d \in DOMAIN plan.strength :
                                d.conclusion \notin state /\ d.body \cap state = {}})]_vars
    BY WithdrawStep
<1>3. LoopInv /\ ValuedInv /\ [Next]_vars => ValuedInv'
    BY ValuedNext
<1>4. QED
    BY <1>1, <1>2, <1>3, InvInit, InvNext, PTL DEF Spec, RetractionWithdraws

-----------------------------------------------------------------------------
(* Repeated adjudication.                                                   *)

\* The frameworks and scores a solve is given.
IsWeighted(b, s) ==
    /\ b.arguments = Argument /\ b.supports \in SUBSET Edge /\ b.attacks \in SUBSET Edge
    /\ s \in [Argument -> Strength]
Ranks(b, k, rank) ==
    /\ rank \in [Argument -> 1 .. k]
    /\ \A e \in b.supports \cup b.attacks : rank[e.src] < rank[e.dst]
AgreeTo(r, rank, f, g) == \A a \in Argument : rank[a] <= r => f[a] = g[a]

LEMMA WeightedSort ==
    ASSUME NEW b, NEW s, IsWeighted(b, s)
    PROVE  \A a : Sortable(Incoming(b, b.supports, a)) /\ Sortable(Incoming(b, b.attacks, a))
<1>1. Sortable(Edge)
    BY FrameworksAreWeighted DEF Sortable
<1>2. \A a : Incoming(b, b.supports, a) \in SUBSET Edge /\ Incoming(b, b.attacks, a) \in SUBSET Edge
    BY DEF IsWeighted, Incoming
<1>3. QED
    BY <1>1, <1>2, PartsSort

\* Strengths that agree up to a layer sweep to strengths that agree one further.
LEMMA SweepClimbs ==
    ASSUME NEW b, NEW s, IsWeighted(b, s), NEW k \in Nat, NEW rank, Ranks(b, k, rank),
           NEW r \in Nat, NEW f, NEW g, AgreeTo(r, rank, f, g)
    PROVE  AgreeTo(r + 1, rank, sweep(b, s, f), sweep(b, s, g))
<1>1. SUFFICES ASSUME NEW a \in Argument, rank[a] <= r + 1
               PROVE  sweep(b, s, f)[a] = sweep(b, s, g)[a]
    BY DEF AgreeTo
<1>2. ASSUME NEW e \in b.supports \cup b.attacks, e.dst = a, e.src \in Argument PROVE f[e.src] = g[e.src]
  <2>1. rank[e.src] < rank[a] /\ rank[e.src] \in 1 .. k /\ rank[a] \in 1 .. k
      BY <1>2 DEF Ranks
  <2>2. rank[e.src] <= r
      BY <1>1, <2>1
  <2>3. QED
      BY <1>2, <2>2 DEF AgreeTo
<1>3. /\ \A e \in Incoming(b, b.supports, a) : f[e.src] = g[e.src]
      /\ \A e \in Incoming(b, b.attacks, a) : f[e.src] = g[e.src]
    BY <1>2 DEF Incoming, IsWeighted
<1>4. /\ AggregateSupport(b, f, a) = AggregateSupport(b, g, a)
      /\ AggregateAttack(b, f, a) = AggregateAttack(b, g, a)
    BY <1>3, WeightedSort, AggregateReadsSources DEF AggregateSupport, AggregateAttack
<1>5. QED
    BY <1>4 DEF sweep, IsWeighted

\* So nothing but one assignment stands still in a layered framework.
Stands(b, s, f) == f = sweep(b, s, f)
LEMMA OneStands ==
    ASSUME NEW b, NEW s, IsWeighted(b, s), NEW k \in Nat, NEW rank, Ranks(b, k, rank),
           NEW f, Stands(b, s, f), NEW g, Stands(b, s, g)
    PROVE  f = g
<1> DEFINE holds == {r \in Nat : AgreeTo(r, rank, f, g)}
<1>1. \A a \in Argument : rank[a] \in 1 .. k
    BY DEF Ranks
<1>2. 0 \in holds
    BY <1>1 DEF AgreeTo
<1>3. ASSUME NEW r \in Nat, r \in holds PROVE r + 1 \in holds
  <2>1. AgreeTo(r + 1, rank, sweep(b, s, f), sweep(b, s, g))
      BY <1>3, SweepClimbs
  <2>2. QED
      BY <2>1 DEF Stands
<1>4. k \in holds
  <2> HIDE DEF holds
  <2>1. 0 .. k \subseteq holds
      BY <1>2, <1>3, CountingUp
  <2>2. QED
      BY <2>1
<1>5. \A a \in Argument : f[a] = g[a]
    BY <1>1, <1>4 DEF AgreeTo
<1>6. f = [a \in Argument |-> f[a]] /\ g = [a \in Argument |-> g[a]]
  <2>1. \A h : sweep(b, s, h) = [a \in Argument |-> sweep(b, s, h)[a]]
      BY DEF sweep, IsWeighted
  <2>2. QED
      BY <2>1 DEF Stands
<1>7. QED
    BY <1>5, <1>6

\* It is what the structure determines.
LEMMA StructureStands ==
    ASSUME NEW b, NEW s, IsWeighted(b, s), NEW k \in Nat, NEW rank, Ranks(b, k, rank),
           NEW f, Stands(b, s, f)
    PROVE  f = StructuralStrength(b, s)
<1> DEFINE valueOf(v) == v = [a \in Argument |->
                               _df_quad_combine(s[a], _prob_sum({e \in b.supports : e.dst = a}, v),
                                                      _prob_sum({e \in b.attacks : e.dst = a}, v))]
           value == CHOOSE v : valueOf(v)
<1>1. StructuralStrength(b, s) = value
    BY DEF StructuralStrength
<1>2. ASSUME NEW a \in Argument
      PROVE  /\ {e \in b.supports : e.dst = a} = Incoming(b, b.supports, a)
             /\ {e \in b.attacks : e.dst = a} = Incoming(b, b.attacks, a)
    BY FrameworksAreWeighted DEF Incoming, IsWeighted
<1>3. \A v : valueOf(v) <=> Stands(b, s, v)
    BY <1>2 DEF Stands, sweep, AggregateSupport, AggregateAttack, IsWeighted
<1>4. Stands(b, s, value)
  <2>1. \E v : valueOf(v)
      BY <1>3
  <2>2. valueOf(value)
      BY <2>1
  <2>3. QED
      BY <1>3, <2>2
<1> HIDE DEF value
<1>5. QED
    BY <1>1, <1>4, OneStands

\* What holds after each sweep.
Swept(b, s, i, at) ==
    /\ at.sigma = [a \in Argument |-> at.sigma[a]]
    /\ at.converged \in BOOLEAN /\ (at.converged => Stands(b, s, at.sigma))
    /\ at.iterations \in 0 .. i /\ (i > 0 \/ at.converged => at.iterations > 0)
LEMMA SweepsFollow ==
    ASSUME NEW b, NEW s, NEW run, Sweeps(b, s, MaxSweeps, run), NEW i \in 0 .. MaxSweeps - 1
    PROVE  i + 1 \in 0 .. MaxSweeps /\ run[i + 1] = Sweep(b, s, i + 1, run[i])
<1>1. i + 1 \in 0 .. MaxSweeps /\ i + 1 # 0 /\ (i + 1) - 1 = i
    BY QbafBounds
<1>2. QED
    BY <1>1 DEF Sweeps

LEMMA SweepsGoOn ==
    ASSUME NEW b, NEW s, IsWeighted(b, s), NEW run, Sweeps(b, s, MaxSweeps, run)
    PROVE  \A i \in 0 .. MaxSweeps : Swept(b, s, i, run[i])
<1> DEFINE holds == {i \in 0 .. MaxSweeps : Swept(b, s, i, run[i])}
<1>1. MaxSweeps \in Nat
    BY QbafBounds
<1>2. 0 \in holds
  <2>1. run[0] = Unswept(b, s)
      BY <1>1 DEF Sweeps
  <2>2. Unswept(b, s).sigma = [a \in Argument |-> Unswept(b, s).sigma[a]]
      BY DEF Unswept, IsWeighted
  <2>3. Unswept(b, s).converged \in BOOLEAN /\ ~Unswept(b, s).converged
      BY DEF Unswept
  <2>4. Unswept(b, s).iterations \in 0 .. 0 /\ ~(0 > 0)
      BY DEF Unswept
  <2>5. Swept(b, s, 0, run[0])
      BY <2>1, <2>2, <2>3, <2>4 DEF Swept
  <2>6. QED
      BY <1>1, <2>5
<1>3. ASSUME NEW i \in 0 .. MaxSweeps - 1, i \in holds PROVE i + 1 \in holds
  <2>1. i + 1 \in 0 .. MaxSweeps /\ i \in Nat /\ run[i + 1] = Sweep(b, s, i + 1, run[i])
      BY <1>1, SweepsFollow
  <2>2. Swept(b, s, i, run[i])
      BY <1>3
  <2>3. CASE run[i].converged
    <3>1. run[i + 1] = run[i]
        BY <2>1, <2>3 DEF Sweep
    <3>2. run[i].iterations \in 0 .. i + 1 /\ run[i].iterations > 0
        BY <2>1, <2>2, <2>3 DEF Swept
    <3>3. QED
        BY <2>1, <2>2, <3>1, <3>2 DEF Swept
  <2>4. CASE ~run[i].converged
    <3> DEFINE nxt == sweep(b, s, run[i].sigma)
    <3>1. run[i + 1] = [sigma |-> nxt, converged |-> nxt = run[i].sigma, iterations |-> i + 1]
        BY <2>1, <2>4 DEF Sweep
    <3>2. nxt = [a \in Argument |-> nxt[a]]
        BY DEF sweep, IsWeighted
    <3>3. nxt = run[i].sigma => Stands(b, s, nxt)
        BY DEF Stands
    <3> HIDE DEF nxt
    <3>4. i + 1 \in 0 .. i + 1 /\ i + 1 > 0
        BY <2>1
    <3>5. /\ run[i + 1].sigma = nxt /\ run[i + 1].iterations = i + 1
          /\ run[i + 1].converged = (nxt = run[i].sigma)
        BY <3>1
    <3>6. run[i + 1].converged \in BOOLEAN /\ (run[i + 1].converged => Stands(b, s, nxt))
        BY <3>3, <3>5
    <3>7. Swept(b, s, i + 1, run[i + 1])
        BY <3>2, <3>4, <3>5, <3>6 DEF Swept
    <3>8. QED
        BY <2>1, <3>7
  <2>5. QED
      BY <2>2, <2>3, <2>4 DEF Swept
<1>4. 0 .. MaxSweeps \subseteq holds
  <2> HIDE DEF holds
  <2>1. QED
      BY <1>1, <1>2, <1>3, CountingUp
<1>5. QED
    BY <1>4

\* Once settled, the sweeps end.
LEMMA SettledEnds ==
    ASSUME NEW b, NEW s, NEW run, Sweeps(b, s, MaxSweeps, run),
           NEW k \in 0 .. MaxSweeps, run[k].converged
    PROVE  run[MaxSweeps] = run[k]
<1> DEFINE holds == {i \in 0 .. MaxSweeps : i >= k => run[i] = run[k]}
<1>1. MaxSweeps \in Nat
    BY QbafBounds
<1>2. 0 \in holds
    BY <1>1
<1>3. ASSUME NEW i \in 0 .. MaxSweeps - 1, i \in holds PROVE i + 1 \in holds
  <2>1. i + 1 \in 0 .. MaxSweeps /\ run[i + 1] = Sweep(b, s, i + 1, run[i])
      BY SweepsFollow
  <2>2. CASE i >= k
      BY <1>3, <2>1, <2>2 DEF Sweep
  <2>3. CASE ~(i >= k)
    <3>1. i + 1 >= k => i + 1 = k
        BY <1>1, <2>3
    <3>2. QED
        BY <2>1, <3>1
  <2>4. QED
      BY <2>2, <2>3
<1>4. 0 .. MaxSweeps \subseteq holds
  <2> HIDE DEF holds
  <2>1. QED
      BY <1>1, <1>2, <1>3, CountingUp
<1>5. QED
    BY <1>1, <1>4

\* An argument of the first layer is at its base score from the start.
LEMMA FirstLayerStands ==
    ASSUME NEW b, NEW s, IsWeighted(b, s), NEW k \in Nat, NEW rank, Ranks(b, k, rank), NEW f
    PROVE  AgreeTo(1, rank, Unswept(b, s).sigma, sweep(b, s, f))
<1>1. SUFFICES ASSUME NEW a \in Argument, rank[a] <= 1
               PROVE  Unswept(b, s).sigma[a] = sweep(b, s, f)[a]
    BY DEF AgreeTo
<1>2. Incoming(b, b.supports, a) = {} /\ Incoming(b, b.attacks, a) = {}
  <2>1. ASSUME NEW e \in b.supports \cup b.attacks, e.dst = a, e.src \in Argument PROVE FALSE
    <3>1. rank[e.src] \in 1 .. k /\ rank[a] \in 1 .. k /\ rank[e.src] < rank[a]
        BY <2>1 DEF Ranks
    <3>2. QED
        BY <1>1, <3>1
  <2>2. QED
      BY <2>1 DEF Incoming, IsWeighted
<1>3. AggregateSupport(b, f, a) = 0 /\ AggregateAttack(b, f, a) = 0
    BY <1>2, NothingAggregates DEF AggregateSupport, AggregateAttack
<1>4. _df_quad_combine(s[a], 0, 0) = s[a]
    BY UntouchedStands DEF IsWeighted
<1>5. QED
    BY <1>3, <1>4 DEF sweep, Unswept, IsWeighted

\* Each sweep settles the next layer.
LEMMA LayersSettle ==
    ASSUME NEW b, NEW s, IsWeighted(b, s), NEW k \in 1 .. MaxSweeps, NEW rank, Ranks(b, k, rank),
           NEW run, Sweeps(b, s, MaxSweeps, run)
    PROVE  run[k].converged
<1> DEFINE settled(i) == run[i].converged \/ AgreeTo(i + 1, rank, run[i].sigma, sweep(b, s, run[i].sigma))
           holds == {i \in 0 .. k - 1 : settled(i)}
<1>1. MaxSweeps \in Nat /\ k \in Nat /\ k - 1 \in Nat /\ k - 1 \in 0 .. MaxSweeps - 1 /\ (k - 1) + 1 = k
    BY QbafBounds
<1>2. 0 \in holds
  <2>1. run[0] = Unswept(b, s)
      BY <1>1 DEF Sweeps
  <2>2. AgreeTo(1, rank, run[0].sigma, sweep(b, s, run[0].sigma))
      BY <1>1, <2>1, FirstLayerStands
  <2>3. QED
      BY <1>1, <2>2
<1>3. ASSUME NEW i \in 0 .. (k - 1) - 1, i \in holds PROVE i + 1 \in holds
  <2>1. /\ i \in 0 .. MaxSweeps - 1 /\ i + 1 \in 0 .. k - 1 /\ i + 1 \in Nat
        /\ run[i + 1] = Sweep(b, s, i + 1, run[i])
    <3>1. i \in 0 .. MaxSweeps - 1 /\ i + 1 \in 0 .. k - 1 /\ i + 1 \in Nat
        BY <1>1
    <3>2. QED
        BY <3>1, SweepsFollow
  <2>2. CASE run[i].converged
      BY <2>1, <2>2 DEF Sweep
  <2>3. CASE ~run[i].converged
    <3>1. run[i + 1].sigma = sweep(b, s, run[i].sigma)
        BY <2>1, <2>3 DEF Sweep
    <3>2. AgreeTo(i + 1, rank, run[i].sigma, run[i + 1].sigma)
        BY <1>3, <2>3, <3>1
    <3>3. AgreeTo((i + 1) + 1, rank, sweep(b, s, run[i].sigma), sweep(b, s, run[i + 1].sigma))
        BY <1>1, <2>1, <3>2, SweepClimbs
    <3>4. QED
        BY <2>1, <3>1, <3>3
  <2>4. QED
      BY <2>2, <2>3
<1>4. settled(k - 1)
  <2> HIDE DEF settled
  <2>1. 0 .. k - 1 \subseteq holds
    <3> HIDE DEF holds
    <3>1. QED
        BY <1>1, <1>2, <1>3, CountingUp
  <2>2. QED
      BY <1>1, <2>1
<1>5. run[k] = Sweep(b, s, k, run[k - 1])
    BY <1>1, SweepsFollow
<1>6. CASE run[k - 1].converged
    BY <1>5, <1>6 DEF Sweep
<1>7. CASE ~run[k - 1].converged
  <2> DEFINE f == run[k - 1].sigma
             g == sweep(b, s, f)
  <2>1. \A a \in Argument : f[a] = g[a]
    <3>1. AgreeTo(k, rank, f, g)
        BY <1>1, <1>4, <1>7
    <3>2. \A a \in Argument : rank[a] <= k
        BY <1>1 DEF Ranks
    <3>3. QED
        BY <3>1, <3>2 DEF AgreeTo
  <2>2. f = [a \in Argument |-> f[a]] /\ g = [a \in Argument |-> g[a]]
    <3>1. Swept(b, s, k - 1, run[k - 1])
        BY <1>1, SweepsGoOn
    <3>2. QED
        BY <3>1 DEF Swept, sweep, IsWeighted
  <2>3. run[k] = [sigma |-> g, converged |-> g = f, iterations |-> k]
      BY <1>5, <1>7 DEF Sweep
  <2> HIDE DEF f, g
  <2>4. f = g
      BY <2>1, <2>2
  <2>5. run[k].converged = (g = f)
      BY <2>3
  <2>6. QED
      BY <2>4, <2>5
<1>8. QED
    BY <1>6, <1>7

\* What a solve settled on does not move, what it did not names what does.
LEMMA SolutionTellsTheTruth ==
    ASSUME NEW b, NEW s, IsWeighted(b, s), NEW r, r = solve(b, s)
    PROVE  /\ r.converged => r.unstable = {} /\ Stands(b, s, r.acceptability)
           /\ r.unstable = {} <=> sweep(b, s, r.acceptability) = r.acceptability
           /\ \A k \in 1 .. MaxSweeps : \A rank : Ranks(b, k, rank) =>
                r.converged /\ r.iterations <= k /\ r.acceptability = StructuralStrength(b, s)
<1>1. PICK run : Sweeps(b, s, MaxSweeps, run) /\ r = Solved(b, s, run[MaxSweeps])
    BY SolveSweeps
<1> DEFINE end == run[MaxSweeps]
           f == end.sigma
           g == sweep(b, s, f)
<1>2. Swept(b, s, MaxSweeps, end)
    BY <1>1, SweepsGoOn, QbafBounds
<1>3. /\ r.acceptability = f /\ r.converged = end.converged /\ r.iterations = end.iterations
      /\ r.unstable = IF end.converged THEN {} ELSE StillMoving(b, s, f)
    BY <1>1 DEF Solved
<1>4. StillMoving(b, s, f) = {} <=> g = f
  <2>1. f = [a \in Argument |-> f[a]] /\ g = [a \in Argument |-> g[a]]
      BY <1>2 DEF Swept, sweep, IsWeighted
  <2>2. StillMoving(b, s, f) = {a \in Argument : g[a] # f[a]}
      BY DEF StillMoving, IsWeighted
  <2> HIDE DEF g, f
  <2>3. QED
      BY <2>1, <2>2
<1>5. r.converged => r.unstable = {} /\ Stands(b, s, r.acceptability)
    BY <1>2, <1>3 DEF Swept
<1>6. r.unstable = {} <=> sweep(b, s, r.acceptability) = r.acceptability
    BY <1>2, <1>3, <1>4 DEF Swept, Stands
<1>7. ASSUME NEW k \in 1 .. MaxSweeps, NEW rank, Ranks(b, k, rank)
      PROVE  r.converged /\ r.iterations <= k /\ r.acceptability = StructuralStrength(b, s)
  <2>1. k \in 0 .. MaxSweeps /\ k \in Nat
      BY QbafBounds
  <2>2. run[k].converged
      BY <1>1, <1>7, LayersSettle
  <2>3. end = run[k]
      BY <1>1, <2>1, <2>2, SettledEnds
  <2>4. Swept(b, s, k, run[k])
      BY <1>1, <2>1, SweepsGoOn
  <2>5. r.converged /\ r.iterations <= k
      BY <1>3, <2>1, <2>2, <2>3, <2>4 DEF Swept
  <2>6. QED
      BY <1>5, <1>7, <2>1, <2>5, StructureStands
<1>8. QED
    BY <1>5, <1>6, <1>7

\* Every adjudication solves the current evidence.
AdjudicationInv ==
    /\ framework \in [arguments : {Argument}, supports : SUBSET Edge, attacks : SUBSET Edge]
    /\ intrinsic \in [Argument -> BaseScore]
    /\ solution = solve(framework, intrinsic)
LEMMA AdjudicationStays ==
    /\ AdjudicationInit => AdjudicationInv
    /\ AdjudicationInv /\ [AdjudicationNext]_adjudicationVars => AdjudicationInv'
<1>1. AdjudicationInit => AdjudicationInv
    BY DEF AdjudicationInit, AdjudicationInv
<1>2. ASSUME AdjudicationInv, NEW b, NEW s, Evaluate(b, s),
             b \in [arguments : {Argument}, supports : SUBSET Edge, attacks : SUBSET Edge],
             s \in [Argument -> BaseScore]
      PROVE  AdjudicationInv'
    BY <1>2 DEF Evaluate, AdjudicationInv
<1>3. ASSUME AdjudicationInv, NEW e \in Edge, AddSupport(e) \/ AddAttack(e) \/ DropSupport(e) \/ DropAttack(e)
      PROVE  AdjudicationInv'
  <2>1. CASE AddSupport(e)
      BY <1>2, <1>3, <2>1 DEF AddSupport, AdjudicationInv
  <2>2. CASE AddAttack(e)
      BY <1>2, <1>3, <2>2 DEF AddAttack, AdjudicationInv
  <2>3. CASE DropSupport(e)
      BY <1>2, <1>3, <2>3 DEF DropSupport, AdjudicationInv
  <2>4. CASE DropAttack(e)
      BY <1>2, <1>3, <2>4 DEF DropAttack, AdjudicationInv
  <2>5. QED
      BY <1>3, <2>1, <2>2, <2>3, <2>4
<1>4. ASSUME AdjudicationInv, NEW a \in Argument, NEW v \in BaseScore, Reweigh(a, v) PROVE AdjudicationInv'
    BY <1>2, <1>4 DEF Reweigh, AdjudicationInv
<1>5. ASSUME AdjudicationInv, UNCHANGED adjudicationVars PROVE AdjudicationInv'
    BY <1>5 DEF AdjudicationInv, adjudicationVars
<1>6. QED
    BY <1>1, <1>3, <1>4, <1>5 DEF AdjudicationNext

\* However the evidence changes, a framework of no more layers than the bound
\* allows sweeps is solved to the strengths its structure determines, in as
\* many sweeps; a solution that names no unstable argument is a fixpoint, and
\* one that is none names those that move (solve).
THEOREM SolveIsExactOrSaysSo == AdjudicationSpec => []ExactOrSurfaced
<1>1. AdjudicationInv => ExactOrSurfaced
  <2>1. SUFFICES ASSUME AdjudicationInv PROVE ExactOrSurfaced
      OBVIOUS
  <2>2. IsWeighted(framework, intrinsic) /\ solution = solve(framework, intrinsic)
      BY <2>1, FrameworksAreWeighted DEF AdjudicationInv, IsWeighted
  <2>3. ASSUME NEW k \in 1 .. MaxSweeps, Layered(framework, k)
        PROVE  solution.converged /\ solution.iterations <= k
               /\ solution.acceptability = StructuralStrength(framework, intrinsic)
    <3>1. PICK rank : Ranks(framework, k, rank)
        BY <2>3 DEF Layered, Ranks
    <3>2. QED
        BY <2>2, <3>1, SolutionTellsTheTruth
  <2>4. /\ solution.converged => solution.unstable = {}
        /\ solution.unstable = {} <=>
             sweep(framework, intrinsic, solution.acceptability) = solution.acceptability
      BY <2>2, SolutionTellsTheTruth
  <2>5. QED
      BY <2>3, <2>4 DEF ExactOrSurfaced
<1>2. QED
    BY <1>1, AdjudicationStays, PTL DEF AdjudicationSpec

-----------------------------------------------------------------------------
(* Strengths stay in [0, 1].                                                *)

\* A product rounded down is at most either factor, and no more than a unit
\* below what both lack.
LEMMA ScaledIsAStrength ==
    ASSUME NEW x \in Strength, NEW y \in Strength
    PROVE  /\ Scaled(x, y) \in Strength /\ Scaled(x, y) <= x /\ Scaled(x, y) <= y
           /\ x + y - Scaled(x, y) <= Unit
<1> DEFINE U == Unit
           p == x * y
           q == p \div U
           r == p % U
<1>1. U \in Nat \ {0} /\ x \in Int /\ y \in Int /\ 0 <= x /\ x <= U /\ 0 <= y /\ y <= U
    BY QbafBounds DEF Strength
<1>2. \A i, j \in Int : i * j \in Int /\ i * j = j * i
    OBVIOUS
<1>3. \A n \in Int : n \div U \in Int /\ n % U \in 0 .. U - 1 /\ n = U * (n \div U) + (n % U)
    BY <1>1
<1>4. q \in Int /\ r \in Int /\ 0 <= r /\ r < U /\ p = U * q + r /\ p \in Int
    BY <1>1, <1>2, <1>3
<1>5. \A i, j, k \in Int : 0 <= k /\ i <= j => k * i <= k * j
    OBVIOUS
<1>6. \A i, j, k \in Int : k * (i + j) = k * i + k * j /\ k * (i - j) = k * i - k * j
    OBVIOUS
<1>7. p <= U * x /\ p <= U * y /\ 0 <= p
  <2>1. x * y <= x * U /\ y * x <= y * U /\ x * 0 <= x * y /\ x * 0 = 0
      BY <1>1, <1>5
  <2>2. QED
      BY <1>1, <1>2, <2>1
<1>8. U * (x + y - U) <= p
  <2> DEFINE u == U - x
             v == U - y
  <2>1. u \in Int /\ v \in Int /\ 0 <= u /\ 0 <= v
      BY <1>1
  <2>2. 0 <= u * v
    <3> HIDE DEF u, v
    <3>1. u * 0 <= u * v /\ u * 0 = 0 /\ u * v \in Int
        BY <1>2, <1>5, <2>1
    <3>2. QED
        BY <3>1
  <2>3. u * v = U * U - U * y - U * x + x * y
    <3>1. u * v = u * U - u * y /\ U * u = U * U - U * x /\ y * u = y * U - y * x
        BY <1>1, <1>6, <2>1
    <3>2. u * U = U * u /\ u * y = y * u /\ y * U = U * y /\ y * x = x * y
        BY <1>1, <1>2, <2>1
    <3>3. U * U \in Int /\ U * x \in Int /\ U * y \in Int /\ x * y \in Int
        BY <1>1, <1>2
    <3> HIDE DEF u, v
    <3>4. QED
        BY <3>1, <3>2, <3>3
  <2>4. U * (x + y - U) = U * x + U * y - U * U
    <3>1. \A i, j, k \in Int : k * (i + j - k) = k * i + k * j - k * k
        OBVIOUS
    <3>2. QED
        BY <1>1, <3>1
  <2>5. U * U \in Int /\ U * x \in Int /\ U * y \in Int
      BY <1>1, <1>2
  <2> HIDE DEF u, v
  <2>6. QED
      BY <1>4, <2>2, <2>3, <2>4, <2>5
<1>9. ASSUME NEW i \in Int, NEW j \in Int, U * i <= U * j + r PROVE i <= j
  <2>1. SUFFICES ASSUME j + 1 <= i PROVE FALSE
      BY <1>9
  <2>2. U * (j + 1) <= U * i /\ U * (j + 1) = U * j + U * 1 /\ U * 1 = U
      BY <1>1, <1>5, <1>6, <2>1
  <2>3. U * j \in Int /\ U * i \in Int
      BY <1>1, <1>2
  <2>4. QED
      BY <1>1, <1>4, <1>9, <2>2, <2>3
<1>10. 0 <= q
  <2>1. U * 0 <= U * q + r /\ U * 0 = 0
      BY <1>1, <1>4, <1>7
  <2>2. QED
      BY <1>4, <1>9, <2>1
<1>11. x + y - U <= q
  <2>1. x + y - U \in Int
      BY <1>1
  <2>2. QED
      BY <1>4, <1>8, <1>9, <2>1
<1>12. ASSUME NEW z \in Int, p <= U * z PROVE q <= z
  <2>1. U * q <= U * z
    <3>1. U * q \in Int /\ U * z \in Int
        BY <1>1, <1>2, <1>4
    <3>2. QED
        BY <1>4, <1>12, <3>1
  <2>2. U * z <= U * z + r
      BY <1>1, <1>2, <1>4
  <2>3. U * q \in Int /\ U * z \in Int
      BY <1>1, <1>2, <1>4
  <2>4. QED
      BY <1>4, <1>9, <2>1, <2>2, <2>3
<1>13. q <= x /\ q <= y
    BY <1>1, <1>7, <1>12
<1>14. Scaled(x, y) = q
    BY DEF Scaled
<1> HIDE DEF q
<1>15. QED
    BY <1>1, <1>4, <1>10, <1>11, <1>13, <1>14 DEF Strength

\* So is what joining a contribution makes of an aggregate.
LEMMA JoinedIsAStrength ==
    ASSUME NEW x \in Strength, NEW y \in Strength
    PROVE  Joined(x, y) \in Strength /\ x <= Joined(x, y)
<1>1. Scaled(x, y) \in Strength /\ Scaled(x, y) <= y /\ x + y - Scaled(x, y) <= Unit
    BY ScaledIsAStrength
<1>2. QED
    BY <1>1, QbafBounds DEF Joined, Strength

\* Edges and strengths that can be aggregated, and the fold that does it.
Weighed(es, f) == Sortable(es) /\ \A e \in es : f[e.src] \in Strength
Aggregates(es, f, g) ==
    /\ g \in [SUBSET es -> Strength] /\ g[{}] = 0
    /\ \A s \in SUBSET es : s # {} =>
           g[s] = Joined(g[s \ {LastEdge(s)}], Contributed(LastEdge(s), f))

LEMMA PartsWeigh ==
    ASSUME NEW es, NEW f, Weighed(es, f), NEW s \in SUBSET es
    PROVE  /\ Weighed(s, f) /\ IsFiniteSet(s) /\ (s # {} => LastEdge(s) \in s)
           /\ \A e \in s : Contributed(e, f) \in Strength
<1>1. Sortable(s) /\ (s # {} => LastEdge(s) \in s)
    BY PartsSort DEF Weighed
<1>2. QED
    BY <1>1, ScaledIsAStrength DEF Weighed, Sortable, Contributed

\* There is one.
LEMMA AggregateExists ==
    ASSUME NEW es, NEW f, Weighed(es, f)
    PROVE  \E g : Aggregates(es, f, g)
<1> DEFINE step == [x \in es \X Strength |-> Joined(x[2], Contributed(x[1], f))]
           last == [s \in SUBSET es |-> LastEdge(s)]
<1>1. Foldable(step, 0, es, Strength)
  <2>1. 0 \in Strength
      BY QbafBounds DEF Strength
  <2>2. \A e \in es, acc \in Strength : Joined(acc, Contributed(e, f)) \in Strength
      BY PartsWeigh, JoinedIsAStrength
  <2>3. QED
      BY <2>1, <2>2 DEF Foldable, Weighed, Sortable
<1>2. \A e \in es, acc \in Strength : step[<<e, acc>>] = Joined(acc, Contributed(e, f))
    OBVIOUS
<1>3. \A s \in SUBSET es : last[s] = LastEdge(s)
    OBVIOUS
<1> HIDE DEF step, last
<1>4. Picks(es, last)
    BY <1>3, PartsWeigh DEF Picks
<1>5. FoldableInOrder(step, 0, last, es, Strength)
    BY <1>1, <1>4, OrderedFoldExists
<1>6. PICK g \in [SUBSET es -> Strength] : FoldsInOrder(step, 0, last, es, g)
    BY <1>5 DEF FoldableInOrder
<1>7. ASSUME NEW s \in SUBSET es, s # {}
      PROVE  g[s] = Joined(g[s \ {LastEdge(s)}], Contributed(LastEdge(s), f))
  <2>1. LastEdge(s) \in es /\ s \ {LastEdge(s)} \in SUBSET es
      BY <1>7, PartsWeigh
  <2>2. g[s \ {LastEdge(s)}] \in Strength
      BY <1>6, <2>1
  <2>3. g[s] = step[<<LastEdge(s), g[s \ {LastEdge(s)}]>>]
      BY <1>3, <1>6, <1>7 DEF FoldsInOrder, FoldedInOrder
  <2>4. QED
      BY <1>2, <2>1, <2>2, <2>3
<1>8. g[{}] = 0
    BY <1>6 DEF FoldsInOrder, FoldedInOrder
<1>9. QED
    BY <1>6, <1>7, <1>8 DEF Aggregates

\* It is the only one, for the edges and any part of them.
LEMMA AggregateIsUnique ==
    ASSUME NEW es, NEW f, Weighed(es, f), NEW g, Aggregates(es, f, g),
           NEW part \in SUBSET es, NEW it, Aggregating(part, f, it)
    PROVE  \A s \in SUBSET part : it[s] = g[s]
<1> DEFINE same == {s \in SUBSET part : it[s] = g[s]}
<1>1. {} \in same
    BY DEF Aggregates, Aggregating
<1>2. ASSUME NEW s \in SUBSET part, s # {}, \A e \in s : s \ {e} \in same PROVE s \in same
  <2>1. LastEdge(s) \in s /\ s \in SUBSET es
      BY <1>2, PartsWeigh
  <2>2. it[s \ {LastEdge(s)}] = g[s \ {LastEdge(s)}]
      BY <1>2, <2>1
  <2>3. it[s] = Joined(it[s \ {LastEdge(s)}], Contributed(LastEdge(s), f))
      BY <1>2 DEF Aggregating
  <2>4. g[s] = Joined(g[s \ {LastEdge(s)}], Contributed(LastEdge(s), f))
      BY <1>2, <2>1 DEF Aggregates
  <2>5. QED
      BY <2>2, <2>3, <2>4
<1>3. IsFiniteSet(part)
    BY PartsWeigh
<1>4. SUBSET part \subseteq same
  <2> HIDE DEF same
  <2>1. QED
      BY <1>1, <1>2, <1>3, SubsetsByOne
<1>5. QED
    BY <1>4

\* So it gives what _prob_sum returns for each part of the edges.
LEMMA AggregateGives ==
    ASSUME NEW es, NEW f, Weighed(es, f), NEW g, Aggregates(es, f, g), NEW part \in SUBSET es
    PROVE  _prob_sum(part, f) = g[part]
<1> DEFINE chosen == CHOOSE it : Aggregating(part, f, it)
<1>1. \E it : Aggregating(part, f, it)
  <2> DEFINE it == [s \in SUBSET part |-> g[s]]
  <2>1. ASSUME NEW s \in SUBSET part
        PROVE  it[s] = IF s = {} THEN 0
                       ELSE Joined(it[s \ {LastEdge(s)}], Contributed(LastEdge(s), f))
      BY DEF Aggregates
  <2>2. it = [s \in SUBSET part |-> it[s]]
      OBVIOUS
  <2> HIDE DEF it
  <2>3. Aggregating(part, f, it)
      BY <2>1, <2>2 DEF Aggregating
  <2>4. QED
      BY <2>3
<1>2. Aggregating(part, f, chosen)
    BY <1>1
<1>3. _prob_sum(part, f) = chosen[part]
    BY AggregateFolds
<1> HIDE DEF chosen
<1>4. chosen[part] = g[part]
    BY <1>2, AggregateIsUnique
<1>5. QED
    BY <1>3, <1>4

\* An aggregate is a strength, and its last contribution was joined to that of
\* the edges before.
LEMMA AggregateIsAStrength ==
    ASSUME NEW es, NEW f, Weighed(es, f)
    PROVE  /\ _prob_sum(es, f) \in Strength
           /\ es # {} => _prob_sum(es, f) = Joined(_prob_sum(es \ {LastEdge(es)}, f),
                                                   Contributed(LastEdge(es), f))
<1>1. PICK g : Aggregates(es, f, g)
    BY AggregateExists
<1>2. \A s \in SUBSET es : _prob_sum(s, f) = g[s]
    BY <1>1, AggregateGives
<1>3. es \in SUBSET es /\ es \ {LastEdge(es)} \in SUBSET es
    OBVIOUS
<1>4. _prob_sum(es, f) = g[es] /\ _prob_sum(es \ {LastEdge(es)}, f) = g[es \ {LastEdge(es)}]
    BY <1>2, <1>3
<1>5. QED
    BY <1>1, <1>3, <1>4 DEF Aggregates

\* And what support and attack make of a score.
LEMMA CombinedIsAStrength ==
    ASSUME NEW x \in Strength, NEW support \in Strength, NEW attack \in Strength
    PROVE  _df_quad_combine(x, support, attack) \in Strength
<1>1. Unit \in Nat /\ x \in 0 .. Unit /\ support \in 0 .. Unit /\ attack \in 0 .. Unit
    BY QbafBounds DEF Strength
<1>2. CASE support > attack
  <2>1. Unit - x \in Strength /\ support - attack \in Strength
      BY <1>1, <1>2 DEF Strength
  <2>2. Scaled(Unit - x, support - attack) \in Strength /\ Scaled(Unit - x, support - attack) <= Unit - x
      BY <2>1, ScaledIsAStrength
  <2>3. QED
      BY <1>1, <1>2, <2>2 DEF _df_quad_combine, Strength
<1>3. CASE ~(support > attack)
  <2>1. attack - support \in Strength
      BY <1>1, <1>3 DEF Strength
  <2>2. Scaled(x, attack - support) \in Strength /\ Scaled(x, attack - support) <= x
      BY <2>1, ScaledIsAStrength
  <2>3. QED
      BY <1>1, <1>3, <2>2 DEF _df_quad_combine, Strength
<1>4. QED
    BY <1>2, <1>3

LEMMA SweepIsTyped ==
    ASSUME NEW b, NEW s, IsWeighted(b, s), NEW f \in [Argument -> Strength]
    PROVE  sweep(b, s, f) \in [Argument -> Strength]
<1>1. ASSUME NEW es \in SUBSET Edge, NEW a
      PROVE  _prob_sum(Incoming(b, es, a), f) \in Strength
  <2> DEFINE into == Incoming(b, es, a)
  <2>1. into \in SUBSET Edge /\ (\A e \in into : e.src \in Argument) /\ Sortable(Edge)
      BY FrameworksAreWeighted DEF Incoming, IsWeighted, Sortable
  <2> HIDE DEF into
  <2>2. Weighed(into, f)
      BY <2>1, PartsSort DEF Weighed
  <2>3. _prob_sum(into, f) \in Strength
      BY <2>2, AggregateIsAStrength
  <2>4. QED
      BY <2>3 DEF into
<1>2. \A a \in Argument : AggregateSupport(b, f, a) \in Strength /\ AggregateAttack(b, f, a) \in Strength
    BY <1>1 DEF AggregateSupport, AggregateAttack, IsWeighted
<1>3. ASSUME NEW a \in Argument
      PROVE  _df_quad_combine(s[a], AggregateSupport(b, f, a), AggregateAttack(b, f, a)) \in Strength
    BY <1>2, CombinedIsAStrength DEF IsWeighted
<1>4. QED
    BY <1>3 DEF sweep, IsWeighted

LEMMA SweepsAreTyped ==
    ASSUME NEW b, NEW s, IsWeighted(b, s), NEW run, Sweeps(b, s, MaxSweeps, run)
    PROVE  \A i \in 0 .. MaxSweeps : run[i].sigma \in [Argument -> Strength]
<1> DEFINE holds == {i \in 0 .. MaxSweeps : run[i].sigma \in [Argument -> Strength]}
<1>1. MaxSweeps \in Nat
    BY QbafBounds
<1>2. 0 \in holds
  <2>1. run[0] = Unswept(b, s)
      BY <1>1 DEF Sweeps
  <2>2. QED
      BY <1>1, <2>1 DEF Unswept, IsWeighted
<1>3. ASSUME NEW i \in 0 .. MaxSweeps - 1, i \in holds PROVE i + 1 \in holds
  <2>1. i + 1 \in 0 .. MaxSweeps /\ run[i + 1] = Sweep(b, s, i + 1, run[i])
      BY SweepsFollow
  <2>2. run[i + 1].sigma = run[i].sigma \/ run[i + 1].sigma = sweep(b, s, run[i].sigma)
      BY <2>1 DEF Sweep
  <2>3. sweep(b, s, run[i].sigma) \in [Argument -> Strength]
      BY <1>3, SweepIsTyped
  <2>4. QED
      BY <1>3, <2>1, <2>2, <2>3
<1>4. 0 .. MaxSweeps \subseteq holds
  <2> HIDE DEF holds
  <2>1. QED
      BY <1>1, <1>2, <1>3, CountingUp
<1>5. QED
    BY <1>4

\* Whatever the evidence and however a solve ends, its strengths are in [0, 1],
\* and it has swept at least once and never past the bound.
THEOREM StrengthsStayInRange == AdjudicationSpec => []AdjudicationTypeOK
<1>1. ASSUME NEW b, NEW s, IsWeighted(b, s)
      PROVE  solve(b, s) \in [acceptability : [Argument -> Strength], converged : BOOLEAN,
                              iterations : 1 .. MaxSweeps, unstable : SUBSET Argument]
  <2>1. PICK run : Sweeps(b, s, MaxSweeps, run) /\ solve(b, s) = Solved(b, s, run[MaxSweeps])
      BY SolveSweeps
  <2>2. MaxSweeps \in Nat \ {0}
      BY QbafBounds
  <2>3. run[MaxSweeps].sigma \in [Argument -> Strength]
      BY <1>1, <2>1, <2>2, SweepsAreTyped
  <2>4. Swept(b, s, MaxSweeps, run[MaxSweeps])
      BY <1>1, <2>1, <2>2, SweepsGoOn
  <2>5. run[MaxSweeps].converged \in BOOLEAN /\ run[MaxSweeps].iterations \in 1 .. MaxSweeps
      BY <2>2, <2>4 DEF Swept
  <2>6. StillMoving(b, s, run[MaxSweeps].sigma) \in SUBSET Argument
      BY <1>1 DEF StillMoving, IsWeighted
  <2>7. QED
      BY <2>1, <2>3, <2>5, <2>6 DEF Solved
<1>2. AdjudicationInv => AdjudicationTypeOK
  <2>1. SUFFICES ASSUME AdjudicationInv PROVE AdjudicationTypeOK
      OBVIOUS
  <2>2. IsWeighted(framework, intrinsic)
      BY <2>1, FrameworksAreWeighted DEF AdjudicationInv, IsWeighted
  <2>3. QED
      BY <1>1, <2>1, <2>2 DEF AdjudicationInv, AdjudicationTypeOK
<1>3. QED
    BY <1>2, AdjudicationStays, PTL DEF AdjudicationSpec

-----------------------------------------------------------------------------
(* Evidence pushes its way.                                                 *)

\* A product rounded down grows with a factor, and no faster than it.
LEMMA ScaledGrows ==
    ASSUME NEW x \in Strength, NEW y \in Strength, NEW c \in Strength, x <= y
    PROVE  /\ Scaled(x, c) <= Scaled(y, c) /\ Scaled(y, c) <= Scaled(x, c) + (y - x)
           /\ Scaled(c, x) <= Scaled(c, y)
<1> DEFINE U == Unit
           q == (x * c) \div U
           p == (y * c) \div U
           r == (x * c) % U
           t == (y * c) % U
           d == y - x
<1>1. U \in Nat \ {0} /\ x \in Int /\ y \in Int /\ c \in Int /\ d \in Int /\ 0 <= d /\ 0 <= c /\ c <= U
    BY QbafBounds DEF Strength
<1>2. \A i, j \in Int : i * j \in Int /\ i * j = j * i
    OBVIOUS
<1>3. \A n \in Int : n \div U \in Int /\ n % U \in 0 .. U - 1 /\ n = U * (n \div U) + (n % U)
    BY <1>1
<1>4. /\ q \in Int /\ p \in Int /\ r \in 0 .. U - 1 /\ t \in 0 .. U - 1
      /\ x * c = U * q + r /\ y * c = U * p + t
    BY <1>1, <1>2, <1>3
<1>5. x * c <= y * c /\ y * c <= x * c + U * d
  <2>1. y * c = x * c + d * c
    <3>1. \A i, j, k \in Int : k * (i + j) = k * i + k * j
        OBVIOUS
    <3>2. y = x + d /\ c * (x + d) = c * x + c * d
        BY <1>1, <3>1
    <3> HIDE DEF d
    <3>3. QED
        BY <1>1, <1>2, <3>2
  <2>2. 0 <= d * c /\ d * c <= U * d
    <3>1. \A i, j, k \in Int : 0 <= k /\ i <= j => k * i <= k * j
        OBVIOUS
    <3> HIDE DEF d
    <3>2. d * 0 <= d * c /\ d * c <= d * U /\ d * 0 = 0
        BY <1>1, <3>1
    <3>3. QED
        BY <1>1, <1>2, <3>2
  <2> HIDE DEF d
  <2>3. x * c \in Int /\ d * c \in Int /\ U * d \in Int
      BY <1>1, <1>2
  <2>4. QED
      BY <2>1, <2>2, <2>3
<1>6. ASSUME NEW i \in Int, NEW j \in Int, NEW u \in 0 .. U - 1, NEW v \in 0 .. U - 1,
             U * i + u <= U * j + v
      PROVE  i <= j
  <2>1. SUFFICES ASSUME j + 1 <= i PROVE FALSE
      OBVIOUS
  <2>2. U * (j + 1) <= U * i /\ U * (j + 1) = U * j + U
    <3>1. \A k, l, n \in Int : 0 <= n /\ k <= l => n * k <= n * l
        OBVIOUS
    <3>2. \A k, n \in Int : n * (k + 1) = n * k + n
        OBVIOUS
    <3>3. QED
        BY <1>1, <2>1, <3>1, <3>2
  <2>3. U * j \in Int /\ U * i \in Int
      BY <1>1, <1>2
  <2>4. QED
      BY <1>1, <1>6, <2>2, <2>3
<1>7. q <= p
    BY <1>4, <1>5, <1>6
<1>8. p <= q + d
  <2>1. U * (q + d) = U * q + U * d /\ q + d \in Int
    <3>1. \A k, l, n \in Int : n * (k + l) = n * k + n * l
        OBVIOUS
    <3>2. QED
        BY <1>1, <1>4, <3>1
  <2> HIDE DEF q, p, r, t, d
  <2>2. U * q \in Int /\ U * d \in Int /\ U * p \in Int
      BY <1>1, <1>2, <1>4
  <2>3. U * p + t <= U * (q + d) + r
      BY <1>4, <1>5, <2>1, <2>2
  <2>4. QED
      BY <1>4, <1>6, <2>1, <2>3
<1>9. Scaled(x, c) = q /\ Scaled(y, c) = p /\ Scaled(c, x) = q /\ Scaled(c, y) = p
  <2>1. c * x = x * c /\ c * y = y * c
      BY <1>1, <1>2
  <2>2. QED
      BY <2>1 DEF Scaled
<1> HIDE DEF q, p
<1>10. QED
    BY <1>7, <1>8, <1>9

\* So what a contribution is joined to still counts.
LEMMA JoinedGrows ==
    ASSUME NEW x \in Strength, NEW y \in Strength, NEW c \in Strength, x <= y
    PROVE  Joined(x, c) <= Joined(y, c)
<1>1. Scaled(y, c) <= Scaled(x, c) + (y - x) /\ Scaled(x, c) \in Strength /\ Scaled(y, c) \in Strength
    BY ScaledGrows, ScaledIsAStrength
<1>2. x \in Int /\ y \in Int /\ c \in Int /\ Scaled(x, c) \in Int /\ Scaled(y, c) \in Int
    BY <1>1, StrengthsAreNumbers
<1>3. QED
    BY <1>1, <1>2 DEF Joined

\* A verdict grows with the score and the support, and falls with the attack.
LEMMA CombinedGrows ==
    ASSUME NEW x \in Strength, NEW y \in Strength, x <= y,
           NEW u \in Strength, NEW v \in Strength, u <= v,
           NEW m \in Strength, NEW n \in Strength, n <= m
    PROVE  _df_quad_combine(x, u, m) <= _df_quad_combine(y, v, n)
<1>1. /\ Unit \in Nat /\ x \in 0 .. Unit /\ y \in 0 .. Unit /\ u \in 0 .. Unit /\ v \in 0 .. Unit
      /\ m \in 0 .. Unit /\ n \in 0 .. Unit
    BY QbafBounds DEF Strength
<1>2. CASE u > m
  <2> DEFINE d == u - m
             d2 == v - n
             low == Unit - y
             high == Unit - x
  <2>1. /\ d \in Strength /\ d2 \in Strength /\ d <= d2 /\ v > n
        /\ low \in Strength /\ high \in Strength /\ low <= high /\ high - low = y - x
      BY <1>1, <1>2 DEF Strength
  <2>2. _df_quad_combine(x, u, m) = x + Scaled(high, d) /\ _df_quad_combine(y, v, n) = y + Scaled(low, d2)
      BY <1>2, <2>1 DEF _df_quad_combine
  <2> HIDE DEF d, d2, low, high
  <2>3. Scaled(high, d) <= Scaled(low, d) + (high - low) /\ Scaled(low, d) <= Scaled(low, d2)
      BY <2>1, ScaledGrows
  <2>4. Scaled(high, d) \in Int /\ Scaled(low, d) \in Int /\ Scaled(low, d2) \in Int
      BY <2>1, ScaledIsAStrength, StrengthsAreNumbers
  <2>5. QED
      BY <1>1, <2>1, <2>2, <2>3, <2>4
<1>3. CASE ~(u > m) /\ v > n
  <2>1. /\ m - u \in Strength /\ v - n \in Strength /\ Unit - y \in Strength
      BY <1>1, <1>3 DEF Strength
  <2>2. Scaled(x, m - u) \in Strength /\ Scaled(Unit - y, v - n) \in Strength
      BY <2>1, ScaledIsAStrength
  <2>3. /\ _df_quad_combine(x, u, m) = x - Scaled(x, m - u)
        /\ _df_quad_combine(y, v, n) = y + Scaled(Unit - y, v - n)
      BY <1>3 DEF _df_quad_combine
  <2>4. QED
      BY <1>1, <2>2, <2>3 DEF Strength
<1>4. CASE ~(u > m) /\ ~(v > n)
  <2> DEFINE d == m - u
             d2 == n - v
  <2>1. d \in Strength /\ d2 \in Strength /\ d2 <= d
      BY <1>1, <1>4 DEF Strength
  <2>2. _df_quad_combine(x, u, m) = x - Scaled(x, d) /\ _df_quad_combine(y, v, n) = y - Scaled(y, d2)
      BY <1>4 DEF _df_quad_combine
  <2> HIDE DEF d, d2
  <2>3. Scaled(y, d2) <= Scaled(x, d2) + (y - x) /\ Scaled(x, d2) <= Scaled(x, d)
      BY <2>1, ScaledGrows
  <2>4. Scaled(y, d2) \in Int /\ Scaled(x, d2) \in Int /\ Scaled(x, d) \in Int
      BY <2>1, ScaledIsAStrength, StrengthsAreNumbers
  <2>5. QED
      BY <1>1, <2>2, <2>3, <2>4
<1>5. QED
  <2>1. u > m => v > n
      BY <1>1
  <2>2. QED
      BY <1>2, <1>3, <1>4, <2>1

\* The edges into one argument from sources with ids of their own, which any
\* that sorts behind no other can be joined last.
Distinct(es, f) ==
    /\ Weighed(es, f)
    /\ \A e, d \in es : Id(e.src) = Id(d.src) => e.src = d.src
LEMMA AnyLastJoins ==
    ASSUME NEW es, NEW f, Distinct(es, f),
           NEW l \in es, \A d \in es : ~SortsBefore(l, d)
    PROVE  _prob_sum(es, f) = Joined(_prob_sum(es \ {l}, f), Contributed(l, f))
<1> DEFINE lasts(s) == {e \in s : \A d \in s : ~SortsBefore(e, d)}
           joins(s, e) == _prob_sum(s, f) = Joined(_prob_sum(s \ {e}, f), Contributed(e, f))
           holds == {s \in SUBSET es : \A e \in lasts(s) : joins(s, e)}
<1>1. {} \in holds
    OBVIOUS
<1>2. ASSUME NEW s \in SUBSET es, s # {}, \A e \in s : s \ {e} \in holds PROVE s \in holds
  <2>1. SUFFICES ASSUME NEW e \in lasts(s) PROVE joins(s, e)
      OBVIOUS
  <2> DEFINE m == LastEdge(s)
  <2>2. m \in s /\ m \in lasts(s) /\ joins(s, m)
    <3>1. Weighed(s, f) /\ Sortable(s)
        BY PartsWeigh DEF Distinct, Weighed
    <3>2. QED
        BY <1>2, <3>1, LastComesLast, AggregateIsAStrength
  <2> HIDE DEF m
  <2>3. CASE m = e
      BY <2>2, <2>3
  <2>4. CASE m # e
    <3>1. Contributed(e, f) = Contributed(m, f)
      <4>1. e \in es /\ m \in es /\ ~SortsBefore(e, m) /\ ~SortsBefore(m, e)
          BY <2>1, <2>2
      <4>2. Id(e.src) \in Nat /\ Id(m.src) \in Nat /\ e.strength \in Int /\ m.strength \in Int
          BY <4>1, StrengthsAreNumbers DEF Distinct, Weighed, Sortable
      <4>3. Id(e.src) = Id(m.src) /\ e.strength = m.strength
          BY <4>1, <4>2 DEF SortsBefore
      <4>4. e.src = m.src
          BY <4>1, <4>3 DEF Distinct
      <4>5. QED
          BY <4>3, <4>4 DEF Contributed
    <3>2. s \ {m} \in holds /\ s \ {e} \in holds /\ e \in lasts(s \ {m}) /\ m \in lasts(s \ {e})
        BY <1>2, <2>1, <2>2, <2>4
    <3>3. joins(s \ {m}, e) /\ joins(s \ {e}, m)
        BY <3>2
    <3>4. (s \ {m}) \ {e} = (s \ {e}) \ {m}
        OBVIOUS
    <3>5. _prob_sum(s \ {m}, f) = _prob_sum(s \ {e}, f)
        BY <3>1, <3>3, <3>4
    <3>6. QED
        BY <2>2, <3>1, <3>5
  <2>5. QED
      BY <2>3, <2>4
<1>3. IsFiniteSet(es)
    BY DEF Distinct, Weighed, Sortable
<1>4. SUBSET es \subseteq holds
  <2> HIDE DEF holds
  <2>1. QED
      BY <1>1, <1>2, <1>3, SubsetsByOne
<1>5. es \in holds /\ l \in lasts(es)
    BY <1>4
<1>6. QED
    BY <1>5

\* More edges do not aggregate to less, wherever they come in the order.
LEMMA AggregateGrowsByOne ==
    ASSUME NEW es, NEW f, Distinct(es, f), NEW x \in es
    PROVE  _prob_sum(es \ {x}, f) <= _prob_sum(es, f)
<1> DEFINE holds == {s \in SUBSET es : \A e \in s : _prob_sum(s \ {e}, f) <= _prob_sum(s, f)}
<1>1. {} \in holds
    OBVIOUS
<1>2. ASSUME NEW s \in SUBSET es, s # {}, \A e \in s : s \ {e} \in holds PROVE s \in holds
  <2>1. SUFFICES ASSUME NEW e \in s PROVE _prob_sum(s \ {e}, f) <= _prob_sum(s, f)
      OBVIOUS
  <2> DEFINE l == LastEdge(s)
             c == Contributed(l, f)
             before == _prob_sum(s \ {l}, f)
  <2>2. Weighed(s, f) /\ Sortable(s)
      BY PartsWeigh DEF Distinct, Weighed
  <2>3. l \in s /\ (\A d \in s : ~SortsBefore(l, d)) /\ _prob_sum(s, f) = Joined(before, c)
      BY <1>2, <2>2, LastComesLast, AggregateIsAStrength
  <2> HIDE DEF l
  <2>4. c \in Strength
      BY <2>2, <2>3, PartsWeigh
  <2>5. \A r \in SUBSET s : Distinct(r, f) /\ _prob_sum(r, f) \in Strength
    <3> TAKE r \in SUBSET s
    <3>1. Weighed(r, f)
        BY <2>2, PartsWeigh
    <3>2. QED
        BY <3>1, AggregateIsAStrength DEF Distinct
  <2>6. before \in Strength
      BY <2>5
  <2> HIDE DEF c, before
  <2>7. CASE e = l
      BY <2>3, <2>4, <2>6, <2>7, JoinedIsAStrength DEF before
  <2>8. CASE e # l
    <3> DEFINE less == _prob_sum((s \ {e}) \ {l}, f)
    <3>1. _prob_sum(s \ {e}, f) = Joined(less, c)
      <4>1. Distinct(s \ {e}, f) /\ l \in s \ {e} /\ \A d \in s \ {e} : ~SortsBefore(l, d)
          BY <2>3, <2>5, <2>8
      <4>2. QED
          BY <4>1, AnyLastJoins DEF c
    <3>2. less <= before
      <4>1. s \ {l} \in holds /\ e \in s \ {l} /\ (s \ {e}) \ {l} = (s \ {l}) \ {e}
          BY <1>2, <2>3, <2>8
      <4>2. QED
          BY <4>1 DEF before
    <3>3. less \in Strength
        BY <2>5
    <3> HIDE DEF less
    <3>4. Joined(less, c) <= Joined(before, c)
        BY <2>4, <2>6, <3>2, <3>3, JoinedGrows
    <3>5. QED
        BY <2>3, <3>1, <3>4
  <2>9. QED
      BY <2>7, <2>8
<1>3. IsFiniteSet(es)
    BY DEF Distinct, Weighed, Sortable
<1>4. SUBSET es \subseteq holds
  <2> HIDE DEF holds
  <2>1. QED
      BY <1>1, <1>2, <1>3, SubsetsByOne
<1>5. es \in holds
    BY <1>4
<1>6. QED
    BY <1>5

\* A solve is as many sweeps as the bound allows: past a converged one they
\* change nothing.
LEMMA SweepsRepeat ==
    ASSUME NEW b, NEW s, IsWeighted(b, s), NEW run, Sweeps(b, s, MaxSweeps, run),
           NEW i \in 0 .. MaxSweeps - 1
    PROVE  i + 1 \in 0 .. MaxSweeps /\ run[i + 1].sigma = sweep(b, s, run[i].sigma)
<1>1. i + 1 \in 0 .. MaxSweeps /\ run[i + 1] = Sweep(b, s, i + 1, run[i])
    BY SweepsFollow
<1>2. i \in 0 .. MaxSweeps
    BY QbafBounds
<1>3. run[i].converged => Stands(b, s, run[i].sigma)
    BY <1>2, SweepsGoOn DEF Swept
<1>4. QED
    BY <1>1, <1>3 DEF Sweep, Stands

\* The aggregates an argument's strength is made of.
LEMMA AggregatesOf ==
    ASSUME NEW b, NEW s, IsWeighted(b, s), NEW f \in [Argument -> Strength], NEW a \in Argument
    PROVE  /\ Distinct(Incoming(b, b.supports, a), f) /\ Distinct(Incoming(b, b.attacks, a), f)
           /\ AggregateSupport(b, f, a) \in Strength /\ AggregateAttack(b, f, a) \in Strength
<1>1. /\ Sortable(Incoming(b, b.supports, a)) /\ Sortable(Incoming(b, b.attacks, a))
      /\ \A e \in Incoming(b, b.supports, a) \cup Incoming(b, b.attacks, a) : e.src \in Argument
    BY WeightedSort DEF Incoming, IsWeighted
<1>2. Weighed(Incoming(b, b.supports, a), f) /\ Weighed(Incoming(b, b.attacks, a), f)
    BY <1>1 DEF Weighed
<1>3. QED
    BY <1>1, <1>2, AggregateIsAStrength, FrameworksAreWeighted DEF Distinct, AggregateSupport, AggregateAttack

\* Two frameworks bear alike on an argument; the second bears on it more, by a
\* higher score, a further support or an attack less.
BearsAlike(b, s, c, t, a) ==
    /\ s[a] = t[a]
    /\ Incoming(b, b.supports, a) = Incoming(c, c.supports, a)
    /\ Incoming(b, b.attacks, a) = Incoming(c, c.attacks, a)
OneLessAtMost(es, ds) == \E e : es \in {ds, ds \ {e}}
BearsMore(b, s, c, t, a) ==
    /\ s[a] <= t[a]
    /\ OneLessAtMost(Incoming(b, b.supports, a), Incoming(c, c.supports, a))
    /\ OneLessAtMost(Incoming(c, c.attacks, a), Incoming(b, b.attacks, a))

\* Both rank their arguments alike, and differ in nothing below a.
Compared(b, s, c, t, k, rank, a) ==
    /\ IsWeighted(b, s) /\ IsWeighted(c, t) /\ Ranks(b, k, rank) /\ Ranks(c, k, rank)
    /\ \A d \in Argument : rank[d] < rank[a] => BearsAlike(b, s, c, t, d)
AgreeBelow(rank, a, f, g) == \A d \in Argument : rank[d] < rank[a] => f[d] = g[d]

\* What an argument's edges come from ranks below it.
LEMMA SourcesRankBelow ==
    ASSUME NEW b, NEW s, IsWeighted(b, s), NEW k \in Nat, NEW rank, Ranks(b, k, rank),
           NEW a \in Argument, NEW e \in Incoming(b, b.supports, a) \cup Incoming(b, b.attacks, a)
    PROVE  e.src \in Argument /\ rank[e.src] < rank[a] /\ rank[e.src] \in Int /\ rank[a] \in Int
<1>1. e.src \in Argument /\ e.dst = a /\ e \in b.supports \cup b.attacks
    BY DEF Incoming, IsWeighted
<1>2. QED
    BY <1>1 DEF Ranks

\* Sweeps keep the strengths below a in step.
LEMMA SweepsAgreeBelow ==
    ASSUME NEW b, NEW s, NEW c, NEW t, NEW k \in Nat, NEW rank, NEW a \in Argument,
           Compared(b, s, c, t, k, rank, a), NEW f, NEW g, AgreeBelow(rank, a, f, g)
    PROVE  AgreeBelow(rank, a, sweep(b, s, f), sweep(c, t, g))
<1>1. IsWeighted(b, s) /\ IsWeighted(c, t) /\ Ranks(b, k, rank)
    BY DEF Compared
<1>2. SUFFICES ASSUME NEW d \in Argument, rank[d] < rank[a]
               PROVE  sweep(b, s, f)[d] = sweep(c, t, g)[d]
    BY DEF AgreeBelow
<1>3. BearsAlike(b, s, c, t, d)
    BY <1>2 DEF Compared
<1>4. \A e \in Incoming(b, b.supports, d) \cup Incoming(b, b.attacks, d) : f[e.src] = g[e.src]
  <2> TAKE e \in Incoming(b, b.supports, d) \cup Incoming(b, b.attacks, d)
  <2>1. e.src \in Argument /\ rank[e.src] < rank[d] /\ rank[e.src] \in Int /\ rank[d] \in Int
      BY <1>1, SourcesRankBelow
  <2>2. rank[a] \in Int
      BY <1>1 DEF Ranks
  <2>3. rank[e.src] < rank[a]
      BY <1>2, <2>1, <2>2
  <2>4. QED
      BY <2>1, <2>3 DEF AgreeBelow
<1>5. /\ AggregateSupport(b, f, d) = AggregateSupport(c, g, d)
      /\ AggregateAttack(b, f, d) = AggregateAttack(c, g, d)
    BY <1>1, <1>3, <1>4, WeightedSort, AggregateReadsSources DEF AggregateSupport, AggregateAttack, BearsAlike
<1>6. QED
    BY <1>1, <1>3, <1>5 DEF sweep, IsWeighted, BearsAlike

\* What bears on a more never leaves it lower.
LEMMA SweepRaises ==
    ASSUME NEW b, NEW s, NEW c, NEW t, NEW k \in Nat, NEW rank, NEW a \in Argument,
           Compared(b, s, c, t, k, rank, a), BearsMore(b, s, c, t, a),
           NEW f \in [Argument -> Strength], NEW g \in [Argument -> Strength], AgreeBelow(rank, a, f, g)
    PROVE  sweep(b, s, f)[a] <= sweep(c, t, g)[a]
<1>1. IsWeighted(b, s) /\ IsWeighted(c, t) /\ Ranks(b, k, rank) /\ Ranks(c, k, rank)
    BY DEF Compared
<1> DEFINE sup == Incoming(b, b.supports, a)
           sup2 == Incoming(c, c.supports, a)
           att == Incoming(b, b.attacks, a)
           att2 == Incoming(c, c.attacks, a)
<1>2. /\ \A e \in sup \cup att : f[e.src] = g[e.src]
      /\ \A e \in sup2 \cup att2 : f[e.src] = g[e.src]
    BY <1>1, SourcesRankBelow DEF AgreeBelow
<1>3. /\ Distinct(sup2, g) /\ Distinct(att, f) /\ Sortable(sup) /\ Sortable(att2)
      /\ AggregateSupport(b, f, a) \in Strength /\ AggregateAttack(b, f, a) \in Strength
      /\ AggregateSupport(c, g, a) \in Strength /\ AggregateAttack(c, g, a) \in Strength
    BY <1>1, AggregatesOf, WeightedSort
<1>4. AggregateSupport(b, f, a) <= AggregateSupport(c, g, a)
  <2>1. PICK e : sup \in {sup2, sup2 \ {e}}
      BY DEF BearsMore, OneLessAtMost
  <2>2. AggregateSupport(b, f, a) = _prob_sum(sup, g) /\ AggregateSupport(c, g, a) = _prob_sum(sup2, g)
      BY <1>2, <1>3, AggregateReadsSources DEF AggregateSupport
  <2> HIDE DEF sup, sup2
  <2>3. CASE sup # sup2
      BY <1>3, <2>1, <2>2, <2>3, AggregateGrowsByOne
  <2>4. CASE sup = sup2
    <3>1. AggregateSupport(b, f, a) \in Int
        BY <1>3, StrengthsAreNumbers
    <3>2. QED
        BY <2>2, <2>4, <3>1
  <2>5. QED
      BY <2>3, <2>4
<1>5. AggregateAttack(c, g, a) <= AggregateAttack(b, f, a)
  <2>1. PICK e : att2 \in {att, att \ {e}}
      BY DEF BearsMore, OneLessAtMost
  <2>2. AggregateAttack(b, f, a) = _prob_sum(att, f) /\ AggregateAttack(c, g, a) = _prob_sum(att2, f)
      BY <1>2, <1>3, AggregateReadsSources DEF AggregateAttack
  <2> HIDE DEF att, att2
  <2>3. CASE att2 # att
      BY <1>3, <2>1, <2>2, <2>3, AggregateGrowsByOne
  <2>4. CASE att2 = att
    <3>1. AggregateAttack(b, f, a) \in Int
        BY <1>3, StrengthsAreNumbers
    <3>2. QED
        BY <2>2, <2>4, <3>1
  <2>5. QED
      BY <2>3, <2>4
<1>6. s[a] \in Strength /\ t[a] \in Strength /\ s[a] <= t[a]
    BY <1>1 DEF IsWeighted, BearsMore
<1> HIDE DEF sup, sup2, att, att2
<1>7. _df_quad_combine(s[a], AggregateSupport(b, f, a), AggregateAttack(b, f, a))
        <= _df_quad_combine(t[a], AggregateSupport(c, g, a), AggregateAttack(c, g, a))
    BY <1>3, <1>4, <1>5, <1>6, CombinedGrows
<1>8. QED
    BY <1>1, <1>7 DEF sweep, IsWeighted

LEMMA SolveRaises ==
    ASSUME NEW b, NEW s, NEW c, NEW t, NEW k \in Nat, NEW rank, NEW a \in Argument,
           Compared(b, s, c, t, k, rank, a), BearsMore(b, s, c, t, a)
    PROVE  solve(b, s).acceptability[a] <= solve(c, t).acceptability[a]
<1>1. IsWeighted(b, s) /\ IsWeighted(c, t)
    BY DEF Compared
<1>2. PICK run : Sweeps(b, s, MaxSweeps, run) /\ solve(b, s) = Solved(b, s, run[MaxSweeps])
    BY SolveSweeps
<1>3. PICK run2 : Sweeps(c, t, MaxSweeps, run2) /\ solve(c, t) = Solved(c, t, run2[MaxSweeps])
    BY SolveSweeps
<1>4. MaxSweeps \in Nat /\ MaxSweeps - 1 \in 0 .. MaxSweeps - 1 /\ (MaxSweeps - 1) + 1 = MaxSweeps
    BY QbafBounds
<1> DEFINE holds == {i \in 0 .. MaxSweeps : AgreeBelow(rank, a, run[i].sigma, run2[i].sigma)}
<1>5. 0 \in holds
  <2>1. run[0] = Unswept(b, s) /\ run2[0] = Unswept(c, t)
      BY <1>2, <1>3, <1>4 DEF Sweeps
  <2>2. AgreeBelow(rank, a, Unswept(b, s).sigma, Unswept(c, t).sigma)
      BY <1>1 DEF AgreeBelow, Unswept, IsWeighted, Compared, BearsAlike
  <2>3. QED
      BY <1>4, <2>1, <2>2
<1>6. ASSUME NEW i \in 0 .. MaxSweeps - 1, i \in holds PROVE i + 1 \in holds
  <2>1. /\ i + 1 \in 0 .. MaxSweeps
        /\ run[i + 1].sigma = sweep(b, s, run[i].sigma) /\ run2[i + 1].sigma = sweep(c, t, run2[i].sigma)
      BY <1>1, <1>2, <1>3, SweepsRepeat
  <2>2. AgreeBelow(rank, a, sweep(b, s, run[i].sigma), sweep(c, t, run2[i].sigma))
      BY <1>6, SweepsAgreeBelow
  <2>3. QED
      BY <2>1, <2>2
<1>7. MaxSweeps - 1 \in holds
  <2> HIDE DEF holds
  <2>1. 0 .. MaxSweeps \subseteq holds
      BY <1>4, <1>5, <1>6, CountingUp
  <2>2. QED
      BY <1>4, <2>1
<1> DEFINE f == run[MaxSweeps - 1].sigma
           g == run2[MaxSweeps - 1].sigma
<1>8. f \in [Argument -> Strength] /\ g \in [Argument -> Strength] /\ AgreeBelow(rank, a, f, g)
    BY <1>1, <1>2, <1>3, <1>4, <1>7, SweepsAreTyped
<1>9. run[MaxSweeps].sigma = sweep(b, s, f) /\ run2[MaxSweeps].sigma = sweep(c, t, g)
    BY <1>1, <1>2, <1>3, <1>4, SweepsRepeat
<1> HIDE DEF f, g
<1>10. sweep(b, s, f)[a] <= sweep(c, t, g)[a]
    BY <1>8, SweepRaises
<1>11. QED
    BY <1>2, <1>3, <1>9, <1>10 DEF Solved

\* Two bodies of evidence, each seen from the other.
PushesBothWays(b, s, c, t) ==
    /\ Pushes(b, s, solve(b, s).acceptability, c, t, solve(c, t).acceptability)
    /\ Pushes(c, t, solve(c, t).acceptability, b, s, solve(b, s).acceptability)

LEMMA AcyclicRanks ==
    ASSUME NEW b, Acyclic(b)
    PROVE  \E k, rank : k \in Nat /\ Ranks(b, k, rank)
<1>1. Cardinality(Argument) \in Nat
    BY FrameworksAreWeighted, FS_CardinalityType
<1>2. QED
    BY <1>1 DEF Acyclic, Layered, Ranks

\* An edge leaves the arguments other than its target to the rest.
LEMMA EdgeBearsOnTarget ==
    ASSUME NEW b, NEW c, b.arguments = c.arguments, NEW e, NEW es, NEW ds, es = ds \ {e}
    PROVE  /\ \A d : d # e.dst => Incoming(b, es, d) = Incoming(c, ds, d)
           /\ OneLessAtMost(Incoming(b, es, e.dst), Incoming(c, ds, e.dst))
<1>1. \A d : d # e.dst => Incoming(b, es, d) = Incoming(c, ds, d)
    BY DEF Incoming
<1>2. Incoming(b, es, e.dst) = Incoming(c, ds, e.dst) \ {e}
    BY DEF Incoming
<1>3. QED
    BY <1>1, <1>2 DEF OneLessAtMost

LEMMA SupportPushes ==
    ASSUME NEW b, NEW c, NEW s, IsWeighted(b, s), IsWeighted(c, s),
           NEW e \in Edge, b.supports = c.supports \ {e}, b.attacks = c.attacks
    PROVE  PushesBothWays(b, s, c, s)
<1>1. \A a \in Argument : s[a] \in Int
    BY StrengthsAreNumbers DEF IsWeighted
<1>2. e.dst \in Argument
    BY FrameworksAreWeighted
<1>3. ASSUME Acyclic(c)
      PROVE  solve(b, s).acceptability[e.dst] <= solve(c, s).acceptability[e.dst]
  <2>1. PICK k, rank : k \in Nat /\ Ranks(c, k, rank)
      BY <1>3, AcyclicRanks
  <2>2. Ranks(b, k, rank)
      BY <2>1 DEF Ranks
  <2>3. ASSUME NEW d \in Argument, rank[d] < rank[e.dst] PROVE BearsAlike(b, s, c, s, d)
    <3>1. d # e.dst
        BY <1>2, <2>1, <2>3 DEF Ranks
    <3>2. QED
        BY <3>1, EdgeBearsOnTarget DEF BearsAlike, IsWeighted, Incoming
  <2>4. BearsMore(b, s, c, s, e.dst)
    <3>1. OneLessAtMost(Incoming(b, b.supports, e.dst), Incoming(c, c.supports, e.dst))
        BY EdgeBearsOnTarget DEF IsWeighted
    <3>2. OneLessAtMost(Incoming(c, c.attacks, e.dst), Incoming(b, b.attacks, e.dst))
        BY DEF OneLessAtMost, Incoming, IsWeighted
    <3>3. QED
        BY <1>1, <1>2, <3>1, <3>2 DEF BearsMore
  <2>5. Compared(b, s, c, s, k, rank, e.dst)
      BY <2>1, <2>2, <2>3 DEF Compared
  <2>6. QED
      BY <1>2, <2>1, <2>4, <2>5, SolveRaises
<1>4. Pushes(b, s, solve(b, s).acceptability, c, s, solve(c, s).acceptability)
    BY <1>1, <1>3 DEF Pushes
<1>5. Pushes(c, s, solve(c, s).acceptability, b, s, solve(b, s).acceptability)
    BY <1>1 DEF Pushes
<1>6. QED
    BY <1>4, <1>5 DEF PushesBothWays

LEMMA AttackPushes ==
    ASSUME NEW b, NEW c, NEW s, IsWeighted(b, s), IsWeighted(c, s),
           NEW e \in Edge, b.attacks = c.attacks \ {e}, b.supports = c.supports
    PROVE  PushesBothWays(b, s, c, s)
<1>1. \A a \in Argument : s[a] \in Int
    BY StrengthsAreNumbers DEF IsWeighted
<1>2. e.dst \in Argument
    BY FrameworksAreWeighted
<1>3. ASSUME Acyclic(c)
      PROVE  solve(c, s).acceptability[e.dst] <= solve(b, s).acceptability[e.dst]
  <2>1. PICK k, rank : k \in Nat /\ Ranks(c, k, rank)
      BY <1>3, AcyclicRanks
  <2>2. Ranks(b, k, rank)
      BY <2>1 DEF Ranks
  <2>3. ASSUME NEW d \in Argument, rank[d] < rank[e.dst] PROVE BearsAlike(c, s, b, s, d)
    <3>1. d # e.dst
        BY <1>2, <2>1, <2>3 DEF Ranks
    <3>2. QED
        BY <3>1, EdgeBearsOnTarget DEF BearsAlike, IsWeighted, Incoming
  <2>4. BearsMore(c, s, b, s, e.dst)
    <3>1. OneLessAtMost(Incoming(b, b.attacks, e.dst), Incoming(c, c.attacks, e.dst))
        BY EdgeBearsOnTarget DEF IsWeighted
    <3>2. OneLessAtMost(Incoming(c, c.supports, e.dst), Incoming(b, b.supports, e.dst))
        BY DEF OneLessAtMost, Incoming, IsWeighted
    <3>3. QED
        BY <1>1, <1>2, <3>1, <3>2 DEF BearsMore
  <2>5. Compared(c, s, b, s, k, rank, e.dst)
      BY <2>1, <2>2, <2>3 DEF Compared
  <2>6. QED
      BY <1>2, <2>1, <2>4, <2>5, SolveRaises
<1>4. Pushes(b, s, solve(b, s).acceptability, c, s, solve(c, s).acceptability)
    BY <1>1, <1>3 DEF Pushes
<1>5. Pushes(c, s, solve(c, s).acceptability, b, s, solve(b, s).acceptability)
    BY <1>1 DEF Pushes
<1>6. QED
    BY <1>4, <1>5 DEF PushesBothWays

LEMMA ScorePushes ==
    ASSUME NEW b, NEW s, NEW t, IsWeighted(b, s), IsWeighted(b, t), NEW a \in Argument,
           \A d \in Argument : d # a => s[d] = t[d]
    PROVE  Pushes(b, s, solve(b, s).acceptability, b, t, solve(b, t).acceptability)
<1>1. \A d \in Argument : s[d] \in Int /\ t[d] \in Int
    BY StrengthsAreNumbers DEF IsWeighted
<1>2. ASSUME Acyclic(b), s[a] < t[a]
      PROVE  solve(b, s).acceptability[a] <= solve(b, t).acceptability[a]
  <2>1. PICK k, rank : k \in Nat /\ Ranks(b, k, rank)
      BY <1>2, AcyclicRanks
  <2>2. ASSUME NEW d \in Argument, rank[d] < rank[a] PROVE BearsAlike(b, s, b, t, d)
    <3>1. d # a
        BY <2>1, <2>2 DEF Ranks
    <3>2. QED
        BY <3>1 DEF BearsAlike
  <2>3. BearsMore(b, s, b, t, a)
      BY <1>1, <1>2 DEF BearsMore, OneLessAtMost
  <2>4. Compared(b, s, b, t, k, rank, a)
      BY <2>1, <2>2 DEF Compared
  <2>5. QED
      BY <2>1, <2>3, <2>4, SolveRaises
<1>3. QED
    BY <1>1, <1>2 DEF Pushes

\* However the evidence changes, unless it is cyclic, a support never lowers
\* the argument it bears on, an attack never raises it and a higher score never
\* lowers it, wherever the edge comes in the order of the products that _prob_sum
\* rounds (solve, assemble_baf).
THEOREM EvidencePushes == AdjudicationSpec => EvidencePushesItsWay
<1>1. ASSUME AdjudicationInv, AdjudicationInv', AdjudicationNext PROVE PushesItsWay
  <2>1. /\ IsWeighted(framework, intrinsic) /\ solution = solve(framework, intrinsic)
        /\ IsWeighted(framework', intrinsic') /\ solution' = solve(framework', intrinsic')
      BY <1>1, FrameworksAreWeighted DEF AdjudicationInv, IsWeighted
  <2>2. SUFFICES PushesBothWays(framework, intrinsic, framework', intrinsic')
                 \/ PushesBothWays(framework', intrinsic', framework, intrinsic)
      BY <2>1 DEF PushesItsWay, PushesBothWays
  <2>3. framework \in [arguments : {Argument}, supports : SUBSET Edge, attacks : SUBSET Edge]
        /\ intrinsic \in [Argument -> BaseScore]
      BY <1>1 DEF AdjudicationInv
  <2>4. ASSUME NEW e \in Edge, AddSupport(e)
        PROVE  PushesBothWays(framework, intrinsic, framework', intrinsic')
    <3>1. /\ intrinsic' = intrinsic /\ framework'.attacks = framework.attacks
          /\ framework.supports = framework'.supports \ {e}
        BY <2>3, <2>4 DEF AddSupport, Evaluate
    <3>2. QED
        BY <2>1, <3>1, SupportPushes
  <2>5. ASSUME NEW e \in Edge, AddAttack(e)
        PROVE  PushesBothWays(framework, intrinsic, framework', intrinsic')
    <3>1. /\ intrinsic' = intrinsic /\ framework'.supports = framework.supports
          /\ framework.attacks = framework'.attacks \ {e}
        BY <2>3, <2>5 DEF AddAttack, Evaluate
    <3>2. QED
        BY <2>1, <3>1, AttackPushes
  <2>6. ASSUME NEW e \in Edge, DropSupport(e)
        PROVE  PushesBothWays(framework', intrinsic', framework, intrinsic)
    <3>1. /\ intrinsic' = intrinsic /\ framework'.attacks = framework.attacks
          /\ framework'.supports = framework.supports \ {e}
        BY <2>3, <2>6 DEF DropSupport, Evaluate
    <3>2. QED
        BY <2>1, <3>1, SupportPushes
  <2>7. ASSUME NEW e \in Edge, DropAttack(e)
        PROVE  PushesBothWays(framework', intrinsic', framework, intrinsic)
    <3>1. /\ intrinsic' = intrinsic /\ framework'.supports = framework.supports
          /\ framework'.attacks = framework.attacks \ {e}
        BY <2>3, <2>7 DEF DropAttack, Evaluate
    <3>2. QED
        BY <2>1, <3>1, AttackPushes
  <2>8. ASSUME NEW a \in Argument, NEW v \in BaseScore, Reweigh(a, v)
        PROVE  PushesBothWays(framework, intrinsic, framework', intrinsic')
    <3>1. framework' = framework /\ \A d \in Argument : d # a => intrinsic[d] = intrinsic'[d]
        BY <2>3, <2>8 DEF Reweigh, Evaluate
    <3>2. QED
        BY <2>1, <3>1, ScorePushes DEF PushesBothWays
  <2>9. QED
      BY <1>1, <2>4, <2>5, <2>6, <2>7, <2>8 DEF AdjudicationNext
<1>2. AdjudicationInv /\ [AdjudicationNext]_adjudicationVars => AdjudicationInv' /\ [PushesItsWay]_adjudicationVars
    BY <1>1, AdjudicationStays
<1>3. QED
    BY <1>2, AdjudicationStays, PTL DEF AdjudicationSpec, EvidencePushesItsWay

=============================================================================
