---------------------------- MODULE OracleProofs ----------------------------
(***************************************************************************)
(* Counting and Delete-Rederive maintain the least fixpoint, and full      *)
(* recompute reaches it: proofs for every finite universe of nodes and     *)
(* derivations.  And stabilize, the loop that Layer A and its successors   *)
(* are iterated in, tells its outcomes apart.                              *)
(***************************************************************************)
EXTENDS IncrementalOracle, Stabilize, FiniteSetTheorems, SequenceTheorems, TLAPS

-----------------------------------------------------------------------------
(* The least closed set: what both oracles are held against.               *)

\* The support of a graph is itself closed: base facts are in it and a
\* derivation whose body is in it has its conclusion in it.
LEMMA SupportIsClosed ==
    ASSUME NEW given \in SUBSET Node, NEW rules \in SUBSET Rule
    PROVE  /\ WellFoundedSupport(given, rules) \in SUBSET Node
           /\ Closed(WellFoundedSupport(given, rules), given, rules)
<1> DEFINE W == WellFoundedSupport(given, rules)
<1>1. W \in SUBSET Node
    BY DEF WellFoundedSupport
<1>2. given \subseteq W
    BY DEF WellFoundedSupport, Closed
<1>3. ASSUME NEW d \in rules, d.body \subseteq W
      PROVE  d.conclusion \in W
  <2>1. d.conclusion \in Node
      BY RulesAreDerivations DEF Derivation
  <2>2. ASSUME NEW S \in SUBSET Node, Closed(S, given, rules)
        PROVE  d.conclusion \in S
    <3>1. W \subseteq S
        BY <2>2 DEF WellFoundedSupport
    <3>2. QED
        BY <3>1, <2>2, <1>3 DEF Closed
  <2>3. QED
      BY <2>1, <2>2 DEF WellFoundedSupport
<1>4. QED
    BY <1>1, <1>2, <1>3 DEF Closed

\* ... and it is contained in every closed set.
LEMMA SupportIsLeast ==
    ASSUME NEW given, NEW rules, NEW S \in SUBSET Node, Closed(S, given, rules)
    PROVE  WellFoundedSupport(given, rules) \subseteq S
BY DEF WellFoundedSupport

\* More facts and more derivations support no less.
LEMMA SupportIsMonotone ==
    ASSUME NEW given, NEW rules, NEW given2, NEW rules2,
           given \subseteq given2, rules \subseteq rules2
    PROVE  WellFoundedSupport(given, rules) \subseteq WellFoundedSupport(given2, rules2)
<1>1. ASSUME NEW S, Closed(S, given2, rules2)
      PROVE  Closed(S, given, rules)
    BY <1>1 DEF Closed
<1>2. QED
    BY <1>1 DEF WellFoundedSupport

\* Nothing supports nothing: a fresh oracle's empty set is the right answer.
LEMMA EmptySupport == WellFoundedSupport({}, {}) = {}
<1>1. Closed({}, {}, {})
    BY DEF Closed
<1>2. QED
    BY <1>1, SupportIsLeast

\* Sets of antecedents and of derivations are finite, so they can be counted.
LEMMA CountsAreNaturals ==
    /\ \A S \in SUBSET Node : IsFiniteSet(S) /\ Cardinality(S) \in Nat
    /\ \A D \in SUBSET Rule : IsFiniteSet(D) /\ Cardinality(D) \in Nat
BY FiniteUniverse, FS_Subset, FS_CardinalityType

\* The bodies and conclusions of a rule are made of nodes.
LEMMA RuleParts ==
    ASSUME NEW d \in Rule
    PROVE  d.body \in SUBSET Node /\ d.conclusion \in Node
BY RulesAreDerivations DEF Derivation

-----------------------------------------------------------------------------
(* Counting and Delete-Rederive.                                           *)

\* What the call in progress still owes: the additions are in the request,
\* and the pending queues hold supported nodes only.
PhaseInv ==
    /\ pc \in {"idle", "overdelete"} => work = {}
    /\ pc \in {"overdelete", "rederive"} =>
         base \subseteq request.base_facts /\ derivs \subseteq request.derivations
    /\ pc = "insert" => base = request.base_facts /\ derivs = request.derivations
    /\ work \subseteq supported
    /\ pc = "overdelete" => stack \cup overDeleted \subseteq supported

\* Nothing grounded is missing: what a delivered body supports is supported.
CompleteInv ==
    /\ base \subseteq supported
    /\ \A d \in derivs : unmet[d] = 0 => d.conclusion \in supported

\* Nothing unfounded is kept.  While over-deleting, what is kept must be
\* founded once the suspects are taken for granted, and no supported
\* conclusion of a derivation that uses a torn-down node escapes suspicion.
SoundInv ==
    /\ pc # "overdelete" => supported \subseteq WellFoundedSupport(base, derivs)
    /\ pc = "overdelete" =>
         /\ supported \subseteq WellFoundedSupport(base \cup stack \cup overDeleted, derivs)
         /\ \A n \in overDeleted : Conclusions(Uses(n)) \cap supported \subseteq stack \cup overDeleted

\* The count is exact, except for suspects, whose count is about to be redone.
CountInv ==
    \A n \in Node :
        (pc # "overdelete" \/ n \notin stack \cup overDeleted) =>
            supportCount[n] = Grounded(base, n) + Cardinality(Concluding(Firing(derivs, unmet), n))

Inv == /\ TypeOK /\ PhaseInv /\ CountersTrackDelivery /\ CompleteInv /\ SoundInv
       /\ CountInv /\ CountDecidesSupport /\ AnswerIsWellFounded

-----------------------------------------------------------------------------

\* Counting the missing antecedents of a registered derivation gives a
\* natural number, which is 0 exactly when none is missing.
LEMMA MissingIsCount ==
    ASSUME NEW d \in Rule, NEW S
    PROVE  Missing(d, S) \in Nat /\ (Missing(d, S) = 0 <=> d.body \subseteq S)
<1>1. d.body \ S \in SUBSET Node
    BY RuleParts
<1>2. IsFiniteSet(d.body \ S)
    BY <1>1, CountsAreNaturals
<1>3. QED
    BY <1>1, <1>2, CountsAreNaturals, FS_EmptySet DEF Missing

\* Delivering a node lowers the counter of exactly the derivations using it.
LEMMA MissingAfterDelivery ==
    ASSUME NEW d \in Rule, NEW S, NEW n \in Node, n \notin S
    PROVE  Missing(d, S \cup {n}) = IF n \in d.body THEN Missing(d, S) - 1 ELSE Missing(d, S)
<1>1. IsFiniteSet(d.body \ S) /\ Cardinality(d.body \ S) \in Nat
  <2>1. d.body \ S \in SUBSET Node
      BY RuleParts
  <2>2. QED
      BY <2>1, CountsAreNaturals
<1>2. CASE n \in d.body
  <2>1. d.body \ (S \cup {n}) = (d.body \ S) \ {n}
      OBVIOUS
  <2>2. n \in d.body \ S
      BY <1>2
  <2>3. Cardinality((d.body \ S) \ {n}) = Cardinality(d.body \ S) - 1
      BY <1>1, <2>2, FS_RemoveElement
  <2>4. QED
      BY <1>2, <2>1, <2>3 DEF Missing
<1>3. CASE n \notin d.body
  <2>1. d.body \ (S \cup {n}) = d.body \ S
      BY <1>3
  <2>2. QED
      BY <1>3, <2>1 DEF Missing
<1>4. QED
    BY <1>2, <1>3

\* A set of derivations has a natural size, positive exactly when it has one.
LEMMA DerivationCount ==
    ASSUME NEW D \in SUBSET Rule
    PROVE  Cardinality(D) \in Nat /\ (Cardinality(D) > 0 <=> D # {})
<1>1. IsFiniteSet(D) /\ Cardinality(D) \in Nat
    BY CountsAreNaturals
<1>2. Cardinality(D) = 0 <=> D = {}
    BY <1>1, FS_EmptySet
<1>3. QED
    BY <1>1, <1>2

\* Crediting newly firing derivations adds to what already fires.
LEMMA CreditsAdd ==
    ASSUME NEW D \in SUBSET Rule, NEW E \in SUBSET Rule, D \cap E = {}
    PROVE  Cardinality(D \cup E) = Cardinality(D) + Cardinality(E)
<1>1. /\ IsFiniteSet(D) /\ IsFiniteSet(E)
      /\ Cardinality(D) \in Nat /\ Cardinality(E) \in Nat
    BY CountsAreNaturals
<1>2. Cardinality(D \cap E) = 0
    BY FS_EmptySet
<1>3. Cardinality(D \cup E) = Cardinality(D) + Cardinality(E) - Cardinality(D \cap E)
    BY <1>1, FS_Union
<1>4. QED
    BY <1>1, <1>2, <1>3

-----------------------------------------------------------------------------

\* A new oracle satisfies the invariant.
LEMMA InitInv == Init => Inv
<1> SUFFICES ASSUME Init PROVE Inv
    OBVIOUS
<1>1. TypeOK
    BY DEF Init, TypeOK, EmptyGraph, DerivationGraph
<1>2. PhaseInv /\ CountersTrackDelivery /\ CompleteInv /\ SoundInv
    BY DEF Init, PhaseInv, CountersTrackDelivery, CompleteInv, SoundInv
<1>3. CountInv
  <2>1. \A n \in Node : Concluding(Firing(derivs, unmet), n) = {}
      BY DEF Init, Concluding, Firing
  <2>2. \A n \in Node : Cardinality(Concluding(Firing(derivs, unmet), n)) = 0
      BY <2>1, FS_EmptySet
  <2>3. \A n \in Node : Grounded(base, n) = 0 /\ supportCount[n] = 0
      BY DEF Init, Grounded
  <2>4. QED
      BY <2>2, <2>3 DEF CountInv
<1>4. CountDecidesSupport
    BY DEF Init, CountDecidesSupport
<1>5. AnswerIsWellFounded
    BY EmptySupport DEF Init, AnswerIsWellFounded, EmptyGraph
<1>6. QED
    BY <1>1, <1>2, <1>3, <1>4, <1>5 DEF Inv

\* Consequences of the invariant the action lemmas start from: registered
\* derivations are rules, and a counter is 0 exactly when the body has been
\* delivered in full.
LEMMA CounterFacts ==
    ASSUME TypeOK, CountersTrackDelivery, NEW d \in derivs
    PROVE  /\ d \in Rule
           /\ unmet[d] \in Nat
           /\ unmet[d] = 0 <=> d.body \subseteq supported \ work
<1>1. d \in Rule
    BY DEF TypeOK
<1>2. unmet[d] = Missing(d, supported \ work)
    BY DEF CountersTrackDelivery
<1>3. QED
    BY <1>1, <1>2, MissingIsCount

\* Starting a call: what loses a grounding is suspected, so the retained
\* support is founded once the suspects are taken for granted.
LEMMA ApplyInv ==
    ASSUME Inv, NEW g \in DerivationGraph, Apply(g)
    PROVE  Inv'
<1> DEFINE removedBase == base \ g.base_facts
           removedDerivs == derivs \ g.derivations
<1>0. /\ pc = "idle" /\ pc' = "overdelete"
      /\ base' = base \ removedBase
      /\ derivs' = derivs \ removedDerivs
      /\ unmet' = [d \in derivs \ removedDerivs |-> unmet[d]]
      /\ stack' = supported \cap (removedBase \cup Conclusions(Firing(removedDerivs, unmet)))
      /\ request' = g /\ overDeleted' = {}
      /\ UNCHANGED <<supportCount, supported, work, reply>>
    BY DEF Apply, Seeds
<1>1. TypeOK /\ PhaseInv /\ CountersTrackDelivery /\ CompleteInv /\ SoundInv /\ CountInv
    BY DEF Inv
<1>2. g.base_facts \in SUBSET Node /\ g.derivations \in SUBSET Rule
    BY DEF DerivationGraph
<1>3. work = {}
    BY <1>0, <1>1 DEF PhaseInv
<1>4. \A d \in derivs' : d \in derivs /\ unmet'[d] = unmet[d]
    BY <1>0
<1>5. TypeOK'
  <2>1. stack' \in SUBSET Node /\ base' \in SUBSET Node /\ derivs' \in SUBSET Rule
      BY <1>0, <1>1 DEF TypeOK
  <2>2. unmet' \in [derivs' -> Nat]
      BY <1>0, <1>1 DEF TypeOK
  <2>3. QED
      BY <2>1, <2>2, <1>0, <1>1 DEF TypeOK
<1>6. PhaseInv'
    BY <1>0, <1>1, <1>2, <1>3 DEF PhaseInv
<1>7. CountersTrackDelivery'
    BY <1>0, <1>1, <1>4 DEF CountersTrackDelivery, Missing
<1>8. CompleteInv'
    BY <1>0, <1>1, <1>4 DEF CompleteInv
<1>9. SoundInv'
  <2> DEFINE W == WellFoundedSupport(base' \cup stack' \cup overDeleted', derivs')
             T == W \cap supported
  <2>1. base' \cup stack' \cup overDeleted' \in SUBSET Node /\ derivs' \in SUBSET Rule
      BY <1>0, <1>5 DEF TypeOK
  <2>2. W \in SUBSET Node /\ Closed(W, base' \cup stack' \cup overDeleted', derivs')
      BY <2>1, SupportIsClosed
  <2>3. base \subseteq T
      BY <2>2, <1>0, <1>1 DEF Closed, CompleteInv
  <2>4. ASSUME NEW d \in derivs, d.body \subseteq T
        PROVE  d.conclusion \in T
    <3>1. unmet[d] = 0
        BY <2>4, <1>1, <1>3, CounterFacts
    <3>2. d.conclusion \in supported
        BY <3>1, <1>1 DEF CompleteInv
    <3>3. CASE d \in removedDerivs
      <4>1. d.conclusion \in Conclusions(Firing(removedDerivs, unmet))
          BY <3>1, <3>3 DEF Conclusions, Firing
      <4>2. d.conclusion \in stack'
          BY <4>1, <3>2, <1>0
      <4>3. QED
          BY <4>2, <3>2, <2>2 DEF Closed
    <3>4. CASE d \notin removedDerivs
        BY <3>4, <3>2, <2>2, <2>4, <1>0 DEF Closed
    <3>5. QED
        BY <3>3, <3>4
  <2>5. T \in SUBSET Node /\ Closed(T, base, derivs)
      BY <2>2, <2>3, <2>4 DEF Closed
  <2>6. supported \subseteq T
      BY <2>5, <1>0, <1>1, SupportIsLeast DEF SoundInv
  <2>7. supported' \subseteq W
      BY <2>6, <1>0
  <2>8. QED
      BY <2>7, <1>0 DEF SoundInv
<1>10. CountInv'
  <2> SUFFICES ASSUME NEW n \in Node, n \notin stack'
               PROVE  supportCount'[n] = Grounded(base', n)
                        + Cardinality(Concluding(Firing(derivs', unmet'), n))
      BY <1>0 DEF CountInv
  <2>1. Grounded(base', n) = Grounded(base, n)
      BY <1>0, <1>1 DEF Grounded, CompleteInv
  <2>2. Concluding(Firing(derivs', unmet'), n) = Concluding(Firing(derivs, unmet), n)
    <3>1. ASSUME NEW d \in removedDerivs, unmet[d] = 0 PROVE d.conclusion # n
      <4>1. d.conclusion \in supported
          BY <3>1, <1>1 DEF CompleteInv
      <4>2. d.conclusion \in Conclusions(Firing(removedDerivs, unmet))
          BY <3>1 DEF Conclusions, Firing
      <4>3. QED
          BY <4>1, <4>2, <1>0
    <3>2. QED
        BY <3>1, <1>0, <1>4 DEF Concluding, Firing
  <2>3. supportCount[n] = Grounded(base, n) + Cardinality(Concluding(Firing(derivs, unmet), n))
      BY <1>0, <1>1 DEF CountInv
  <2>4. QED
      BY <2>1, <2>2, <2>3, <1>0
<1>11. CountDecidesSupport' /\ AnswerIsWellFounded'
    BY <1>0 DEF Inv, CountDecidesSupport, AnswerIsWellFounded
<1>12. QED
    BY <1>5, <1>6, <1>7, <1>8, <1>9, <1>10, <1>11 DEF Inv

\* One over-deletion keeps everything that rests on a torn-down node suspect.
LEMMA OverDeleteInv ==
    ASSUME Inv, NEW n \in Node, OverDelete(n)
    PROVE  Inv'
<1>0. /\ pc = "overdelete" /\ pc' = "overdelete" /\ n \in stack
      /\ overDeleted' = overDeleted \cup {n}
      /\ stack' = (stack \cup (Conclusions(Uses(n)) \cap supported)) \ overDeleted'
      /\ UNCHANGED <<base, derivs, unmet, supportCount, supported, request, work, reply>>
    BY DEF OverDelete, StackAfter, Dependents
<1>1. TypeOK /\ PhaseInv /\ SoundInv /\ CountInv
    BY DEF Inv
<1>2. stack \cup overDeleted \subseteq stack' \cup overDeleted'
    BY <1>0
<1>3. TypeOK' /\ PhaseInv'
    BY <1>0, <1>1 DEF TypeOK, PhaseInv
<1>4. CountersTrackDelivery' /\ CompleteInv' /\ CountDecidesSupport' /\ AnswerIsWellFounded'
    BY <1>0 DEF Inv, CountersTrackDelivery, CompleteInv, CountDecidesSupport, AnswerIsWellFounded
<1>5. SoundInv'
  <2>1. WellFoundedSupport(base \cup stack \cup overDeleted, derivs)
          \subseteq WellFoundedSupport(base' \cup stack' \cup overDeleted', derivs')
    <3>1. base \cup stack \cup overDeleted \subseteq base' \cup stack' \cup overDeleted'
        BY <1>0, <1>2
    <3>2. derivs \subseteq derivs'
        BY <1>0
    <3>3. QED
        BY <3>1, <3>2, SupportIsMonotone
  <2>2. supported' \subseteq WellFoundedSupport(base' \cup stack' \cup overDeleted', derivs')
      BY <2>1, <1>0, <1>1 DEF SoundInv
  <2>3. ASSUME NEW m \in overDeleted'
        PROVE  Conclusions(Uses(m)) \cap supported \subseteq stack' \cup overDeleted'
    <3>1. CASE m \in overDeleted
        BY <3>1, <1>0, <1>1, <1>2 DEF SoundInv
    <3>2. CASE m = n
        BY <3>2, <1>0
    <3>3. QED
        BY <3>1, <3>2, <1>0
  <2>4. \A m \in overDeleted' : Conclusions(Uses(m)') \cap supported' \subseteq stack' \cup overDeleted'
      BY <2>3, <1>0 DEF Uses
  <2>5. QED
      BY <2>2, <2>4, <1>0 DEF SoundInv
<1>6. CountInv'
    BY <1>0, <1>1, <1>2 DEF CountInv, Grounded, Concluding, Firing
<1>7. QED
    BY <1>3, <1>4, <1>5, <1>6 DEF Inv

\* Rederive leaves only what is founded without the torn-down nodes, and
\* brings back what the survivors ground directly.
LEMMA RederiveInv ==
    ASSUME Inv, Rederive
    PROVE  Inv'
<1> DEFINE survivors == supported \ overDeleted
           unmetNow == [d \in derivs |-> IF d.body \cap overDeleted # {}
                                         THEN Missing(d, survivors) ELSE unmet[d]]
           groundings(n) == Grounded(base, n)
                              + Cardinality(Concluding(Firing(derivs, unmetNow), n))
           regrounded == {n \in overDeleted : groundings(n) > 0}
<1>0. /\ pc = "overdelete" /\ pc' = "rederive" /\ stack = {}
      /\ unmet' = unmetNow
      /\ supportCount' = [n \in Node |-> IF n \in overDeleted THEN 0 + groundings(n)
                                         ELSE supportCount[n]]
      /\ supported' = survivors \cup regrounded
      /\ work' = regrounded
      /\ UNCHANGED <<base, derivs, request, stack, overDeleted, reply>>
    BY DEF Rederive, Affected, CountRestart
<1>1. /\ TypeOK /\ PhaseInv /\ CountersTrackDelivery /\ CompleteInv /\ SoundInv /\ CountInv
      /\ CountDecidesSupport /\ AnswerIsWellFounded
    BY DEF Inv
<1>2. work = {} /\ overDeleted \subseteq supported
    BY <1>0, <1>1 DEF PhaseInv
<1>3. \A d \in derivs : unmetNow[d] = Missing(d, survivors)
  <2> SUFFICES ASSUME NEW d \in derivs, d.body \cap overDeleted = {}
               PROVE  unmet[d] = Missing(d, survivors)
      OBVIOUS
  <2>1. d.body \ (supported \ work) = d.body \ survivors
      BY <1>2
  <2>2. QED
      BY <2>1, <1>1 DEF CountersTrackDelivery, Missing
<1>4. \A d \in derivs : unmetNow[d] \in Nat /\ (unmetNow[d] = 0 <=> d.body \subseteq survivors)
    BY <1>1, <1>3, MissingIsCount DEF TypeOK
<1>5. \A n \in Node : Concluding(Firing(derivs, unmetNow), n) \in SUBSET Rule
    BY <1>1 DEF TypeOK, Concluding, Firing
<1>6. \A n \in Node : groundings(n) \in Nat
                       /\ (groundings(n) > 0 <=> n \in base \/ \E d \in derivs : d.conclusion = n /\ unmetNow[d] = 0)
  <2> SUFFICES ASSUME NEW n \in Node
               PROVE  groundings(n) \in Nat
                       /\ (groundings(n) > 0 <=> n \in base \/ \E d \in derivs : d.conclusion = n /\ unmetNow[d] = 0)
      OBVIOUS
  <2> DEFINE C == Concluding(Firing(derivs, unmetNow), n)
  <2>1. Cardinality(C) \in Nat /\ (Cardinality(C) > 0 <=> C # {})
      BY <1>5, DerivationCount
  <2>2. C # {} <=> \E d \in derivs : d.conclusion = n /\ unmetNow[d] = 0
      BY DEF Concluding, Firing
  <2>3. Grounded(base, n) \in Nat /\ (Grounded(base, n) > 0 <=> n \in base)
      BY DEF Grounded
  <2> HIDE DEF C
  <2>4. /\ Grounded(base, n) + Cardinality(C) \in Nat
        /\ Grounded(base, n) + Cardinality(C) > 0 <=> n \in base \/ C # {}
      BY <2>1, <2>3
  <2>5. groundings(n) = Grounded(base, n) + Cardinality(C)
      BY DEF C
  <2> HIDE DEF groundings, unmetNow
  <2>6. QED
      BY <2>2, <2>4, <2>5
<1> HIDE DEF groundings
<1>7. TypeOK'
  <2>1. unmet' \in [derivs' -> Nat]
      BY <1>0, <1>4
  <2>2. supportCount' \in [Node -> Nat]
      BY <1>0, <1>1, <1>6 DEF TypeOK
  <2>3. supported' \in SUBSET Node /\ work' \in SUBSET Node
      BY <1>0, <1>1, <1>2 DEF TypeOK
  <2>4. QED
      BY <2>1, <2>2, <2>3, <1>0, <1>1 DEF TypeOK
<1>8. PhaseInv'
    BY <1>0, <1>1 DEF PhaseInv
<1>9. CountersTrackDelivery'
  <2>1. supported' \ work' = survivors
      BY <1>0
  <2>2. QED
      BY <2>1, <1>0, <1>3 DEF CountersTrackDelivery, Missing
\* A derivation that uses a torn-down node concludes a torn-down one or
\* nothing supported.
<1>10. ASSUME NEW d \in derivs, d.body \cap overDeleted # {}, d.conclusion \in supported
       PROVE  d.conclusion \in overDeleted
  <2>1. PICK m \in overDeleted : m \in d.body
      BY <1>10
  <2>2. d.conclusion \in Conclusions(Uses(m))
      BY <2>1 DEF Conclusions, Uses
  <2>3. QED
      BY <2>2, <1>0, <1>1, <1>10 DEF SoundInv
<1>11. ASSUME NEW d \in derivs, unmet[d] = 0
       PROVE  d.conclusion \in supported
    BY <1>1, <1>11 DEF CompleteInv
<1>12. CompleteInv'
  <2>1. base' \subseteq supported'
    <3> SUFFICES ASSUME NEW n \in base PROVE n \in survivors \cup regrounded
        BY <1>0
    <3>1. n \in supported /\ n \in Node
        BY <1>1 DEF CompleteInv, TypeOK
    <3>2. QED
        BY <3>1, <1>6
  <2>2. ASSUME NEW d \in derivs, unmetNow[d] = 0
        PROVE  d.conclusion \in survivors \cup regrounded
    <3>1. d.conclusion \in Node
        BY <1>1, RuleParts DEF TypeOK
    <3>2. CASE d.conclusion \in overDeleted
        BY <3>1, <3>2, <2>2, <1>6
    <3>3. CASE d.conclusion \notin overDeleted
      <4>1. d.body \subseteq supported
          BY <2>2, <1>4
      <4>2. unmet[d] = 0
          BY <4>1, <1>1, <1>2, CounterFacts
      <4>3. QED
          BY <4>2, <3>3, <1>11
    <3>4. QED
        BY <3>2, <3>3
  <2>3. QED
      BY <2>1, <2>2, <1>0 DEF CompleteInv
<1>13. SoundInv'
  <2> DEFINE W == WellFoundedSupport(base, derivs)
             T == supported \cap (W \cup overDeleted)
  <2>1. W \in SUBSET Node /\ Closed(W, base, derivs)
      BY <1>1, SupportIsClosed DEF TypeOK
  <2>2. base \cup stack \cup overDeleted \subseteq T
      BY <2>1, <1>0, <1>1, <1>2 DEF Closed, CompleteInv
  <2>3. ASSUME NEW d \in derivs, d.body \subseteq T
        PROVE  d.conclusion \in T
    <3>1. unmet[d] = 0
        BY <2>3, <1>1, <1>2, CounterFacts
    <3>2. d.conclusion \in supported
        BY <3>1, <1>11
    <3>3. CASE d.body \cap overDeleted # {}
        BY <3>2, <3>3, <1>10
    <3>4. CASE d.body \cap overDeleted = {}
        BY <3>2, <3>4, <2>1, <2>3 DEF Closed
    <3>5. QED
        BY <3>3, <3>4
  <2>4. T \in SUBSET Node /\ Closed(T, base \cup stack \cup overDeleted, derivs)
      BY <2>1, <2>2, <2>3, <1>1 DEF Closed, TypeOK
  <2>5. supported \subseteq T
      BY <2>4, <1>0, <1>1, SupportIsLeast DEF SoundInv
  <2>6. survivors \subseteq W
      BY <2>5
  <2>7. regrounded \subseteq W
    <3> SUFFICES ASSUME NEW n \in regrounded PROVE n \in W
        OBVIOUS
    <3>1. n \in Node
        BY <1>1 DEF TypeOK
    <3>2. n \in base \/ \E d \in derivs : d.conclusion = n /\ d.body \subseteq survivors
        BY <3>1, <1>4, <1>6
    <3>3. QED
        BY <3>2, <2>1, <2>6 DEF Closed
  <2>8. supported' \subseteq WellFoundedSupport(base', derivs')
      BY <2>6, <2>7, <1>0
  <2>9. QED
      BY <2>8, <1>0 DEF SoundInv
<1>14. CountInv'
  <2> SUFFICES ASSUME NEW n \in Node
               PROVE  supportCount'[n] = Grounded(base', n)
                        + Cardinality(Concluding(Firing(derivs', unmet'), n))
      BY DEF CountInv
  <2>1. CASE n \in overDeleted
    <3>1. supportCount'[n] = groundings(n)
        BY <2>1, <1>0, <1>6
    <3>2. QED
        BY <3>1, <1>0 DEF groundings
  <2>2. CASE n \notin overDeleted
    <3>1. ASSUME NEW d \in derivs, d.conclusion = n
          PROVE  unmetNow[d] = 0 <=> unmet[d] = 0
      <4>1. CASE d.body \cap overDeleted = {}
          BY <4>1
      <4>2. CASE d.body \cap overDeleted # {}
        <5>1. n \notin supported
            BY <4>2, <3>1, <2>2, <1>10
        <5>2. unmet[d] # 0
            BY <5>1, <3>1, <1>11
        <5>3. unmetNow[d] # 0
            BY <4>2, <1>4
        <5>4. QED
            BY <5>2, <5>3
      <4>3. QED
          BY <4>1, <4>2
    <3>2. Concluding(Firing(derivs', unmet'), n) = Concluding(Firing(derivs, unmet), n)
        BY <3>1, <1>0 DEF Concluding, Firing
    <3>3. supportCount[n] = Grounded(base, n) + Cardinality(Concluding(Firing(derivs, unmet), n))
        BY <2>2, <1>0, <1>1 DEF CountInv
    <3>4. supportCount'[n] = supportCount[n] /\ base' = base
        BY <2>2, <1>0
    <3>5. QED
        BY <3>2, <3>3, <3>4
  <2>3. QED
      BY <2>1, <2>2
<1>15. CountDecidesSupport'
  <2> SUFFICES ASSUME NEW n \in Node
               PROVE  n \in supported' <=> supportCount'[n] > 0
      BY DEF CountDecidesSupport
  <2>1. CASE n \in overDeleted
    <3>1. supportCount'[n] = groundings(n)
        BY <2>1, <1>0, <1>6
    <3>2. QED
        BY <3>1, <2>1, <1>0
  <2>2. CASE n \notin overDeleted
      BY <2>2, <1>0, <1>1 DEF CountDecidesSupport
  <2>3. QED
      BY <2>1, <2>2
<1>16. AnswerIsWellFounded'
    BY <1>0, <1>1 DEF AnswerIsWellFounded
<1>17. QED
    BY <1>7, <1>8, <1>9, <1>12, <1>13, <1>14, <1>15, <1>16 DEF Inv

\* Delivering a node fires exactly the derivations it completes, and each
\* of them is credited once.
LEMMA CascadeInv ==
    ASSUME Inv, NEW n \in Node, Cascade(n)
    PROVE  Inv'
<1> DEFINE unmetNow == [d \in derivs |-> IF d \in Uses(n) THEN unmet[d] - 1 ELSE unmet[d]]
           fired == Firing(Uses(n), unmetNow)
<1>0. /\ pc \in {"rederive", "insert"} /\ n \in work
      /\ unmet' = unmetNow
      /\ supportCount' = [m \in Node |-> supportCount[m] + Cardinality(Concluding(fired, m))]
      /\ supported' = supported \cup Conclusions(fired)
      /\ work' = (work \ {n}) \cup (Conclusions(fired) \ supported)
      /\ UNCHANGED <<base, derivs, pc, request, stack, overDeleted, reply>>
    BY DEF Cascade, Credits
<1>1. /\ TypeOK /\ PhaseInv /\ CountersTrackDelivery /\ CompleteInv /\ SoundInv /\ CountInv
      /\ CountDecidesSupport /\ AnswerIsWellFounded
    BY DEF Inv
<1>2. n \in supported /\ work \subseteq supported
    BY <1>0, <1>1 DEF PhaseInv
<1>3. supported' \ work' = (supported \ work) \cup {n}
    BY <1>0, <1>2
<1>4. ASSUME NEW d \in derivs
      PROVE  /\ d \in Rule
             /\ unmetNow[d] = Missing(d, (supported \ work) \cup {n})
             /\ unmetNow[d] \in Nat
             /\ unmetNow[d] = 0 <=> d.body \subseteq (supported \ work) \cup {n}
  <2>1. d \in Rule /\ unmet[d] = Missing(d, supported \ work)
      BY <1>1 DEF TypeOK, CountersTrackDelivery
  <2>2. d \in Uses(n) <=> n \in d.body
      BY DEF Uses
  <2>3. n \notin supported \ work
      BY <1>0
  <2>4. unmetNow[d] = Missing(d, (supported \ work) \cup {n})
      BY <2>1, <2>2, <2>3, MissingAfterDelivery
  <2> HIDE DEF unmetNow
  <2>5. QED
      BY <2>1, <2>4, MissingIsCount
<1>5. fired \in SUBSET derivs /\ \A d \in fired : unmetNow[d] = 0
    BY DEF Firing, Uses
<1>6. fired \in SUBSET Rule
    BY <1>1, <1>5 DEF TypeOK
<1>7. Conclusions(fired) \in SUBSET Node
    BY <1>6, RuleParts DEF Conclusions
<1>8. \A m \in Node : /\ Concluding(fired, m) \in SUBSET Rule
                      /\ Cardinality(Concluding(fired, m)) \in Nat
                      /\ Cardinality(Concluding(fired, m)) > 0 <=> m \in Conclusions(fired)
  <2> SUFFICES ASSUME NEW m \in Node
               PROVE  /\ Concluding(fired, m) \in SUBSET Rule
                      /\ Cardinality(Concluding(fired, m)) \in Nat
                      /\ Cardinality(Concluding(fired, m)) > 0 <=> m \in Conclusions(fired)
      OBVIOUS
  <2> HIDE DEF fired
  <2>1. Concluding(fired, m) \in SUBSET Rule
      BY <1>6 DEF Concluding
  <2>2. Concluding(fired, m) # {} <=> m \in Conclusions(fired)
      BY DEF Concluding, Conclusions
  <2>3. QED
      BY <2>1, <2>2, DerivationCount
<1>9. TypeOK'
  <2>1. unmet' \in [derivs' -> Nat]
      BY <1>0, <1>4
  <2>2. supportCount' \in [Node -> Nat]
    <3> HIDE DEF fired
    <3>1. QED
        BY <1>0, <1>1, <1>8 DEF TypeOK
  <2>3. supported' \in SUBSET Node /\ work' \in SUBSET Node
      BY <1>0, <1>1, <1>7 DEF TypeOK
  <2>4. QED
      BY <2>1, <2>2, <2>3, <1>0, <1>1 DEF TypeOK
<1>10. PhaseInv'
    BY <1>0, <1>1 DEF PhaseInv
<1>11. CountersTrackDelivery'
    BY <1>0, <1>3, <1>4 DEF CountersTrackDelivery, Missing
<1>12. CompleteInv'
  <2>1. ASSUME NEW d \in derivs, unmetNow[d] = 0
        PROVE  d.conclusion \in supported'
    <3>1. CASE d \in Uses(n)
      <4>1. d \in fired
          BY <3>1, <2>1 DEF Firing
      <4>2. QED
          BY <4>1, <1>0 DEF Conclusions
    <3>2. CASE d \notin Uses(n)
        BY <3>2, <2>1, <1>0, <1>1 DEF CompleteInv
    <3>3. QED
        BY <3>1, <3>2
  <2>2. QED
      BY <2>1, <1>0, <1>1 DEF CompleteInv
<1>13. SoundInv'
  <2> DEFINE W == WellFoundedSupport(base, derivs)
  <2>1. W \in SUBSET Node /\ Closed(W, base, derivs)
      BY <1>1, SupportIsClosed DEF TypeOK
  <2>2. supported \subseteq W
      BY <1>0, <1>1 DEF SoundInv
  <2>3. ASSUME NEW d \in fired PROVE d.conclusion \in W
      BY <2>1, <2>2, <1>2, <1>4, <1>5 DEF Closed
  <2>4. Conclusions(fired) \subseteq W
      BY <2>3 DEF Conclusions
  <2>5. supported' \subseteq WellFoundedSupport(base', derivs')
      BY <2>2, <2>4, <1>0
  <2>6. QED
      BY <2>5, <1>0 DEF SoundInv
<1>14. CountInv'
  <2> SUFFICES ASSUME NEW m \in Node
               PROVE  supportCount'[m] = Grounded(base', m)
                        + Cardinality(Concluding(Firing(derivs', unmet'), m))
      BY DEF CountInv
  <2> DEFINE before == Concluding(Firing(derivs, unmet), m)
             after == Concluding(Firing(derivs', unmet'), m)
  <2>1. before \in SUBSET Rule
      BY <1>1 DEF TypeOK, Concluding, Firing
  <2>2. ASSUME NEW d \in Uses(n) PROVE d \in derivs /\ unmet[d] # 0
    <3>1. d \in derivs /\ n \in d.body
        BY DEF Uses
    <3>2. ~ (d.body \subseteq supported \ work)
        BY <3>1, <1>0
    <3>3. QED
        BY <3>1, <3>2, <1>1, CounterFacts
  <2>3. before \cap Concluding(fired, m) = {}
      BY <2>2 DEF Concluding, Firing
  <2>4. after = before \cup Concluding(fired, m)
    <3>1. \A d \in derivs : unmetNow[d] = 0 <=> unmet[d] = 0 \/ d \in fired
      <4> SUFFICES ASSUME NEW d \in derivs
                   PROVE  unmetNow[d] = 0 <=> unmet[d] = 0 \/ d \in fired
          OBVIOUS
      <4>1. CASE d \in Uses(n)
          BY <4>1, <2>2 DEF Firing
      <4>2. CASE d \notin Uses(n)
          BY <4>2 DEF Firing
      <4>3. QED
          BY <4>1, <4>2
    <3>2. Firing(derivs', unmet') = Firing(derivs, unmet) \cup fired
      <4> HIDE DEF fired, unmetNow
      <4>1. QED
          BY <3>1, <1>0, <1>5 DEF Firing
    <3>3. QED
      <4> HIDE DEF fired
      <4>1. QED
          BY <3>2 DEF Concluding
  <2> HIDE DEF before, after, fired
  <2>5. Cardinality(after) = Cardinality(before) + Cardinality(Concluding(fired, m))
      BY <2>1, <2>3, <2>4, <1>8, CreditsAdd
  <2>6. supportCount[m] = Grounded(base, m) + Cardinality(before)
      BY <1>0, <1>1 DEF CountInv, before
  <2>7. supportCount'[m] = supportCount[m] + Cardinality(Concluding(fired, m)) /\ base' = base
      BY <1>0
  <2>8. Grounded(base, m) \in Nat /\ Cardinality(before) \in Nat
      BY <2>1, CountsAreNaturals DEF Grounded
  <2>9. supportCount'[m] = Grounded(base', m) + Cardinality(after)
      BY <2>5, <2>6, <2>7, <2>8, <1>8
  <2>10. QED
      BY <2>9 DEF after
<1>15. CountDecidesSupport'
  <2> SUFFICES ASSUME NEW m \in Node
               PROVE  m \in supported' <=> supportCount'[m] > 0
      BY DEF CountDecidesSupport
  <2> HIDE DEF fired
  <2>1. supportCount[m] \in Nat /\ (m \in supported <=> supportCount[m] > 0)
      BY <1>1 DEF TypeOK, CountDecidesSupport
  <2>2. supportCount'[m] = supportCount[m] + Cardinality(Concluding(fired, m))
      BY <1>0
  <2>3. QED
      BY <2>1, <2>2, <1>0, <1>8
<1>16. AnswerIsWellFounded'
    BY <1>0, <1>1 DEF AnswerIsWellFounded
<1>17. QED
    BY <1>9, <1>10, <1>11, <1>12, <1>13, <1>14, <1>15, <1>16 DEF Inv

\* Registering the additions: the counters are taken against the support as
\* it was, so a grounding is credited either here or by the cascade.
LEMMA InsertInv ==
    ASSUME Inv, Insert
    PROVE  Inv'
<1> DEFINE addedBase == request.base_facts \ base
           addedDerivs == request.derivations \ derivs
           unmetNow == [d \in derivs \cup addedDerivs |->
                          IF d \in addedDerivs THEN Missing(d, supported) ELSE unmet[d]]
           fired == Firing(addedDerivs, unmetNow)
           new == (addedBase \cup Conclusions(fired)) \ supported
<1>0. /\ pc = "rederive" /\ pc' = "insert" /\ work = {}
      /\ base' = base \cup addedBase
      /\ derivs' = derivs \cup addedDerivs
      /\ unmet' = unmetNow
      /\ supportCount' = [n \in Node |-> supportCount[n] + Grounded(addedBase, n)
                                           + Cardinality(Concluding(fired, n))]
      /\ supported' = supported \cup new
      /\ work' = new
      /\ UNCHANGED <<request, stack, overDeleted, reply>>
    BY DEF Insert, Credits, Baseline
<1>1. /\ TypeOK /\ PhaseInv /\ CountersTrackDelivery /\ CompleteInv /\ SoundInv /\ CountInv
      /\ CountDecidesSupport /\ AnswerIsWellFounded
    BY DEF Inv
<1>2. /\ base' = request.base_facts /\ derivs' = request.derivations
      /\ base' \in SUBSET Node /\ derivs' \in SUBSET Rule
    BY <1>0, <1>1 DEF PhaseInv, TypeOK, DerivationGraph
<1>3. supported' \ work' = supported /\ supported' = supported \cup addedBase \cup Conclusions(fired)
    BY <1>0
<1>4. ASSUME NEW d \in derivs'
      PROVE  /\ d \in Rule
             /\ unmetNow[d] = Missing(d, supported)
             /\ unmetNow[d] \in Nat
             /\ unmetNow[d] = 0 <=> d.body \subseteq supported
  <2>1. d \in Rule
      BY <1>2
  <2>2. unmetNow[d] = Missing(d, supported)
    <3>1. CASE d \in addedDerivs
        BY <3>1
    <3>2. CASE d \notin addedDerivs
      <4>1. d \in derivs /\ unmet[d] = Missing(d, supported \ work)
          BY <3>2, <1>0, <1>1 DEF CountersTrackDelivery
      <4>2. supported \ work = supported
          BY <1>0
      <4>3. QED
          BY <4>1, <4>2, <3>2
    <3>3. QED
        BY <3>1, <3>2
  <2> HIDE DEF unmetNow
  <2>3. QED
      BY <2>1, <2>2, MissingIsCount
<1>5. fired \in SUBSET addedDerivs /\ \A d \in fired : unmetNow[d] = 0
    BY DEF Firing
<1>6. addedDerivs \in SUBSET derivs' /\ fired \in SUBSET Rule
    BY <1>0, <1>2, <1>5
<1>7. Conclusions(fired) \in SUBSET Node
    BY <1>6, RuleParts DEF Conclusions
<1>8. \A m \in Node : /\ Concluding(fired, m) \in SUBSET Rule
                      /\ Cardinality(Concluding(fired, m)) \in Nat
                      /\ Cardinality(Concluding(fired, m)) > 0 <=> m \in Conclusions(fired)
  <2> SUFFICES ASSUME NEW m \in Node
               PROVE  /\ Concluding(fired, m) \in SUBSET Rule
                      /\ Cardinality(Concluding(fired, m)) \in Nat
                      /\ Cardinality(Concluding(fired, m)) > 0 <=> m \in Conclusions(fired)
      OBVIOUS
  <2> HIDE DEF fired
  <2>1. Concluding(fired, m) \in SUBSET Rule
      BY <1>6 DEF Concluding
  <2>2. Concluding(fired, m) # {} <=> m \in Conclusions(fired)
      BY DEF Concluding, Conclusions
  <2>3. QED
      BY <2>1, <2>2, DerivationCount
<1>9. \A m \in Node : Grounded(addedBase, m) \in Nat /\ (Grounded(addedBase,
    m) > 0 <=> m \in addedBase)
    BY DEF Grounded
<1>10. TypeOK'
  <2>1. unmet' \in [derivs' -> Nat]
      BY <1>0, <1>4
  <2>2. supportCount' \in [Node -> Nat]
    <3> HIDE DEF fired, addedBase
    <3>1. QED
        BY <1>0, <1>1, <1>8, <1>9 DEF TypeOK
  <2>3. supported' \in SUBSET Node /\ work' \in SUBSET Node
      BY <1>0, <1>1, <1>2, <1>7 DEF TypeOK
  <2>4. QED
      BY <2>1, <2>2, <2>3, <1>0, <1>1, <1>2 DEF TypeOK
<1>11. PhaseInv'
    BY <1>0, <1>2 DEF PhaseInv
<1>12. CountersTrackDelivery'
    BY <1>0, <1>3, <1>4 DEF CountersTrackDelivery, Missing
<1>13. CompleteInv'
  <2>1. ASSUME NEW d \in derivs', unmetNow[d] = 0
        PROVE  d.conclusion \in supported'
    <3>1. CASE d \in addedDerivs
      <4>1. d \in fired
          BY <3>1, <2>1 DEF Firing
      <4>2. QED
          BY <4>1, <1>3 DEF Conclusions
    <3>2. CASE d \notin addedDerivs
        BY <3>2, <2>1, <1>0, <1>1 DEF CompleteInv
    <3>3. QED
        BY <3>1, <3>2
  <2>2. base' \subseteq supported'
      BY <1>0, <1>1, <1>3 DEF CompleteInv
  <2>3. QED
      BY <2>1, <2>2, <1>0 DEF CompleteInv
<1>14. SoundInv'
  <2> DEFINE W == WellFoundedSupport(base', derivs')
  <2>1. W \in SUBSET Node /\ Closed(W, base', derivs')
      BY <1>2, SupportIsClosed
  <2>2. WellFoundedSupport(base, derivs) \subseteq W
    <3>1. base \subseteq base' /\ derivs \subseteq derivs'
        BY <1>0
    <3>2. QED
        BY <3>1, SupportIsMonotone
  <2>3. supported \subseteq W
      BY <2>2, <1>0, <1>1 DEF SoundInv
  <2>4. ASSUME NEW d \in fired PROVE d.conclusion \in W
    <3>1. d \in derivs' /\ d.body \subseteq supported
        BY <1>4, <1>5, <1>6
    <3>2. QED
        BY <3>1, <2>1, <2>3 DEF Closed
  <2>5. Conclusions(fired) \subseteq W
      BY <2>4 DEF Conclusions
  <2>6. addedBase \subseteq W
      BY <2>1, <1>0 DEF Closed
  <2>7. supported' \subseteq W
      BY <2>3, <2>5, <2>6, <1>3
  <2>8. QED
      BY <2>7, <1>0 DEF SoundInv
<1>15. CountInv'
  <2> SUFFICES ASSUME NEW m \in Node
               PROVE  supportCount'[m] = Grounded(base', m)
                        + Cardinality(Concluding(Firing(derivs', unmet'), m))
      BY DEF CountInv
  <2> DEFINE before == Concluding(Firing(derivs, unmet), m)
             after == Concluding(Firing(derivs', unmet'), m)
  <2>1. before \in SUBSET Rule
      BY <1>1 DEF TypeOK, Concluding, Firing
  <2>2. before \cap Concluding(fired, m) = {}
      BY <1>5 DEF Concluding, Firing
  <2>3. after = before \cup Concluding(fired, m)
    <3>1. Firing(derivs', unmet') = Firing(derivs, unmet) \cup fired
        BY <1>0 DEF Firing
    <3>2. QED
      <4> HIDE DEF fired
      <4>1. QED
          BY <3>1 DEF Concluding
  <2>4. Grounded(base', m) = Grounded(base, m) + Grounded(addedBase, m)
      BY <1>0 DEF Grounded
  <2> HIDE DEF before, after, fired, addedBase
  <2>5. Cardinality(after) = Cardinality(before) + Cardinality(Concluding(fired, m))
      BY <2>1, <2>2, <2>3, <1>8, CreditsAdd
  <2>6. supportCount[m] = Grounded(base, m) + Cardinality(before)
      BY <1>0, <1>1 DEF CountInv, before
  <2>7. supportCount'[m] = supportCount[m] + Grounded(addedBase,
      m) + Cardinality(Concluding(fired, m))
      BY <1>0
  <2>8. Grounded(base, m) \in Nat /\ Cardinality(before) \in Nat
      BY <2>1, CountsAreNaturals DEF Grounded
  <2>9. supportCount'[m] = Grounded(base', m) + Cardinality(after)
      BY <2>4, <2>5, <2>6, <2>7, <2>8, <1>8, <1>9
  <2>10. QED
      BY <2>9 DEF after
<1>16. CountDecidesSupport'
  <2> SUFFICES ASSUME NEW m \in Node
               PROVE  m \in supported' <=> supportCount'[m] > 0
      BY DEF CountDecidesSupport
  <2> HIDE DEF fired, addedBase
  <2>1. supportCount[m] \in Nat /\ (m \in supported <=> supportCount[m] > 0)
      BY <1>1 DEF TypeOK, CountDecidesSupport
  <2>2. supportCount'[m] = supportCount[m] + Grounded(addedBase,
      m) + Cardinality(Concluding(fired, m))
      BY <1>0
  <2>3. m \in supported' <=> m \in supported \/ m \in addedBase \/ m \in Conclusions(fired)
      BY <1>3
  <2>4. QED
      BY <2>1, <2>2, <2>3, <1>8, <1>9
<1>17. AnswerIsWellFounded'
    BY <1>0, <1>1 DEF AnswerIsWellFounded
<1>18. QED
    BY <1>10, <1>11, <1>12, <1>13, <1>14, <1>15, <1>16, <1>17 DEF Inv

\* Once nothing is left to deliver, the maintained set is closed; being
\* founded as well, it is the least closed set of the requested graph.
LEMMA SettledIsWellFounded ==
    ASSUME Inv, pc \in {"idle", "insert"}, work = {}
    PROVE  supported = WellFoundedSupport(base, derivs)
<1>1. TypeOK /\ CountersTrackDelivery /\ CompleteInv /\ SoundInv
    BY DEF Inv
<1>2. ASSUME NEW d \in derivs, d.body \subseteq supported
      PROVE  d.conclusion \in supported
  <2>1. unmet[d] = 0
      BY <1>1, <1>2, CounterFacts
  <2>2. QED
      BY <2>1, <1>1 DEF CompleteInv
<1>3. Closed(supported, base, derivs) /\ supported \in SUBSET Node
    BY <1>1, <1>2 DEF Closed, CompleteInv, TypeOK
<1>4. WellFoundedSupport(base, derivs) \subseteq supported
    BY <1>3, SupportIsLeast
<1>5. QED
    BY <1>1, <1>4 DEF SoundInv

\* Returning publishes the answer the contract asks for.
LEMMA ReturnInv ==
    ASSUME Inv, Return
    PROVE  Inv'
<1>0. /\ pc = "insert" /\ pc' = "idle" /\ work = {}
      /\ reply' = [graph |-> request, support |-> supported]
      /\ overDeleted' = {}
      /\ UNCHANGED <<base, derivs, unmet, supportCount, supported, request, stack, work>>
    BY DEF Return
<1>1. TypeOK /\ PhaseInv
    BY DEF Inv
<1>2. AnswerIsWellFounded'
    BY <1>0, <1>1, SettledIsWellFounded DEF AnswerIsWellFounded, PhaseInv
<1>3. TypeOK' /\ PhaseInv'
    BY <1>0, <1>1 DEF TypeOK, PhaseInv
<1>4. CountersTrackDelivery' /\ CompleteInv' /\ SoundInv' /\ CountDecidesSupport'
    BY <1>0 DEF Inv, CountersTrackDelivery, CompleteInv, SoundInv, CountDecidesSupport
<1>5. CountInv'
    BY <1>0 DEF Inv, CountInv
<1>6. QED
    BY <1>2, <1>3, <1>4, <1>5 DEF Inv

\* Every step of the engine preserves the invariant.
LEMMA NextInv == Inv /\ [Next]_vars => Inv'
<1> SUFFICES ASSUME Inv, [Next]_vars PROVE Inv'
    OBVIOUS
<1>1. ASSUME NEW g \in DerivationGraph, Apply(g) PROVE Inv'
    BY <1>1, ApplyInv
<1>2. ASSUME NEW n \in Node, OverDelete(n) PROVE Inv'
    BY <1>2, OverDeleteInv
<1>3. ASSUME NEW n \in Node, Cascade(n) PROVE Inv'
    BY <1>3, CascadeInv
<1>4. CASE Rederive
    BY <1>4, RederiveInv
<1>5. CASE Insert
    BY <1>5, InsertInv
<1>6. CASE Return
    BY <1>6, ReturnInv
<1>7. CASE UNCHANGED vars
    BY <1>7 DEF vars, Inv, TypeOK, PhaseInv, CountersTrackDelivery, CompleteInv, SoundInv,
        CountInv, CountDecidesSupport, AnswerIsWellFounded, Uses
<1>8. QED
    BY <1>1, <1>2, <1>3, <1>4, <1>5, <1>6, <1>7 DEF Next, Step

LEMMA Invariance == Spec => []Inv
<1>1. QED
    BY InitInv, NextInv, PTL DEF Spec

-----------------------------------------------------------------------------

\* The engine's state keeps its types: in particular no counter ever goes
\* below zero, whatever is inserted and retracted.
THEOREM TypeCorrect == Spec => []TypeOK
<1>1. Inv => TypeOK
    BY DEF Inv
<1>2. QED
    BY <1>1, Invariance, PTL

\* Every answer of the incremental engine is the well-founded support of the
\* graph it was asked about, on cyclic graphs and after any history of calls.
THEOREM AnswersCorrect == Spec => []AnswerIsWellFounded
<1>1. Inv => AnswerIsWellFounded
    BY DEF Inv
<1>2. QED
    BY <1>1, Invariance, PTL

\* Between calls support_count is the exact number of active groundings.
THEOREM CountsCorrect == Spec => []CountsAreGroundings
<1>1. ASSUME Inv, pc = "idle", NEW n \in Node
      PROVE  Concluding(Firing(derivs, unmet), n)
               = {d \in derivs : d.conclusion = n /\ d.body \subseteq supported}
  <2>1. work = {} /\ TypeOK /\ CountersTrackDelivery
      BY <1>1 DEF Inv, PhaseInv
  <2>2. \A d \in derivs : unmet[d] = 0 <=> d.body \subseteq supported
      BY <2>1, CounterFacts
  <2>3. QED
      BY <2>2 DEF Concluding, Firing
<1>2. Inv => CountsAreGroundings
    BY <1>1 DEF Inv, CountInv, CountsAreGroundings
<1>3. QED
    BY <1>2, Invariance, PTL

\* Counters track delivery and decide support at every step of a call.
THEOREM CountersCorrect == Spec => [](CountersTrackDelivery /\ CountDecidesSupport)
<1>1. Inv => CountersTrackDelivery /\ CountDecidesSupport
    BY DEF Inv
<1>2. QED
    BY <1>1, Invariance, PTL

\* The incremental engine implements the oracle contract: it starts from an
\* answered empty graph, and a step either leaves the last answer alone or
\* answers a new graph with exactly that graph's support.
THEOREM ImplementsSupportOracle == Spec => ImplementsContract
<1>1. Init => Contract!Init
    BY EmptySupport DEF Init, Contract!Init, Contract!Answer, EmptyGraph, Contract!EmptyGraph,
        WellFoundedSupport, Contract!WellFoundedSupport, Closed, Contract!Closed
<1>2. Inv /\ [Next]_vars => [Contract!Next]_reply
  <2> SUFFICES ASSUME Inv, [Next]_vars, reply' # reply PROVE Contract!Next
      OBVIOUS
  <2>1. Return
      BY DEF Next, Step, Apply, OverDelete, Rederive, Cascade, Insert, vars
  <2>2. reply' = [graph |-> request, support |-> supported]
      BY <2>1 DEF Return
  <2>3. supported = WellFoundedSupport(request.base_facts, request.derivations)
      BY <2>1, SettledIsWellFounded DEF Inv, PhaseInv, Return
  <2>4. request \in DerivationGraph
      BY DEF Inv, TypeOK
  <2>5. QED
      BY <2>2, <2>3, <2>4 DEF Contract!Next, Contract!well_founded_support, Contract!Answer,
          DerivationGraph, Contract!DerivationGraph, WellFoundedSupport,
          Contract!WellFoundedSupport, Closed, Contract!Closed
<1>3. QED
    BY <1>1, <1>2, Invariance, PTL DEF Spec, ImplementsContract, Contract!Spec

-----------------------------------------------------------------------------
(* What the return of a call rests on: its steps run out.                   *)

\* A node that was torn down is not put on the stack again.
StackIsFresh == stack \cap overDeleted = {}

\* The phases of a call still to come, and what is left of the current one:
\* nodes to tear down; or newly supported nodes to deliver, each of which may
\* support others for the first time.
PhasesLeft == CASE pc = "overdelete" -> 3 [] pc = "rederive" -> 2 [] pc = "insert" -> 1 [] OTHER -> 0
LeftInPhase ==
    IF pc = "overdelete" THEN Cardinality(Node \ overDeleted)
                         ELSE 2 * Cardinality(Node \ supported) + Cardinality(work)
LeftOK == {PhasesLeft, LeftInPhase} \subseteq Nat
LeavesLess ==
    /\ LeftOK /\ LeftOK'
    /\ PhasesLeft' < PhasesLeft \/ (PhasesLeft' = PhasesLeft /\ LeftInPhase' < LeftInPhase)
StepsRunOut == [][Step => LeavesLess]_vars

LEMMA FreshStack == Inv /\ StackIsFresh /\ [Next]_vars => StackIsFresh'
BY DEF Next, Step, Apply, OverDelete, StackAfter, Rederive, Cascade, Insert, Return, vars, StackIsFresh

\* What is left is a number.
LEMMA LeftIsANumber == TypeOK => LeftOK
<1> SUFFICES ASSUME TypeOK PROVE LeftOK
    OBVIOUS
<1>1. Node \ overDeleted \in SUBSET Node /\ Node \ supported \in SUBSET Node /\ work \in SUBSET Node
    BY DEF TypeOK
<1>2. /\ Cardinality(Node \ overDeleted) \in Nat /\ Cardinality(Node \ supported) \in Nat
      /\ Cardinality(work) \in Nat
    BY <1>1, CountsAreNaturals
<1>3. QED
    BY <1>2 DEF LeftOK, PhasesLeft, LeftInPhase

\* Tearing a node down leaves one node less to tear down.
LEMMA OverDeleteLeavesLess ==
    ASSUME TypeOK, StackIsFresh, NEW n \in Node, OverDelete(n)
    PROVE  PhasesLeft' = PhasesLeft /\ LeftInPhase' < LeftInPhase
<1>1. n \in Node \ overDeleted /\ Node \ overDeleted' = (Node \ overDeleted) \ {n}
    BY DEF OverDelete, StackIsFresh
<1>2. IsFiniteSet(Node \ overDeleted) /\ Cardinality(Node \ overDeleted) \in Nat
  <2>1. Node \ overDeleted \in SUBSET Node
      OBVIOUS
  <2>2. QED
      BY <2>1, CountsAreNaturals
<1>3. Cardinality(Node \ overDeleted') = Cardinality(Node \ overDeleted) - 1
    BY <1>1, <1>2, FS_RemoveElement
<1>4. pc = "overdelete" /\ pc' = pc
    BY DEF OverDelete
<1>5. QED
    BY <1>2, <1>3, <1>4 DEF PhasesLeft, LeftInPhase

\* Delivering a node leaves one less to deliver, but for nodes supported for
\* the first time.
LEMMA CascadeLeavesLess ==
    ASSUME TypeOK, NEW n \in Node, Cascade(n)
    PROVE  PhasesLeft' = PhasesLeft /\ LeftInPhase' < LeftInPhase
<1> DEFINE unmetNow == [d \in derivs |-> IF d \in Uses(n) THEN unmet[d] - 1 ELSE unmet[d]]
           credited == Conclusions(Firing(Uses(n), unmetNow))
           new == credited \ supported
           out == Node \ supported
<1>1. /\ n \in work /\ pc # "overdelete" /\ pc' = pc
      /\ supported' = supported \cup credited /\ work' = (work \ {n}) \cup new
    BY DEF Cascade
<1>2. credited \subseteq Node
  <2>1. Firing(Uses(n), unmetNow) \subseteq Rule
      BY DEF Firing, Uses, TypeOK
  <2> HIDE DEF unmetNow
  <2>2. QED
      BY <2>1, RuleParts DEF Conclusions
<1> HIDE DEF credited
<1>3. new \in SUBSET out /\ new \in SUBSET Node /\ out \in SUBSET Node /\ work \in SUBSET Node
    BY <1>2 DEF TypeOK
<1>4. /\ IsFiniteSet(new) /\ IsFiniteSet(out) /\ IsFiniteSet(work) /\ IsFiniteSet(work \ {n})
      /\ Cardinality(new) \in Nat /\ Cardinality(out) \in Nat /\ Cardinality(work) \in Nat
      /\ Cardinality(work \ {n}) = Cardinality(work) - 1
    BY <1>1, <1>3, CountsAreNaturals, FS_RemoveElement
<1>5. Cardinality(Node \ supported') = Cardinality(out) - Cardinality(new)
  <2>1. Node \ supported' = out \ new /\ out \cap new = new
      BY <1>1, <1>3
  <2> HIDE DEF new, out
  <2>2. Cardinality(out \ new) = Cardinality(out) - Cardinality(out \cap new)
      BY <1>4, FS_Difference
  <2>3. QED
      BY <2>1, <2>2
<1>6. Cardinality(work') <= Cardinality(work) - 1 + Cardinality(new)
  <2>1. (work \ {n}) \cap new \in SUBSET Node
      BY <1>3
  <2>2. Cardinality((work \ {n}) \cap new) \in Nat
      BY <2>1, CountsAreNaturals
  <2> HIDE DEF new
  <2>3. Cardinality((work \ {n}) \cup new)
          = Cardinality(work \ {n}) + Cardinality(new) - Cardinality((work \ {n}) \cap new)
      BY <1>4, FS_Union
  <2>4. QED
      BY <1>1, <1>4, <2>2, <2>3
<1>7. Cardinality(work') \in Nat
  <2>1. work' \in SUBSET Node
      BY <1>1, <1>3
  <2>2. QED
      BY <2>1, CountsAreNaturals
<1> HIDE DEF new, out
<1>8. 2 * Cardinality(Node \ supported') + Cardinality(work') < 2 * Cardinality(out) + Cardinality(work)
  <2>1. \A a, b, c, w \in Nat : w <= b - 1 + c => 2 * (a - c) + w < 2 * a + b
    <3>1. ASSUME NEW a \in Nat, NEW b \in Nat, NEW c \in Nat, NEW w \in Nat, w <= b - 1 + c
          PROVE  2 * (a - c) + w < 2 * a + b
        BY <3>1
    <3>2. QED
        BY <3>1
  <2>2. QED
      BY <1>4, <1>5, <1>6, <1>7, <2>1
<1>9. QED
    BY <1>1, <1>8 DEF PhasesLeft, LeftInPhase, out

\* Every call runs out of steps: each finishes a phase, or tears down a node
\* that was not, or delivers one.  Whatever the graph, cyclic ones too, and
\* whatever order the queues are worked off in.
THEOREM CallsRunOut == Spec => StepsRunOut
<1>1. Inv /\ StackIsFresh /\ Step =>
        PhasesLeft' < PhasesLeft \/ (PhasesLeft' = PhasesLeft /\ LeftInPhase' < LeftInPhase)
  <2>1. Rederive \/ Insert \/ Return => PhasesLeft' < PhasesLeft
      BY DEF Rederive, Insert, Return, PhasesLeft
  <2>2. QED
      BY <2>1, OverDeleteLeavesLess, CascadeLeavesLess DEF Step, Inv
<1>2. Inv => LeftOK
    BY LeftIsANumber DEF Inv
<1>3. Inv /\ StackIsFresh /\ LeftOK /\ LeftOK' /\ [Next]_vars => [Step => LeavesLess]_vars
    BY <1>1 DEF LeavesLess
<1>4. Init => StackIsFresh
    BY DEF Init, StackIsFresh
<1>5. QED
    BY <1>2, <1>3, <1>4, FreshStack, Invariance, PTL DEF Spec, StepsRunOut

-----------------------------------------------------------------------------
(* Full recompute, with a state of its own.                                 *)

VARIABLES graph, remaining, marked, worklist, phase, answer

Full == INSTANCE RecomputeOracle WITH supported <- marked, pc <- phase, reply <- answer

\* The instance speaks of the same graphs and of the same support.
LEMMA FullMeaning ==
    /\ Full!DerivationGraph = DerivationGraph /\ Full!EmptyGraph = EmptyGraph
    /\ \A base_facts, rules :
         Full!WellFoundedSupport(base_facts, rules) = WellFoundedSupport(base_facts, rules)
    /\ \A S : Full!Cardinality(S) = Cardinality(S)
  BY DEF Full!DerivationGraph, DerivationGraph, Full!EmptyGraph, EmptyGraph,
         Full!WellFoundedSupport, WellFoundedSupport, Full!Closed, Closed, Full!Cardinality,
             Cardinality

\* Once a body has been delivered in full its conclusion is marked.
FullComplete ==
    phase = "run" =>
        /\ graph.base_facts \subseteq marked
        /\ \A d \in graph.derivations : remaining[d] = 0 => d.conclusion \in marked

FullAnswerOK == answer.support = WellFoundedSupport(answer.graph.base_facts,
    answer.graph.derivations)

FullInv ==
    /\ Full!TypeOK /\ Full!DeliveredOnce /\ Full!NeverOvershoots
    /\ FullComplete /\ FullAnswerOK /\ worklist \subseteq marked

\* Counting open antecedents is exact at 0, and delivery takes one away.
LEMMA OpenAntecedents ==
    ASSUME NEW d \in Rule, NEW S
    PROVE  /\ Cardinality(d.body \ S) \in Nat
           /\ Cardinality(d.body \ S) = 0 <=> d.body \subseteq S
           /\ \A n \in Node \ S : Cardinality(d.body \ (S \cup {n})) =
                 IF n \in d.body THEN Cardinality(d.body \ S) - 1 ELSE Cardinality(d.body \ S)
<1>1. IsFiniteSet(d.body \ S) /\ Cardinality(d.body \ S) \in Nat
  <2>1. d.body \ S \in SUBSET Node
      BY RuleParts
  <2>2. QED
      BY <2>1, CountsAreNaturals
<1>2. Cardinality(d.body \ S) = 0 <=> d.body \subseteq S
    BY <1>1, FS_EmptySet
<1>3. ASSUME NEW n \in Node \ S
      PROVE  Cardinality(d.body \ (S \cup {n})) =
               IF n \in d.body THEN Cardinality(d.body \ S) - 1 ELSE Cardinality(d.body \ S)
  <2>1. d.body \ (S \cup {n}) = (d.body \ S) \ {n}
      OBVIOUS
  <2>2. n \in d.body \ S <=> n \in d.body
      OBVIOUS
  <2>3. Cardinality((d.body \ S) \ {n}) =
          IF n \in d.body \ S THEN Cardinality(d.body \ S) - 1 ELSE Cardinality(d.body \ S)
      BY <1>1, FS_RemoveElement
  <2>4. QED
      BY <2>1, <2>2, <2>3
<1>4. QED
    BY <1>1, <1>2, <1>3

\* Seeding marks the base facts and what needs no antecedent.
LEMMA FullCallInv ==
    ASSUME FullInv, NEW g \in DerivationGraph, Full!Call(g)
    PROVE  FullInv'
<1>0. /\ phase' = "run" /\ graph' = g
      /\ remaining' = [d \in g.derivations |-> Cardinality(d.body)]
      /\ marked' = g.base_facts \cup Full!Heads(Full!Exhausted(g.derivations, remaining'))
      /\ worklist' = marked' /\ answer' = answer
    BY FullMeaning DEF Full!Call, Full!SeedNodes, Full!Heads, Full!Exhausted
<1>1. g.base_facts \in SUBSET Node /\ g.derivations \in SUBSET Rule
    BY DEF DerivationGraph
<1>2. ASSUME NEW d \in g.derivations, NEW S, S = {}
      PROVE  /\ d \in Rule /\ remaining'[d] = Cardinality(d.body \ S)
             /\ remaining'[d] \in Nat /\ (remaining'[d] = 0 <=> d.body \subseteq S)
  <2>1. d \in Rule /\ d.body \ S = d.body
      BY <1>1, <1>2
  <2>2. remaining'[d] = Cardinality(d.body \ S)
      BY <1>0, <2>1
  <2>3. /\ Cardinality(d.body \ S) \in Nat
        /\ Cardinality(d.body \ S) = 0 <=> d.body \subseteq S
      BY <2>1, OpenAntecedents
  <2>4. QED
      BY <2>1, <2>2, <2>3
<1>3. Full!Heads(Full!Exhausted(g.derivations, remaining')) \in SUBSET Node
    BY <1>1, RuleParts DEF Full!Heads, Full!Exhausted
<1>4. Full!TypeOK'
  <2>1. remaining' \in [graph'.derivations -> Nat]
      BY <1>0, <1>2
  <2>2. QED
      BY <2>1, <1>0, <1>1, <1>3, FullMeaning DEF FullInv, Full!TypeOK
<1>5. Full!DeliveredOnce'
  <2>1. marked' \ worklist' = {}
      BY <1>0
  <2>2. QED
      BY <2>1, <1>0, <1>2, FullMeaning DEF Full!DeliveredOnce
<1>6. FullComplete'
    BY <1>0 DEF FullComplete, Full!Heads, Full!Exhausted
<1>7. Full!NeverOvershoots'
  <2> DEFINE W == WellFoundedSupport(g.base_facts, g.derivations)
  <2>1. Closed(W, g.base_facts, g.derivations)
      BY <1>1, SupportIsClosed
  <2>2. ASSUME NEW d \in g.derivations, remaining'[d] = 0
        PROVE  d.conclusion \in W
      BY <2>1, <2>2, <1>2 DEF Closed
  <2>3. marked' \subseteq W
      BY <2>1, <2>2, <1>0 DEF Closed, Full!Heads, Full!Exhausted
  <2>4. QED
      BY <2>3, <1>0, FullMeaning DEF Full!NeverOvershoots
<1>8. QED
    BY <1>0, <1>4, <1>5, <1>6, <1>7 DEF FullInv, FullAnswerOK

\* Delivering a node marks exactly what it completes.
LEMMA FullDeliverInv ==
    ASSUME FullInv, NEW n \in Node, Full!Deliver(n)
    PROVE  FullInv'
<1> DEFINE uses == {d \in graph.derivations : n \in d.body}
           left == [d \in graph.derivations |-> IF d \in uses THEN remaining[d] - 1
                                                ELSE remaining[d]]
           fired == Full!Heads(Full!Exhausted(uses, left))
           done == marked \ worklist
<1>0. /\ phase = "run" /\ n \in worklist
      /\ remaining' = left
      /\ marked' = marked \cup fired
      /\ worklist' = (worklist \ {n}) \cup (fired \ marked)
      /\ UNCHANGED <<graph, phase, answer>>
    BY DEF Full!Deliver, Full!MarkNew
<1>1. /\ Full!TypeOK /\ Full!DeliveredOnce /\ Full!NeverOvershoots /\ FullComplete /\ FullAnswerOK
      /\ worklist \subseteq marked
    BY DEF FullInv
<1>2. graph.base_facts \in SUBSET Node /\ graph.derivations \in SUBSET Rule
    BY <1>1, FullMeaning DEF Full!TypeOK, DerivationGraph
<1>3. marked' \ worklist' = done \cup {n} /\ n \in Node \ done
    BY <1>0, <1>1
<1>4. ASSUME NEW d \in graph.derivations
      PROVE  /\ left[d] = Cardinality(d.body \ (done \cup {n}))
             /\ left[d] \in Nat
             /\ left[d] = 0 <=> d.body \subseteq done \cup {n}
  <2>1. d \in Rule /\ remaining[d] = Cardinality(d.body \ done)
      BY <1>0, <1>1, <1>2, FullMeaning DEF Full!DeliveredOnce
  <2>2. left[d] = IF n \in d.body THEN remaining[d] - 1 ELSE remaining[d]
      OBVIOUS
  <2> HIDE DEF left, done
  <2>3. Cardinality(d.body \ (done \cup {n})) =
          IF n \in d.body THEN Cardinality(d.body \ done) - 1 ELSE Cardinality(d.body \ done)
      BY <2>1, <1>3, OpenAntecedents
  <2>4. left[d] = Cardinality(d.body \ (done \cup {n}))
      BY <2>1, <2>2, <2>3
  <2>5. /\ Cardinality(d.body \ (done \cup {n})) \in Nat
        /\ Cardinality(d.body \ (done \cup {n})) = 0 <=> d.body \subseteq done \cup {n}
      BY <2>1, OpenAntecedents
  <2>6. QED
      BY <2>4, <2>5
<1>5. fired \in SUBSET Node
    BY <1>2, RuleParts DEF Full!Heads, Full!Exhausted
<1>6. Full!TypeOK'
  <2>1. remaining' \in [graph'.derivations -> Nat]
      BY <1>0, <1>4
  <2>2. QED
      BY <2>1, <1>0, <1>1, <1>5 DEF Full!TypeOK
<1>7. Full!DeliveredOnce'
    BY <1>0, <1>3, <1>4, FullMeaning DEF Full!DeliveredOnce
<1>8. FullComplete'
  <2>1. ASSUME NEW d \in graph.derivations, left[d] = 0
        PROVE  d.conclusion \in marked'
    <3>1. CASE d \in uses
        BY <3>1, <2>1, <1>0 DEF Full!Heads, Full!Exhausted
    <3>2. CASE d \notin uses
        BY <3>2, <2>1, <1>0, <1>1 DEF FullComplete
    <3>3. QED
        BY <3>1, <3>2
  <2>2. QED
      BY <2>1, <1>0, <1>1 DEF FullComplete
<1>9. Full!NeverOvershoots'
  <2> DEFINE W == WellFoundedSupport(graph.base_facts, graph.derivations)
  <2>1. Closed(W, graph.base_facts, graph.derivations)
      BY <1>2, SupportIsClosed
  <2>2. ASSUME NEW d \in graph.derivations, left[d] = 0
        PROVE  d.conclusion \in W
    <3>1. d.body \subseteq marked
        BY <2>2, <1>0, <1>1, <1>4
    <3>2. QED
        BY <3>1, <2>1, <1>1, FullMeaning DEF Closed, Full!NeverOvershoots
  <2>3. fired \subseteq W
      BY <2>2 DEF Full!Heads, Full!Exhausted
  <2>4. QED
      BY <2>3, <1>0, <1>1, FullMeaning DEF Full!NeverOvershoots
<1>10. worklist' \subseteq marked'
    BY <1>0, <1>1
<1>11. QED
    BY <1>0, <1>1, <1>6, <1>7, <1>8, <1>9, <1>10 DEF FullInv, FullAnswerOK

\* With an empty worklist the marked set is closed, hence the least fixpoint.
LEMMA FullSettledIsSupport ==
    ASSUME FullInv, phase = "run", worklist = {}
    PROVE  marked = WellFoundedSupport(graph.base_facts, graph.derivations)
<1>1. graph.derivations \in SUBSET Rule /\ marked \in SUBSET Node
    BY FullMeaning DEF FullInv, Full!TypeOK, DerivationGraph
<1>2. ASSUME NEW d \in graph.derivations, d.body \subseteq marked
      PROVE  d.conclusion \in marked
  <2>1. remaining[d] = Cardinality(d.body \ marked)
    <3>1. marked \ worklist = marked
        OBVIOUS
    <3>2. QED
        BY <3>1, FullMeaning DEF FullInv, Full!DeliveredOnce
  <2>2. remaining[d] = 0
    <3>1. Cardinality(d.body \ marked) = 0 <=> d.body \subseteq marked
        BY <1>1, OpenAntecedents
    <3>2. QED
        BY <3>1, <2>1, <1>2
  <2>3. QED
      BY <2>2 DEF FullInv, FullComplete
<1>3. Closed(marked, graph.base_facts, graph.derivations)
    BY <1>2 DEF Closed, FullInv, FullComplete
<1>4. QED
    BY <1>1, <1>3, SupportIsLeast, FullMeaning DEF FullInv, Full!NeverOvershoots

LEMMA FullInvariance == Full!Spec => []FullInv
<1>1. Full!Init => FullInv
  <2>1. Full!Init => Full!TypeOK
      BY FullMeaning DEF Full!Init, Full!TypeOK, EmptyGraph, DerivationGraph
  <2>2. Full!Init => /\ Full!DeliveredOnce /\ FullComplete /\ worklist \subseteq marked
      BY DEF Full!Init, Full!DeliveredOnce, FullComplete
  <2>3. Full!Init => Full!NeverOvershoots /\ FullAnswerOK
    <3>1. Full!Init => answer.support = {} /\ answer.graph.base_facts = {} /\ answer.graph.derivations = {}
        BY FullMeaning DEF Full!Init, EmptyGraph
    <3>2. Full!Init => marked = {}
        BY DEF Full!Init
    <3>3. QED
        BY <3>1, <3>2, EmptySupport DEF Full!NeverOvershoots, FullAnswerOK
  <2>4. QED
      BY <2>1, <2>2, <2>3 DEF FullInv
<1>2. FullInv /\ [Full!Next]_(Full!vars) => FullInv'
  <2> SUFFICES ASSUME FullInv, [Full!Next]_(Full!vars) PROVE FullInv'
      OBVIOUS
  <2>1. ASSUME NEW g \in DerivationGraph, Full!Call(g) PROVE FullInv'
      BY <2>1, FullCallInv
  <2>2. ASSUME NEW n \in Node, Full!Deliver(n) PROVE FullInv'
      BY <2>2, FullDeliverInv
  <2>3. CASE Full!Return
    <3>1. FullAnswerOK'
        BY <2>3, FullSettledIsSupport DEF Full!Return, FullAnswerOK
    <3>2. QED
        BY <3>1, <2>3 DEF Full!Return, FullInv, Full!TypeOK, Full!DeliveredOnce,
            Full!NeverOvershoots, FullComplete
  <2>4. CASE UNCHANGED Full!vars
      BY <2>4 DEF Full!vars, FullInv, Full!TypeOK, Full!DeliveredOnce, Full!NeverOvershoots,
          FullComplete, FullAnswerOK
  <2>5. QED
      BY <2>1, <2>2, <2>3, <2>4, FullMeaning DEF Full!Next, Full!Step
<1>3. QED
    BY <1>1, <1>2, PTL DEF Full!Spec

\* The evaluation's state keeps its types: no counter goes below zero.
THEOREM RecomputeTypeCorrect == Full!Spec => []Full!TypeOK
<1>1. FullInv => Full!TypeOK
    BY DEF FullInv
<1>2. QED
    BY <1>1, FullInvariance, PTL

\* Each antecedent is delivered once, and no mark is ever unfounded.
THEOREM EvaluationSound == Full!Spec => [](Full!DeliveredOnce /\ Full!NeverOvershoots)
<1>1. FullInv => Full!DeliveredOnce /\ Full!NeverOvershoots
    BY DEF FullInv
<1>2. QED
    BY <1>1, FullInvariance, PTL

\* Full recompute implements the oracle contract the incremental engine is
\* held to.
THEOREM RecomputeImplements == Full!Spec => Full!ImplementsContract
<1>1. Full!Init => Full!Contract!Init
    BY EmptySupport, FullMeaning DEF Full!Init, Full!Contract!Init, Full!Contract!Answer,
        EmptyGraph, Full!Contract!EmptyGraph,
        WellFoundedSupport, Full!Contract!WellFoundedSupport, Closed, Full!Contract!Closed
<1>2. FullInv /\ [Full!Next]_(Full!vars) => [Full!Contract!Next]_answer
  <2> SUFFICES ASSUME FullInv, [Full!Next]_(Full!vars), answer' # answer PROVE Full!Contract!Next
      OBVIOUS
  <2>1. Full!Return
      BY FullMeaning DEF Full!Next, Full!Step, Full!Call, Full!Deliver, Full!vars
  <2>2. answer' = [graph |-> graph, support |-> marked]
      BY <2>1 DEF Full!Return
  <2>3. marked = WellFoundedSupport(graph.base_facts, graph.derivations)
      BY <2>1, FullSettledIsSupport DEF Full!Return
  <2>4. graph \in DerivationGraph
      BY FullMeaning DEF FullInv, Full!TypeOK
  <2>5. QED
      BY <2>2, <2>3, <2>4 DEF Full!Contract!Next, Full!Contract!well_founded_support,
          Full!Contract!Answer,
          DerivationGraph, Full!Contract!DerivationGraph, WellFoundedSupport,
          Full!Contract!WellFoundedSupport, Closed, Full!Contract!Closed
<1>3. QED
    BY <1>1, <1>2, FullInvariance, PTL DEF Full!Spec, Full!ImplementsContract, Full!Contract!Spec

-----------------------------------------------------------------------------
(* stabilize, for every set of states, step function, key and bound.        *)

\* While the loop runs, every application of step has added one state, the
\* bound is not used up and no oscillation has been recorded.
StabilizeRunning ==
    status = "running" => /\ iterations < MaxIterations
                          /\ Len(trajectory) = iterations + 1
                          /\ cycle = <<>>

StabilizeInv == StabilizeTypeOK /\ StabilizeRunning /\ OutcomeIsTrue

\* An empty sequence is not a run of states; a run of states has a last one.
LEMMA LastVisited ==
    ASSUME NEW t \in Seq(State), t # <<>>
    PROVE  Len(t) \in Nat \ {0} /\ t[Len(t)] \in State
<1>1. Len(t) \in Nat /\ (\A i \in 1 .. Len(t) : t[i] \in State)
    BY LenProperties, ElementOfSeq
<1>2. Len(t) # 0
    BY EmptySeq
<1>3. QED
    BY <1>1, <1>2

\* Before the first application of step there is nothing to misreport.
LEMMA StabilizeStarts == StabilizeInit => StabilizeInv
<1> SUFFICES ASSUME StabilizeInit PROVE StabilizeInv
    OBVIOUS
<1>1. PICK s \in State : Start(s)
    BY DEF StabilizeInit
<1>2. trajectory \in Seq(State) /\ Len(trajectory) = 1 /\ trajectory # <<>>
    BY <1>1 DEF Start
<1>3. cycle \in Seq(State)
    BY <1>1 DEF Start
<1>4. StabilizeTypeOK
    BY <1>1, <1>2, <1>3, BoundIsPositive DEF StabilizeTypeOK, Start, StabilizeInit
<1>5. StabilizeRunning
    BY <1>1, <1>2, BoundIsPositive DEF StabilizeRunning, Start
<1>6. OutcomeIsTrue
    BY <1>1, <1>2 DEF OutcomeIsTrue, TrajectoryIsOrbit, ConvergedIsFixpoint,
                      OscillationIsCycle, DivergedIsExhausted, Start
<1>7. QED
    BY <1>4, <1>5, <1>6 DEF StabilizeInv

\* A converging iteration leaves the trajectory alone and stops at a state
\* the key cannot tell from the last one.
LEMMA ConvergeKeeps ==
    ASSUME StabilizeInv, status = "running", iterations' = iterations + 1, UNCHANGED step,
           Converge(step[current])
    PROVE  StabilizeInv'
<1>1. trajectory \in Seq(State) /\ trajectory # <<>> /\ step \in [State -> State]
    BY DEF StabilizeInv, StabilizeTypeOK
<1>2. current \in State
    BY <1>1, LastVisited DEF current
<1>3. StabilizeTypeOK'
    BY <1>1, <1>2, BoundIsPositive
       DEF StabilizeInv, StabilizeTypeOK, StabilizeRunning, Converge, Stability
<1>4. StabilizeRunning'
    BY DEF StabilizeRunning, Converge
<1>5. TrajectoryIsOrbit'
    BY DEF StabilizeInv, OutcomeIsTrue, TrajectoryIsOrbit, Converge
<1>6. ConvergedIsFixpoint'
    BY DEF StabilizeInv, StabilizeRunning, ConvergedIsFixpoint, Converge, current
<1>7. OscillationIsCycle' /\ DivergedIsExhausted'
    BY DEF OscillationIsCycle, DivergedIsExhausted, Converge
<1>8. QED
    BY <1>3, <1>4, <1>5, <1>6, <1>7 DEF StabilizeInv, OutcomeIsTrue

\* An iteration that meets an earlier key reports the part of the trajectory
\* from there on, which is a cycle of at least two states.
LEMMA OscillateKeeps ==
    ASSUME StabilizeInv, status = "running", iterations' = iterations + 1, UNCHANGED step,
           Oscillate(step[current])
    PROVE  StabilizeInv'
<1> DEFINE nxt == step[current]
           n == Len(trajectory)
<1>1. trajectory \in Seq(State) /\ trajectory # <<>> /\ step \in [State -> State]
    BY DEF StabilizeInv, StabilizeTypeOK
<1>2. n \in Nat \ {0} /\ current \in State /\ nxt \in State /\ current = trajectory[n]
    BY <1>1, LastVisited DEF current
<1>3. /\ \A j \in 1 .. n : trajectory[j] \in State
      /\ DOMAIN trajectory = 1 .. n
    BY <1>1, ElementOfSeq, LenProperties
<1>4. PICK i \in 1 .. n : Key(trajectory[i]) = Key(nxt) /\ cycle' = SubSeq(trajectory, i, n)
    BY <1>3 DEF Oscillate, Seen, From
<1>5. i < n
    BY <1>2, <1>4 DEF Oscillate
<1>6. /\ cycle' \in Seq(State)
      /\ Len(cycle') = n - i + 1
      /\ \A j \in 1 .. n - i + 1 : cycle'[j] = trajectory[i + j - 1]
  <2>1. \A j \in i .. n : trajectory[j] \in State
      BY <1>2, <1>3, <1>4
  <2>2. i \in Int /\ n \in Int /\ i <= n
      BY <1>2, <1>4
  <2>3. QED
      BY <2>1, <2>2, <1>4, SubSeqProperties
<1>7. /\ trajectory' = Append(trajectory, nxt) /\ status' = "oscillating" /\ state' = nxt
    BY DEF Oscillate
<1>8. /\ trajectory' \in Seq(State) /\ trajectory' # <<>> /\ Len(trajectory') = n + 1
      /\ \A j \in 1 .. n : trajectory'[j] = trajectory[j]
      /\ trajectory'[n + 1] = nxt
    BY <1>1, <1>2, <1>7, AppendProperties
<1>9. /\ \A j \in 1 .. n - 1 : trajectory[j + 1] = step[trajectory[j]]
      /\ \A j, k \in 1 .. n : Key(trajectory[j]) = Key(trajectory[k]) => j = k
    BY DEF StabilizeInv, OutcomeIsTrue, TrajectoryIsOrbit
<1>10. StabilizeTypeOK'
    BY <1>1, <1>2, <1>6, <1>7, <1>8, BoundIsPositive
       DEF StabilizeInv, StabilizeTypeOK, StabilizeRunning, Stability
<1>11. StabilizeRunning'
    BY <1>7 DEF StabilizeRunning
<1>12. TrajectoryIsOrbit'
  <2>1. \A j \in 1 .. n - 1 : trajectory'[j + 1] = step'[trajectory'[j]]
    <3>1. SUFFICES ASSUME NEW j \in 1 .. n - 1 PROVE trajectory'[j + 1] = step[trajectory'[j]]
        OBVIOUS
    <3>2. j \in 1 .. n /\ j + 1 \in 1 .. n
        BY <1>2
    <3>3. QED
        BY <3>2, <1>8, <1>9
  <2>2. trajectory'[n + 1] = step'[trajectory'[n]]
      BY <1>2, <1>8
  <2>3. \A j \in 1 .. n : j \in 1 .. n - 1 \/ j = n
      BY <1>2
  <2>4. \A j \in 1 .. n : trajectory'[j + 1] = step'[trajectory'[j]]
      BY <2>1, <2>2, <2>3
  <2>5. Len(trajectory') - 1 = n
      BY <1>2, <1>8
  <2>6. \A j, k \in 1 .. n : Key(trajectory'[j]) = Key(trajectory'[k]) => j = k
      BY <1>8, <1>9
  <2>7. QED
      BY <2>4, <2>5, <2>6, <1>7 DEF TrajectoryIsOrbit
<1>13. OscillationIsCycle'
  <2>1. Len(cycle') > 1 /\ Len(cycle') = n - i + 1
      BY <1>2, <1>4, <1>5, <1>6
  <2>2. \A j \in 1 .. Len(cycle') - 1 : cycle'[j + 1] = step[cycle'[j]]
    <3>0. Len(cycle') - 1 = n - i
        BY <1>2, <1>4, <2>1
    <3>1. SUFFICES ASSUME NEW j \in 1 .. n - i PROVE cycle'[j + 1] = step[cycle'[j]]
        BY <3>0
    <3>2. /\ j \in 1 .. n - i + 1 /\ j + 1 \in 1 .. n - i + 1 /\ i + j - 1 \in 1 .. n - 1
          /\ i + (j + 1) - 1 = (i + j - 1) + 1
        BY <1>2, <1>4
    <3>3. cycle'[j] = trajectory[i + j - 1] /\ cycle'[j + 1] = trajectory[(i + j - 1) + 1]
        BY <3>2, <1>6
    <3>4. QED
        BY <3>2, <3>3, <1>9
  <2>3. \A j, k \in 1 .. Len(cycle') : Key(cycle'[j]) = Key(cycle'[k]) => j = k
    <3>1. SUFFICES ASSUME NEW j \in 1 .. n - i + 1, NEW k \in 1 .. n - i + 1,
                          Key(cycle'[j]) = Key(cycle'[k])
                   PROVE  j = k
        BY <2>1
    <3>2. i + j - 1 \in 1 .. n /\ i + k - 1 \in 1 .. n
        BY <1>2, <1>4
    <3>3. Key(trajectory[i + j - 1]) = Key(trajectory[i + k - 1])
        BY <3>1, <1>6
    <3>4. i + j - 1 = i + k - 1
        BY <3>2, <3>3, <1>9
    <3>5. QED
        BY <3>4, <1>4
  <2>4. cycle'[Len(cycle')] = trajectory[n] /\ cycle'[1] = trajectory[i]
    <3>1. n - i + 1 \in 1 .. n - i + 1 /\ 1 \in 1 .. n - i + 1
        BY <1>2, <1>4
    <3>2. i + (n - i + 1) - 1 = n /\ i + 1 - 1 = i
        BY <1>2, <1>4
    <3>3. QED
        BY <3>1, <3>2, <2>1, <1>6
  <2>5. QED
      BY <2>1, <2>2, <2>3, <2>4, <1>2, <1>4, <1>7 DEF OscillationIsCycle
<1>14. ConvergedIsFixpoint' /\ DivergedIsExhausted'
    BY <1>7 DEF ConvergedIsFixpoint, DivergedIsExhausted
<1>15. QED
    BY <1>10, <1>11, <1>12, <1>13, <1>14 DEF StabilizeInv, OutcomeIsTrue

\* An iteration that meets a new key prolongs the orbit, and gives up exactly
\* when it was the last of the bound.
LEMMA AdvanceKeeps ==
    ASSUME StabilizeInv, status = "running", iterations' = iterations + 1, UNCHANGED step,
           Advance(step[current])
    PROVE  StabilizeInv'
<1> DEFINE nxt == step[current]
           n == Len(trajectory)
<1>1. trajectory \in Seq(State) /\ trajectory # <<>> /\ step \in [State -> State]
    BY DEF StabilizeInv, StabilizeTypeOK
<1>2. n \in Nat \ {0} /\ current \in State /\ nxt \in State /\ current = trajectory[n]
    BY <1>1, LastVisited DEF current
<1>3. \A j \in 1 .. n : Key(trajectory[j]) # Key(nxt)
    BY <1>1, LenProperties DEF Advance, Seen
<1>4. /\ trajectory' = Append(trajectory, nxt) /\ state' = nxt /\ cycle' = <<>>
      /\ status' = IF iterations + 1 = MaxIterations THEN "diverged" ELSE "running"
    BY DEF Advance, LastOne, StabilizeInv, StabilizeRunning
<1>5. /\ trajectory' \in Seq(State) /\ trajectory' # <<>> /\ Len(trajectory') = n + 1
      /\ \A j \in 1 .. n : trajectory'[j] = trajectory[j]
      /\ trajectory'[n + 1] = nxt
    BY <1>1, <1>2, <1>4, AppendProperties
<1>6. /\ \A j \in 1 .. n - 1 : trajectory[j + 1] = step[trajectory[j]]
      /\ \A j, k \in 1 .. n : Key(trajectory[j]) = Key(trajectory[k]) => j = k
    BY DEF StabilizeInv, OutcomeIsTrue, TrajectoryIsOrbit
<1>7. iterations \in Nat /\ iterations < MaxIterations /\ n = iterations + 1
    BY BoundIsPositive DEF StabilizeInv, StabilizeTypeOK, StabilizeRunning
<1>8. StabilizeTypeOK'
    BY <1>1, <1>2, <1>4, <1>5, <1>7, BoundIsPositive, EmptySeq
       DEF StabilizeInv, StabilizeTypeOK, Stability
<1>9. StabilizeRunning'
    BY <1>4, <1>5, <1>7, BoundIsPositive DEF StabilizeRunning
<1>10. TrajectoryIsOrbit'
  <2>1. \A j \in 1 .. n : trajectory'[j + 1] = step'[trajectory'[j]]
    <3>1. ASSUME NEW j \in 1 .. n - 1 PROVE trajectory'[j + 1] = step'[trajectory'[j]]
      <4>1. j \in 1 .. n /\ j + 1 \in 1 .. n
          BY <1>2
      <4>2. QED
          BY <1>5, <1>6, <4>1
    <3>2. trajectory'[n + 1] = step'[trajectory'[n]]
        BY <1>2, <1>5
    <3>3. \A j \in 1 .. n : j \in 1 .. n - 1 \/ j = n
        BY <1>2
    <3>4. QED
        BY <3>1, <3>2, <3>3
  <2>2. \A j, k \in 1 .. n + 1 : Key(trajectory'[j]) = Key(trajectory'[k]) => j = k
    <3>1. \A j \in 1 .. n + 1 : j \in 1 .. n \/ j = n + 1
        BY <1>2
    <3>2. QED
        BY <3>1, <1>3, <1>5, <1>6
  <2>3. status' # "oscillating"
      BY <1>4
  <2>4. Len(trajectory') = n + 1 /\ Len(trajectory') - 1 = n
      BY <1>2, <1>5
  <2> HIDE DEF n
  <2>5. QED
      BY <2>1, <2>2, <2>3, <2>4 DEF TrajectoryIsOrbit
<1>11. ConvergedIsFixpoint' /\ OscillationIsCycle'
    BY <1>4 DEF ConvergedIsFixpoint, OscillationIsCycle
<1>12. DivergedIsExhausted'
    BY <1>4, <1>5, <1>7 DEF DivergedIsExhausted
<1>13. QED
    BY <1>8, <1>9, <1>10, <1>11, <1>12 DEF StabilizeInv, OutcomeIsTrue

\* Every step of the loop preserves the invariant.
LEMMA StabilizeKeeps == StabilizeInv /\ [StabilizeNext]_stabilizeVars => StabilizeInv'
<1> SUFFICES ASSUME StabilizeInv, [StabilizeNext]_stabilizeVars PROVE StabilizeInv'
    OBVIOUS
<1>1. CASE StabilizeNext
  <2>1. /\ status = "running" /\ iterations' = iterations + 1 /\ UNCHANGED step
        /\ \/ Converge(step[current]) \/ Oscillate(step[current])
           \/ Advance(step[current])
      BY <1>1 DEF StabilizeNext, Iterate
  <2>2. QED
      BY <2>1, ConvergeKeeps, OscillateKeeps, AdvanceKeeps
<1>2. CASE UNCHANGED stabilizeVars
    BY <1>2 DEF stabilizeVars, StabilizeInv, StabilizeTypeOK, StabilizeRunning, OutcomeIsTrue, TrajectoryIsOrbit,
                ConvergedIsFixpoint, OscillationIsCycle, DivergedIsExhausted, current
<1>3. QED
    BY <1>1, <1>2

\* The invariant holds throughout a call of stabilize.
LEMMA StabilizeInvariance == StabilizeSpec => []StabilizeInv
<1>1. QED
    BY StabilizeStarts, StabilizeKeeps, PTL DEF StabilizeSpec

\* The counter never exceeds the bound, and everything recorded is a state.
THEOREM StabilizeTypeCorrect == StabilizeSpec => []StabilizeTypeOK
<1>1. StabilizeInv => StabilizeTypeOK
    BY DEF StabilizeInv
<1>2. QED
    BY <1>1, StabilizeInvariance, PTL

\* converged, oscillating and diverged are each reported only when they are
\* what happened, for every step function, key and bound.
THEOREM OutcomeCorrect == StabilizeSpec => []OutcomeIsTrue
<1>1. StabilizeInv => OutcomeIsTrue
    BY DEF StabilizeInv
<1>2. QED
    BY <1>1, StabilizeInvariance, PTL

=============================================================================
