------------------------- MODULE IncrementalOracle -------------------------
(***************************************************************************)
(* The incremental truth-maintenance engine (class IncrementalOracle of    *)
(* core/truth_maintenance.py): Counting for insertions, Delete-Rederive    *)
(* for retractions.  One apply(graph) call is the sequence of steps        *)
(*                                                                         *)
(*   Apply -> OverDelete* -> Rederive -> Cascade* -> Insert -> Cascade*    *)
(*         -> Return                                                       *)
(*                                                                         *)
(* where one step is one iteration of a loop of the code.  The code's      *)
(* deque and stack are read as sets popped in any order, which covers the  *)
(* FIFO and LIFO orders and every iteration order of its Python sets.  The *)
(* dictionaries _uses and _heads are functions of the registered           *)
(* derivations (Uses, Heads); _ids only numbers them.  _delete and _insert *)
(* of empty batches change nothing, so they are not skipped here.          *)
(***************************************************************************)
EXTENDS WellFounded

VARIABLES
    base,         \* _base: the registered base facts
    derivs,       \* _derivs: the registered derivations
    unmet,        \* _unmet: antecedents of a derivation not yet supported
    supportCount, \* _support_count: active groundings of a node
    supported,    \* _supported: the maintained answer
    pc,           \* where the running apply() is
    request,      \* the argument of the running apply()
    stack,        \* nodes still to be over-deleted
    overDeleted,  \* nodes over-deleted so far
    work,         \* newly supported nodes not yet delivered to their users
    reply         \* the last answered graph and the set returned for it

vars == <<base, derivs, unmet, supportCount, supported, pc, request, stack,
          overDeleted, work, reply>>

Init ==
    /\ base = {} /\ derivs = {} /\ unmet = <<>>
    /\ supportCount = [n \in Node |-> 0]
    /\ supported = {}
    /\ pc = "idle"
    /\ request = EmptyGraph
    /\ stack = {} /\ overDeleted = {} /\ work = {}
    /\ reply = [graph |-> EmptyGraph, support |-> {}]

Uses(n) == {d \in derivs : n \in d.body}
Conclusions(D) == {d.conclusion : d \in D}
Concluding(D, n) == {d \in D : d.conclusion = n}

\* The members of D whose whole body is supported, given their counters u.
Firing(D, u) == {d \in D : u[d] = 0}

\* Antecedents of d missing from S.
Missing(d, S) == Cardinality(d.body \ S)

Grounded(B, n) == IF n \in B THEN 1 ELSE 0

\* The derivations of a batch that credit n, each with one grounding.
CreditsOnce(fired, n) == IF n \in supported THEN 0 ELSE Cardinality(Concluding(fired, n))
Credits(fired, n) == Cardinality(Concluding(fired, n))

\* _delete phase 1: the supported nodes that lose a grounding, whether or
\* not they still hold another.
SeedsOfFacts(removedBase, removedDerivs) == supported \cap removedBase
Seeds(removedBase, removedDerivs) ==
    supported \cap (removedBase \cup Conclusions(Firing(removedDerivs, unmet)))

\* _delete phase 2: the supported conclusions that use n, and the stack
\* after n is popped (a node is torn down once).
Dependents(n) == Conclusions(Uses(n)) \cap supported
StackRevisiting(n) == (stack \ {n}) \cup Dependents(n)
StackAfter(n) == (stack \cup Dependents(n)) \ (overDeleted \cup {n})

\* _delete phase 3: an over-deleted node's count restarts from zero, and a
\* derivation is affected when it uses one of them.
CountRestart(n) == 0
AffectedThroughout(d) == d.body # {} /\ d.body \subseteq overDeleted
Affected(d) == d.body \cap overDeleted # {}

\* _insert: the support the new counters are taken against.
Baseline == supported

(***************************************************************************)
(* apply: diff the graph with the retained one, then _delete phase 1:      *)
(* unregister what was removed and seed the over-deletion.                 *)
(***************************************************************************)
Apply(g) ==
    /\ pc = "idle"
    /\ LET removedBase   == base \ g.base_facts
           removedDerivs == derivs \ g.derivations
       IN  /\ base' = base \ removedBase
           /\ derivs' = derivs \ removedDerivs
           /\ unmet' = [d \in derivs \ removedDerivs |-> unmet[d]]
           /\ stack' = Seeds(removedBase, removedDerivs)
    /\ request' = g
    /\ overDeleted' = {}
    /\ pc' = "overdelete"
    /\ UNCHANGED <<supportCount, supported, work, reply>>

\* _delete phase 2: one pop of the over-deletion stack.
OverDelete(n) ==
    /\ pc = "overdelete"
    /\ n \in stack
    /\ overDeleted' = overDeleted \cup {n}
    /\ stack' = StackAfter(n)
    /\ UNCHANGED <<base, derivs, unmet, supportCount, supported, pc, request, work, reply>>

\* _delete phases 3 and 4: unsupport what was over-deleted, recompute the
\* counters of the derivations that used it, and seed the cascade with the
\* over-deleted nodes the survivors still ground directly.
Rederive ==
    /\ pc = "overdelete"
    /\ stack = {}
    /\ LET survivors == supported \ overDeleted
           unmetNow  == [d \in derivs |-> IF Affected(d) THEN Missing(d, survivors) ELSE unmet[d]]
           groundings(n) == Grounded(base, n)
                              + Cardinality(Concluding(Firing(derivs, unmetNow), n))
           regrounded == {n \in overDeleted : groundings(n) > 0}
       IN  /\ unmet' = unmetNow
           /\ supportCount' = [n \in Node |-> IF n \in overDeleted
                                              THEN CountRestart(n) + groundings(n)
                                              ELSE supportCount[n]]
           /\ supported' = survivors \cup regrounded
           /\ work' = regrounded
    /\ pc' = "rederive"
    /\ UNCHANGED <<base, derivs, request, stack, overDeleted, reply>>

\* _cascade: deliver one newly supported node to the derivations using it.
Cascade(n) ==
    /\ pc \in {"rederive", "insert"}
    /\ n \in work
    /\ LET unmetNow == [d \in derivs |-> IF d \in Uses(n) THEN unmet[d] - 1 ELSE unmet[d]]
           fired    == Firing(Uses(n), unmetNow)
       IN  /\ unmet' = unmetNow
           /\ supportCount' = [m \in Node |-> supportCount[m] + Credits(fired, m)]
           /\ supported' = supported \cup Conclusions(fired)
           /\ work' = (work \ {n}) \cup (Conclusions(fired) \ supported)
    /\ UNCHANGED <<base, derivs, pc, request, stack, overDeleted, reply>>

\* _insert: register the additions with counters taken against the support
\* as it was before the batch, ground the new facts, fire what is satisfied.
Insert ==
    /\ pc = "rederive"
    /\ work = {}
    /\ LET addedBase   == request.base_facts \ base
           addedDerivs == request.derivations \ derivs
           unmetNow    == [d \in derivs \cup addedDerivs |->
                             IF d \in addedDerivs THEN Missing(d, Baseline) ELSE unmet[d]]
           fired       == Firing(addedDerivs, unmetNow)
           new         == (addedBase \cup Conclusions(fired)) \ supported
       IN  /\ base' = base \cup addedBase
           /\ derivs' = derivs \cup addedDerivs
           /\ unmet' = unmetNow
           /\ supportCount' = [n \in Node |-> supportCount[n] + Grounded(addedBase, n)
                                                + Credits(fired, n)]
           /\ supported' = supported \cup new
           /\ work' = new
    /\ pc' = "insert"
    /\ UNCHANGED <<request, stack, overDeleted, reply>>

\* apply returns the maintained set.
Return ==
    /\ pc = "insert"
    /\ work = {}
    /\ reply' = [graph |-> request, support |-> supported]
    /\ pc' = "idle"
    /\ overDeleted' = {}
    /\ UNCHANGED <<base, derivs, unmet, supportCount, supported, request, stack, work>>

Step == Rederive \/ Insert \/ Return
          \/ \E n \in Node : OverDelete(n) \/ Cascade(n)

Next == Step \/ \E g \in DerivationGraph : Apply(g)

\* apply() is a synchronous loop: once called it runs on until it returns.
Spec == Init /\ [][Next]_vars /\ WF_vars(Step)

-----------------------------------------------------------------------------

TypeOK ==
    /\ base \in SUBSET Node
    /\ derivs \in SUBSET Rule
    /\ unmet \in [derivs -> Nat]
    /\ supportCount \in [Node -> Nat]
    /\ supported \in SUBSET Node
    /\ pc \in {"idle", "overdelete", "rederive", "insert"}
    /\ request \in DerivationGraph
    /\ stack \in SUBSET Node /\ overDeleted \in SUBSET Node /\ work \in SUBSET Node
    /\ reply \in [graph : DerivationGraph, support : SUBSET Node]

\* Every answer is the least fixpoint of the graph it answers, after any
\* series of insertions and retractions and on cyclic graphs too (what the
\* class docstring calls "equals a fresh recompute").
AnswerIsWellFounded ==
    reply.support = WellFoundedSupport(reply.graph.base_facts, reply.graph.derivations)

\* Between calls support_count(n) is exactly the number of active groundings
\* of n: being a base fact, plus each derivation whose whole body is
\* supported.  So no grounding is counted twice or lost by any call.
CountsAreGroundings ==
    pc = "idle" =>
        \A n \in Node :
            supportCount[n] = Grounded(base, n)
                + Cardinality({d \in derivs : d.conclusion = n /\ d.body \subseteq supported})

\* Mid-call too, a node is supported exactly when its count is positive
\* ("0 <=> unsupported", support_count).
CountDecidesSupport ==
    \A n \in Node : n \in supported <=> supportCount[n] > 0

\* Mid-call, a derivation's counter is the number of its antecedents that
\* have not been delivered to it: the property the frozen baseline of
\* _insert and the recomputation in _delete exist to keep.
CountersTrackDelivery ==
    \A d \in derivs : unmet[d] = Missing(d, supported \ work)

\* Every apply() returns.
ApplyReturns == (pc # "idle") ~> (pc = "idle")

\* The incremental engine implements the oracle contract.
Contract == INSTANCE SupportOracle
ImplementsContract == Contract!Spec

=============================================================================
