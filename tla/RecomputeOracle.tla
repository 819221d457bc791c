-------------------------- MODULE RecomputeOracle --------------------------
(***************************************************************************)
(* The reference oracle (function well_founded_support of                  *)
(* core/truth_maintenance.py): a semi-naive forward evaluation from        *)
(* scratch.  A call is Call -> Deliver* -> Return; the deque is read as a  *)
(* set popped in any order.                                                *)
(***************************************************************************)
EXTENDS WellFounded

VARIABLES
    graph,      \* the argument of the running call
    remaining,  \* antecedents of a derivation not yet delivered to it
    supported,  \* nodes marked so far
    worklist,   \* marked nodes not yet delivered
    pc,
    reply       \* the last answered graph and the set returned for it

vars == <<graph, remaining, supported, worklist, pc, reply>>

Init ==
    /\ graph = EmptyGraph
    /\ remaining = <<>>
    /\ supported = {} /\ worklist = {}
    /\ pc = "idle"
    /\ reply = [graph |-> EmptyGraph, support |-> {}]

\* The members of D with no antecedent left to wait for.
Exhausted(D, r) == {d \in D : r[d] = 0}
Heads(D) == {d.conclusion : d \in D}

\* Seeding: the base facts, then the conclusions of axiomatic rules.
SeedNodes(g, r) == g.base_facts \cup Heads(Exhausted(g.derivations, r))

\* mark(): only nodes not marked before join the worklist.
MarkNew(nodes) == nodes \ supported

Call(g) ==
    /\ pc = "idle"
    /\ graph' = g
    /\ remaining' = [d \in g.derivations |-> Cardinality(d.body)]
    /\ supported' = SeedNodes(g, remaining')
    /\ worklist' = SeedNodes(g, remaining')
    /\ pc' = "run"
    /\ UNCHANGED reply

\* One pop of the worklist: the rules using n lose one open antecedent, and
\* the ones whose last it was mark their conclusion.
Deliver(n) ==
    /\ pc = "run"
    /\ n \in worklist
    /\ LET uses == {d \in graph.derivations : n \in d.body}
           left == [d \in graph.derivations |-> IF d \in uses THEN remaining[d] - 1
                                                ELSE remaining[d]]
           fired == Heads(Exhausted(uses, left))
       IN  /\ remaining' = left
           /\ supported' = supported \cup fired
           /\ worklist' = (worklist \ {n}) \cup MarkNew(fired)
    /\ UNCHANGED <<graph, pc, reply>>

Return ==
    /\ pc = "run"
    /\ worklist = {}
    /\ reply' = [graph |-> graph, support |-> supported]
    /\ pc' = "idle"
    /\ UNCHANGED <<graph, remaining, supported, worklist>>

Step == Return \/ \E n \in Node : Deliver(n)
Next == Step \/ \E g \in DerivationGraph : Call(g)

\* The evaluation is a synchronous loop.
Spec == Init /\ [][Next]_vars /\ WF_vars(Step)

-----------------------------------------------------------------------------

TypeOK ==
    /\ graph \in DerivationGraph
    /\ remaining \in [graph.derivations -> Nat]
    /\ supported \in SUBSET Node /\ worklist \in SUBSET Node
    /\ pc \in {"idle", "run"}
    /\ reply \in [graph : DerivationGraph, support : SUBSET Node]

\* Each rule loses one open antecedent exactly once per distinct supported
\* node of its body ("decremented exactly once", comment of mark): its
\* counter is what of the body has not been delivered.
DeliveredOnce ==
    pc = "run" => \A d \in graph.derivations :
                    remaining[d] = Cardinality(d.body \ (supported \ worklist))

\* No mid-evaluation mark is ever unfounded: even an interrupted evaluation
\* holds only supported nodes.
NeverOvershoots ==
    supported \subseteq WellFoundedSupport(graph.base_facts, graph.derivations)

\* The evaluation returns, on cyclic graphs too.
CallReturns == (pc = "run") ~> (pc = "idle")

\* Full recompute implements the oracle contract.
Contract == INSTANCE SupportOracle
ImplementsContract == Contract!Spec

=============================================================================
