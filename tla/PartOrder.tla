------------------------------ MODULE PartOrder ------------------------------
(* Part-whole orders as sets of edges <<part, whole>>: the closure a domain  *)
(* pack materialises (domain/pack.py) and the cycle-safe one the inducer     *)
(* rebuilds (core/partwhole.py).  Only component-integral edges compose.     *)
EXTENDS Naturals, FiniteSets

\* Everything reached from n along one or more edges.
Step(edges, S) == {e[2] : e \in {x \in edges : x[1] \in S}}
Above(edges, n) ==
    LET up[i \in 0 .. Cardinality(edges)] ==
            IF i = 0 THEN Step(edges, {n}) ELSE up[i - 1] \cup Step(edges, up[i - 1])
    IN  up[Cardinality(edges)]

Ends(edges) == {e[1] : e \in edges} \cup {e[2] : e \in edges}

\* is_transitive: direct edges are records [edge, component].
Safe(direct) == {d.edge : d \in {x \in direct : x.component}}

\* DomainPack.transitive_closure: the declared steps, and the roll-ups.  A
\* loaded pack has no cycle (its validator).
PackClosure(direct) ==
    {d.edge : d \in direct}
    \cup UNION {{<<n, a>> : a \in Above(Safe(direct), n)} : n \in Ends(Safe(direct))}

\* _acyclic_edges: Kahn's peeling from the wholes leaves every node that
\* cannot be peeled, those on a cycle and those below one.  A self-loop is
\* ignored while peeling and dropped.
NoLoops(edges) == {e \in edges : e[1] # e[2]}
OnCycle(edges) == {n \in Ends(edges) : n \in Above(edges, n)}
Unpeeled(edges) ==
    LET E == NoLoops(edges)
    IN  {n \in Ends(E) : ({n} \cup Above(E, n)) \cap OnCycle(E) # {}}
_acyclic_edges(edges) == {e \in NoLoops(edges) : {e[1], e[2]} \cap Unpeeled(edges) = {}}

\* transitive_closure, after two ways to get it wrong.
ClosureWithCycles(edges) == UNION {{<<n, a>> : a \in Above(edges, n)} : n \in Ends(edges)}
ClosureOfOneStep(edges) == _acyclic_edges(edges)
transitive_closure(edges) ==
    LET E == _acyclic_edges(edges)
    IN  UNION {{<<n, a>> : a \in Above(E, n)} : n \in Ends(E)}

\* derived_level, _ancestor_count
derived_level(closure, n) == Cardinality({e \in closure : e[1] = n})

=============================================================================
