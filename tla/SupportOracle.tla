--------------------------- MODULE SupportOracle ---------------------------
(***************************************************************************)
(* The contract Layer A exposes upward: the SupportOracle protocol of      *)
(* core/truth_maintenance.py.  An oracle is fed a series of graphs and     *)
(* answers each with that graph's well-founded support, whatever graphs it *)
(* answered before.  The state is the last answered call.                  *)
(***************************************************************************)
EXTENDS WellFounded

VARIABLE reply  \* the last answered graph together with the set returned for it

Answer(g) == [graph |-> g, support |-> WellFoundedSupport(g.base_facts, g.derivations)]

Init == reply = Answer(EmptyGraph)

\* well_founded_support(graph), seen from the caller.
well_founded_support(g) == reply' = Answer(g)

Next == \E g \in DerivationGraph : well_founded_support(g)

Spec == Init /\ [][Next]_reply

=============================================================================
