---------------------------- MODULE WellFounded ----------------------------
(***************************************************************************)
(* The derivation structure of Layer A (core/truth_maintenance.py) and the *)
(* declarative meaning of "supported": the least set that contains the     *)
(* base facts and is closed under the derivations.                         *)
(*                                                                         *)
(* Ids are opaque.  Rule is the finite universe of derivations a graph may *)
(* draw from; the code's tuple of derivations is read as a set, because    *)
(* every engine that consumes it is blind to order and to repetition.      *)
(***************************************************************************)
EXTENDS Naturals, FiniteSets

CONSTANTS
    Node,  \* NodeId: opaque reasoning-node ids
    Rule   \* the Derivation values that can occur in a graph

\* One derivation: conclusion holds if every node of body holds.
Derivation == [conclusion : Node, body : SUBSET Node]

ASSUME FiniteUniverse == IsFiniteSet(Node) /\ IsFiniteSet(Rule)
ASSUME RulesAreDerivations == Rule \subseteq Derivation

\* A snapshot handed to an oracle.
DerivationGraph == [base_facts : SUBSET Node, derivations : SUBSET Rule]

\* S contains the base facts and is closed under the derivations.
Closed(S, base, derivs) ==
    /\ base \subseteq S
    /\ \A d \in derivs : d.body \subseteq S => d.conclusion \in S

\* The least closed set: what the oracles of Layer A promise to return.
WellFoundedSupport(base, derivs) ==
    {n \in Node : \A S \in SUBSET Node : Closed(S, base, derivs) => n \in S}

EmptyGraph == [base_facts |-> {}, derivations |-> {}]

=============================================================================
