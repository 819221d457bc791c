------------------------------ MODULE CaseStore ------------------------------
(***************************************************************************)
(* What the operators of a case box read: the Facts with the entities the  *)
(* extractor found in them (core/extract.py, _persist), and the domain     *)
(* packs with their taxonomies (domain/loader.py).  A Fact is known by its *)
(* proposition.  Entities are fresh nodes, never merged or deleted.        *)
(***************************************************************************)
EXTENDS PartOrder, Referents

CONSTANTS
    Proposition,
    Entities,    \* [Proposition -> sets of rows [id, label, type, kind, role]]:
                 \* what extraction finds; ids are random, hence in any order
    Faith,       \* [Proposition -> confidence the Fact is seeded with]
    Pack         \* records [box, nodes, direct]; two with one box are two
                 \* contents declared under one name and version

VARIABLES
    facts,       \* propositions extracted
    retracted,   \* those whose Fact has its valid_to stamped
    loaded,      \* the packs in the graph
    active       \* boxes of the packs that are not deprecated

store == <<facts, retracted, loaded, active>>

StoreInit == facts = {} /\ retracted = {} /\ loaded = {} /\ active = {}

\* extract_proposition: Fact, entities, edges and Action in one transaction,
\* once per proposition (the race of two extractors is in Propositionizer).
extract_proposition(p) ==
    /\ p \notin facts /\ facts' = facts \cup {p}
    /\ UNCHANGED <<retracted, loaded, active>>

\* The belief-revision loop retracts a Fact.
RetractFact(p) ==
    /\ p \in facts \ retracted /\ retracted' = retracted \cup {p}
    /\ UNCHANGED <<facts, loaded, active>>

\* DomainPack._reject_cycles: a pack with a cyclic part-whole relation fails
\* its validation and never reaches the loader.
_reject_cycles(part_of) == OnCycle({d.edge : d \in part_of}) = {}

\* load_pack: only a box that is not there is written; a re-load changes
\* nothing, whether it is a no-op or refused for its content.
load_pack(k) ==
    /\ _reject_cycles(k.direct)
    /\ k.box \notin {l.box : l \in loaded}
    /\ loaded' = loaded \cup {k} /\ active' = active \cup {k.box}
    /\ UNCHANGED <<facts, retracted>>
deprecate_pack(k) ==
    /\ k \in loaded /\ k.box \in active /\ active' = active \ {k.box}
    /\ UNCHANGED <<facts, retracted, loaded>>

StoreNext ==
    \/ \E p \in Proposition : extract_proposition(p) \/ RetractFact(p)
    \/ \E k \in Pack : load_pack(k) \/ deprecate_pack(k)

-----------------------------------------------------------------------------
(* The operators' reads. *)

RowsOf(P) == UNION {Entities[p] : p \in P}
Ids(P) == {e.id : e \in RowsOf(P)}

\* Extraction and packs are finite.  An id is a number and the id of one node:
\* an entity's is random, a taxonomy node's is hashed from its box and key.  The
\* relations of a pack are between its own nodes (DomainPack's validator).
PackIds(k) == {n.id : n \in k.nodes}
NodeIds == UNION {PackIds(k) : k \in Pack}
ASSUME FiniteRows == IsFiniteSet(RowsOf(Proposition))
ASSUME FiniteTaxonomies == IsFiniteSet(NodeIds)
ASSUME IdsAreNumbers == Ids(Proposition) \cup NodeIds \subseteq Nat
ASSUME EntitiesAreNoNodes == Ids(Proposition) \cap NodeIds = {}
ASSUME BoxesShareNoNode == \A k, l \in Pack : k.box # l.box => PackIds(k) \cap PackIds(l) = {}
ASSUME FaithIsANumber == \A p \in Proposition : Faith[p] \in Nat
ASSUME RelationsAreInside == \A k \in Pack : \A d \in k.direct : d.edge \in PackIds(k) \X PackIds(k)

\* load_active_taxonomy over list_active_packs.
load_active_taxonomy == UNION {k.nodes : k \in {l \in loaded : l.box \in active}}

\* The partOf edges load_pack materialised, in deprecated packs too.
PackPartOf == UNION {PackClosure(k.direct) : k \in loaded}

=============================================================================
