----------------------------- MODULE Resolution -----------------------------
(***************************************************************************)
(* Entity resolution as pure functions (core/resolve.py): which mentions   *)
(* of a box are paired, what a pair scores, and the equivalence classes    *)
(* that confirmed pairs and shared anchors make.                           *)
(*                                                                         *)
(* An entity is a record [id, label, type, kind, roles, context] with      *)
(* label a set of tokens; context is the set of labels of the entities it  *)
(* shares a fact with.  Scores are in thousandths.                         *)
(***************************************************************************)
EXTENDS Integers, FiniteSets, FiniteSetsExt

\* Pairs of one kind that share a token.
block_candidates(entities) ==
    {q \in SUBSET entities : /\ Cardinality(q) = 2
                             /\ \A a, b \in q : a.kind = b.kind /\ a.label \cap b.label # {}}

\* _saturate, by halves of a unit: 1 - 0.5^(halves/2).
_saturate(halves) ==
    LET known == <<0, 293, 500, 646, 750, 823, 875>>
    IN  known[Min({halves, 6}) + 1]

\* A type that is missing says nothing either way.
MissingTypeAgrees(a, b) == IF "" \in {a.type, b.type} \/ a.type = b.type THEN 250 ELSE -250
TypeAgreement(a, b) == IF "" \in {a.type, b.type} THEN 0 ELSE IF a.type = b.type THEN 250 ELSE -250
score_pair(a, b) ==
    LET label == IF a.label = b.label THEN 500 ELSE 0
        shared == 2 * Cardinality(a.context \cap b.context)
                  + (IF a.roles \cap b.roles # {} THEN 1 ELSE 0)
    IN  Max({0, label + TypeAgreement(a, b) + (350 * _saturate(shared)) \div 1000})

decide(score) ==
    IF score >= 850 THEN "confirmed" ELSE IF score >= 500 THEN "candidate" ELSE "none"

-----------------------------------------------------------------------------

\* The classes of `items` under the sets in `links`, each linking its members.
Classes(items, links) ==
    LET Linked(S) == S \cup UNION {l \in links : l \cap S # {}}
        grow[i \in 0 .. Cardinality(links)] ==
            [x \in items |-> IF i = 0 THEN {x} ELSE Linked(grow[i - 1][x])]
    IN  {grow[Cardinality(links)][x] : x \in items}

\* components: the classes with more than one member.
components(pairs) == Classes(UNION pairs, pairs)
canonical_id(component) == Min(component)

\* anchored_components: confirmed pairs and shared anchors in one equivalence.
\* anchors maps an entity to its taxonomy node, which stands for the component
\* when it is the only one.
Anchored(anchors) == {{e \in DOMAIN anchors : anchors[e] = t} : t \in {anchors[e] : e \in DOMAIN anchors}}
Component(members, anchors) ==
    LET targets == {anchors[m] : m \in members \cap DOMAIN anchors}
    IN  [members |-> members, anchors |-> targets,
         canonical |-> IF Cardinality(targets) = 1 THEN CHOOSE t \in targets : TRUE
                       ELSE canonical_id(members)]
OnlyPairsUnite(pairs, anchors) ==
    {Component(c, anchors) : c \in Classes((UNION pairs) \cup DOMAIN anchors, pairs)}
anchored_components(pairs, anchors) ==
    {Component(c, anchors) : c \in Classes((UNION pairs) \cup DOMAIN anchors, pairs \cup Anchored(anchors))}

=============================================================================
