------------------------------ MODULE Referents ------------------------------
(***************************************************************************)
(* What a surface form may denote: the lexical cascades of                 *)
(* core/reference.py (a mention to an entity or a taxonomy node) and of    *)
(* core/anchor.py (an entity to a taxonomy node).                          *)
(*                                                                         *)
(* A normalised label is the set of its tokens, empty for a surface with   *)
(* no token; an id is a number, uuids being compared as text.  Scores are  *)
(* the code's weights in twelfths of a percent, exact for labels of up to  *)
(* four tokens.                                                            *)
(***************************************************************************)
EXTENDS Naturals, FiniteSets, FiniteSetsExt

Twelfths == 12
Share(a, b) == (Twelfths * Cardinality(a \cap b)) \div Cardinality(a)
Points(holds, percent) == IF holds THEN Twelfths * percent ELSE 0

\* group_referents: fresh nodes of one kind and label are one referent, under
\* the least of their ids.
group_referents(rows, exclude) ==
    LET kept == {e \in rows : e.id \notin exclude /\ e.label # {}}
        Group(e) == {x.id : x \in {y \in kept : y.kind = e.kind /\ y.label = e.label}}
    IN  {[canonical |-> e.id, ids |-> Group(e), label |-> e.label, type |-> e.type, kind |-> e.kind] :
            e \in {x \in kept : x.id = Min(Group(x))}}

\* The bars every cascade shares: confirmed only for a single best target at
\* or above the confirm bar with no rival within the margin.
ConfirmBar == Twelfths * 85
CandidateBar == Twelfths * 50
TieMargin == Twelfths * 5
Unresolved == [state |-> "unresolved", targets |-> {}]
Decide(score) ==
    LET viable == {t \in DOMAIN score : score[t] >= CandidateBar}
        best == Max({score[t] : t \in viable})
        band == {t \in viable : best - score[t] <= TieMargin}
    IN  IF viable = {} THEN Unresolved
        ELSE [state |-> IF Cardinality(band) = 1 /\ best >= ConfirmBar THEN "confirmed" ELSE "candidate",
              targets |-> band]

-----------------------------------------------------------------------------
(* A mention [label, kind], whose kind may be "none"; a pronoun has no token. *)

Sharing(label, targets) == {t \in targets : t.label \cap label # {}}
block_referents(m, referents) ==
    Sharing(m.label, {r \in referents : m.kind \in {"none", r.kind}})
score_binding(m, r) ==
    60 * Share(m.label, r.label) + Points(m.label = r.label, 25) + Points(m.kind = r.kind, 15)
decide_binding(m, referents) ==
    Decide([r \in block_referents(m, referents) |-> score_binding(m, r)])

block_taxonomy(m, nodes) == Sharing(m.label, nodes)
score_taxonomy_binding(m, n) == 70 * Share(m.label, n.label) + Points(m.label = n.label, 30)
decide_taxonomy_binding(m, nodes) ==
    Decide([n \in block_taxonomy(m, nodes) |-> score_taxonomy_binding(m, n)])

\* resolve_binding: the taxonomy is asked only when the box leaves a mention
\* fully unresolved.
resolve_binding(m, referents, taxonomy) ==
    LET here == decide_binding(m, referents)
        there == decide_taxonomy_binding(m, taxonomy)
    IN  IF here.state # "unresolved"
        THEN [state |-> here.state, targets |-> {r.canonical : r \in here.targets}]
        ELSE [state |-> there.state, targets |-> {n.id : n \in there.targets}]

-----------------------------------------------------------------------------
(* An entity, as its referent, against the taxonomy. *)

block_anchors(e, nodes) == Sharing(e.label, nodes)
score_anchor(e, n) ==
    55 * Max({Share(e.label, n.label), Share(n.label, e.label)})
    + Points(e.label = n.label, 40) + Points(e.type # "" /\ e.type = n.type, 5)
decide_anchor(e, nodes) == Decide([n \in block_anchors(e, nodes) |-> score_anchor(e, n)])

=============================================================================
