----------------------------- MODULE Candidates -----------------------------
(***************************************************************************)
(* Candidate generation (core/candidates.py): the cheap stages that choose *)
(* which evidence is judged against which hypothesis, before any judgment. *)
(* A candidate is a pair <<evidence, hypothesis>>; the pairs carry no      *)
(* score, so the sources and shared entities kept for the trace are left   *)
(* out.                                                                    *)
(*                                                                         *)
(* A row [node, proposition, model, vector] stands for one dense vector of *)
(* one proposition a node is EVIDENCED_BY (EmbeddedNode and the row it     *)
(* comes from).                                                            *)
(***************************************************************************)
EXTENDS Integers, FiniteSets, FiniteSetsExt

CONSTANTS
    Cosine(_, _),  \* similarity of two vectors of one model, as an integer
    Id(_)          \* the order of node ids

\* structural_entity_candidates: the pairs that share an INVOLVES entity;
\* involves is a set of <<node, entity>>.
structural_entity_candidates(hypotheses, evidence, involves) ==
    {c \in evidence \X hypotheses :
        \E x, y \in involves : x[1] = c[1] /\ y[1] = c[2] /\ x[2] = y[2]}

\* The similarities at which node e meets node h, in one vector space.
Similarities(hyps, evs, h, e) ==
    {Cosine(p[1].vector, p[2].vector) :
        p \in {q \in hyps \X evs : q[1].node = h /\ q[2].node = e /\ q[1].model = q[2].model}}

\* The k best of a set of nodes by score, ties broken by id.
Best(nodes, score, k) ==
    {e \in nodes :
        Cardinality({d \in nodes : score[d] > score[e] \/ (score[d] = score[e] /\ Id(d) < Id(e))}) < k}

NodesOf(rows) == {r.node : r \in rows}

\* The evidence that can be compared with h at all.
Comparable(hyps, evs, h) ==
    {e \in NodesOf(evs) \ {h} : Similarities(hyps, evs, h, e) # {}}

\* embedding_knn_candidates: exact cosine, no similarity floor; each node
\* counts by its best proposition.
Nearest(hyps, evs, k, h) ==
    Best(Comparable(hyps, evs, h),
         [e \in Comparable(hyps, evs, h) |-> Max(Similarities(hyps, evs, h, e))], k)
embedding_knn_candidates(hyps, evs, k) ==
    UNION {Nearest(hyps, evs, k, h) \X {h} : h \in NodesOf(hyps)}

\* knn_pushdown_stmt: the rows of the k nearest propositions of the query's
\* model.  Equal distances are cut in the order of the store; the instances
\* have none.
knn_pushdown_stmt(query, evs, k) ==
    LET space == {r \in evs : r.model = query.model}
        near(r) == Cosine(query.vector, r.vector)
    IN  {r \in space : Cardinality({q.proposition : q \in {p \in space : near(p) > near(r)}}) < k}

\* _embedding_knn_pushdown: the database ranks propositions per query vector,
\* the nodes found are ranked again.
Found(hyps, evs, k, h) ==
    UNION {{<<r.node, Cosine(query.vector, r.vector)>> :
                r \in {x \in knn_pushdown_stmt(query, evs, k) : x.node # h}} :
           query \in {x \in hyps : x.node = h}}
NearestFound(hyps, evs, k, h) ==
    LET found == Found(hyps, evs, k, h)
        nodes == {f[1] : f \in found}
    IN  Best(nodes, [e \in nodes |-> Max({f[2] : f \in {x \in found : x[1] = e}})], k)
embedding_knn_pushdown(hyps, evs, k) ==
    UNION {NearestFound(hyps, evs, k, h) \X {h} : h \in NodesOf(hyps)}

\* funnel over the outputs of the generators.
FunnelStrategy == {"union", "intersect"}
funnel(generators, strategy) ==
    LET productive == generators \ {{}}
    IN  IF strategy = "intersect" /\ Cardinality(productive) > 1
        THEN {c \in UNION productive : \A g \in productive : c \in g}
        ELSE UNION generators

\* CandidateGenerationAdapter.generate over a view of the store: the active
\* nodes, which of them are hypotheses, the INVOLVES rows, the vectors.
generate(view, k) ==
    LET hypotheses == view.active \cap view.hypotheses
        evidence   == view.active \ view.hypotheses
        rows(side) == {r \in view.rows : r.node \in side}
        knn == IF view.pushdown
               THEN embedding_knn_pushdown(rows(hypotheses), rows(evidence), k)
               ELSE embedding_knn_candidates(rows(hypotheses), rows(evidence), k)
    IN  funnel({structural_entity_candidates(hypotheses, evidence, view.involves), knn}, "union")

=============================================================================
