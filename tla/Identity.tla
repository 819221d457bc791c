------------------------------ MODULE Identity ------------------------------
(***************************************************************************)
(* Who is who in a case box: the resolver's SAME_AS edges (core/resolve),  *)
(* a reviewer's merges and splits with the evidence aggregated over the    *)
(* components they make (core/component_aggregate.py), and the linker's    *)
(* ANCHORS_TO edges (core/anchor.py).  The resolver and the linker read,   *)
(* then write in one transaction; the others commit between the two.       *)
(***************************************************************************)
EXTENDS CaseStore, Resolution

CONSTANTS
    Reviewed,       \* the pairs {a, b} the reviewer looks at
    MaxRevisions,   \* bound on merges and splits
    MaxPasses       \* bound on resolve and anchor passes

ASSUME ReviewedArePairs == \A pair \in Reviewed : \E a, b \in pair : pair = {a, b}

VARIABLES
    same_as,     \* [pair, state, open, by]: one edge per pair; by is history
    anchors_to,  \* [src, dst, state]: one edge per entity and taxonomy node
    resolving,   \* what resolve_box has loaded: [busy, facts]
    linking,     \* what anchor_box has loaded: [busy, facts, taxonomy]
    passes, revisions,
    last         \* history: the last merge or split, with what it changed

identity == <<same_as, anchors_to, resolving, linking, passes, revisions, last>>

NoRevision == [op |-> "none"]
Forget == last' = NoRevision

IdentityInit ==
    /\ same_as = {} /\ anchors_to = {}
    /\ resolving = [busy |-> FALSE, facts |-> {}]
    /\ linking = [busy |-> FALSE, facts |-> {}, taxonomy |-> {}]
    /\ passes = 0 /\ revisions = 0
    /\ last = NoRevision

\* merge_edge on one key replaces all properties: state, and valid_to = null.
Upsert(pair, state, by) ==
    {s \in same_as : s.pair # pair} \cup {[pair |-> pair, state |-> state, open |-> TRUE, by |-> by]}

-----------------------------------------------------------------------------
(* The resolver. *)

\* Resolver._load_entities: roles and co-occurring labels over the entities'
\* facts; each entity has one.
_load_entities(P) ==
    {[id |-> e.id, label |-> e.label, type |-> e.type, kind |-> e.kind, roles |-> {e.role},
      context |-> {c.label : c \in {x \in RowsOf(P) : x.id # e.id
                                       /\ \E p \in P : {e, x} \subseteq Entities[p]}}] :
        e \in RowsOf(P)}

Scored(P) ==
    {[pair |-> {q[1].id, q[2].id}, state |-> decide(score_pair(q[1], q[2])), open |-> TRUE, by |-> "resolver"] :
        q \in {x \in _load_entities(P) \X _load_entities(P) :
                  x[1].id < x[2].id /\ {x[1], x[2]} \in block_candidates(_load_entities(P))}}
Resolved(P) == {s \in Scored(P) : s.state # "none"}

Pass == passes < MaxPasses /\ passes' = passes + 1

resolve_box_load ==
    /\ ~resolving.busy /\ Pass
    /\ resolving' = [busy |-> TRUE, facts |-> facts]
    /\ UNCHANGED <<same_as, anchors_to, linking, revisions, last>>
resolve_box_write ==
    /\ resolving.busy
    /\ LET new == Resolved(resolving.facts)
       IN  same_as' = {s \in same_as : s.pair \notin {n.pair : n \in new}} \cup new
    /\ resolving' = [busy |-> FALSE, facts |-> {}] /\ Forget
    /\ UNCHANGED <<anchors_to, linking, passes, revisions>>

-----------------------------------------------------------------------------
(* The linker. *)

anchor_box_load ==
    /\ ~linking.busy /\ Pass
    /\ linking' = [busy |-> TRUE, facts |-> facts, taxonomy |-> load_active_taxonomy]
    /\ UNCHANGED <<same_as, anchors_to, resolving, revisions, last>>
anchor_box_write ==
    /\ linking.busy
    /\ LET decision(e) == decide_anchor(e, linking.taxonomy)
           new == UNION {{[src |-> e.canonical, dst |-> n.id, state |-> decision(e).state] :
                             n \in decision(e).targets} : e \in group_referents(RowsOf(linking.facts), {})}
       IN  anchors_to' = {a \in anchors_to : \A n \in new : <<n.src, n.dst>> # <<a.src, a.dst>>} \cup new
    /\ linking' = [busy |-> FALSE, facts |-> {}, taxonomy |-> {}] /\ Forget
    /\ UNCHANGED <<same_as, resolving, passes, revisions>>

\* anchored_targets: a dictionary over the confirmed anchors; when an entity
\* has two, the one that is read last stays.
ConfirmedAnchors == {a \in anchors_to : a.state = "confirmed"}
anchored_targets ==
    {f \in [{a.src : a \in ConfirmedAnchors} -> {a.dst : a \in ConfirmedAnchors}] :
        \A e \in DOMAIN f : \E a \in ConfirmedAnchors : a.src = e /\ a.dst = f[e]}

\* Resolver.canonical_components: confirmed edges, split or not.
canonical_components(anchors) ==
    anchored_components({s.pair : s \in {x \in same_as : x.state = "confirmed"}}, anchors)

-----------------------------------------------------------------------------
(* Evidence per component. *)

\* _load_components: the confirmed edges that are not split.
ComponentsIgnoringSplits == components({s.pair : s \in {x \in same_as : x.state = "confirmed"}})
_load_components == components({s.pair : s \in {x \in same_as : x.state = "confirmed" /\ x.open}})
\* canonical_map, of every entity of the box; a singleton is its own.
canonical_map ==
    LET C == _load_components
    IN  [e \in Ids(facts) |-> LET mine == {c \in C : e \in c}
                              IN  IF mine = {} THEN e ELSE canonical_id(CHOOSE c \in mine : TRUE)]

\* aggregate_components over the current Facts, each with one unit of support
\* however many of its entities a component holds.
NodesOf(c, map) == {p \in facts \ retracted : \E e \in Entities[p] : map[e.id] = c}
SupportPerEntity(c, map) == Cardinality({e \in RowsOf(facts \ retracted) : map[e.id] = c})
Support(c, map) == Cardinality(NodesOf(c, map))
aggregate_components(map) ==
    [c \in {map[e] : e \in Ids(facts \ retracted)} |->
        [members |-> {e \in Ids(facts \ retracted) : map[e] = c}, nodes |-> NodesOf(c, map),
         support_count |-> Support(c, map), confidence |-> Max({Faith[p] : p \in NodesOf(c, map)})]]
aggregate == aggregate_components(canonical_map)

Revision == revisions < MaxRevisions /\ revisions' = revisions + 1
Separate(pair) == ~\E s \in same_as : s.pair = pair /\ s.state = "confirmed" /\ s.open

\* merge: a confirmed edge, whatever was there.
merge(pair) ==
    /\ Revision /\ pair \subseteq Ids(facts)
    /\ same_as' = Upsert(pair, "confirmed", "reviewer")
    /\ last' = [op |-> "merge", pair |-> pair, fresh |-> Separate(pair),
                evidence |-> aggregate, map |-> canonical_map]
    /\ UNCHANGED <<anchors_to, resolving, linking, passes>>

\* split: valid_to stamped on the pair's open edge.
split(pair) ==
    /\ Revision
    /\ \E s \in same_as : s.pair = pair /\ s.open
    /\ same_as' = {IF s.pair = pair THEN [s EXCEPT !.open = FALSE] ELSE s : s \in same_as}
    /\ last' = IF last.op = "merge" /\ last.pair = pair THEN [last EXCEPT !.op = "split"] ELSE NoRevision
    /\ UNCHANGED <<anchors_to, resolving, linking, passes>>

Review == \E pair \in Reviewed : merge(pair) \/ split(pair)

-----------------------------------------------------------------------------

\* What the resolver confirms by itself is one label, one stated type and a
\* common neighbour or role: never a name alone, never a missing type.
ConfirmedNeedsRelation ==
    \A s \in same_as : (s.by = "resolver" /\ s.state = "confirmed") =>
        \E a, b \in _load_entities(facts) :
            /\ s.pair = {a.id, b.id}
            /\ a.label = b.label /\ a.type = b.type /\ a.type # ""
            /\ a.context \cap b.context # {} \/ a.roles \cap b.roles # {}

\* A merge pools the evidence of the two components, each Fact once, and
\* moves no other component's.
MergeAccumulates ==
    last.op = "merge" =>
        LET joined == {last.map[e] : e \in last.pair}
            before == joined \cap DOMAIN last.evidence
            nodes == UNION {last.evidence[c].nodes : c \in before}
            now == {canonical_map[e] : e \in last.pair}
        IN  /\ Cardinality(now) = 1
            /\ \A c \in now :
                 IF nodes = {} THEN c \notin DOMAIN aggregate
                 ELSE /\ aggregate[c].nodes = nodes /\ aggregate[c].support_count = Cardinality(nodes)
                      /\ aggregate[c].confidence = Max({last.evidence[b].confidence : b \in before})
            /\ \A c \in DOMAIN last.evidence \ joined : aggregate[c] = last.evidence[c]

\* "Over-merging is recoverable": splitting the pair a merge joined gives the
\* components, and their evidence, of before the merge.
SplitUndoesMerge == (last.op = "split" /\ last.fresh) => aggregate = last.evidence

\* The resolver's read of the canonical entities sees the split as well.
SplitSeparates ==
    (last.op = "split" /\ ConfirmedAnchors = {}) =>
        {c.members : c \in canonical_components(<<>>)} = _load_components

\* Every entity has one canonical representative: two components never share
\* one, and mentions confirmed to one taxonomy node are one component, which
\* goes by that node unless its anchors conflict; whichever of two confirmed
\* anchors a read keeps.
OneRepresentative ==
    \A anchors \in anchored_targets :
        LET C == canonical_components(anchors)
        IN  /\ \A c, d \in C : c # d => c.canonical # d.canonical /\ c.members \cap d.members = {}
            /\ \A e \in DOMAIN anchors : \E c \in C :
                  e \in c.members /\ (Cardinality(c.anchors) = 1 => c.canonical = anchors[e])

=============================================================================
