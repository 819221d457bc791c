------------------------------ MODULE PartWhole ------------------------------
(***************************************************************************)
(* The part-whole inducer (core/partwhole.py): induce_box reads the        *)
(* referents, then the propositions not induced yet, asks the detector,    *)
(* commits the directPartOf edges of one proposition at a time, and last   *)
(* reads all of them back and adds their closure as partOf.  Between any   *)
(* two of these the extractor, the linker and other runs commit, and the   *)
(* process may die.                                                        *)
(***************************************************************************)
EXTENDS CaseStore

CONSTANTS
    Inducer,     \* concurrent induce_box calls
    Meronymy,    \* [Proposition -> sets of relations [child, parent, component]
                 \* the detector may find]
    MaxInductions

VARIABLES
    direct,      \* directPartOf: [edge, component], one per edge
    partOf,      \* the closure edges
    induced,     \* propositions with an induce Action
    inducing,    \* what each call holds
    inductions,
    retyped,     \* history: a component-integral edge was overwritten
    closed       \* history: the safe edges some committed closure was built from

partWhole == <<direct, partOf, induced, inducing, inductions, retyped, closed>>

NoInduction == [pc |-> "idle", referents |-> {}, todo |-> {}, read |-> {}]

PartWholeInit ==
    /\ direct = {} /\ partOf = {} /\ induced = {}
    /\ inducing = [i \in Inducer |-> NoInduction]
    /\ inductions = 0
    /\ retyped = FALSE /\ closed = {}

Keep(i, held) == inducing' = [inducing EXCEPT ![i] = held]

_load_referents(P) == group_referents(RowsOf(P), {})
induce_box(i) ==
    /\ inducing[i].pc = "idle" /\ inductions < MaxInductions
    /\ inductions' = inductions + 1
    /\ Keep(i, [NoInduction EXCEPT !.pc = "referents", !.referents = _load_referents(facts)])
    /\ UNCHANGED <<direct, partOf, induced, retyped, closed>>
_load_propositions(i) ==
    /\ inducing[i].pc = "referents"
    /\ Keep(i, [inducing[i] EXCEPT !.pc = "persist", !.todo = facts \ induced])
    /\ UNCHANGED <<direct, partOf, induced, inductions, retyped, closed>>

\* by_norm: one referent per label, an object before an actor; a relation is
\* kept when both ends are distinct referents.
ByNorm(referents, label) ==
    LET named == {r \in referents : r.label = label}
        objects == {r \in named : r.kind = "object"}
    IN  {r.canonical : r \in IF objects # {} THEN objects ELSE named}
_resolve_endpoints(relations, referents) ==
    UNION {{[edge |-> <<c, p>>, component |-> r.component] :
              c \in ByNorm(referents, r.child), p \in ByNorm(referents, r.parent) \ ByNorm(referents, r.child)} :
           r \in relations}

\* _persist_direct: edges and Action of one proposition; an edge that is there
\* takes the new type.  When one statement types an edge twice either may be
\* last.
Overwrites(d, new) == d.component /\ \E n \in new : n.edge = d.edge /\ ~n.component
OneEach(found) ==
    {new \in SUBSET found : \A f \in found : Cardinality({n \in new : n.edge = f.edge}) = 1}
_persist_direct(i, p, relations) ==
    /\ inducing[i].pc = "persist" /\ p \in inducing[i].todo
    /\ \E new \in OneEach(_resolve_endpoints(relations, inducing[i].referents)) :
          /\ direct' = {d \in direct : d.edge \notin {n.edge : n \in new}} \cup new
          /\ retyped' = (retyped \/ \E d \in direct : Overwrites(d, new))
    /\ induced' = induced \cup {p}
    /\ Keep(i, [inducing[i] EXCEPT !.todo = @ \ {p}])
    /\ UNCHANGED <<partOf, inductions, closed>>

\* _rebuild_closure: the read of the direct edges, and the closure in one
\* transaction.  Nothing ever removes a partOf edge.
RebuildLoad(i) ==
    /\ inducing[i].pc = "persist" /\ inducing[i].todo = {}
    /\ Keep(i, [inducing[i] EXCEPT !.pc = "rebuild", !.referents = {}, !.read = Safe(direct)])
    /\ UNCHANGED <<direct, partOf, induced, inductions, retyped, closed>>
RebuildWrite(i) ==
    /\ inducing[i].pc = "rebuild"
    /\ partOf' = partOf \cup transitive_closure(inducing[i].read)
    /\ closed' = closed \cup inducing[i].read
    /\ Keep(i, NoInduction)
    /\ UNCHANGED <<direct, induced, inductions, retyped>>

InducerDies(i) ==
    /\ inducing[i].pc # "idle" /\ Keep(i, NoInduction)
    /\ UNCHANGED <<direct, partOf, induced, inductions, retyped, closed>>

PartWholeNext ==
    \E i \in Inducer :
        \/ induce_box(i) \/ _load_propositions(i)
        \/ \E p \in inducing[i].todo : \E relations \in Meronymy[p] : _persist_direct(i, p, relations)
        \/ RebuildLoad(i) \/ RebuildWrite(i) \/ InducerDies(i)

-----------------------------------------------------------------------------

\* _canonical_map: a mention reads under its label's referent.
_canonical_map(e) ==
    LET mine == {r \in _load_referents(facts) : e \in r.ids}
    IN  IF mine = {} THEN e ELSE (CHOOSE r \in mine : TRUE).canonical

\* The roll-up is never circular, although the partOf edges of an earlier
\* closure stay when a later statement closes a cycle, two runs overlap and a
\* run dies before its rebuild; only retyping an edge can undo this.
RollupIsADag == retyped \/ OnCycle(partOf) = {}

=============================================================================
