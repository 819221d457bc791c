------------------------------- MODULE CaseBox -------------------------------
(***************************************************************************)
(* A case box with the operators at work on it: extraction and packs       *)
(* underneath, the resolver, the reviewer who merges and splits, the       *)
(* linker, the inducer and the binder above.  crew is who works in this    *)
(* behaviour; what none of them reads stands still.                        *)
(***************************************************************************)
EXTENDS Identity, PartWhole, ReferenceBinding

CONSTANT Crew    \* the crews a behaviour may have

VARIABLE crew

vars == <<store, identity, partWhole, referenceBinding, crew>>

Operators == {"resolver", "reviewer", "linker", "inducer", "binder"}
ASSUME CrewsAreOperators == Crew \subseteq SUBSET Operators

Init ==
    /\ crew \in Crew
    /\ StoreInit /\ IdentityInit /\ PartWholeInit /\ BindingInit

KeepIdentity == UNCHANGED <<same_as, anchors_to, resolving, linking, passes, revisions>>

\* New Facts and packs; the last revision is no longer the last step.
Extract ==
    /\ \E p \in Proposition : extract_proposition(p)
    /\ Forget /\ KeepIdentity /\ UNCHANGED <<partWhole, referenceBinding, crew>>
Retract ==
    /\ "reviewer" \in crew /\ \E p \in Proposition : RetractFact(p)
    /\ Forget /\ KeepIdentity /\ UNCHANGED <<partWhole, referenceBinding, crew>>
Packs ==
    /\ crew \cap {"linker", "binder"} # {}
    /\ \E k \in Pack : load_pack(k) \/ deprecate_pack(k)
    /\ Forget /\ KeepIdentity /\ UNCHANGED <<partWhole, referenceBinding, crew>>

KeepOthers == UNCHANGED <<store, partWhole, referenceBinding, crew>>
Resolve == "resolver" \in crew /\ (resolve_box_load \/ resolve_box_write) /\ KeepOthers
MergeOrSplit == "reviewer" \in crew /\ Review /\ KeepOthers
Link == "linker" \in crew /\ (anchor_box_load \/ anchor_box_write) /\ KeepOthers
Induce == "inducer" \in crew /\ PartWholeNext /\ UNCHANGED <<store, identity, referenceBinding, crew>>
Bind == "binder" \in crew /\ BindingNext /\ UNCHANGED <<store, identity, partWhole, crew>>

Next == Extract \/ Retract \/ Packs \/ Resolve \/ MergeOrSplit \/ Link \/ Induce \/ Bind
Spec == Init /\ [][Next]_vars

-----------------------------------------------------------------------------

\* entity_level: off the taxonomy node of a confirmed anchor first, else off
\* the box's own partonomy.
entity_level(e, anchors) ==
    LET c == _canonical_map(e)
        node == IF c \in DOMAIN anchors THEN anchors[c] ELSE c
    IN  [depth |-> derived_level(partOf \cup PackPartOf, node),
         provenance |-> IF c \in DOMAIN anchors THEN "anchored" ELSE "induced"]

\* A part reads strictly deeper than its whole.  Off the box's partonomy once
\* a closure over the current edges has been committed, for two ends that are
\* still canonical for their label and have no cycle above them; off the
\* taxonomy when its pack declares component-integral steps only.
InducedIsDeeper(anchors) ==
    (closed = Safe(direct) /\ ~retyped) =>
        \A e \in _acyclic_edges(Safe(direct)) :
            LET part == entity_level(e[1], anchors)
                whole == entity_level(e[2], anchors)
            IN  ( /\ {part.provenance, whole.provenance} = {"induced"}
                  /\ _canonical_map(e[1]) = e[1] /\ _canonical_map(e[2]) = e[2] )
                => part.depth > whole.depth
AnchoredIsDeeper(anchors) ==
    \A k \in {l \in loaded : \A r \in l.direct : r.component} : \A e \in Safe(k.direct) :
        \A part, whole \in DOMAIN anchors :
            ( /\ anchors[part] = e[1] /\ anchors[whole] = e[2]
              /\ _canonical_map(part) = part /\ _canonical_map(whole) = whole )
            => entity_level(part, anchors).depth > entity_level(whole, anchors).depth
PartIsDeeper == \A anchors \in anchored_targets : InducedIsDeeper(anchors) /\ AnchoredIsDeeper(anchors)

=============================================================================
