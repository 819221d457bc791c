------------------------------ MODULE MCCaseBox ------------------------------
(* Three statements about bearings and gearboxes.  The ids are such that a  *)
(* later extraction may bring a smaller one; one bearing is taken for an     *)
(* actor and one gearbox has no type.  The detector may find a cycle, or a   *)
(* relation it typed otherwise before.  Two packs name a bearing, and one    *)
(* of them comes with two contents under one version; a third is cyclic.     *)
EXTENDS CaseBox

CONSTANTS p1, p2, p3

Row(id, label, type, kind, role) == [id |-> id, label |-> label, type |-> type, kind |-> kind, role |-> role]
Bearing == {"bearing"}
Gearbox == {"gearbox"}
DriveBearing == {"drive", "bearing"}

MCEntities ==
    [p \in Proposition |->
        CASE p = p1 -> {Row(3, Bearing, "part", "object", "subject"), Row(4, Gearbox, "unit", "object", "place")}
          [] p = p2 -> {Row(1, Bearing, "part", "object", "place"), Row(6, Gearbox, "", "object", "subject")}
          [] p = p3 -> {Row(2, DriveBearing, "part", "object", "subject"), Row(5, Bearing, "part", "actor", "place")}]
MCReviewed == {{1, 3}, {3, 6}}
MCFaith == [p \in Proposition |-> CASE p = p1 -> 3 [] p = p2 -> 5 [] p = p3 -> 4]

Relation(child, parent, component) == [child |-> child, parent |-> parent, component |-> component]
MCMeronymy ==
    [p \in Proposition |->
        CASE p = p1 -> {{}, {Relation(Bearing, Gearbox, TRUE)}}
          [] p = p2 -> {{Relation(Gearbox, Bearing, TRUE)}, {Relation(Bearing, Gearbox, FALSE)}}
          [] p = p3 -> {{Relation(DriveBearing, Bearing, TRUE)},
                        {Relation(Bearing, DriveBearing, TRUE), Relation(Bearing, Bearing, TRUE)}}]

Mention(label, kind) == [label |-> label, kind |-> kind]
MCMentions ==
    [p \in Proposition |->
        CASE p = p1 -> {{}, {Mention(Bearing, "object")}}
          [] p = p2 -> {{Mention({"drive"}, "none")}, {Mention({}, "object"), Mention(Bearing, "none")}}
          [] p = p3 -> {{Mention(Bearing, "none")}}]

Taxon(id, box, label, type) == [id |-> id, box |-> box, label |-> label, type |-> type]
Part(part, whole, component) == [edge |-> <<part, whole>>, component |-> component]
MCPack ==
    { [box |-> "b1", nodes |-> {Taxon(11, "b1", Bearing, "part"), Taxon(12, "b1", Gearbox, "unit")},
       direct |-> {Part(11, 12, TRUE)}],
      [box |-> "b1", nodes |-> {Taxon(11, "b1", Bearing, "part")}, direct |-> {}],
      [box |-> "b2", nodes |-> {Taxon(21, "b2", Bearing, "")}, direct |-> {}],
      [box |-> "b3", nodes |-> {Taxon(31, "b3", Bearing, "part"), Taxon(32, "b3", Gearbox, "unit")},
       direct |-> {Part(31, 32, TRUE), Part(32, 31, TRUE)}] }

MCCrew == { {"resolver", "reviewer"}, {"reviewer", "linker"}, {"inducer"}, {"binder"} }
MCDoubts == { {"unassessed_faithfulness", "polarity_unstable"} }

=============================================================================
