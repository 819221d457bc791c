----------------------------- MODULE MCJobQueue -----------------------------
(* Two documents of one box, so that the box serialises jobs of different   *)
(* documents, and one of another box, whose jobs run beside them.           *)
EXTENDS JobQueue

MCBoxesOf == [d \in Document |-> IF d = "d3" THEN {"reference"} ELSE {"case"}]
=============================================================================
