------------------------------ MODULE MCIngest ------------------------------
(***************************************************************************)
(* Two workers and a migration over two documents.  OCR reads the first    *)
(* input in two ways; the second text is too short for the coarse level;   *)
(* the range "b" pools to no token under model m2.                         *)
(***************************************************************************)
EXTENDS Ingest, TLC

CONSTANTS w1, w2, d1, d2, m1, m2

MCRenderings == [p \in Parser |->
    [i \in Input |-> IF i = 2 THEN {"short"} ELSE IF p = NullParser THEN {"clean"} ELSE {"clean", "blurred"}]]
MCCut == [t \in Text |->
    IF t = "short" THEN (0 :> {"a"}) ELSE (0 :> {"a", "b"}) @@ (1 :> {"ab"})]
MCTokenless == {<<m2, "b">>}
Symmetric == Permutations({w1, w2}) \cup Permutations({d1, d2})
=============================================================================
