------------------------- MODULE MCPropositionizer -------------------------
(* A document of two spans and one of a single span; the first span of each *)
(* has the same passage and no context, so they share content hashes.  One  *)
(* deployment re-extracts in cascade and never reuses, the other reuses     *)
(* across documents and refuses to purge what feeds a Fact.                 *)
EXTENDS Propositionizer, TLC

CONSTANTS v1, v2, v3, k1, k2, k3

MCVerifier == {v1, v2, v3}
MCClaim == {k1, k2, k3}
MCSpansOf == [d \in Document |-> IF d = "report" THEN <<"a", "b">> ELSE <<"c">>]
MCPassage == [s \in Span |-> IF s = "b" THEN "body" ELSE "boilerplate"]

Cascading == [reuse_extractions |-> FALSE, cascade_reextract |-> TRUE,
              documents |-> {"memo"}, verifiers |-> {v1, v2}, claims |-> {k1, k2}]
Reusing == [reuse_extractions |-> TRUE, cascade_reextract |-> FALSE,
            documents |-> {"report", "memo"}, verifiers |-> {v3}, claims |-> {k3}]
BothDeployments == {Cascading, Reusing}
OnlyCascading == {Cascading}
OnlyReusing == {Reusing}

\* Pipelines, and the verifiers and claims of a deployment, are
\* interchangeable; only invariants are checked.
Interchangeable == Permutations(Extractor) \cup Permutations({v1, v2}) \cup Permutations({k1, k2})

=============================================================================
