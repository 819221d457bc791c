--------------------------- MODULE MCRevisionLoop ---------------------------
(* Two facts, a conclusion resting on both, and two hypotheses.  The        *)
(* conclusion can refute h, h bears on k, and k can refute the conclusion,  *)
(* which closes an evidential cycle; d is still to be derived from it.  f2  *)
(* lives in a box of its own.                                               *)
EXTENDS RevisionLoop

CONSTANTS f1, f2, c, d, h, k, b1, b2

MCNode == {f1, f2, c, d, h, k}
MCFact == {f1, f2}
MCHypothesis == {h, k}
MCProposal == { [conclusion |-> d, body |-> {c}] }
MCRule == { [conclusion |-> c, body |-> {f1, f2}] } \cup MCProposal
MCStrengths == [r \in MCRule |-> IF r \in MCProposal THEN 3 ELSE 4]
MCBox == {b1, b2}
MCBoxOf == [n \in MCNode |-> IF n = f2 THEN b2 ELSE b1]
MCSeed == [n \in MCNode |-> IF n \in MCFact THEN 4 ELSE IF n = c THEN 4 ELSE 2]

Judged(s, t, sign, w) == [source |-> s, target |-> t, sign |-> sign, strength |-> w]
\* The nodes' ids sort in this order.
MCId(n) == CHOOSE i \in 1 .. 6 : <<f1, f2, c, d, h, k>>[i] = n
MCEvidenceEdge == { Judged(c, h, "refutes", 4), Judged(f1, h, "supports", 1),
                    Judged(h, k, "refutes", 4), Judged(k, c, "refutes", 2) }

\* The gate is asked about h, k, both or none with the ensemble agreeing, and
\* about both with a required channel missing and with a channel that dissents.
Agreed == [llm |-> "affirm", symbolic |-> "affirm"]
Asks(policy, hs, r) == [policy |-> policy, asked |-> hs, report |-> r]
MCDefault ==
    {Asks("default", hs, Agreed) : hs \in SUBSET {h, k}} \cup
    {Asks("default", {h, k}, r) :
        r \in { [llm |-> "affirm", temporal |-> "abstain"],
               [llm |-> "affirm", symbolic |-> "affirm", temporal |-> "dissent"] }}
MCReviving == { Asks("reviving", {h, k}, Agreed) }
MCSupporters == { Asks("supporters", {h}, Agreed) }
MCCaller == MCDefault \cup MCReviving \cup MCSupporters

=============================================================================
