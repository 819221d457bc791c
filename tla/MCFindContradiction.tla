------------------------ MODULE MCFindContradiction ------------------------
(* One hypothesis and three pieces of evidence.  The third denies what the  *)
(* hypothesis claims.  The second agrees with the hypothesis and denies a    *)
(* claim of the first, which only an entity it shares with the hypothesis    *)
(* brings before the panel.  The vectors are numbers; the claim the first    *)
(* two differ on lives in its own corner of the space.                       *)
EXTENDS FindContradiction

CONSTANTS s1, s2

MCEvidence == {1, 2, 3}
MCHypothesis == {9}
MCId(n) == n
MCCosine(v, w) == IF v < w THEN v - w ELSE w - v
MCAlike(v, w) == v - w \in {-1, 0, 1}

Claim(n, p, v, sign) ==
    [node |-> n, proposition |-> p, model |-> 1, vector |-> v, positive |-> sign]
MCClaims == { Claim(1, 1, 50, TRUE), Claim(2, 2, 11, TRUE), Claim(2, 3, 50, FALSE),
              Claim(3, 4, 10, FALSE), Claim(9, 5, 11, TRUE) }
MCInvolves == {<<1, "pump">>, <<9, "pump">>}
Votes(s, r, i) == [supports |-> s, refutes |-> r, irrelevant |-> i]
MCPanel == {Votes(3, 0, 0), Votes(0, 3, 0), Votes(1, 2, 0)}
MCOperator == [s \in Session |-> IF s = s1 THEN "find-contradiction" ELSE "produce"]
MCBase == [n \in MCEvidence \cup MCHypothesis |-> IF n \in MCHypothesis THEN 5 ELSE 10]

=============================================================================
