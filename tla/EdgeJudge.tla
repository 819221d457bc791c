------------------------------ MODULE EdgeJudge ------------------------------
(***************************************************************************)
(* The blind multi-sample panel (core/edge_judge.py) and the read-off of   *)
(* its votes (core/subjective_logic.py): what sign an evidential edge gets, *)
(* whether the panel agreed on it, and how strong the edge is.  The votes  *)
(* themselves are the language model's.                                    *)
(***************************************************************************)
EXTENDS Integers, FiniteSets, FiniteSetsExt

CONSTANTS
    Samples,  \* n_samples, the size of the panel
    Full      \* the strength 1.0, in units

\* A tally of one item's votes; every sample votes on every item, an item it
\* does not answer being irrelevant to it (_sample_signs).
Tally ==
    {t \in [supports : 0 .. Samples, refutes : 0 .. Samples, irrelevant : 0 .. Samples] :
        t.supports + t.refutes + t.irrelevant = Samples}

\* judge_hypothesis: an irrelevant plurality drops the pair, the dominant
\* direction is the sign, a tie supports.
Dropped(t) == t.irrelevant > t.supports /\ t.irrelevant > t.refutes
SignOf(t) == IF t.supports >= t.refutes THEN "supports" ELSE "refutes"
SignStable(t) == t.supports = 0 \/ t.refutes = 0

\* opinion_from_evidence with prior weight 2 and base rate 1/2, discounted by
\* the identity reliability 1.0, projected: (positive + 1) / (votes + 2).
Agreeing(t) == IF SignOf(t) = "supports" THEN t.supports ELSE t.refutes
StrengthOf(t) == ((Agreeing(t) + 1) * Full) \div (t.supports + t.refutes + 2)

=============================================================================
