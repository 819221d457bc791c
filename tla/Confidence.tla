----------------------------- MODULE Confidence -----------------------------
(***************************************************************************)
(* The valuation engine of Layer B (function valuate of                    *)
(* core/confidence.py): Kleene ascent by Jacobi rounds, under a bound that *)
(* raises when it is used up.                                              *)
(***************************************************************************)
EXTENDS Valuation

CONSTANT Evidence  \* the levels that occur as evidence or edge strength

\* A confidence is a number in [0, 1], and so is an edge strength.
ASSUME EvidenceIsLevels == Evidence \subseteq Level

\* What valuate is called with: a snapshot, Layer A's answer for it, the
\* evidence of its base facts, the strength of its derivations, a semiring.
Arguments(g) ==
    [graph : {g},
     supported : {WellFoundedSupport(g.base_facts, g.derivations)},
     base_confidence : [g.base_facts -> Evidence],
     strength : [g.derivations -> Evidence],
     semiring : Semiring]

VARIABLES
    arg,    \* the arguments of the call
    conf,   \* the current iterate (zero off the supported set)
    round,  \* rounds done
    answer  \* "run", "done", or "raised" for the RuntimeError

valuateVars == <<arg, conf, round, answer>>

ValuateInit ==
    /\ \E g \in DerivationGraph : arg \in Arguments(g)
    /\ conf = AllZero
    /\ round = 0
    /\ answer = "run"

\* The iteration bound.
Rounds == Cardinality(arg.supported) + 2

\* One iteration of the for loop: return on a fixpoint, otherwise go on,
\* raising once the bound is used up.
Round ==
    /\ answer = "run"
    /\ LET nxt == [n \in Node |-> Revalue(arg, conf, n)]
       IN  /\ conf' = nxt
           /\ answer' = IF nxt = conf THEN "done"
                        ELSE IF round + 1 = Rounds THEN "raised" ELSE "run"
    /\ round' = round + 1
    /\ UNCHANGED arg

ValuateSpec == ValuateInit /\ [][Round]_valuateVars /\ WF_valuateVars(Round)

-----------------------------------------------------------------------------

ValuateTypeOK ==
    /\ \E g \in DerivationGraph : arg \in Arguments(g)
    /\ conf \in [Node -> Level]
    /\ round \in Nat
    /\ answer \in {"run", "done", "raised"}

\* f is closed under the grounds of every supported node: at least its
\* evidence, and at least what each derivation contributes.
PreFixpoint(a, f) ==
    /\ \A n \in a.supported \cap a.graph.base_facts : a.base_confidence[n] <= f[n]
    /\ \A d \in a.graph.derivations :
         (d.conclusion \in a.supported /\ d.body \subseteq a.supported)
           => Contribution(a, f, d) <= f[d.conclusion]

\* A call ends by returning, never by the RuntimeError of the bound
\* len(nodes) + 2, and the confidences returned are the least ones closed under
\* the evidence and the derivations: nothing inflates round a cycle, nothing is
\* lost.  They are what the other modules read as valuate.
ReturnsLeastFixpoint ==
    answer # "run" =>
        /\ answer = "done"
        /\ conf = valuate(arg)
        /\ PreFixpoint(arg, conf)
        /\ \A f \in [Node -> Level] :
             PreFixpoint(arg, f) => \A n \in Node : conf[n] <= f[n]

\* Under Goedel the two layers fit: a node reaches level t exactly when Layer
\* A would still support it after dropping the evidence and the derivations
\* weaker than t.
ThresholdCut ==
    (answer = "done" /\ arg.semiring = "godel") =>
        \A t \in 1 .. One :
            {n \in Node : conf[n] >= t} =
                WellFoundedSupport(
                    {n \in arg.graph.base_facts : arg.base_confidence[n] >= t},
                    {d \in arg.graph.derivations : arg.strength[d] >= t})

=============================================================================
