------------------------------ MODULE MCKernels ------------------------------
(* The numeric kernels, one per behaviour: stabilize, valuate, repeated     *)
(* adjudication, the segmenter and the consolidation of samples share no    *)
(* state, so a behaviour runs one of them and the others stand still.       *)
(*                                                                          *)
(* stabilize: every step function on five states, with a key that merges    *)
(* two of them; four distinct keys are as many as three iterations visit.   *)
(* valuate: both semirings over a cycle between y and z with a conjunctive  *)
(* body, a direct way to y and an axiom for x; six levels are deep enough   *)
(* for the longest Viterbi product.  Adjudication: three arguments and five *)
(* edges, each as support and as attack, with chains of depth two, a mutual *)
(* pair and a way back from the top argument; three sweeps are just enough  *)
(* for three layers. Segmenter: all texts of up to seven sentences, six     *)
(* being the least with a valley, uniform in density or with one dense      *)
(* sentence, under levels of two and eight or three and twelve sentences.   *)
(* Consolidation: three samples of up to two statements, from a chain of    *)
(* three vectors of which the ends are not alike.                           *)
EXTENDS Stabilize, Confidence, Adjudication, Segmentation, Consistency

CONSTANTS x, y, z

MCState == 0 .. 4
MCKey(s) == IF s = 3 THEN 2 ELSE s

VARIABLE kernel  \* the kernel this behaviour runs

allVars == <<stabilizeVars, kernel, valuateVars, adjudicationVars, segmenterVars, samplingVars>>

MCNode == {x, y, z}
MCRule == { [conclusion |-> y, body |-> {x}], [conclusion |-> y, body |-> {z}],
            [conclusion |-> z, body |-> {x, y}], [conclusion |-> x, body |-> {}] }
MCEvidence == {0, One - 1, One}

Edges == { [src |-> x, dst |-> z, strength |-> Unit],
           [src |-> y, dst |-> z, strength |-> Unit \div 2],
           [src |-> x, dst |-> y, strength |-> Unit],
           [src |-> y, dst |-> x, strength |-> Unit],
           [src |-> z, dst |-> x, strength |-> Unit \div 2] }
MCId(a) == IF a = x THEN 0 ELSE IF a = y THEN 1 ELSE 2
MCBaseScore == {0, Unit \div 2, Unit}

Lvl(l, m, p) == [level |-> l, max_len |-> m, penalty |-> p]
Dense(n, at) == [i \in 0 .. n - 1 |-> IF i = at THEN 2 ELSE 0]
MCText == UNION {[vectors : [0 .. n - 1 -> {-1, 0, 1}], densities : {Dense(n, n), Dense(n, 2)}] :
                   n \in {0, 1, 3, 6, 7}}
MCPolicies == {{Lvl(0, m, 5), Lvl(1, 4 * m, 1)} : m \in {2, 3}}

Said(v, sign, kind) == [vector |-> v, polarity |-> sign, class |-> kind]
Statements == {Said(0, TRUE, "fact"), Said(1, TRUE, "fact"), Said(1, FALSE, "fact"),
               Said(2, TRUE, "fact"), Said(2, FALSE, "opinion")}
Likeness(v, w) == IF v < w THEN v - w ELSE w - v
MCThreshold == -1
MCAnswer == {<<>>} \cup {<<a>> : a \in Statements} \cup (Statements \X Statements)

\* A kernel that stands still.
StabilizeIdle == step = [s \in State |-> s] /\ Start(0)
ValuateIdle == arg = <<>> /\ conf = <<>> /\ round = 0 /\ answer = "run"
AdjudicationIdle == AdjudicationInit /\ intrinsic = [a \in Argument |-> 0]

SegmenterIdle == text = <<>> /\ policy = {} /\ spans = <<>>
SamplingIdle == samples = <<>> /\ results = {}

KernelsInit ==
    \/ /\ kernel = "stabilize" /\ StabilizeInit
       /\ ValuateIdle /\ AdjudicationIdle /\ SegmenterIdle /\ SamplingIdle
    \/ /\ kernel = "valuate" /\ ValuateInit
       /\ StabilizeIdle /\ AdjudicationIdle /\ SegmenterIdle /\ SamplingIdle
    \/ /\ kernel = "adjudicate" /\ AdjudicationInit
       /\ StabilizeIdle /\ ValuateIdle /\ SegmenterIdle /\ SamplingIdle
    \/ /\ kernel = "segment" /\ SegmenterInit
       /\ StabilizeIdle /\ ValuateIdle /\ AdjudicationIdle /\ SamplingIdle
    \/ /\ kernel = "sample" /\ SamplingInit
       /\ StabilizeIdle /\ ValuateIdle /\ AdjudicationIdle /\ SegmenterIdle

RunStabilize == /\ kernel = "stabilize" /\ StabilizeNext
                /\ UNCHANGED <<kernel, valuateVars, adjudicationVars, segmenterVars, samplingVars>>
RunValuate == /\ kernel = "valuate" /\ Round
              /\ UNCHANGED <<kernel, stabilizeVars, adjudicationVars, segmenterVars, samplingVars>>
RunAdjudication == /\ kernel = "adjudicate" /\ AdjudicationNext
                   /\ UNCHANGED <<kernel, stabilizeVars, valuateVars, segmenterVars, samplingVars>>
RunSegmenter == /\ kernel = "segment" /\ Segment
                /\ UNCHANGED <<kernel, stabilizeVars, valuateVars, adjudicationVars, samplingVars>>
RunSampling == /\ kernel = "sample" /\ SamplingNext
               /\ UNCHANGED <<kernel, stabilizeVars, valuateVars, adjudicationVars, segmenterVars>>

KernelsSpec ==
    /\ KernelsInit
    /\ [][RunStabilize \/ RunValuate \/ RunAdjudication \/ RunSegmenter \/ RunSampling]_allVars
    /\ WF_allVars(RunStabilize)

\* stabilize ends.
StabilizeTerminates == kernel = "stabilize" => Terminates

=============================================================================
