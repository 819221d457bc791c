SPECIFICATION KernelsSpec
CONSTANTS
    x = x
    y = y
    z = z
    Node <- MCNode
    Rule <- MCRule
    One = 6
    Evidence <- MCEvidence
    State <- MCState
    Key <- MCKey
    MaxIterations = 3
    Argument <- MCNode
    Edge <- Edges
    BaseScore <- MCBaseScore
    Unit = 8
    Id <- MCId
    MaxSweeps = 3
    EmbeddedText <- MCText
    Policies <- MCPolicies
    NSamples = 3
    Similarity <- Likeness
    Threshold <- MCThreshold
    Answer <- MCAnswer
INVARIANTS
    OutcomeIsTrue
    ReturnsLeastFixpoint
    ThresholdCut
    ExactOrSurfaced
    SegmentsAreOptimal
    ConsolidatesClaims
PROPERTIES
    StabilizeTerminates
    EvidencePushesItsWay
CHECK_DEADLOCK FALSE
