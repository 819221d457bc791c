SPECIFICATION Spec
CONSTANTS
    f1 = f1
    f2 = f2
    c = c
    d = d
    h = h
    k = k
    b1 = b1
    b2 = b2
    Node <- MCNode
    Rule <- MCRule
    Fact <- MCFact
    Hypothesis <- MCHypothesis
    Strengths <- MCStrengths
    Proposal <- MCProposal
    EvidenceEdge <- MCEvidenceEdge
    Box <- MCBox
    BoxOf <- MCBoxOf
    Seed <- MCSeed
    Caller <- MCCaller
    MaxSteps = 4
    Unit = 4
    Id <- MCId
    One = 4
    MaxSweeps = 8
INVARIANTS
    DefaultPolicyConverges
    StoreMatchesFreshLoad
PROPERTIES
    NothingFlipsUnauthorised
    CommitsOnlyFixpoints
    RetractionWithdraws
