SPECIFICATION Spec
CONSTANTS
    s1 = s1
    s2 = s2
    Session = {s1, s2}
    Evidence <- MCEvidence
    Hypothesis <- MCHypothesis
    Claims <- MCClaims
    Involves <- MCInvolves
    Panel <- MCPanel
    Cosine <- MCCosine
    Alike <- MCAlike
    Id <- MCId
    Samples = 3
    Full = 10
    K = 2
    Operator <- MCOperator
    Shaky = {4}
    MaxRuns = 2
    MaxChanges = 1
    Base <- MCBase
    MaxSweeps = 4
CHECK_DEADLOCK FALSE
INVARIANTS
    HighStakesAreVetted
    ClashIsAttributable
PROPERTIES
    FlipRestsOnVettedPanel
