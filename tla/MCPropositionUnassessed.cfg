CONSTANTS
    Worker = {w1}
    Document = {"memo", "report"}
    Span = {"a", "b", "c"}
    SpansOf <- MCSpansOf
    Passage <- MCPassage
    Extractor = {x1, x2}
    v1 = v1
    v2 = v2
    v3 = v3
    k1 = k1
    k2 = k2
    k3 = k3
    Verifier <- MCVerifier
    Claim <- MCClaim
    Deployment <- OnlyReusing
    MaxRuns = 3
    Null = Null
SYMMETRY Interchangeable
SPECIFICATION Spec
INVARIANT ReportIsTrue
CHECK_DEADLOCK FALSE
