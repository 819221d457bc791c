CONSTANTS
    w1 = w1
    w2 = w2
    d1 = d1
    d2 = d2
    m1 = m1
    m2 = m2
    Worker = {w1, w2}
    Document = {d1, d2}
    Model = {m1, m2}
    Box = {"box"}
    Input = {1, 2}
    Text = {"clean", "blurred", "short"}
    Parser = {"null", "ocr"}
    NullParser = "null"
    Renderings <- MCRenderings
    Level = {0, 1}
    Cut <- MCCut
    Tokenless <- MCTokenless
    BatchSize = 1
    MaxRuns = 3
    MaxMigrations = 2
    MaxPropositions = 2
    Null = Null
SPECIFICATION Spec
SYMMETRY Symmetric
CHECK_DEADLOCK FALSE
INVARIANTS
    SpansMatchText
    SealIsKept
    ReportedConverged
PROPERTIES
    DocumentIsImmutable
