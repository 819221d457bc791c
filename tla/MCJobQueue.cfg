CONSTANTS
    Document = {"d1", "d2", "d3"}
    NoBox = NoBox
    BoxesOf <- MCBoxesOf
    MAX_ATTEMPTS = 3
    MaxSubmitted = 2
    MaxCrashes = 1
SPECIFICATION Spec
INVARIANTS
    NoConcurrentJobs
PROPERTIES
    IngestedIsExtracted
    EveryJobEnds
CHECK_DEADLOCK FALSE
