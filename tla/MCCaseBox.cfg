SPECIFICATION Spec
CONSTANTS
    p1 = p1
    p2 = p2
    p3 = p3
    Proposition = {p1, p2, p3}
    Entities <- MCEntities
    Faith <- MCFaith
    Pack <- MCPack
    Inducer = {"i1", "i2"}
    Meronymy <- MCMeronymy
    Mentions <- MCMentions
    Doubts <- MCDoubts
    Crew <- MCCrew
    Reviewed <- MCReviewed
    MaxRevisions = 2
    MaxPasses = 2
    MaxInductions = 2
    MaxBindings = 2
    MaxVerifications = 1
CHECK_DEADLOCK FALSE
INVARIANTS
    MergeAccumulates
    SplitUndoesMerge
    OneRepresentative
    ConfirmedNeedsRelation
    RollupIsADag
    PartIsDeeper
    OpenReferenceIsFlagged
