SPECIFICATION Spec
CONSTANTS
    a = a
    b = b
    c = c
    Node <- MCNode
    Rule <- MCRule
INVARIANTS
    CountsAreGroundings
    CountersTrackDelivery
PROPERTIES
    ApplyReturns
    ImplementsContract
