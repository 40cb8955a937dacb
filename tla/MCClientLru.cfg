CONSTANTS
    Slot = {c1, c2, c3, c4}
    Setting <- TwoSettings
    MaxSkew = 1
    MaxTime = 4
SYMMETRY ClientSymmetry
SPECIFICATION Spec
INVARIANTS
    QueueConsistent
    StampIsLastAsk
    SortedWithinSkew
    NoFreshClientForgotten
PROPERTIES
    FreshAboveAlpha
    ReferenceKeepsItsClient
