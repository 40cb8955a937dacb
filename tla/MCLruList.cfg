CONSTANTS
    Slot = {c1, c2, c3}
    Node = {n1, n2, n3}
    NULL = NULL
    Setting <- TwoSettings
    MaxSkew = 1
    MaxTime = 2
SPECIFICATION FairSpec
INVARIANTS
    ListWellFormed
    NoNullDereference
PROPERTIES
    ImplementsClientLru
    CallsReturn
