CONSTANTS
    Core = {p1}
    Name = {n1}
    User = {1, 2}
    Slot = {1, 2}
    Setting <- AlphaTwoNow
    Bucket = {"b"}
    NameHash <- OneBucket
    ClientHash <- OwnSlot
    MayFail = FALSE
    MaxSkew = 0
    MaxTime = 2
    None = None
SPECIFICATION Spec
INVARIANTS
    HiddenBelowAlpha
