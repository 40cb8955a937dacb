CONSTANTS
    Core = {p1, p2}
    Name = {n1}
    User = {1, 2, 3}
    Slot = {1, 3}
    Setting <- TwoSettings
    Bucket = {"b"}
    NameHash <- OneBucket
    ClientHash <- Collision
    MayFail = FALSE
    MaxSkew = 1
    MaxTime = 2
    None = None
SPECIFICATION Spec
INVARIANTS
    TypeOK
    NoAskerForgotten
PROPERTIES
    KeepsPromise
