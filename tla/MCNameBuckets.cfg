CONSTANTS
    Core = {p1, p2}
    Name = {n1, n2, n3}
    User = {1}
    Slot = {1}
    Setting <- AlphaOneNow
    Bucket = {"b"}
    NameHash <- OneBucket
    ClientHash <- OwnSlot
    MayFail = TRUE
    MaxSkew = 1
    MaxTime = 1
    None = None
SPECIFICATION FairSpec
INVARIANTS
    CurrNameIsLive
    NodesConsistent
    NumberCoversChain
PROPERTIES
    MutexReleased
CHECK_DEADLOCK FALSE
