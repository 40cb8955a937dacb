CONSTANTS
    f1 = f1
    f2 = f2
    empty = empty
    static = static
    W = 3
    B = 2
    Bytes6 = 2
    MAX_SUBNETS = 2
    MAX_INTERFACES = 4
    Input <- Inputs
    Text = Text
    Junk = Junk
    None = None
SPECIFICATION Spec
INVARIANTS
    MappingsServed
    LoopIsReady
    SettingsAsRead
    PairChecked
    NetsOfOneGroup
CHECK_DEADLOCK FALSE
