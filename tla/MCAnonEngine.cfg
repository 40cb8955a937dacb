CONSTANTS
    a = a
    e = e
    p1 = p1
    p2 = p2
    Core = {p1, p2}
    Bucket = {"b"}
    Heap = {h1, h2}
    Tuple <- TcpAndUdp
    FlowHash <- OneBucket
    CoreOf <- OnTwoCores
    T_OUT = 1
    MaxSkew = 1
    MaxTime = 3
    None = None
    Setting <- AllOn
    External = {e}
    Payload <- Payloads
    Request <- Requests
    Letter = {"a", "b", "n"}
SYMMETRY HeapSymmetry
SPECIFICATION Spec
INVARIANTS
    EntryIsMine
    ActiveFlowKept
    RequestHidden
    LinesKept
PROPERTIES
    PassedEntryStays
CHECK_DEADLOCK FALSE
