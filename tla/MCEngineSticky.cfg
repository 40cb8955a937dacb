CONSTANTS
    a = a
    e = e
    p1 = p1
    p2 = p2
    Core = {p1}
    Bucket = {"b"}
    Heap = {h1, h2}
    Tuple <- BothWays
    FlowHash <- OneBucket
    CoreOf <- OnOneCore
    T_OUT = 2
    MaxSkew = 0
    MaxTime = 3
    None = None
    Setting <- ExtTls
    External = {e}
    Payload <- Payloads
    Request <- Requests
    Letter = {"a", "b", "n"}
SYMMETRY HeapSymmetry
SPECIFICATION Spec
INVARIANTS
    FlowStaysAnonymous
CHECK_DEADLOCK FALSE
