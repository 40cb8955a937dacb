CONSTANTS
    u1 = u1
    u2 = u2
    w = w
    i = i
    j = j
    x = x
    y = y
    c1 = c1
    c2 = c2
    k1 = k1
    k2 = k2
    s1 = s1
    a1 = a1
    a2 = a2
    a3 = a3
    Host = {u1, u2, w}
    Anon = {u1, u2}
    NoAnon = {}
    Key = {k1, k2}
    Name = {s1}
    Core = {c1, c2}
    Port = {i, j, x, y}
    InPort <- TwoInputs
    OutPort <- Mirrored
    out_interface <- TwoAlphas
    FastFree = TRUE
    Buf = {b1, b2, b3, b4}
    CopyBuf = {d1, d2, d3}
    PKT_BURST_SZ = 2
    TX_QUEUE_SZ = 1
    Packet = {a1, a2, a3, a4}
    Arrival <- Traffic
    None = None
SYMMETRY PoolSymmetry
SPECIFICATION Spec
INVARIANTS
    TypeOK
    EveryBufferInOnePlace
    AsIfAlone
    SentInOrder
    NameBacked
    NoStandstill
