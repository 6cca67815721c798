CONSTANTS
    A = A
    B = B
    C = C
    a1 = a1
    a2 = a2
    c3 = c3
    b1 = b1
    c1 = c1
    c2 = c2
    U = U
    NoNet = NoNet
    NoPip = NoPip
    NoReg = NoReg
    MorePips <- ThruOwn
    Net <- MCNet
    Wire <- MCWire
    Pip <- MCPip
    PipSrc <- MCPipSrc
    PipDst <- MCPipDst
    HardUnavail = {}
    Arc = {a1, a2, b1, c1, c2, c3}
    NetOrder <- MCNetOrder
    NetArcs <- MCNetArcs
    SinkWire <- MCSinkWire
    NetSrc <- MCNetSrc
    Undriven = {U}
    Reserved <- MCReserved
    WireLoc <- MCWireLoc
    PipLoc <- MCPipLoc
    NetBox <- MCNetBox
    MidX = 3
    MidY = 1
    GridX = 6
    GridY = 1
    MinThreaded = 3
    GrowPeriod = 2
    MayBeLate = {C}
    MaxTimingIter = 2
    PriorRoutings <- MCPriorRoutings
    MaxIter = 2
SPECIFICATION Spec
INVARIANT ThreadSafety
