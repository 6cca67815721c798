CONSTANTS
    A = A
    B = B
    C = C
    U = U
    a1 = a1
    a2 = a2
    a3 = a3
    b1 = b1
    c1 = c1
    NoNet = NoNet
    NoPip = NoPip
    Net <- MCNet
    Wire <- MCWire
    Pip <- MCPip
    PipSrc <- MCPipSrc
    PipDst <- MCPipDst
    HardUnavail <- MCHardUnavail
    Arc <- MCArc
    ArcNet <- MCArcNet
    ArcPos <- MCArcPos
    NetSrc <- MCNetSrc
    Undriven = {U}
    Placements <- MCPlacements
    PriorRoutings <- MCBrokenPrior
    TimingRipup = FALSE
    MaxTimingRipup = 1
SPECIFICATION Spec
INVARIANT AssertTrackedBound
