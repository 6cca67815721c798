CONSTANTS
    ca = ca
    cb = cb
    cc = cc
    cd = cd
    ce = ce
    K = K
    J = J
    n1 = n1
    n2 = n2
    n3 = n3
    lut = lut
    ff = ff
    lut2 = lut2
    lut3 = lut3
    ff2 = ff2
    pin = pin
    NoBel = NoBel
    NoCell = NoCell
    NoThread = NoThread
    NoCluster = NoCluster
    Bels <- GridBels
    Cells <- GridCells
    Nets = {n1, n2, n3}
    Pins <- GridPins
    SkipNet = {}
    BelsFor <- GridAny
    Region <- GridRegion
    HardUnavail = {}
    ClusterOf <- GridCluster
    Members <- GridMembers
    Locked = {}
    TileLegal <- AnyTile
    Start <- GridStart
    Threads = 2
    MaxTries = 1
SPECIFICATION Spec
INVARIANT RegionsRespected
