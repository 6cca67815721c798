CONSTANTS
    ca = ca
    cb = cb
    cc = cc
    cd = cd
    ce = ce
    K = K
    J = J
    n1 = n1
    n2 = n2
    n3 = n3
    lut = lut
    ff = ff
    lut2 = lut2
    lut3 = lut3
    ff2 = ff2
    pin = pin
    NoBel = NoBel
    NoCell = NoCell
    NoThread = NoThread
    NoCluster = NoCluster
    Bels <- RowBels
    Cells <- RowCells
    Nets = {n1, n2, n3}
    Pins <- RowPins
    SkipNet = {n3}
    BelsFor <- RowFor
    Region <- RowFor
    HardUnavail <- RowUnavail
    ClusterOf <- RowCluster
    Members <- RowMembers
    Locked = {pin}
    TileLegal <- RowTile
    Start <- RowStart
    Threads = 2
    MaxTries = 2
SPECIFICATION Spec
INVARIANTS BoundsInv ViewCurrent ApartInv LegalInv
