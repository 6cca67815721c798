CONSTANTS
    clkA = clkA  clkB = clkB  netD = netD  netI = netI  netS = netS
    a = a  b = b  f = f  g = g  l = l  t = t  m = m  x = x  y = y  k = k
    NoCell = NoCell  NoNet = NoNet
    Cells = {a, f, t, m}
    IsSlicem = TRUE
    Kind <- KindDef
    Lut <- LutDef
    Ff <- FfDef
    Mux <- MuxDef
    Carry <- CarryDef
    Driver <- DriverDef
    FromMC31 = {}
    Shared = {}
    BelsFor <- BelsForAlone
    Chains = {}
    MaxMoved = 2
SPECIFICATION Spec
INVARIANT AnswerIsCurrent
