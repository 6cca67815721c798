CONSTANTS
    clkA = clkA  clkB = clkB  netD = netD  netI = netI  netS = netS
    a = a  b = b  f = f  g = g  l = l  t = t  m = m  x = x  y = y  k = k
    NoCell = NoCell  NoNet = NoNet
    Cells = {a, b, f, g, l, t, m, x, y}
    IsSlicem = TRUE
    Kind <- KindDef
    Lut <- LutDef
    Ff <- FfDef
    Mux <- MuxDef
    Carry <- CarryDef
    Driver <- DriverDef
    FromMC31 = {}
    Shared = {}
    BelsFor <- BelsForDef
    Chains <- ChainsDef
    MaxMoved = 2
SPECIFICATION Spec
INVARIANTS AnswerIsCurrent CacheInv
