---------------------------- MODULE FabricProofs ----------------------------
(***************************************************************************)
(* What the binding operations of the fabric preserve and change, for      *)
(* every fabric.                                                           *)
(***************************************************************************)
EXTENDS Fabric, TLAPS

(* bindWire on a free wire keeps the maps consistent (bindWire).           *)
LEMMA BindWireConsistent ==
    ASSUME NEW f \in FabricState, FabricConsistent(f),
           NEW w \in Wire, NEW n \in Net, NEW s \in PlaceStrength,
           CanBindWire(f, w)
    PROVE  /\ BindWire(f, w, n, s) \in FabricState
           /\ FabricConsistent(BindWire(f, w, n, s))
<1> DEFINE g == BindWire(f, w, n, s)
<1> USE FabricAssumption
<1>1. g \in FabricState
  BY DEF FabricState, BindWire, PipMap
<1>2. WireMapsAgree(g)
  BY DEF FabricState, BindWire, PipMap, NoEntry, PlaceStrength, STRENGTH_USER,
         FabricConsistent, WireMapsAgree, HasWire, CanBindWire
<1>3. DriversBound(g)
  BY DEF FabricState, BindWire, PipMap, NoEntry, FabricConsistent, DriversBound
<1>4. NoPipLeak(g)
  <2>1. g.pip_to_net = f.pip_to_net
    BY DEF BindWire
  <2>2. \A m \in Net, v \in Wire : ~(m = n /\ v = w) => g.wires[m][v] = f.wires[m][v]
    BY DEF FabricState, BindWire
  <2>3. f.wires[n][w].pip = NoPip
    BY DEF FabricConsistent, WireMapsAgree, HasWire, CanBindWire, NoEntry
  <2>4. \A p \in Pip, m \in Net :
           f.pip_to_net[p] = m => f.wires[m][PipDst[p]].pip = p /\ PipDst[p] \in Wire
    BY DEF FabricConsistent, NoPipLeak
  <2> HIDE DEF g
  <2> QED BY <2>1, <2>2, <2>3, <2>4 DEF NoPipLeak
<1> QED BY <1>1, <1>2, <1>3, <1>4 DEF FabricConsistent

(* bindPip onto a wire that is free, or held by the same net without a     *)
(* driving pip, keeps the maps consistent (bindPip).                       *)
LEMMA BindPipConsistent ==
    ASSUME NEW f \in FabricState, FabricConsistent(f),
           NEW p \in Pip, NEW n \in Net, NEW s \in PlaceStrength,
           CanBindPip(f, p, n), f.wires[n][PipDst[p]].pip = NoPip
    PROVE  /\ BindPip(f, p, n, s) \in FabricState
           /\ FabricConsistent(BindPip(f, p, n, s))
<1> DEFINE g == BindPip(f, p, n, s)
           d == PipDst[p]
<1> USE FabricAssumption
<1>0. d \in Wire /\ p # NoPip
  OBVIOUS
<1>1. g \in FabricState
  BY <1>0 DEF FabricState, BindPip, PipMap
<1>2. WireMapsAgree(g)
  BY <1>0 DEF FabricState, BindPip, PipMap, NoEntry, FabricConsistent,
         WireMapsAgree, HasWire, CanBindPip
<1>3. DriversBound(g)
  <2> SUFFICES ASSUME NEW m \in Net, NEW w \in Wire, g.wires[m][w].pip # NoPip
               PROVE  /\ PipDst[g.wires[m][w].pip] = w
                      /\ g.pip_to_net[g.wires[m][w].pip] = m
    BY DEF DriversBound
  <2>1. CASE m = n /\ w = d
    BY <2>1, <1>0 DEF FabricState, BindPip
  <2>2. CASE ~(m = n /\ w = d)
    <3>1. g.wires[m][w] = f.wires[m][w]
      BY <2>2, <1>0 DEF FabricState, BindPip
    <3>2. f.wires[m][w].pip \in Pip
      BY <3>1, <1>0 DEF FabricState, PipMap, NoEntry
    <3>3. f.pip_to_net[f.wires[m][w].pip] = m /\ PipDst[f.wires[m][w].pip] = w
      BY <3>1 DEF FabricConsistent, DriversBound
    <3>4. f.wires[m][w].pip # p
      BY <3>3 DEF CanBindPip, FabricState
    <3> QED BY <3>1, <3>2, <3>3, <3>4 DEF FabricState, BindPip
  <2> QED BY <2>1, <2>2
<1>4. NoPipLeak(g)
  BY <1>0 DEF FabricState, BindPip, PipMap, NoEntry, FabricConsistent,
         NoPipLeak, WireMapsAgree, HasWire, CanBindPip
<1> QED BY <1>1, <1>2, <1>3, <1>4 DEF FabricConsistent

(* unbindWire on bound wires frees exactly those wires and the pips that   *)
(* drive them (unbindWire).                                                *)
LEMMA UnbindWiresEffect ==
    ASSUME NEW f \in FabricState, FabricConsistent(f), NEW W \in SUBSET Wire,
           \A w \in W : f.wire_to_net[w] # NoNet
    PROVE  /\ UnbindWires(f, W) \in FabricState
           /\ FabricConsistent(UnbindWires(f, W))
           /\ \A w \in Wire : UnbindWires(f, W).wire_to_net[w] =
                 IF w \in W THEN NoNet ELSE f.wire_to_net[w]
           /\ \A n \in Net, w \in Wire : UnbindWires(f, W).wires[n][w] =
                 IF w \in W THEN NoEntry ELSE f.wires[n][w]
<1> DEFINE g == UnbindWires(f, W)
<1> USE FabricAssumption
<1>1. g \in FabricState
  BY DEF FabricState, UnbindWires, PipMap
<1>2. \A w \in Wire : g.wire_to_net[w] = IF w \in W THEN NoNet ELSE f.wire_to_net[w]
  BY DEF UnbindWires
<1>3. \A n \in Net, w \in Wire :
        g.wires[n][w] = IF w \in W THEN NoEntry ELSE f.wires[n][w]
  BY DEF UnbindWires, FabricConsistent, WireMapsAgree, HasWire, FabricState
<1>4. WireMapsAgree(g)
  BY <1>2, <1>3 DEF FabricConsistent, WireMapsAgree, HasWire
<1>5. ASSUME NEW n \in Net, NEW w \in Wire \ W, f.wires[n][w].pip # NoPip
      PROVE  g.pip_to_net[f.wires[n][w].pip] = n
  <2> DEFINE p == f.wires[n][w].pip
  <2>1. p \in Pip /\ PipDst[p] = w /\ f.pip_to_net[p] = n
    BY <1>5 DEF FabricConsistent, DriversBound, FabricState, PipMap, NoEntry
  <2>2. ASSUME NEW v \in W PROVE DrivingPip(f, v) # p
    <3>1. f.wire_to_net[v] \in Net
      BY DEF FabricState
    <3>2. DrivingPip(f, v) = p => PipDst[p] = v
      BY <3>1, <2>1 DEF DrivingPip, FabricConsistent, DriversBound
    <3> QED BY <3>2, <2>1
  <2> QED BY <2>1, <2>2 DEF UnbindWires
<1>6. DriversBound(g)
  BY <1>3, <1>5 DEF FabricConsistent, DriversBound, NoEntry
<1>7. NoPipLeak(g)
  <2> SUFFICES ASSUME NEW p \in Pip, NEW n \in Net, g.pip_to_net[p] = n
               PROVE  g.wires[n][PipDst[p]].pip = p
    BY DEF NoPipLeak
  <2>1. f.pip_to_net[p] = n /\ \A w \in W : DrivingPip(f, w) # p
    BY DEF UnbindWires
  <2>2. f.wires[n][PipDst[p]].pip = p
    BY <2>1 DEF FabricConsistent, NoPipLeak
  <2>3. PipDst[p] \in Wire /\ f.wire_to_net[PipDst[p]] = n
    BY <2>2 DEF FabricConsistent, WireMapsAgree, HasWire, NoEntry, FabricState, PipMap
  <2>4. PipDst[p] \notin W
    BY <2>1, <2>2, <2>3 DEF DrivingPip
  <2> QED BY <1>3, <2>2, <2>3, <2>4
<1> QED BY <1>1, <1>2, <1>3, <1>4, <1>6, <1>7 DEF FabricConsistent
=============================================================================
