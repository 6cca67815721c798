--------------------------- MODULE Router1Proofs ---------------------------
(***************************************************************************)
(* Safety of Router1 for every fabric, netlist and placement.              *)
(***************************************************************************)
EXTENDS Router1Inv, FabricProofs, WellFoundedInduction

-----------------------------------------------------------------------------
(* The walk of setup *)

(* The walk from w contains w and is closed: with every bound wire but the *)
(* source it contains the wire before it (setup).                          *)
LEMMA ChainClosed ==
    ASSUME NEW f \in FabricState, NEW n \in Net, NEW w \in Wire
    PROVE  /\ w \in Chain(f, n, w)
           /\ Chain(f, n, w) \subseteq Wire
           /\ UpClosed(f, n, Chain(f, n, w))
<1>1. w \in Chain(f, n, w) /\ Chain(f, n, w) \subseteq Wire
  BY DEF Chain
<1>2. ASSUME NEW v \in Chain(f, n, w), v # NetSrc[n], HasWire(f, n, v),
             f.wires[n][v].pip # NoPip
      PROVE  PipSrc[f.wires[n][v].pip] \in Chain(f, n, w)
  <2>1. v \in Wire
    BY <1>1
  <2>2. f.wires[n][v].pip \in Pip
    BY <1>2, <2>1 DEF FabricState, PipMap, NoEntry
  <2>3. PipSrc[f.wires[n][v].pip] \in Wire
    BY <2>2, FabricAssumption
  <2>4. ASSUME NEW S \in SUBSET Wire, w \in S, UpClosed(f, n, S)
        PROVE  PipSrc[f.wires[n][v].pip] \in S
    <3>1. v \in S
      BY <1>2, <2>4 DEF Chain
    <3> QED BY <3>1, <2>4, <1>2 DEF UpClosed
  <2> QED BY <2>3, <2>4 DEF Chain
<1> QED BY <1>1, <1>2 DEF UpClosed

(* The walk depends on the wires of its own net only (setup).              *)
LEMMA ChainLocal ==
    ASSUME NEW f, NEW g, NEW n \in Net, NEW w \in Wire,
           \A v \in Wire : g.wires[n][v] = f.wires[n][v]
    PROVE  Chain(g, n, w) = Chain(f, n, w)
<1>1. \A S \in SUBSET Wire : UpClosed(g, n, S) <=> UpClosed(f, n, S)
  BY DEF UpClosed, HasWire
<1> QED BY <1>1 DEF Chain

-----------------------------------------------------------------------------
(* The beginning *)

(* The router starts in a state of the invariant (Router1::Router1).       *)
LEMMA InitInv == Assumptions /\ Init => IInv
<1> SUFFICES ASSUME Assumptions, Init PROVE IInv
  OBVIOUS
<1> USE FabricAssumption, Router1Assumption DEF Init
<1>1. TypeOK
  BY DEF TypeOK
<1>2. ContextCheck /\ MapsInverse /\ TrackedIsBound /\ OnlyRouted
  BY DEF ContextCheck, MapsInverse, TrackedIsBound, OnlyRouted
<1>3. SetupFirst /\ IdleQueue /\ Routing /\ PartlyBound
  BY DEF SetupFirst, IdleQueue, Routing, PartlyBound
<1>4. WholeTodo
  BY DEF WholeTodo, Assumptions, WholePriorRoutings
<1>5. SourcesOwn
  BY DEF SourcesOwn, Assumptions, SourcesReserved, Entered
<1>6. TrackedInv /\ QueueComplete
  BY DEF TrackedInv, QueueComplete
<1> QED BY <1>1, <1>2, <1>3, <1>4, <1>5, <1>6 DEF IInv

-----------------------------------------------------------------------------
(* Steps that leave the fabric and the maps alone *)

(* Passing over a net without a driver (skip_net).                         *)
LEMMA SkipNetStep ==
    ASSUME IInv, NEW n \in Net, SkipNet(n) PROVE IInv'
<1> USE DEF IInv, SkipNet
<1>0. n \in Undriven /\ todo' = todo \ {n} /\ todo' \subseteq todo
  BY DEF skip_net
<1>1. TypeOK' /\ ContextCheck' /\ MapsInverse' /\ TrackedIsBound'
  BY DEF TypeOK, ContextCheck, MapsInverse, TrackedIsBound
<1>2. SetupFirst' /\ IdleQueue' /\ Routing' /\ PartlyBound'
  BY DEF SetupFirst, IdleQueue, Routing, PartlyBound, TypeOK
<1>3. WholeTodo'
  BY <1>0 DEF WholeTodo
<1>4. OnlyRouted'
  BY <1>0 DEF OnlyRouted, IsRouted, RoutedArcs, IsFirstArc, ArcsOf
<1>5. SourcesOwn'
  BY <1>0 DEF SourcesOwn, Entered, skip_net
<1>6. TrackedInv'
  BY <1>0 DEF TrackedInv, skip_net, TypeOK
<1>7. QueueComplete'
  <2> SUFFICES ASSUME NEW m \in (Net \ todo)', NEW a \in RoutedArcs(m)'
               PROVE  a \in queued_arcs' \/ InHand(a)' \/ Settled(a)'
    BY DEF QueueComplete
  <2>1. m # n
    BY <1>0 DEF RoutedArcs, skip_net
  <2>2. m \in Net \ todo /\ a \in RoutedArcs(m)
    BY <2>1, <1>0 DEF RoutedArcs, IsFirstArc, ArcsOf
  <2>3. a \in queued_arcs \/ Settled(a)
    BY <2>2 DEF QueueComplete, InHand
  <2> QED BY <2>3 DEF Settled
<1> QED BY <1>1, <1>2, <1>3, <1>4, <1>5, <1>6, <1>7

(* Giving up on two nets that share an end (log_error in setup).           *)
LEMMA SetupErrorStep ==
    ASSUME IInv, NEW n \in Net, SetupError(n) PROVE IInv'
<1> USE DEF IInv, SetupError
<1>1. TypeOK' /\ ContextCheck' /\ MapsInverse' /\ TrackedIsBound'
  BY DEF TypeOK, ContextCheck, MapsInverse, TrackedIsBound
<1>2. SetupFirst' /\ IdleQueue' /\ Routing' /\ PartlyBound'
  BY DEF SetupFirst, IdleQueue, Routing, PartlyBound
<1>3. WholeTodo' /\ SourcesOwn' /\ TrackedInv'
  BY DEF WholeTodo, SourcesOwn, Entered, TrackedInv
<1>4. OnlyRouted'
  BY DEF OnlyRouted, IsRouted, RoutedArcs, IsFirstArc, ArcsOf
<1>5. QueueComplete'
  BY DEF QueueComplete, InHand, Settled, RoutedArcs, IsFirstArc, ArcsOf
<1> QED BY <1>1, <1>2, <1>3, <1>4, <1>5

(* A pip the search may use is one the net already uses, or its            *)
(* destination can be taken (route_arc, the tests of the search).          *)
LEMMA UsableTakes ==
    ASSUME NEW f, NEW n, NEW p, Usable(f, n, p)
    PROVE  \/ Reused(f, n, p)
           \/ p \notin HardUnavail /\ StrengthOf(f, PipDst[p]) <= STRENGTH_STRONG
BY DEF Usable, CheckPipAvail, CheckWireAvail, PipConflictIsWire, StrengthOf,
       STRENGTH_STRONG

(* The search finds a path (route_arc).                                    *)
LEMMA SearchFindsStep ==
    ASSUME IInv, NEW P \in Paths[Src(arc), sink[arc]], SearchFinds(P)
    PROVE  IInv'
<1> USE DEF IInv, SearchFinds
<1>0. arc \in Arc /\ Src(arc) \in Wire /\ sink[arc] \in Wire
  BY Router1Assumption DEF TypeOK, Src
<1>1. P \subseteq Pip /\ IsPath(P, Src(arc), sink[arc])
  BY <1>0 DEF Paths
<1>2. TypeOK' /\ ContextCheck' /\ MapsInverse' /\ TrackedIsBound'
  BY <1>0, <1>1 DEF TypeOK, ContextCheck, MapsInverse, TrackedIsBound
<1>3. SetupFirst' /\ IdleQueue' /\ WholeTodo' /\ SourcesOwn' /\ TrackedInv'
  BY DEF SetupFirst, IdleQueue, WholeTodo, SourcesOwn, Entered, TrackedInv
<1>4. OnlyRouted' /\ Routing'
  BY DEF OnlyRouted, Routing, IsRouted, RoutedArcs, IsFirstArc, ArcsOf, Src
<1>5. QueueComplete'
  BY DEF QueueComplete, InHand, Settled, RoutedArcs, IsFirstArc, ArcsOf, Src
<1>6. arc_to_wires[arc] = {}
  BY DEF Routing
<1>7. \A q \in P :
        \/ Reused(fab, ArcNet[arc], q)
        \/ q \notin HardUnavail /\ StrengthOf(fab, PipDst[q]) <= STRENGTH_STRONG
  BY UsableTakes
<1>8. PartlyBound'
  BY <1>1, <1>6, <1>7 DEF PartlyBound, Src
<1> QED BY <1>2, <1>3, <1>4, <1>5, <1>8

(* The search fails, or the queue is empty (router1).                      *)
LEMMA ReturnStep ==
    ASSUME IInv, SearchFails \/ Finish PROVE IInv'
<1> USE DEF IInv, SearchFails, Finish
<1>1. TypeOK' /\ ContextCheck' /\ MapsInverse' /\ TrackedIsBound'
  BY DEF TypeOK, ContextCheck, MapsInverse, TrackedIsBound
<1>2. SetupFirst' /\ IdleQueue' /\ WholeTodo' /\ SourcesOwn' /\ TrackedInv'
  BY DEF SetupFirst, IdleQueue, WholeTodo, SourcesOwn, Entered, TrackedInv
<1>3. OnlyRouted' /\ Routing' /\ PartlyBound'
  BY DEF OnlyRouted, Routing, PartlyBound, IsRouted, RoutedArcs, IsFirstArc, ArcsOf
<1>4. QueueComplete'
  BY DEF QueueComplete, InHand, Settled, RoutedArcs, IsFirstArc, ArcsOf
<1> QED BY <1>1, <1>2, <1>3, <1>4

-----------------------------------------------------------------------------
(* Setup *)

(* The wires of an arc whose sink is bound lead to the source, all bound   *)
(* (setup).                                                                *)
LEMMA SetupWiresBound ==
    ASSUME IInv, NEW n \in todo \ Undriven, NEW a \in RoutedArcs(n)
    PROVE  /\ SetupWires(a) \subseteq WiresOf(fab, n)
           /\ \A w \in SetupWires(a) : w # NetSrc[n] =>
                /\ fab.wires[n][w].pip \in Pip
                /\ PipSrc[fab.wires[n][w].pip] \in SetupWires(a)
           /\ \/ SetupWires(a) = {}
              \/ {sink[a], NetSrc[n]} \subseteq SetupWires(a)
<1> USE DEF IInv
<1>1. a \in Arc /\ ArcNet[a] = n /\ n \in Net /\ sink[a] \in Wire
  BY DEF RoutedArcs, ArcsOf, TypeOK
<1>2. CASE ~HasWire(fab, n, sink[a])
  BY <1>1, <1>2 DEF SetupWires
<1>3. CASE HasWire(fab, n, sink[a])
  <2> DEFINE S == Chain(fab, n, sink[a])
  <2>1. SetupWires(a) = S
    BY <1>1, <1>3 DEF SetupWires
  <2>2. WholeChain(fab, n, sink[a])
    BY <1>1, <1>3 DEF WholeTodo
  <2>3. sink[a] \in S /\ S \subseteq Wire /\ UpClosed(fab, n, S)
    BY <1>1, ChainClosed DEF TypeOK
  <2>4. S \subseteq WiresOf(fab, n) /\ NetSrc[n] \in S
    BY <2>2, <2>3 DEF WholeChain, WiresOf
  <2>5. \A w \in S : w # NetSrc[n] => fab.wires[n][w].pip # NoPip
    BY <2>2 DEF WholeChain
  <2>6. \A w \in S : w # NetSrc[n] => PipSrc[fab.wires[n][w].pip] \in S
    BY <2>3, <2>4, <2>5 DEF UpClosed, WiresOf
  <2>7. \A w \in S : w # NetSrc[n] => fab.wires[n][w].pip \in Pip
    BY <2>3, <2>5, <1>1 DEF TypeOK, FabricState, PipMap, NoEntry
  <2> QED BY <2>1, <2>3, <2>4, <2>6, <2>7
<1> QED BY <1>2, <1>3

(* Entering the arcs of a net and unbinding its unused wires (setup).      *)
LEMMA SetupNetStep ==
    ASSUME IInv, NEW n \in Net, SetupNet(n) PROVE IInv'
<1> USE DEF IInv
<1> DEFINE arcs == RoutedArcs(n)
           W == {w \in WiresOf(fab, n) :
                   /\ fab.wires[n][w].strength < STRENGTH_LOCKED
                   /\ wire_to_arcs'[w] = {}}
<1>1. /\ n \in todo \ Undriven /\ todo' = todo \ {n} /\ sink' = sink
      /\ fab' = UnbindWires(fab, W) /\ pc = "setup" /\ pc' \in {"setup", "loop"}
      /\ arcs \subseteq Arc /\ \A a \in arcs : ArcNet[a] = n
  BY DEF SetupNet, skip_net, RoutedArcs, ArcsOf
<1>2. /\ \A w \in Wire, a \in Arc : a \in wire_to_arcs'[w] <=>
            a \in wire_to_arcs[w] \/ (a \in arcs /\ w \in SetupWires(a))
      /\ \A a \in Arc : arc_to_wires'[a] =
            IF a \in arcs THEN SetupWires(a) ELSE arc_to_wires[a]
      /\ \A a \in Arc : a \in queued_arcs' <=>
            a \in queued_arcs \/ (a \in arcs /\ NetSrc[n] \notin SetupWires(a))
  BY <1>1 DEF SetupNet
<1>3. \A w \in W : w \in Wire /\ fab.wire_to_net[w] = n
  BY <1>1 DEF WiresOf, TypeOK, FabricState, ContextCheck, FabricConsistent, WireMapsAgree
<1>4. /\ fab' \in FabricState /\ FabricConsistent(fab')
      /\ \A w \in Wire : fab'.wire_to_net[w] =
            IF w \in W THEN NoNet ELSE fab.wire_to_net[w]
      /\ \A m \in Net, w \in Wire : fab'.wires[m][w] =
            IF w \in W THEN NoEntry ELSE fab.wires[m][w]
  BY <1>1, <1>3, UnbindWiresEffect, FabricAssumption DEF TypeOK, ContextCheck
<1>5. \A a \in arcs : SetupWires(a) \cap W = {} /\ SetupWires(a) \subseteq WiresOf(fab, n)
  BY <1>1, <1>2, SetupWiresBound DEF WiresOf
<1>6. \A a \in Arc \ arcs : arc_to_wires[a] # {} => ArcNet[a] # n
  BY <1>1 DEF OnlyRouted, IsRouted
<1>7. \A a \in arcs : arc_to_wires[a] = {} /\ a \notin queued_arcs
  BY <1>1 DEF OnlyRouted, IsRouted
<1>8. \A a \in Arc : \A w \in arc_to_wires[a] :
        w \in Wire \ W /\ fab'.wires[ArcNet[a]][w] = fab.wires[ArcNet[a]][w]
  <2> TAKE a \in Arc
  <2> TAKE w \in arc_to_wires[a]
  <2>1. ArcNet[a] \in Net /\ ArcNet[a] # n /\ w \in Wire /\ fab.wire_to_net[w] = ArcNet[a]
    BY <1>6, <1>7, Router1Assumption DEF TypeOK, TrackedIsBound
  <2> QED BY <2>1, <1>3, <1>4
<1>9. TypeOK'
  <2>1. wire_to_arcs' \in [Wire -> SUBSET Arc] /\ queued_arcs' \subseteq Arc
    BY <1>1 DEF SetupNet, TypeOK
  <2>2. arc_to_wires' \in [Arc -> SUBSET Wire]
    BY <1>1, <1>5 DEF SetupNet, TypeOK, WiresOf
  <2> QED BY <1>1, <1>4, <2>1, <2>2 DEF TypeOK, SetupNet
<1>10. ContextCheck'
  BY <1>4 DEF ContextCheck
<1>11. MapsInverse'
  BY <1>2, <1>7 DEF MapsInverse
<1>12. TrackedIsBound'
  <2> SUFFICES ASSUME NEW a \in Arc, NEW w \in arc_to_wires'[a]
               PROVE  fab'.wire_to_net[w] = ArcNet[a]
    BY DEF TrackedIsBound
  <2>1. CASE a \in arcs
    <3>1. w \in WiresOf(fab, n) \ W
      BY <2>1, <1>2, <1>5
    <3> QED BY <3>1, <2>1, <1>1, <1>4, SMTT(60)
            DEF WiresOf, ContextCheck, FabricConsistent, WireMapsAgree
  <2>2. CASE a \notin arcs
    BY <2>2, <1>2, <1>4, <1>8 DEF TrackedIsBound
  <2> QED BY <2>1, <2>2
<1>13. SetupFirst' /\ IdleQueue' /\ Routing' /\ PartlyBound'
  BY <1>1 DEF SetupNet, SetupFirst, IdleQueue, Routing, PartlyBound
<1>14. WholeTodo'
  <2> SUFFICES ASSUME NEW a \in Arc, ArcNet[a] \in todo' \ Undriven,
                      HasWire(fab', ArcNet[a], sink[a])
               PROVE  WholeChain(fab', ArcNet[a], sink[a])
    BY <1>1 DEF WholeTodo
  <2> DEFINE m == ArcNet[a]
  <2>1. m \in Net /\ m # n /\ sink[a] \in Wire /\ m \in todo \ Undriven
    BY <1>1, Router1Assumption DEF TypeOK
  <2>2. \A w \in Wire : fab'.wires[m][w] = fab.wires[m][w]
    <3> TAKE w \in Wire
    <3>1. w \in W => fab.wires[m][w] = NoEntry
      BY <2>1, <1>3 DEF ContextCheck, FabricConsistent, WireMapsAgree, HasWire
    <3> QED BY <3>1, <2>1, <1>4
  <2>3. HasWire(fab, m, sink[a])
    BY <2>1, <2>2 DEF HasWire
  <2>4. WholeChain(fab, m, sink[a])
    BY <2>1, <2>3 DEF WholeTodo
  <2>5. Chain(fab', m, sink[a]) = Chain(fab, m, sink[a])
    BY <2>1, <2>2, ChainLocal
  <2>6. Chain(fab, m, sink[a]) \subseteq Wire
    BY DEF Chain
  <2> QED BY <2>2, <2>4, <2>5, <2>6 DEF WholeChain, HasWire
<1>15. OnlyRouted'
  <2>1. \A a \in Arc : IsRouted(a)' <=> IsRouted(a) \/ a \in arcs
    BY <1>1 DEF IsRouted, RoutedArcs, IsFirstArc, ArcsOf
  <2> QED BY <2>1, <1>1, <1>2 DEF OnlyRouted, TypeOK, SetupNet
<1>16. SourcesOwn'
  <2>1. Entered' = Entered \cup {n}
    BY <1>1 DEF Entered, skip_net
  <2>2. \A m \in Entered : NetSrc[m] # NetSrc[n]
    BY DEF SetupNet, EndpointClash
  <2>3. \A m \in Net : NetSrc[m] \in Wire
    BY Router1Assumption
  <2> QED BY <2>1, <2>2, <2>3, <1>4 DEF SourcesOwn
<1>17. TrackedInv'
  <2> SUFFICES ASSUME NEW m \in Net \ todo', NEW w \in Wire,
                      fab'.wire_to_net[w] = m, wire_to_arcs'[w] = {}
               PROVE  skip_net(m) \/ fab'.wires[m][w].strength >= STRENGTH_LOCKED
    BY DEF TrackedInv
  <2>1. w \notin W /\ fab.wire_to_net[w] = m /\ fab'.wires[m][w] = fab.wires[m][w]
    BY <1>4, FabricAssumption
  <2>2. CASE m = n
    <3>1. HasWire(fab, n, w)
      BY <2>1, <2>2 DEF ContextCheck, FabricConsistent, WireMapsAgree
    <3>2. fab.wires[n][w].strength \in Int
      BY <3>1 DEF HasWire, TypeOK, FabricState, PipMap, PlaceStrength
    <3>3. ~(fab.wires[n][w].strength < STRENGTH_LOCKED)
      BY <3>1, <2>1 DEF WiresOf
    <3> QED BY <3>2, <3>3, <2>1, <2>2 DEF STRENGTH_LOCKED
  <2>3. CASE m # n
    <3>1. wire_to_arcs[w] = {}
      BY <1>2 DEF TypeOK
    <3> QED BY <3>1, <2>1, <2>3, <1>1 DEF TrackedInv
  <2> QED BY <2>2, <2>3
<1>18. QueueComplete'
  <2> SUFFICES ASSUME NEW m \in Net \ todo', NEW a \in RoutedArcs(m)'
               PROVE  a \in queued_arcs' \/ Settled(a)'
    BY DEF QueueComplete
  <2>1. a \in RoutedArcs(m) /\ a \in Arc /\ ArcNet[a] = m
    BY <1>1 DEF RoutedArcs, IsFirstArc, ArcsOf
  <2>2. CASE m = n
    <3>1. NetSrc[n] \notin SetupWires(a) => a \in queued_arcs'
      BY <2>1, <2>2, <1>2
    <3>2. ASSUME NetSrc[n] \in SetupWires(a) PROVE Settled(a)'
      <4>1. {sink[a], NetSrc[n]} \subseteq arc_to_wires'[a] /\ arc_to_wires'[a] = SetupWires(a)
        BY <3>2, <2>1, <2>2, <1>1, <1>2, SetupWiresBound
      <4>2. \A w \in SetupWires(a) \ {NetSrc[n]} :
              /\ fab.wires[n][w].pip \in Pip
              /\ PipSrc[fab.wires[n][w].pip] \in SetupWires(a)
              /\ fab'.wires[n][w] = fab.wires[n][w]
        BY <2>1, <2>2, <1>1, <1>4, <1>5, SetupWiresBound, ZenonT(60) DEF WiresOf
      <4>3. \A w \in SetupWires(a) \ {NetSrc[n]} :
              /\ fab'.wires[n][w].pip # NoPip
              /\ PipSrc[fab'.wires[n][w].pip] \in arc_to_wires'[a]
        BY <4>1, <4>2, FabricAssumption
      <4>4. Src(a) = NetSrc[n] /\ ArcNet[a] = n
        BY <2>1, <2>2 DEF Src
      <4>5. Settled(a)' <=>
              /\ {sink[a], Src(a)} \subseteq arc_to_wires'[a]
              /\ \A w \in arc_to_wires'[a] \ {Src(a)} :
                   /\ fab'.wires[ArcNet[a]][w].pip # NoPip
                   /\ PipSrc[fab'.wires[ArcNet[a]][w].pip] \in arc_to_wires'[a]
        BY <1>1 DEF Settled, Src
      <4> QED BY <4>1, <4>3, <4>4, <4>5
    <3> QED BY <3>1, <3>2
  <2>3. CASE m # n
    <3>1. m \in Net \ todo
      BY <2>3, <1>1
    <3>2. a \in queued_arcs \/ Settled(a)
      BY <3>1, <2>1, <1>1 DEF QueueComplete, InHand
    <3>3. arc_to_wires'[a] = arc_to_wires[a]
      BY <2>1, <2>3, <1>1, <1>2
    <3>4. Settled(a) => Settled(a)'
      BY <3>3, <2>1, <1>1, <1>8 DEF Settled, Src
    <3> QED BY <3>2, <3>4, <2>1, <1>2
  <2> QED BY <2>2, <2>3
<1> QED BY <1>9, <1>10, <1>11, <1>12, <1>13, <1>14, <1>15, <1>16, <1>17, <1>18

-----------------------------------------------------------------------------
(* Giving wires up *)

(* Unbinding a set W of tracked wires: the wires of an arc that is tracked *)
(* on none of W stay as they are (unbindWire).                             *)
LEMMA UnbindTracked ==
    ASSUME IInv, NEW W \in SUBSET Wire,
           \A w \in W : wire_to_arcs[w] # {} \/ fab.wire_to_net[w] # NoNet
    PROVE  LET f == UnbindWires(fab, W) IN
           /\ \A w \in W : CanUnbindWire(fab, w)
           /\ f \in FabricState /\ FabricConsistent(f)
           /\ \A w \in Wire : f.wire_to_net[w] =
                 IF w \in W THEN NoNet ELSE fab.wire_to_net[w]
           /\ \A n \in Net, w \in Wire : f.wires[n][w] =
                 IF w \in W THEN NoEntry ELSE fab.wires[n][w]
<1> USE DEF IInv
<1>1. ASSUME NEW w \in W PROVE fab.wire_to_net[w] \in Net
  <2>1. CASE wire_to_arcs[w] # {}
    <3>1. PICK a \in Arc : w \in arc_to_wires[a]
      BY <2>1 DEF TypeOK, MapsInverse
    <3> QED BY <3>1, Router1Assumption DEF TrackedIsBound
  <2>2. CASE wire_to_arcs[w] = {}
    BY <2>2 DEF TypeOK, FabricState
  <2> QED BY <2>1, <2>2
<1>2. \A w \in W : CanUnbindWire(fab, w)
  BY <1>1, FabricAssumption
     DEF CanUnbindWire, ContextCheck, FabricConsistent, WireMapsAgree
<1> QED BY <1>1, <1>2, UnbindWiresEffect, FabricAssumption DEF TypeOK, ContextCheck

(* What the head of route_arc does to the fabric and the maps (route_arc). *)
LEMMA ReleaseEffect ==
    ASSUME IInv, NEW a \in queued_arcs
    PROVE  LET f == UnbindWires(fab, OnlyUser(a)) IN
           /\ a \in Arc /\ ReleaseAsserts(a)
           /\ f \in FabricState /\ FabricConsistent(f)
           /\ \A w \in Wire : f.wire_to_net[w] =
                 IF wire_to_arcs[w] = {a} THEN NoNet ELSE fab.wire_to_net[w]
           /\ \A n \in Net, w \in Wire : f.wires[n][w] =
                 IF wire_to_arcs[w] = {a} THEN NoEntry ELSE fab.wires[n][w]
           /\ WithoutArc(a) \in [Wire -> SUBSET Arc]
           /\ \A w \in Wire : WithoutArc(a)[w] = wire_to_arcs[w] \ {a}
<1> USE DEF IInv
<1>1. a \in Arc
  BY DEF TypeOK
<1>2. OnlyUser(a) \subseteq Wire
  BY <1>1 DEF OnlyUser, TypeOK
<1>3. \A w \in Wire : w \in OnlyUser(a) <=> wire_to_arcs[w] = {a}
  BY <1>1 DEF OnlyUser, MapsInverse
<1>4. \A w \in OnlyUser(a) : wire_to_arcs[w] # {}
  BY DEF OnlyUser
<1>5. ReleaseAsserts(a)
  <2>1. \A w \in arc_to_wires[a] : a \in wire_to_arcs[w]
    BY <1>1 DEF MapsInverse, TypeOK
  <2>2. \A w \in OnlyUser(a) : CanUnbindWire(fab, w)
    BY <1>2, <1>4, UnbindTracked
  <2> QED BY <2>1, <2>2 DEF ReleaseAsserts
<1>6. /\ WithoutArc(a) \in [Wire -> SUBSET Arc]
      /\ \A w \in Wire : WithoutArc(a)[w] = wire_to_arcs[w] \ {a}
  BY <1>1 DEF WithoutArc, TypeOK, MapsInverse
<1> DEFINE f == UnbindWires(fab, OnlyUser(a))
<1>7. /\ f \in FabricState /\ FabricConsistent(f)
      /\ \A w \in Wire : f.wire_to_net[w] =
            IF w \in OnlyUser(a) THEN NoNet ELSE fab.wire_to_net[w]
      /\ \A n \in Net, w \in Wire : f.wires[n][w] =
            IF w \in OnlyUser(a) THEN NoEntry ELSE fab.wires[n][w]
  <2> HIDE DEF IInv
  <2> QED BY <1>2, <1>4, UnbindTracked
<1> HIDE DEF f, IInv
<1> QED BY <1>1, <1>3, <1>5, <1>6, <1>7 DEF f

(* Taking an arc from the queue and releasing its wires (arc_queue_pop,    *)
(* route_arc).                                                             *)
LEMMA ReleaseArcStep ==
    ASSUME IInv, NEW a \in queued_arcs, ReleaseArc(a) PROVE IInv'
<1> USE DEF IInv
<1>1. /\ a \in Arc /\ fab' \in FabricState /\ FabricConsistent(fab')
      /\ \A w \in Wire : fab'.wire_to_net[w] =
            IF wire_to_arcs[w] = {a} THEN NoNet ELSE fab.wire_to_net[w]
      /\ \A n \in Net, w \in Wire : fab'.wires[n][w] =
            IF wire_to_arcs[w] = {a} THEN NoEntry ELSE fab.wires[n][w]
      /\ wire_to_arcs' \in [Wire -> SUBSET Arc]
      /\ \A w \in Wire : wire_to_arcs'[w] = wire_to_arcs[w] \ {a}
  BY ReleaseEffect DEF ReleaseArc
<1>2. /\ arc' = a /\ queued_arcs' = queued_arcs \ {a} /\ pc' = "search"
      /\ sink' = sink /\ todo' = todo /\ todo = {} /\ Src(a) # sink[a]
      /\ arc_to_wires'[a] = {}
      /\ \A b \in Arc \ {a} : arc_to_wires'[b] = arc_to_wires[b]
  BY <1>1 DEF ReleaseArc, SetupFirst, TypeOK
<1>3. IsRouted(a) /\ \A b \in Arc : IsRouted(b)' <=> IsRouted(b)
  BY <1>2 DEF OnlyRouted, IsRouted, RoutedArcs, IsFirstArc, ArcsOf
<1>4. \A b \in Arc \ {a} : \A w \in arc_to_wires[b] :
        w \in Wire /\ wire_to_arcs[w] # {a}
  BY DEF MapsInverse, TypeOK
<1>5. TypeOK'
  BY <1>1, <1>2 DEF TypeOK, ReleaseArc
<1>6. ContextCheck' /\ MapsInverse'
  BY <1>1, <1>2 DEF ContextCheck, MapsInverse
<1>7. TrackedIsBound'
  BY <1>1, <1>2, <1>4 DEF TrackedIsBound
<1>8. SetupFirst' /\ IdleQueue' /\ WholeTodo' /\ PartlyBound'
  BY <1>2 DEF SetupFirst, IdleQueue, WholeTodo, PartlyBound
<1>9. OnlyRouted' /\ Routing'
  <2>1. OnlyRouted'
    BY <1>1, <1>2, <1>3 DEF OnlyRouted, TypeOK
  <2>2. Routing'
    BY <1>2, <1>3 DEF Routing, IsRouted, RoutedArcs, IsFirstArc, ArcsOf, Src
  <2> QED BY <2>1, <2>2
<1>10. SourcesOwn'
  <2>1. Entered' = Entered /\ \A n \in Net : NetSrc[n] \in Wire
    BY <1>2, Router1Assumption DEF Entered
  <2> QED BY <2>1, <1>1 DEF SourcesOwn
<1>11. TrackedInv'
  <2> SUFFICES ASSUME NEW n \in Net, NEW w \in Wire,
                      fab'.wire_to_net[w] = n, wire_to_arcs'[w] = {}
               PROVE  skip_net(n) \/ fab'.wires[n][w].strength >= STRENGTH_LOCKED
    BY <1>2 DEF TrackedInv
  <2>1. wire_to_arcs[w] # {a} /\ fab.wire_to_net[w] = n
    BY <1>1, FabricAssumption
  <2>2. wire_to_arcs[w] = {}
    BY <2>1, <1>1 DEF TypeOK
  <2> QED BY <2>1, <2>2, <1>1, <1>2 DEF TrackedInv
<1>12. QueueComplete'
  <2> SUFFICES ASSUME NEW n \in Net, NEW b \in RoutedArcs(n)', b # a
               PROVE  b \in queued_arcs' \/ Settled(b)'
    BY <1>2 DEF QueueComplete, InHand
  <2>1. b \in RoutedArcs(n) /\ b \in Arc /\ ArcNet[b] \in Net
    BY <1>2, Router1Assumption DEF RoutedArcs, IsFirstArc, ArcsOf
  <2>2. b \in queued_arcs \/ Settled(b)
    BY <2>1, <1>2 DEF QueueComplete, InHand, ReleaseArc
  <2>3. \A w \in arc_to_wires[b] : fab'.wires[ArcNet[b]][w] = fab.wires[ArcNet[b]][w]
    BY <2>1, <1>1, <1>4
  <2>4. Settled(b) => Settled(b)'
    BY <2>1, <2>3, <1>2 DEF Settled, Src
  <2> QED BY <2>2, <2>4, <1>2
<1> QED BY <1>5, <1>6, <1>7, <1>8, <1>9, <1>10, <1>11, <1>12

(* What binding the source wire of an arc does to the fabric (bindWire).   *)
LEMMA BindSourceEffect ==
    ASSUME NEW f \in FabricState, FabricConsistent(f), NEW s \in Wire,
           NEW n \in Net, f.wire_to_net[s] = NoNet
    PROVE  LET g == BindWire(f, s, n, STRENGTH_WEAK) IN
           /\ g \in FabricState /\ FabricConsistent(g)
           /\ \A w \in Wire : g.wire_to_net[w] = IF w = s THEN n ELSE f.wire_to_net[w]
           /\ \A m \in Net, w \in Wire : ~(m = n /\ w = s) =>
                g.wires[m][w] = f.wires[m][w]
           /\ g.wires[n][s] = [pip |-> NoPip, strength |-> STRENGTH_WEAK]
<1>1. STRENGTH_WEAK \in PlaceStrength
  BY DEF STRENGTH_WEAK, PlaceStrength, STRENGTH_USER
<1>2. CanBindWire(f, s)
  BY DEF CanBindWire
<1> DEFINE g == BindWire(f, s, n, STRENGTH_WEAK)
<1>3. g \in FabricState /\ FabricConsistent(g)
  BY <1>1, <1>2, BindWireConsistent
<1>4. \A w \in Wire : g.wire_to_net[w] = IF w = s THEN n ELSE f.wire_to_net[w]
  BY DEF BindWire, FabricState
<1>5. /\ \A m \in Net, w \in Wire : ~(m = n /\ w = s) =>
            g.wires[m][w] = f.wires[m][w]
      /\ g.wires[n][s] = [pip |-> NoPip, strength |-> STRENGTH_WEAK]
  BY DEF BindWire, FabricState
<1> QED BY <1>3, <1>4, <1>5

(* Routing an arc whose source is its sink (route_arc, special case).      *)
LEMMA RouteTrivialArcStep ==
    ASSUME IInv, Assumptions, NEW a \in queued_arcs, RouteTrivialArc(a)
    PROVE  IInv'
<1> USE DEF IInv
<1> DEFINE f == UnbindWires(fab, OnlyUser(a))
           n == ArcNet[a]
           s == Src(a)
<1>1. /\ a \in Arc /\ f \in FabricState /\ FabricConsistent(f)
      /\ \A w \in Wire : f.wire_to_net[w] =
            IF wire_to_arcs[w] = {a} THEN NoNet ELSE fab.wire_to_net[w]
      /\ \A m \in Net, w \in Wire : f.wires[m][w] =
            IF wire_to_arcs[w] = {a} THEN NoEntry ELSE fab.wires[m][w]
      /\ WithoutArc(a) \in [Wire -> SUBSET Arc]
      /\ \A w \in Wire : WithoutArc(a)[w] = wire_to_arcs[w] \ {a}
  BY ReleaseEffect
<1>2. n \in Net /\ s \in Wire /\ s = sink[a]
  BY <1>1, Router1Assumption DEF Src, RouteTrivialArc
<1>3. /\ arc' = a /\ queued_arcs' = queued_arcs \ {a} /\ pc' \in {"loop", "timing"}
      /\ sink' = sink /\ todo' = todo /\ todo = {} /\ s = sink[a]
      /\ arc_to_wires' = [arc_to_wires EXCEPT ![a] = {s}]
      /\ wire_to_arcs' = [WithoutArc(a) EXCEPT ![s] = @ \cup {a}]
      /\ fab' = IF f.wire_to_net[s] = NoNet
                THEN BindWire(f, s, n, STRENGTH_WEAK) ELSE f
  BY <1>1 DEF RouteTrivialArc, SetupFirst, AfterArc, CheckWireAvail
<1>4. /\ \A w \in Wire : wire_to_arcs'[w] =
            IF w = s THEN wire_to_arcs[w] \cup {a} ELSE wire_to_arcs[w] \ {a}
      /\ arc_to_wires'[a] = {s}
      /\ \A b \in Arc \ {a} : arc_to_wires'[b] = arc_to_wires[b]
  BY <1>1, <1>2, <1>3 DEF TypeOK
<1>5. IsRouted(a) /\ \A b \in Arc : IsRouted(b)' <=> IsRouted(b)
  BY <1>3 DEF OnlyRouted, IsRouted, RoutedArcs, IsFirstArc, ArcsOf
<1>6. n \notin Undriven /\ f.wire_to_net[s] \in {NoNet, n}
  BY <1>1, <1>2, <1>5 DEF SourcesOwn, IsRouted, RoutedArcs, skip_net, Src
<1>7. /\ fab' \in FabricState /\ FabricConsistent(fab')
      /\ \A w \in Wire : fab'.wire_to_net[w] =
            IF w = s THEN n ELSE f.wire_to_net[w]
      /\ \A m \in Net, w \in Wire :
            ~(m = n /\ w = s /\ f.wire_to_net[s] = NoNet) =>
            fab'.wires[m][w] = f.wires[m][w]
  <2>1. CASE f.wire_to_net[s] = NoNet
    <3> HIDE DEF f
    <3> QED BY <2>1, <1>1, <1>2, <1>3, BindSourceEffect
  <2>2. CASE f.wire_to_net[s] = n
    <3>1. fab' = f
      BY <2>2, <1>2, <1>3, FabricAssumption
    <3> QED BY <3>1, <2>2, <1>1, <1>2, FabricAssumption
  <2> QED BY <2>1, <2>2, <1>6
<1> HIDE DEF f
<1>8. \A b \in Arc \ {a} : \A w \in arc_to_wires[b] :
        /\ w \in Wire /\ wire_to_arcs[w] # {a}
        /\ fab'.wire_to_net[w] = fab.wire_to_net[w]
        /\ \A m \in Net : fab'.wires[m][w] = fab.wires[m][w]
  <2> TAKE b \in Arc \ {a}
  <2> TAKE w \in arc_to_wires[b]
  <2>1. w \in Wire /\ wire_to_arcs[w] # {a} /\ fab.wire_to_net[w] \in Net
    BY Router1Assumption DEF MapsInverse, TypeOK, TrackedIsBound
  <2>2. f.wire_to_net[w] = fab.wire_to_net[w] /\ f.wire_to_net[w] # NoNet
    BY <2>1, <1>1, FabricAssumption
  <2>3. w = s => f.wire_to_net[w] = n
    BY <2>2, <1>6
  <2> QED BY <2>1, <2>2, <2>3, <1>1, <1>7
<1>9. TypeOK'
  <2>1. arc_to_wires' \in [Arc -> SUBSET Wire]
    BY <1>2, <1>3 DEF TypeOK
  <2>2. wire_to_arcs' \in [Wire -> SUBSET Arc]
    BY <1>1, <1>2, <1>3
  <2> QED BY <2>1, <2>2, <1>1, <1>3, <1>7 DEF TypeOK, RouteTrivialArc
<1>10. ContextCheck' /\ MapsInverse'
  <2>1. \A w \in Wire : a \in wire_to_arcs'[w] <=> w \in arc_to_wires'[a]
    BY <1>1, <1>4, ZenonT(60)
  <2>2. \A w \in Wire, b \in Arc \ {a} :
          b \in wire_to_arcs'[w] <=> w \in arc_to_wires'[b]
    <3> TAKE w \in Wire, b \in Arc \ {a}
    <3>1. b \in wire_to_arcs'[w] <=> b \in wire_to_arcs[w]
      BY <1>4
    <3>2. arc_to_wires'[b] = arc_to_wires[b]
      BY <1>4
    <3> QED BY <3>1, <3>2 DEF MapsInverse
  <2>3. MapsInverse'
    BY <2>1, <2>2 DEF MapsInverse
  <2> QED BY <2>3, <1>7 DEF ContextCheck
<1>11. TrackedIsBound'
  BY <1>2, <1>4, <1>7, <1>8 DEF TrackedIsBound
<1>12. SetupFirst' /\ IdleQueue' /\ WholeTodo' /\ PartlyBound'
  BY <1>3 DEF SetupFirst, IdleQueue, WholeTodo, PartlyBound, RouteTrivialArc, AfterArc
<1>13. OnlyRouted' /\ Routing'
  BY <1>3, <1>4, <1>5 DEF OnlyRouted, Routing, TypeOK
<1>14. SourcesOwn'
  <2>1. Entered' = Entered /\ \A m \in Net : NetSrc[m] \in Wire
    BY <1>3, Router1Assumption DEF Entered
  <2>2. \A m \in Net \ Undriven : NetSrc[m] = s => m = n
    BY <1>2, <1>3, <1>6 DEF SourcesOwn, Entered, skip_net, Src
  <2>3. \A m \in Net \ Undriven : fab'.wire_to_net[NetSrc[m]] \in {NoNet, m}
    <3> TAKE m \in Net \ Undriven
    <3>1. fab.wire_to_net[NetSrc[m]] \in {NoNet, m}
      BY DEF SourcesOwn
    <3> QED BY <3>1, <2>1, <2>2, <1>1, <1>7
  <2> QED BY <2>1, <2>3 DEF SourcesOwn
<1>15. TrackedInv'
  <2> SUFFICES ASSUME NEW m \in Net, NEW w \in Wire,
                      fab'.wire_to_net[w] = m, wire_to_arcs'[w] = {}
               PROVE  skip_net(m) \/ fab'.wires[m][w].strength >= STRENGTH_LOCKED
    BY <1>3 DEF TrackedInv
  <2>1. w # s /\ wire_to_arcs[w] \ {a} = {}
    BY <1>4
  <2>2. wire_to_arcs[w] # {a} /\ fab.wire_to_net[w] = m
    BY <2>1, <1>1, <1>7, FabricAssumption
  <2>3. wire_to_arcs[w] = {} /\ fab'.wires[m][w] = fab.wires[m][w]
    BY <2>1, <2>2, <1>1, <1>7
  <2> QED BY <2>2, <2>3, <1>3 DEF TrackedInv
<1>16. QueueComplete'
  <2> SUFFICES ASSUME NEW m \in Net, NEW b \in RoutedArcs(m)'
               PROVE  b \in queued_arcs' \/ Settled(b)'
    BY <1>3 DEF QueueComplete
  <2>1. b \in RoutedArcs(m) /\ b \in Arc /\ ArcNet[b] \in Net
    BY <1>3, Router1Assumption DEF RoutedArcs, IsFirstArc, ArcsOf
  <2>2. CASE b = a
    BY <2>2, <1>2, <1>3, <1>4 DEF Settled, Src
  <2>3. CASE b # a
    <3>1. b \in queued_arcs \/ Settled(b)
      BY <2>1, <1>3 DEF QueueComplete, InHand, RouteTrivialArc
    <3>2. \A w \in arc_to_wires[b] :
            fab'.wires[ArcNet[b]][w] = fab.wires[ArcNet[b]][w]
      BY <2>1, <2>3, <1>8
    <3>3. Settled(b) => Settled(b)'
      BY <2>1, <2>3, <3>2, <1>3, <1>4 DEF Settled, Src
    <3> QED BY <3>1, <3>3, <2>3, <1>3
  <2> QED BY <2>2, <2>3
<1> QED BY <1>9, <1>10, <1>11, <1>12, <1>13, <1>14, <1>15, <1>16

-----------------------------------------------------------------------------
(* Binding the path *)

(* What binding a pip does to a fabric whose destination wire is free      *)
(* (bindPip).                                                              *)
LEMMA BindPipEffect ==
    ASSUME NEW f \in FabricState, FabricConsistent(f), NEW p \in Pip,
           NEW n \in Net, f.wire_to_net[PipDst[p]] = NoNet
    PROVE  LET g == BindPip(f, p, n, STRENGTH_WEAK)
               c == PipDst[p]
           IN
           /\ g \in FabricState /\ FabricConsistent(g)
           /\ \A w \in Wire : g.wire_to_net[w] = IF w = c THEN n ELSE f.wire_to_net[w]
           /\ \A m \in Net, w \in Wire : ~(m = n /\ w = c) =>
                g.wires[m][w] = f.wires[m][w]
           /\ g.wires[n][c] = [pip |-> p, strength |-> STRENGTH_WEAK]
<1> DEFINE g == BindPip(f, p, n, STRENGTH_WEAK)
           c == PipDst[p]
<1> USE FabricAssumption
<1>1. STRENGTH_WEAK \in PlaceStrength /\ c \in Wire
  BY DEF STRENGTH_WEAK, PlaceStrength, STRENGTH_USER
<1>2. \A m \in Net : f.wires[m][c] = NoEntry
  BY <1>1 DEF FabricConsistent, WireMapsAgree, HasWire
<1>3. CanBindPip(f, p, n)
  <2>1. f.pip_to_net[p] \in Net \cup {NoNet}
    BY DEF FabricState
  <2>2. \A m \in Net : f.pip_to_net[p] # m
    BY <1>2 DEF FabricConsistent, NoPipLeak, NoEntry
  <2> QED BY <2>1, <2>2 DEF CanBindPip
<1>4. f.wires[n][c].pip = NoPip
  BY <1>2 DEF NoEntry
<1>5. g \in FabricState /\ FabricConsistent(g)
  BY <1>1, <1>3, <1>4, BindPipConsistent
<1>6. \A w \in Wire : g.wire_to_net[w] = IF w = c THEN n ELSE f.wire_to_net[w]
  BY <1>1 DEF BindPip, FabricState
<1>7. /\ \A m \in Net, w \in Wire : ~(m = n /\ w = c) =>
            g.wires[m][w] = f.wires[m][w]
      /\ g.wires[n][c] = [pip |-> p, strength |-> STRENGTH_WEAK]
  BY <1>1 DEF BindPip, FabricState
<1> QED BY <1>5, <1>6, <1>7

(* Where the cursor is on the path: it is the source exactly when no pip   *)
(* of the path ends in it, and the next wire is new (route_arc, the bind   *)
(* loop).                                                                  *)
LEMMA CursorOnPath ==
    ASSUME IInv, pc = "bind"
    PROVE  /\ cursor = Src(arc) <=> VisitedPip = NoPip
           /\ VisitedPip # NoPip =>
                /\ VisitedPip \in route /\ VisitedPip \in Pip
                /\ PipDst[VisitedPip] = cursor
                /\ PipSrc[VisitedPip] \notin arc_to_wires[arc] \cup {cursor}
                /\ \A q \in route : PipDst[q] = cursor => q = VisitedPip
<1> USE FabricAssumption DEF IInv
<1> DEFINE d == arc_to_wires[arc]
           v == VisitedPip
<1>1. /\ IsPath(route, Src(arc), sink[arc]) /\ cursor \notin d
      /\ IF d = {} THEN cursor = sink[arc]
         ELSE \E q \in route : PipDst[q] \in d /\ PipSrc[q] = cursor
      /\ \A w \in d \ {sink[arc]} :
           \E q \in route : PipDst[q] \in d /\ PipSrc[q] = w
      /\ route \subseteq Pip
  BY DEF PartlyBound, TypeOK
<1>2. /\ \A p, q \in route : PipSrc[p] = PipSrc[q] \/ PipDst[p] = PipDst[q] => p = q
      /\ Src(arc) \notin Dests(route) /\ sink[arc] \in Dests(route)
      /\ sink[arc] \notin Sources(route)
      /\ Sources(route) \ {Src(arc)} = Dests(route) \ {sink[arc]}
  BY <1>1 DEF IsPath
<1>3. v # NoPip => v \in route /\ PipDst[v] = cursor
  BY DEF VisitedPip
<1>4. v = NoPip => cursor \notin Dests(route)
  BY <1>1 DEF VisitedPip, Dests
<1>5. cursor = sink[arc] \/ cursor \in Sources(route)
  BY <1>1 DEF Sources
<1>6. cursor = Src(arc) <=> v = NoPip
  <2>1. v = NoPip => cursor = Src(arc)
    BY <1>2, <1>4, <1>5
  <2>2. v # NoPip => cursor # Src(arc)
    BY <1>2, <1>3 DEF Dests
  <2> QED BY <2>1, <2>2
<1>7. ASSUME v # NoPip PROVE PipSrc[v] \notin d \cup {cursor}
  <2>1. v \in route /\ PipDst[v] = cursor /\ PipSrc[v] \in Sources(route)
    BY <1>3, <1>7 DEF Sources
  <2>2. PipSrc[v] # sink[arc]
    BY <2>1, <1>2
  <2>3. ASSUME PipSrc[v] \in d PROVE FALSE
    <3>1. PICK q \in route : PipDst[q] \in d /\ PipSrc[q] = PipSrc[v]
      BY <2>2, <2>3, <1>1
    <3>2. q = v
      BY <3>1, <2>1, <1>2
    <3> QED BY <3>1, <3>2, <2>1, <1>1
  <2>4. ASSUME PipSrc[v] = cursor PROVE FALSE
    <3>1. d # {}
      BY <2>2, <2>4, <1>1
    <3>2. PICK q \in route : PipDst[q] \in d /\ PipSrc[q] = PipSrc[v]
      BY <3>1, <2>4, <1>1
    <3>3. q = v
      BY <3>2, <2>1, <1>2
    <3> QED BY <3>2, <3>3, <2>1, <1>1
  <2> QED BY <2>3, <2>4
<1>8. v # NoPip => \A q \in route : PipDst[q] = cursor => q = v
  BY <1>2, <1>3
<1> QED BY <1>1, <1>3, <1>6, <1>7, <1>8

(* What one turn of the bind loop does to the fabric: the cursor, and only *)
(* the cursor, ends up bound to the net of the arc through the pip of the  *)
(* path, whoever held it before (route_arc, ripup_wire, bindPip).          *)
LEMMA BindStepEffect ==
    ASSUME IInv, BindStep
    PROVE  LET n == ArcNet[arc] IN
           /\ arc \in Arc /\ n \in Net /\ cursor \in Wire
           /\ fab' \in FabricState /\ FabricConsistent(fab')
           /\ \A w \in Wire : fab'.wire_to_net[w] =
                 IF w = cursor THEN n ELSE fab.wire_to_net[w]
           /\ \A m \in Net, w \in Wire \ {cursor} :
                 fab'.wires[m][w] = fab.wires[m][w]
           /\ fab'.wires[n][cursor].pip = VisitedPip
           /\ ~NeedsBinding => fab' = fab
           /\ NeedsBinding /\ Ripped = {} => wire_to_arcs[cursor] = {}
<1> USE FabricAssumption DEF IInv
<1> DEFINE n == ArcNet[arc]
           c == cursor
           v == VisitedPip
           f == UnbindWires(fab, Ripped)
<1>1. arc \in Arc /\ n \in Net /\ c \in Wire /\ fab \in FabricState /\ FabricConsistent(fab)
  BY Router1Assumption DEF TypeOK, ContextCheck
<1>2. pc = "bind" /\ Ripped \in SUBSET Wire
  BY <1>1 DEF BindStep, Ripped
<1>3. v # NoPip => v \in Pip /\ PipDst[v] = c
  BY <1>2, CursorOnPath
<1>4. CASE ~NeedsBinding
  <2>1. HasWire(fab, n, c) /\ fab.wires[n][c].pip = v /\ fab' = fab
    BY <1>4 DEF NeedsBinding, BindStep
  <2>2. fab.wire_to_net[c] = n
    BY <2>1, <1>1 DEF FabricConsistent, WireMapsAgree
  <2> QED BY <2>1, <2>2, <1>1, <1>4
<1>5. CASE NeedsBinding
  <2>1. \A w \in Ripped : w = c /\ fab.wire_to_net[w] # NoNet
    BY DEF Ripped, CheckWireAvail
  <2>2. /\ f \in FabricState /\ FabricConsistent(f)
        /\ \A w \in Wire : f.wire_to_net[w] =
              IF w \in Ripped THEN NoNet ELSE fab.wire_to_net[w]
        /\ \A m \in Net, w \in Wire : f.wires[m][w] =
              IF w \in Ripped THEN NoEntry ELSE fab.wires[m][w]
    BY <2>1, <1>2, UnbindTracked
  <2>3. f.wire_to_net[c] = NoNet
    BY <2>2, <1>1, <1>5 DEF Ripped, CheckWireAvail
  <2>4. Ripped = {} => wire_to_arcs[c] = {}
    <3>1. Ripped = {} => fab.wire_to_net[c] = NoNet
      BY <1>5 DEF Ripped, CheckWireAvail
    <3>2. \A a \in wire_to_arcs[c] : fab.wire_to_net[c] \in Net
      BY <1>1, Router1Assumption DEF TypeOK, MapsInverse, TrackedIsBound
    <3> QED BY <3>1, <3>2
  <2>5. fab' = IF v = NoPip THEN BindWire(f, c, n, STRENGTH_WEAK)
               ELSE BindPip(f, v, n, STRENGTH_WEAK)
    BY <1>5 DEF BindStep
  <2> HIDE DEF f
  <2>6. CASE v = NoPip
    <3>1. /\ fab' \in FabricState /\ FabricConsistent(fab')
          /\ \A w \in Wire : fab'.wire_to_net[w] =
                IF w = c THEN n ELSE f.wire_to_net[w]
          /\ \A m \in Net, w \in Wire : ~(m = n /\ w = c) =>
                fab'.wires[m][w] = f.wires[m][w]
          /\ fab'.wires[n][c].pip = NoPip
      BY <2>2, <2>3, <2>5, <2>6, <1>1, BindSourceEffect
    <3> QED BY <3>1, <2>1, <2>2, <2>4, <2>6, <1>1, <1>5
  <2>7. CASE v # NoPip
    <3>1. /\ fab' \in FabricState /\ FabricConsistent(fab')
          /\ \A w \in Wire : fab'.wire_to_net[w] =
                IF w = c THEN n ELSE f.wire_to_net[w]
          /\ \A m \in Net, w \in Wire : ~(m = n /\ w = c) =>
                fab'.wires[m][w] = f.wires[m][w]
          /\ fab'.wires[n][c].pip = v
      <4>1. v \in Pip /\ PipDst[v] = c /\ f.wire_to_net[PipDst[v]] = NoNet
        BY <2>3, <2>7, <1>3
      <4>2. fab' = BindPip(f, v, n, STRENGTH_WEAK)
        BY <2>5, <2>7
      <4>3. /\ fab' \in FabricState /\ FabricConsistent(fab')
            /\ \A w \in Wire : fab'.wire_to_net[w] =
                  IF w = PipDst[v] THEN n ELSE f.wire_to_net[w]
            /\ \A m \in Net, w \in Wire : ~(m = n /\ w = PipDst[v]) =>
                  fab'.wires[m][w] = f.wires[m][w]
            /\ fab'.wires[n][PipDst[v]] = [pip |-> v, strength |-> STRENGTH_WEAK]
        BY <4>1, <4>2, <2>2, <1>1, BindPipEffect
      <4> QED BY <4>1, <4>3
    <3> QED BY <3>1, <2>1, <2>2, <2>4, <2>7, <1>1, <1>5
  <2> QED BY <2>6, <2>7
<1> QED BY <1>4, <1>5

(* One turn of the bind loop keeps the invariant (route_arc).              *)
LEMMA BindStepStep ==
    ASSUME IInv, Assumptions, BindStep PROVE IInv'
<1> USE DEF IInv
<1> DEFINE n == ArcNet[arc]
           c == cursor
           d == arc_to_wires[arc]
           v == VisitedPip
<1>1. /\ arc \in Arc /\ n \in Net /\ c \in Wire
      /\ fab' \in FabricState /\ FabricConsistent(fab')
      /\ \A w \in Wire : fab'.wire_to_net[w] =
            IF w = c THEN n ELSE fab.wire_to_net[w]
      /\ \A m \in Net, w \in Wire \ {c} :
            fab'.wires[m][w] = fab.wires[m][w]
      /\ fab'.wires[n][c].pip = v
      /\ ~NeedsBinding => fab' = fab
      /\ NeedsBinding /\ Ripped = {} => wire_to_arcs[c] = {}
  BY BindStepEffect
<1>2. /\ pc = "bind" /\ arc' = arc /\ sink' = sink /\ todo' = todo /\ todo = {}
      /\ route' = route /\ IsRouted(arc) /\ arc \notin queued_arcs
      /\ Src(arc) # sink[arc] /\ c \notin d
      /\ n \notin Undriven
  BY <1>1 DEF BindStep, Routing, PartlyBound, SetupFirst, IsRouted, RoutedArcs, skip_net
<1>3. /\ c = Src(arc) <=> v = NoPip
      /\ v # NoPip =>
           /\ v \in route /\ v \in Pip /\ PipDst[v] = c
           /\ PipSrc[v] \notin d \cup {c}
           /\ \A q \in route : PipDst[q] = c => q = v
  BY <1>2, CursorOnPath
<1>4. Ripped \subseteq {c} /\ (~NeedsBinding => Ripped = {})
  BY DEF Ripped
<1>5. /\ Victims(Ripped) = IF Ripped = {} THEN {} ELSE wire_to_arcs[c]
      /\ arc \notin wire_to_arcs[c]
  BY <1>1, <1>2, <1>4 DEF Victims, MapsInverse
<1>6. /\ queued_arcs' = queued_arcs \cup Victims(Ripped)
      /\ \A w \in Wire \ {c} : wire_to_arcs'[w] = wire_to_arcs[w]
      /\ wire_to_arcs'[c] = (IF Ripped = {} THEN wire_to_arcs[c] ELSE {}) \cup {arc}
      /\ arc_to_wires'[arc] = d \cup {c}
      /\ \A b \in Arc \ {arc} : arc_to_wires'[b] = arc_to_wires[b] \ Ripped
  <2>1. \A w \in Wire : wire_to_arcs'[w] =
           (IF w \in Ripped THEN {} ELSE wire_to_arcs[w])
           \cup (IF w = c THEN {arc} ELSE {})
    BY DEF BindStep
  <2>2. \A b \in Arc : arc_to_wires'[b] =
           (IF b \in Victims(Ripped) THEN arc_to_wires[b] \ Ripped
                                     ELSE arc_to_wires[b])
           \cup (IF b = arc THEN {c} ELSE {})
    BY DEF BindStep
  <2>3. \A b \in Arc : c \in arc_to_wires[b] /\ Ripped # {} => b \in Victims(Ripped)
    BY <1>1, <1>5 DEF MapsInverse
  <2>4. \A b \in Arc : b \notin Victims(Ripped) => arc_to_wires[b] = arc_to_wires[b] \ Ripped
    BY <2>3, <1>4
  <2>5. \A w \in Wire \ {c} : wire_to_arcs'[w] = wire_to_arcs[w]
    BY <2>1, <1>4
  <2>6. wire_to_arcs'[c] = (IF Ripped = {} THEN wire_to_arcs[c] ELSE {}) \cup {arc}
    <3>1. c \in Ripped <=> Ripped # {}
      BY <1>4
    <3> QED BY <3>1, <2>1, <1>1
  <2>7. arc_to_wires'[arc] = d \cup {c}
    BY <2>2, <1>1, <1>5
  <2>8. \A b \in Arc \ {arc} : arc_to_wires'[b] = arc_to_wires[b] \ Ripped
    BY <2>2, <2>4
  <2>9. queued_arcs' = queued_arcs \cup Victims(Ripped)
    BY DEF BindStep
  <2> QED BY <2>5, <2>6, <2>7, <2>8, <2>9
<1>7. IF v = NoPip THEN pc' \in {"loop", "timing"} /\ cursor' = c
      ELSE pc' = "bind" /\ cursor' = PipSrc[v]
  BY DEF BindStep, AfterArc
<1>8. \A b \in Arc \ {arc} : \A w \in arc_to_wires'[b] :
        /\ w \in Wire /\ w \in arc_to_wires[b]
        /\ fab'.wire_to_net[w] = fab.wire_to_net[w]
        /\ \A m \in Net : fab'.wires[m][w] = fab.wires[m][w]
  <2> TAKE b \in Arc \ {arc}
  <2> TAKE w \in arc_to_wires'[b]
  <2>1. w \in arc_to_wires[b] \ Ripped /\ w \in Wire
    BY <1>6 DEF TypeOK
  <2>2. w = c => ~NeedsBinding
    <3>1. w = c => Ripped = {} /\ wire_to_arcs[c] # {}
      BY <2>1, <1>4 DEF MapsInverse
    <3> QED BY <3>1, <1>1
  <2> QED BY <2>1, <2>2, <1>1
<1>9. \A b \in Arc : IsRouted(b)' <=> IsRouted(b)
  BY <1>2 DEF IsRouted, RoutedArcs, IsFirstArc, ArcsOf
<1>10. TypeOK'
  <2>1. queued_arcs' \subseteq Arc
    BY <1>1, <1>5, <1>6 DEF TypeOK
  <2>2. wire_to_arcs' \in [Wire -> SUBSET Arc]
    BY <1>1, <1>4 DEF BindStep, TypeOK
  <2>3. arc_to_wires' \in [Arc -> SUBSET Wire]
    BY <1>1, <1>4 DEF BindStep, TypeOK
  <2>4. cursor' \in Wire /\ pc' \in {"loop", "timing", "bind"}
    BY <1>1, <1>3, <1>7, FabricAssumption
  <2> QED BY <2>1, <2>2, <2>3, <2>4, <1>1 DEF TypeOK, BindStep
<1>11. ContextCheck'
  BY <1>1 DEF ContextCheck
<1>12. MapsInverse'
  <2> SUFFICES ASSUME NEW w \in Wire, NEW b \in Arc
               PROVE  b \in wire_to_arcs'[w] <=> w \in arc_to_wires'[b]
    BY DEF MapsInverse
  <2>1. b \in wire_to_arcs[w] <=> w \in arc_to_wires[b]
    BY DEF MapsInverse
  <2>2. CASE w # c
    BY <2>1, <2>2, <1>4, <1>6
  <2>3. CASE w = c /\ b = arc
    BY <2>3, <1>6
  <2>4. CASE w = c /\ b # arc
    <3>1. c \in Ripped <=> Ripped # {}
      BY <1>4
    <3> QED BY <3>1, <2>1, <2>4, <1>6
  <2> QED BY <2>2, <2>3, <2>4
<1>13. TrackedIsBound'
  <2> SUFFICES ASSUME NEW b \in Arc, NEW w \in arc_to_wires'[b]
               PROVE  fab'.wire_to_net[w] = ArcNet[b]
    BY DEF TrackedIsBound
  <2>1. CASE b = arc
    <3>1. w = c \/ (w \in d /\ w \in Wire)
      BY <2>1, <1>6 DEF TypeOK
    <3> QED BY <3>1, <2>1, <1>1, <1>2 DEF TrackedIsBound
  <2>2. CASE b # arc
    BY <2>2, <1>8 DEF TrackedIsBound
  <2> QED BY <2>1, <2>2
<1>14. SetupFirst' /\ IdleQueue' /\ WholeTodo'
  BY <1>2 DEF SetupFirst, IdleQueue, WholeTodo, BindStep, AfterArc
<1>15. OnlyRouted'
  <2>1. \A b \in Victims(Ripped) : b \in Arc /\ IsRouted(b)
    BY <1>1, <1>5 DEF OnlyRouted, MapsInverse, TypeOK
  <2>2. \A b \in Arc : arc_to_wires'[b] # {} => b = arc \/ arc_to_wires[b] # {}
    BY <1>6
  <2> QED BY <2>1, <2>2, <1>2, <1>6, <1>9 DEF OnlyRouted, TypeOK
<1>16. SourcesOwn'
  <2>1. Entered' = Entered /\ \A m \in Net : NetSrc[m] \in Wire
    BY <1>2, Router1Assumption DEF Entered
  <2>2. \A m \in Net \ Undriven : fab'.wire_to_net[NetSrc[m]] \in {NoNet, m}
    <3> TAKE m \in Net \ Undriven
    <3>1. fab.wire_to_net[NetSrc[m]] \in {NoNet, m}
      BY DEF SourcesOwn
    <3>2. CASE NetSrc[m] # c
      BY <3>1, <3>2, <2>1, <1>1
    <3>3. CASE NetSrc[m] = c /\ v = NoPip
      <4>1. NetSrc[m] = NetSrc[n]
        BY <3>3, <1>3 DEF Src
      <4>2. m = n
        BY <4>1, <1>1, <1>2 DEF SourcesOwn, Entered, skip_net
      <4> QED BY <4>2, <3>3, <1>1
    <3>4. CASE NetSrc[m] = c /\ v # NoPip
      <4>1. v \in route \cap HardUnavail
        BY <3>4, <1>3 DEF Assumptions, SourcesReserved
      <4>2. Reused(fab, n, v)
        BY <4>1, <1>2 DEF PartlyBound
      <4>3. fab' = fab
        BY <4>2, <3>4, <1>1, <1>3 DEF Reused, NeedsBinding
      <4> QED BY <4>3, <3>1
    <3> QED BY <3>2, <3>3, <3>4
  <2> QED BY <2>1, <2>2 DEF SourcesOwn
<1>17. TrackedInv'
  <2> SUFFICES ASSUME NEW m \in Net, NEW w \in Wire,
                      fab'.wire_to_net[w] = m, wire_to_arcs'[w] = {}
               PROVE  skip_net(m) \/ fab'.wires[m][w].strength >= STRENGTH_LOCKED
    BY <1>2 DEF TrackedInv
  <2>1. w # c
    BY <1>6
  <2> QED BY <2>1, <1>1, <1>2, <1>6 DEF TrackedInv
<1>18. QueueComplete'
  <2> SUFFICES ASSUME NEW m \in Net, NEW b \in RoutedArcs(m)'
               PROVE  b \in queued_arcs' \/ InHand(b)' \/ Settled(b)'
    BY <1>2 DEF QueueComplete
  <2>1. b \in RoutedArcs(m) /\ b \in Arc /\ ArcNet[b] \in Net
    BY <1>2, Router1Assumption DEF RoutedArcs, IsFirstArc, ArcsOf
  <2>2. CASE b = arc /\ v # NoPip
    BY <2>2, <1>2, <1>7 DEF InHand
  <2>3. CASE b = arc /\ v = NoPip
    <3>1. c = Src(arc) /\ d # {} /\ sink[arc] \in d
      BY <2>3, <1>2, <1>3 DEF PartlyBound
    <3>2. \A w \in d : /\ fab'.wires[n][w].pip \in route
                       /\ PipSrc[fab'.wires[n][w].pip] \in d \cup {c}
      <4> TAKE w \in d
      <4>1. w \in Wire \ {c}
        BY <1>1, <1>2 DEF TypeOK
      <4> QED BY <4>1, <1>1, <1>2 DEF PartlyBound
    <3>3. \A q \in route : q # NoPip
      BY FabricAssumption DEF TypeOK
    <3> QED BY <3>1, <3>2, <3>3, <2>3, <1>2, <1>6 DEF Settled, Src
  <2>4. CASE b # arc
    <3>1. b \in queued_arcs \/ Settled(b)
      BY <2>1, <2>4, <1>2 DEF QueueComplete, InHand
    <3>2. CASE b \in Victims(Ripped)
      BY <3>2, <1>6
    <3>3. CASE b \notin Victims(Ripped)
      <4>1. arc_to_wires'[b] = arc_to_wires[b]
        <5>1. Ripped = {} \/ c \notin arc_to_wires[b]
          BY <3>3, <2>1, <1>1, <1>5 DEF MapsInverse
        <5>2. arc_to_wires'[b] = arc_to_wires[b] \ Ripped
          BY <2>1, <2>4, <1>6
        <5>3. arc_to_wires[b] \cap Ripped = {}
          BY <5>1, <1>4
        <5> QED BY <5>2, <5>3
      <4>2. Settled(b) => Settled(b)'
        BY <4>1, <2>1, <2>4, <1>2, <1>8 DEF Settled, Src
      <4> QED BY <4>2, <3>1, <1>6
    <3> QED BY <3>2, <3>3
  <2> QED BY <2>2, <2>3, <2>4
<1>19. Routing'
  <2>1. arc \notin queued_arcs'
    BY <1>2, <1>5, <1>6
  <2> QED BY <2>1, <1>2, <1>7, <1>9 DEF Routing, IsRouted, RoutedArcs, IsFirstArc, ArcsOf, Src
<1>20. PartlyBound'
  <2> SUFFICES ASSUME v # NoPip PROVE PartlyBound'
    BY <1>7 DEF PartlyBound
  <2>1. /\ pc' = "bind" /\ cursor' = PipSrc[v] /\ cursor' \notin arc_to_wires'[arc]
        /\ v \in route /\ PipDst[v] = c /\ c \in arc_to_wires'[arc]
        /\ d \subseteq arc_to_wires'[arc]
    BY <1>3, <1>6, <1>7
  <2>2. sink[arc] \in arc_to_wires'[arc]
    BY <1>2, <1>6 DEF PartlyBound
  <2>3. \A w \in arc_to_wires'[arc] :
          /\ fab'.wires[n][w].pip \in route
          /\ PipSrc[fab'.wires[n][w].pip] \in arc_to_wires'[arc] \cup {cursor'}
          /\ w # sink[arc] => \E q \in route : PipDst[q] \in arc_to_wires'[arc]
                                               /\ PipSrc[q] = w
    <3> TAKE w \in arc_to_wires'[arc]
    <3>1. CASE w = c
      <4>1. c # sink[arc] => \E q \in route : PipDst[q] \in d /\ PipSrc[q] = c
        BY <1>2 DEF PartlyBound
      <4> QED BY <4>1, <3>1, <2>1, <1>1
    <3>2. CASE w # c
      <4>1. w \in d /\ w \in Wire \ {c}
        BY <3>2, <1>1, <1>6 DEF TypeOK
      <4>2. fab'.wires[n][w] = fab.wires[n][w]
        BY <4>1, <1>1
      <4>3. /\ fab.wires[n][w].pip \in route
            /\ PipSrc[fab.wires[n][w].pip] \in d \cup {c}
            /\ w # sink[arc] => \E q \in route : PipDst[q] \in d /\ PipSrc[q] = w
        BY <4>1, <1>2 DEF PartlyBound
      <4> QED BY <4>2, <4>3, <2>1
    <3> QED BY <3>1, <3>2
  <2>4. \A q \in route :
          \/ Reused(fab', n, q)
          \/ q \notin HardUnavail /\ StrengthOf(fab', PipDst[q]) <= STRENGTH_STRONG
    <3> TAKE q \in route
    <3>1. /\ q \in Pip /\ PipDst[q] \in Wire
          /\ \/ Reused(fab, n, q)
             \/ q \notin HardUnavail /\ StrengthOf(fab, PipDst[q]) <= STRENGTH_STRONG
      BY <1>2, FabricAssumption DEF PartlyBound, TypeOK
    <3>2. CASE PipDst[q] = c
      <4>1. q = v
        BY <3>2, <1>3
      <4>2. fab'.wires[n][c].pip = q /\ q # NoPip
        BY <4>1, <3>1, <1>1, FabricAssumption
      <4> QED BY <4>2, <3>2 DEF Reused, HasWire, NoEntry
    <3>3. CASE PipDst[q] # c
      <4>1. /\ fab'.wire_to_net[PipDst[q]] = fab.wire_to_net[PipDst[q]]
            /\ \A m \in Net : fab'.wires[m][PipDst[q]] = fab.wires[m][PipDst[q]]
        BY <3>1, <3>3, <1>1
      <4>2. Reused(fab, n, q) => Reused(fab', n, q)
        BY <4>1, <1>1 DEF Reused, HasWire
      <4>3. StrengthOf(fab', PipDst[q]) = StrengthOf(fab, PipDst[q])
        <5>1. fab.wire_to_net[PipDst[q]] \in Net \cup {NoNet}
          BY <3>1 DEF TypeOK, FabricState
        <5> QED BY <4>1, <5>1 DEF StrengthOf
      <4> QED BY <4>2, <4>3, <3>1
    <3> QED BY <3>2, <3>3
  <2>5. IsPath(route, Src(arc), sink[arc])
    BY <1>2 DEF PartlyBound
  <2>6. PartlyBound' <=>
          /\ IsPath(route, Src(arc), sink[arc])
          /\ cursor' \notin arc_to_wires'[arc]
          /\ IF arc_to_wires'[arc] = {} THEN cursor' = sink[arc]
             ELSE /\ sink[arc] \in arc_to_wires'[arc]
                  /\ \E q \in route : PipDst[q] \in arc_to_wires'[arc] /\ PipSrc[q] = cursor'
          /\ \A w \in arc_to_wires'[arc] :
               /\ fab'.wires[n][w].pip \in route
               /\ PipSrc[fab'.wires[n][w].pip] \in arc_to_wires'[arc] \cup {cursor'}
               /\ w # sink[arc] =>
                    \E q \in route : PipDst[q] \in arc_to_wires'[arc] /\ PipSrc[q] = w
          /\ \A q \in route :
               \/ Reused(fab', n, q)
               \/ /\ q \notin HardUnavail
                  /\ StrengthOf(fab', PipDst[q]) <= STRENGTH_STRONG
    BY <1>2, <2>1 DEF PartlyBound, Src
  <2> QED BY <2>1, <2>2, <2>3, <2>4, <2>5, <2>6
<1> QED BY <1>10, <1>11, <1>12, <1>13, <1>14, <1>15, <1>16, <1>17, <1>18,
           <1>19, <1>20
-----------------------------------------------------------------------------
(* Timing-driven ripup *)

(* The timing-driven ripup keeps the invariant: it queues every arc it     *)
(* takes a wire from (the loop over tmg_ripup in router1).                 *)
LEMMA TimingRipupStep ==
    ASSUME IInv, NEW late \in SUBSET Arc, TimingDrivenRipup(late) PROVE IInv'
<1> USE DEF IInv
<1> DEFINE W == {w \in {sink[a] : a \in late} : ~CheckWireAvail(fab, w)}
<1>1. /\ W \in SUBSET Wire /\ \A w \in W : fab.wire_to_net[w] # NoNet
  BY DEF TypeOK, CheckWireAvail
<1>2. /\ pc = "timing" /\ pc' = "loop" /\ arc' = arc /\ sink' = sink
      /\ todo' = todo /\ todo = {} /\ cursor' = cursor /\ route' = route
      /\ timing_fail_count' = timing_fail_count + 1
      /\ fab' = UnbindWires(fab, W)
      /\ queued_arcs' = queued_arcs \cup Victims(W)
      /\ wire_to_arcs' = [w \in Wire |-> IF w \in W THEN {} ELSE wire_to_arcs[w]]
      /\ arc_to_wires' = [a \in Arc |-> arc_to_wires[a] \
                                        {w \in W : a \in wire_to_arcs[w]}]
  BY DEF TimingDrivenRipup, SetupFirst
<1>3. /\ fab' \in FabricState /\ FabricConsistent(fab')
      /\ \A w \in Wire : fab'.wire_to_net[w] =
            IF w \in W THEN NoNet ELSE fab.wire_to_net[w]
      /\ \A m \in Net, w \in Wire : fab'.wires[m][w] =
            IF w \in W THEN NoEntry ELSE fab.wires[m][w]
  BY <1>1, <1>2, UnbindTracked
<1> HIDE DEF W
<1>4. \A b \in Arc : arc_to_wires'[b] = arc_to_wires[b] \ W
  <2> TAKE b \in Arc
  <2>1. arc_to_wires'[b] = arc_to_wires[b] \ {w \in W : b \in wire_to_arcs[w]}
    BY <1>2
  <2>2. \A w \in arc_to_wires[b] : w \in Wire /\ b \in wire_to_arcs[w]
    BY DEF MapsInverse, TypeOK
  <2> QED BY <2>1, <2>2
<1>5. \A b \in Arc : b \in Victims(W) <=> \E w \in W : w \in arc_to_wires[b]
  BY <1>1 DEF Victims, MapsInverse
<1>6. Victims(W) \subseteq Arc
  BY <1>1 DEF Victims, TypeOK
<1>7. \A b \in Arc : IsRouted(b)' <=> IsRouted(b)
  BY <1>2 DEF IsRouted, RoutedArcs, IsFirstArc, ArcsOf
<1>8. TypeOK'
  <2>1. queued_arcs' \subseteq Arc
    BY <1>2, <1>6 DEF TypeOK
  <2>2. wire_to_arcs' \in [Wire -> SUBSET Arc] /\ arc_to_wires' \in [Arc -> SUBSET Wire]
    BY <1>2 DEF TypeOK
  <2> QED BY <2>1, <2>2, <1>2, <1>3 DEF TypeOK
<1>9. ContextCheck'
  BY <1>3 DEF ContextCheck
<1>10. MapsInverse'
  <2> SUFFICES ASSUME NEW w \in Wire, NEW b \in Arc
               PROVE  b \in wire_to_arcs'[w] <=> w \in arc_to_wires'[b]
    BY DEF MapsInverse
  <2>1. b \in wire_to_arcs[w] <=> w \in arc_to_wires[b]
    BY DEF MapsInverse
  <2> QED BY <2>1, <1>2, <1>4
<1>11. TrackedIsBound'
  <2> SUFFICES ASSUME NEW b \in Arc, NEW w \in arc_to_wires'[b]
               PROVE  fab'.wire_to_net[w] = ArcNet[b]
    BY DEF TrackedIsBound
  <2>1. w \in arc_to_wires[b] /\ w \notin W /\ w \in Wire
    BY <1>4 DEF TypeOK
  <2> QED BY <2>1, <1>3 DEF TrackedIsBound
<1>12. SetupFirst' /\ IdleQueue' /\ WholeTodo'
  BY <1>2 DEF SetupFirst, IdleQueue, WholeTodo
<1>13. OnlyRouted'
  BY <1>2, <1>4, <1>5, <1>6, <1>7 DEF OnlyRouted, TypeOK
<1>14. SourcesOwn'
  <2>1. Entered' = Entered /\ \A m \in Net : NetSrc[m] \in Wire
    BY <1>2, Router1Assumption DEF Entered
  <2> QED BY <2>1, <1>3 DEF SourcesOwn
<1>15. TrackedInv'
  <2> SUFFICES ASSUME NEW m \in Net, NEW w \in Wire,
                      fab'.wire_to_net[w] = m, wire_to_arcs'[w] = {}
               PROVE  skip_net(m) \/ fab'.wires[m][w].strength >= STRENGTH_LOCKED
    BY <1>2 DEF TrackedInv
  <2>1. w \notin W
    BY <1>3, FabricAssumption
  <2> QED BY <2>1, <1>2, <1>3 DEF TrackedInv
<1>16. QueueComplete'
  <2> SUFFICES ASSUME NEW m \in Net, NEW b \in RoutedArcs(m)'
               PROVE  b \in queued_arcs' \/ Settled(b)'
    BY <1>2 DEF QueueComplete
  <2>1. b \in RoutedArcs(m) /\ b \in Arc /\ ArcNet[b] \in Net
    BY <1>2, Router1Assumption DEF RoutedArcs, IsFirstArc, ArcsOf
  <2>2. b \in queued_arcs \/ Settled(b)
    BY <2>1, <1>2 DEF QueueComplete, InHand
  <2>3. CASE b \in Victims(W)
    BY <2>3, <1>2
  <2>4. CASE b \notin Victims(W)
    <3>1. arc_to_wires'[b] = arc_to_wires[b]
          /\ \A w \in arc_to_wires[b] : w \in Wire /\ w \notin W
      BY <2>4, <2>1, <1>4, <1>5 DEF TypeOK
    <3>2. Settled(b) => Settled(b)'
      BY <3>1, <2>1, <1>2, <1>3 DEF Settled, Src
    <3> QED BY <3>2, <2>2, <1>2
  <2> QED BY <2>3, <2>4
<1>17. Routing' /\ PartlyBound'
  BY <1>2 DEF Routing, PartlyBound
<1> QED BY <1>8, <1>9, <1>10, <1>11, <1>12, <1>13, <1>14, <1>15, <1>16, <1>17

-----------------------------------------------------------------------------
(* All steps *)

(* A stuttering step keeps the invariant.                                  *)
LEMMA StutterStep ==
    ASSUME IInv, UNCHANGED vars PROVE IInv'
<1> USE DEF IInv, vars
<1>1. TypeOK' /\ ContextCheck' /\ MapsInverse' /\ TrackedIsBound'
  BY DEF TypeOK, ContextCheck, MapsInverse, TrackedIsBound
<1>2. SetupFirst' /\ IdleQueue' /\ WholeTodo' /\ TrackedInv'
  BY DEF SetupFirst, IdleQueue, WholeTodo, TrackedInv
<1>3. \A b \in Arc : IsRouted(b)' <=> IsRouted(b)
  BY DEF IsRouted, RoutedArcs, IsFirstArc, ArcsOf
<1>4. OnlyRouted' /\ SourcesOwn'
  BY <1>3 DEF OnlyRouted, SourcesOwn, Entered, TypeOK
<1>5. QueueComplete'
  BY DEF QueueComplete, InHand, Settled, RoutedArcs, IsFirstArc, ArcsOf, Src
<1>6. Routing' /\ PartlyBound'
  BY <1>3 DEF Routing, PartlyBound, Src, Reused, HasWire, TypeOK
<1> QED BY <1>1, <1>2, <1>4, <1>5, <1>6

(* Every step of the router keeps the invariant.                           *)
LEMMA IInvPreserved ==
    ASSUME Assumptions, IInv, [Next]_vars PROVE IInv'
<1>1. ASSUME NEW n \in Net, SkipNet(n) PROVE IInv'
  BY <1>1, SkipNetStep
<1>2. ASSUME NEW n \in Net, SetupError(n) PROVE IInv'
  BY <1>2, SetupErrorStep
<1>3. ASSUME NEW n \in Net, SetupNet(n) PROVE IInv'
  BY <1>3, SetupNetStep
<1>4. ASSUME NEW a \in queued_arcs, ReleaseArc(a) PROVE IInv'
  BY <1>4, ReleaseArcStep
<1>5. ASSUME NEW a \in queued_arcs, RouteTrivialArc(a) PROVE IInv'
  BY <1>5, RouteTrivialArcStep
<1>6. ASSUME NEW P \in Paths[Src(arc), sink[arc]], SearchFinds(P) PROVE IInv'
  BY <1>6, SearchFindsStep
<1>7. CASE SearchFails \/ Finish
  BY <1>7, ReturnStep
<1>10. CASE UNCHANGED vars
  BY <1>10, StutterStep
<1>8. CASE BindStep
  BY <1>8, BindStepStep
<1>9. ASSUME NEW late \in SUBSET Arc, TimingDrivenRipup(late) PROVE IInv'
  BY <1>9, TimingRipupStep
<1> QED BY <1>1, <1>2, <1>3, <1>4, <1>5, <1>6, <1>7, <1>8, <1>9,
        <1>10 DEF Next, Returned
-----------------------------------------------------------------------------
(* No assertion fails *)

(* In a state of the invariant every NPNR_ASSERT ahead of the router holds *)
(* (setup, route_arc, ripup_wire, ripup_pip, bindWire, bindPip).           *)
LEMMA InvNoAbort == Assumptions /\ IInv => NoAbort
<1> SUFFICES ASSUME Assumptions, IInv PROVE NoAbort
  OBVIOUS
<1>1. ASSUME pc = "setup", NEW n \in todo, ~skip_net(n) PROVE SetupAsserts(n)
  <2>1. n \in todo \ Undriven
    BY <1>1 DEF skip_net
  <2>2. ASSUME NEW a \in RoutedArcs(n), NEW w \in SetupWires(a), w # NetSrc[n]
        PROVE  fab.wires[n][w].pip # NoPip
    BY <2>1, <2>2, SetupWiresBound, FabricAssumption
  <2> QED BY <2>2 DEF SetupAsserts
<1>2. ASSUME pc = "loop", NEW a \in queued_arcs
      PROVE  ReleaseAsserts(a) /\ TrivialAsserts(a)
  <2>1. ReleaseAsserts(a)
    BY ReleaseEffect
  <2>2. a \in Arc /\ ArcNet[a] \in Net \ Undriven /\ Src(a) \in Wire
    BY Router1Assumption
       DEF IInv, TypeOK, OnlyRouted, IsRouted, RoutedArcs, skip_net, Src
  <2>3. fab.wire_to_net[Src(a)] \in {NoNet, ArcNet[a]}
    BY <2>2 DEF IInv, SourcesOwn, Src
  <2>4. UnbindWires(fab, OnlyUser(a)).wire_to_net[Src(a)] =
           IF wire_to_arcs[Src(a)] = {a} THEN NoNet ELSE fab.wire_to_net[Src(a)]
    BY <2>2, ReleaseEffect
  <2> QED BY <2>1, <2>3, <2>4 DEF TrivialAsserts
<1>3. ASSUME pc = "bind" PROVE BindAsserts
  <2> DEFINE f == UnbindWires(fab, Ripped)
             v == VisitedPip
  <2>1. cursor \in Wire /\ Ripped \subseteq {cursor}
        /\ \A w \in Ripped : fab.wire_to_net[w] # NoNet
    BY DEF IInv, TypeOK, Ripped, CheckWireAvail
  <2>2. /\ \A w \in Ripped : CanUnbindWire(fab, w)
        /\ f \in FabricState /\ FabricConsistent(f)
        /\ \A w \in Wire : f.wire_to_net[w] =
              IF w \in Ripped THEN NoNet ELSE fab.wire_to_net[w]
    <3>1. Ripped \in SUBSET Wire
      BY <2>1
    <3> QED BY <3>1, <2>1, UnbindTracked, SMTT(60)
  <2>3. ASSUME NeedsBinding, v # NoPip PROVE CheckPipAvail(f, v)
    <3>1. v \in route /\ v \in Pip /\ PipDst[v] = cursor
      BY <1>3, <2>3, CursorOnPath
    <3>2. v \notin HardUnavail
      <4>1. ~Reused(fab, ArcNet[arc], v)
        BY <3>1, <2>3 DEF Reused, NeedsBinding
      <4> QED BY <4>1, <3>1, <1>3 DEF IInv, PartlyBound
    <3>3. f.wire_to_net[cursor] = NoNet
      BY <2>1, <2>2, <2>3 DEF Ripped, CheckWireAvail
    <3>4. \A m \in Net : f.wires[m][cursor] = NoEntry
      BY <3>3, <2>1, <2>2, FabricAssumption
         DEF FabricConsistent, WireMapsAgree, HasWire
    <3>5. \A m \in Net : f.pip_to_net[v] # m
      <4> HIDE DEF f
      <4> QED BY <3>1, <3>4, <2>2, FabricAssumption
              DEF FabricConsistent, NoPipLeak, NoEntry
    <3>6. f.pip_to_net[v] \in Net \cup {NoNet}
      BY <3>1, <2>2 DEF FabricState
    <3> QED BY <3>2, <3>5, <3>6 DEF CheckPipAvail
  <2> QED BY <2>2, <2>3 DEF BindAsserts
<1> QED BY <1>1, <1>2, <1>3 DEF NoAbort

-----------------------------------------------------------------------------
(* Locked wires *)

(* Every nonempty set of positions has a first one.                        *)
LEMMA FirstPosition ==
    ASSUME NEW S \in SUBSET Nat, S # {}
    PROVE  \E m \in S : \A k \in S : m <= k
<1>1. \A x, y \in Nat : <<y, x>> \in OpToRel(<, Nat) <=> y < x
  BY DEF OpToRel
<1>2. PICK x \in S : \A y \in S : ~(<<y, x>> \in OpToRel(<, Nat))
  BY WFMin, NatLessThanWellFounded
<1>3. \A y \in S : ~(y < x)
  BY <1>1, <1>2
<1> QED BY <1>3

(* Every sink wire of a driven net has a first arc, the one the router     *)
(* enters for it (setup).                                                  *)
LEMMA FirstArcExists ==
    ASSUME NEW a \in Arc, ArcNet[a] \notin Undriven, sink \in [Arc -> Wire]
    PROVE  \E b \in RoutedArcs(ArcNet[a]) : sink[b] = sink[a]
<1> DEFINE T == {b \in ArcsOf(ArcNet[a]) : sink[b] = sink[a]}
           S == {ArcPos[b] : b \in T}
<1>1. a \in T /\ T \subseteq Arc /\ S \subseteq Nat /\ S # {}
  BY Router1Assumption DEF ArcsOf
<1>2. PICK m \in S : \A k \in S : m <= k
  <2> HIDE DEF S
  <2> QED BY <1>1, FirstPosition
<1>3. PICK b \in T : ArcPos[b] = m
  OBVIOUS
<1>4. \A x \in T : ArcPos[b] <= ArcPos[x]
  BY <1>2, <1>3
<1>5. ArcNet[b] = ArcNet[a] /\ sink[b] = sink[a]
  BY <1>1 DEF ArcsOf
<1>6. IsFirstArc(b)
  BY <1>4, <1>5 DEF IsFirstArc
<1> QED BY <1>5, <1>6, <1>1 DEF RoutedArcs, skip_net, ArcsOf

(* A step takes a locked wire from its net only when it routes an arc of   *)
(* that net again (setup, route_arc, ripup_wire, router1).                 *)
LEMMA StepKeepsLocked ==
    ASSUME Assumptions, IInv, Next, NEW w \in Wire, LockedWire(w),
           fab'.wire_to_net[w] # fab.wire_to_net[w]
    PROVE  pc = "loop" /\ fab.wire_to_net[w] = ArcNet[arc']
<1> DEFINE m == fab.wire_to_net[w]
<1>1. m \in Net /\ HasWire(fab, m, w) /\ fab.wires[m][w].strength > STRENGTH_STRONG
  <2>1. StrengthOf(fab, w) > STRENGTH_STRONG
    BY DEF LockedWire
  <2>2. m # NoNet /\ StrengthOf(fab, w) = fab.wires[m][w].strength
    BY <2>1 DEF StrengthOf, STRENGTH_STRONG
  <2>3. m \in Net
    BY <2>2 DEF IInv, TypeOK, FabricState
  <2> QED BY <2>1, <2>2, <2>3
          DEF IInv, ContextCheck, FabricConsistent, WireMapsAgree
<1>2. ASSUME NEW n \in Net, SetupNet(n) PROVE FALSE
  <2> DEFINE W == {x \in WiresOf(fab, n) :
                     /\ fab.wires[n][x].strength < STRENGTH_LOCKED
                     /\ wire_to_arcs'[x] = {}}
  <2>1. fab' = UnbindWires(fab, W) /\ pc = "setup"
    BY <1>2 DEF SetupNet
  <2>2. w \in W
    BY <2>1 DEF UnbindWires
  <2>3. fab.wires[n][w].strength < STRENGTH_LOCKED /\ m = n
    BY <2>2, <1>1 DEF WiresOf, IInv, ContextCheck, FabricConsistent, WireMapsAgree
  <2>4. fab.wires[m][w].strength >= STRENGTH_LOCKED
    BY <2>1, <1>1, FabricAssumption DEF LockedWire, StrengthOf
  <2>5. fab.wires[m][w].strength \in Int
    BY <1>1 DEF IInv, TypeOK, FabricState, PipMap, HasWire, PlaceStrength, STRENGTH_USER
  <2> QED BY <2>3, <2>4, <2>5 DEF STRENGTH_LOCKED
<1>3. ASSUME NEW a \in queued_arcs, ReleaseArc(a) PROVE pc = "loop" /\ m = ArcNet[arc']
  <2>1. fab' = UnbindWires(fab, OnlyUser(a)) /\ pc = "loop" /\ arc' = a
    BY <1>3 DEF ReleaseArc
  <2>2. w \in OnlyUser(a)
    BY <2>1 DEF UnbindWires
  <2> QED BY <2>1, <2>2 DEF OnlyUser, IInv, TrackedIsBound, TypeOK
<1>4. ASSUME NEW a \in queued_arcs, RouteTrivialArc(a)
      PROVE  pc = "loop" /\ m = ArcNet[arc']
  <2> DEFINE f == UnbindWires(fab, OnlyUser(a))
  <2>1. /\ pc = "loop" /\ arc' = a
        /\ fab' = IF CheckWireAvail(f, Src(a))
                  THEN BindWire(f, Src(a), ArcNet[a], STRENGTH_WEAK) ELSE f
    BY <1>4 DEF RouteTrivialArc
  <2>2. /\ f \in FabricState
        /\ f.wire_to_net[w] = IF wire_to_arcs[w] = {a} THEN NoNet ELSE m
    BY ReleaseEffect
  <2>3. CASE wire_to_arcs[w] = {a}
    BY <2>1, <2>3 DEF IInv, TrackedIsBound, MapsInverse, TypeOK
  <2>4. CASE wire_to_arcs[w] # {a}
    <3>1. f.wire_to_net[w] # NoNet
      BY <2>2, <2>4, <1>1, FabricAssumption
    <3>2. fab'.wire_to_net[w] = m
      <4> HIDE DEF f
      <4> QED BY <2>1, <2>2, <2>4, <3>1 DEF CheckWireAvail, BindWire, FabricState
    <3> QED BY <3>2
  <2> QED BY <2>3, <2>4
<1>5. CASE BindStep
  <2>1. /\ arc \in Arc /\ ArcNet[arc] \in Net /\ cursor \in Wire
        /\ \A x \in Wire : fab'.wire_to_net[x] =
              IF x = cursor THEN ArcNet[arc] ELSE fab.wire_to_net[x]
        /\ ~NeedsBinding => fab' = fab
    BY <1>5, BindStepEffect
  <2>2. w = cursor /\ m # ArcNet[arc] /\ NeedsBinding /\ pc = "bind"
    BY <2>1, <1>5 DEF BindStep
  <2>3. ASSUME VisitedPip = NoPip PROVE FALSE
    <3>1. w = Src(arc) /\ ArcNet[arc] \notin Undriven
      BY <2>2, <2>3, CursorOnPath
         DEF IInv, Routing, IsRouted, RoutedArcs, skip_net
    <3>2. fab.wire_to_net[w] \in {NoNet, ArcNet[arc]}
      BY <3>1, <2>1 DEF IInv, SourcesOwn, Src
    <3>3. fab.wire_to_net[w] \in Net /\ fab.wire_to_net[w] # ArcNet[arc]
      BY <2>2, <1>1
    <3> QED BY <3>2, <3>3, FabricAssumption
  <2>4. ASSUME VisitedPip # NoPip PROVE FALSE
    <3>1. VisitedPip \in route /\ PipDst[VisitedPip] = w
      BY <2>2, <2>4, CursorOnPath
    <3>2. ~Reused(fab, ArcNet[arc], VisitedPip)
      BY <2>2, <3>1 DEF Reused, NeedsBinding
    <3>3. StrengthOf(fab, w) <= STRENGTH_STRONG
      BY <3>1, <3>2, <2>2 DEF IInv, PartlyBound
    <3>4. fab.wires[m][w].strength <= STRENGTH_STRONG
      BY <3>3, <1>1, FabricAssumption DEF StrengthOf
    <3>5. fab.wires[m][w].strength \in Int
      BY <1>1 DEF IInv, TypeOK, FabricState, PipMap, HasWire, PlaceStrength,
                  STRENGTH_USER
    <3> QED BY <3>4, <3>5, <1>1 DEF STRENGTH_STRONG
  <2> QED BY <2>3, <2>4
<1>6. ASSUME NEW late \in SUBSET Arc, TimingDrivenRipup(late) PROVE FALSE
  <2>1. /\ pc = "timing" /\ late \subseteq RipupCandidates
        /\ \E W : W = {x \in {sink[a] : a \in late} : ~CheckWireAvail(fab, x)}
                  /\ fab' = UnbindWires(fab, W)
    BY <1>6 DEF TimingDrivenRipup
  <2>2. PICK a \in late : w = sink[a]
    BY <2>1 DEF UnbindWires
  <2>3. a \in Arc /\ a \in RipupCandidates /\ ArcNet[a] \notin Undriven
    BY <2>1, <2>2 DEF RipupCandidates, skip_net
  <2>4. PICK b \in RoutedArcs(ArcNet[a]) : sink[b] = w
    BY <2>2, <2>3, FirstArcExists DEF IInv, TypeOK
  <2>5. b \in Arc /\ ArcNet[b] = ArcNet[a] /\ ArcNet[a] \in Net \ todo
    BY <2>1, <2>3, <2>4, Router1Assumption DEF RoutedArcs, ArcsOf, IInv, SetupFirst
  <2>6. Settled(b)
    BY <2>1, <2>4, <2>5 DEF IInv, QueueComplete, IdleQueue, InHand
  <2>7. m = ArcNet[a]
    BY <2>4, <2>5, <2>6 DEF Settled, IInv, TrackedIsBound
  <2>8. fab.wires[m][w].strength <= STRENGTH_STRONG
    BY <2>3, <2>7, <1>1 DEF RipupCandidates, WiresOf
  <2>9. fab.wires[m][w].strength \in Int
    BY <1>1 DEF IInv, TypeOK, FabricState, PipMap, HasWire, PlaceStrength,
                STRENGTH_USER
  <2> QED BY <2>8, <2>9, <1>1 DEF STRENGTH_STRONG
<1>7. CASE fab' = fab
  BY <1>7
<1>8. ASSUME NEW n \in Net, SkipNet(n) \/ SetupError(n) PROVE fab' = fab
  BY <1>8 DEF SkipNet, SetupError
<1>9. ASSUME NEW P \in Paths[Src(arc), sink[arc]], SearchFinds(P) PROVE fab' = fab
  BY <1>9 DEF SearchFinds
<1>10. SearchFails \/ Finish \/ Returned => fab' = fab
  BY DEF SearchFails, Finish, Returned, vars
<1> QED BY <1>2, <1>3, <1>4, <1>5, <1>6, <1>7, <1>8, <1>9, <1>10 DEF Next

-----------------------------------------------------------------------------
(* The theorems *)

(* The invariant holds of every run of the router that starts on a fabric  *)
(* that meets Assumptions (router1).                                       *)
THEOREM Router1Invariant ==
    ASSUME Assumptions PROVE Spec => []IInv
<1>1. Init => IInv
  BY InitInv
<1>2. IInv /\ [Next]_vars => IInv'
  BY IInvPreserved
<1> QED BY <1>1, <1>2, PTL DEF Spec

(* The containers of the router hold what they should in every state.      *)
THEOREM TypeCorrect ==
    ASSUME Assumptions PROVE Spec => []TypeOK
<1>1. IInv => TypeOK
  BY DEF IInv
<1> QED BY <1>1, Router1Invariant, PTL

(* Context::check() finds nothing, at any moment of the run.               *)
THEOREM FabricStaysConsistent ==
    ASSUME Assumptions PROVE Spec => []ContextCheck
<1>1. IInv => ContextCheck
  BY DEF IInv
<1> QED BY <1>1, Router1Invariant, PTL

(* Router1::check() finds nothing between two arcs.                        *)
THEOREM RouterStaysConsistent ==
    ASSUME Assumptions PROVE Spec => []RouterCheck
<1>1. IInv => RouterCheck
  BY DEF IInv, RouterCheck, AtRest, SetupFirst, TrackedInv, BoundIsTracked
<1> QED BY <1>1, Router1Invariant, PTL

(* The router loses no arc: ripping up queues every arc that needs work.   *)
THEOREM NothingForgotten ==
    ASSUME Assumptions PROVE Spec => []QueueComplete
<1>1. IInv => QueueComplete
  BY DEF IInv
<1> QED BY <1>1, Router1Invariant, PTL

(* No assertion of the router or of the binding functions fails.           *)
THEOREM AssertionsHold ==
    ASSUME Assumptions PROVE Spec => []NoAbort
<1>1. IInv => NoAbort
  BY InvNoAbort
<1> QED BY <1>1, Router1Invariant, PTL

(* Locked routing survives the router.                                     *)
THEOREM LockedRoutingKept ==
    ASSUME Assumptions PROVE Spec => LockedStays
<1> DEFINE Kept == \A w \in Wire :
                     LockedWire(w) /\ fab'.wire_to_net[w] # fab.wire_to_net[w]
                     => pc = "loop" /\ fab.wire_to_net[w] = ArcNet[arc']
<1>1. IInv /\ [Next]_vars => [Kept]_vars
  BY StepKeepsLocked
<1> QED BY <1>1, Router1Invariant, PTL DEF Spec, LockedStays
=============================================================================
