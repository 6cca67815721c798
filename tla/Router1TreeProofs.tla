------------------------- MODULE Router1TreeProofs -------------------------
(***************************************************************************)
(* What Router1 reports as routed is routed: no net ever drives a wire     *)
(* from itself between two arcs, and when the router is done every net     *)
(* with sinks is one connected set of wires, without stubs.                *)
(***************************************************************************)
EXTENDS Router1Proofs

-----------------------------------------------------------------------------
(* Two ways to change a fabric *)

(* Taking wires from a net closes no loop (unbindWire).                    *)
LEMMA UnboundLoop ==
    ASSUME NEW f, NEW g, NEW n, NEW S \in SUBSET Wire, Loop(g, n, S),
           \A w \in Wire : g.wires[n][w] \in {f.wires[n][w], NoEntry}
    PROVE  Loop(f, n, S)
<1>1. \A w \in S : g.wires[n][w] # NoEntry /\ w \in Wire
  BY DEF Loop, HasWire
<1>2. \A w \in S : f.wires[n][w] = g.wires[n][w]
  BY <1>1
<1> QED BY <1>1, <1>2 DEF Loop, HasWire

(* A step that only takes wires from nets keeps nets free of loops.        *)
LEMMA AcyclicKept ==
    ASSUME Acyclic, pc # "bind",
           \A n \in Net, w \in Wire : fab'.wires[n][w] \in {fab.wires[n][w], NoEntry}
    PROVE  Acyclic'
<1> SUFFICES ASSUME NEW n \in Net \ Undriven, NEW S \in SUBSET Wire,
                    Loop(fab', n, S)
             PROVE  FALSE
  BY DEF Acyclic
<1>1. Loop(fab, n, S)
  BY UnboundLoop
<1> QED BY <1>1 DEF Acyclic

(* An arc whose wires are as they were leads on as it did.                 *)
LEMMA LeadsOnKept ==
    ASSUME NEW b \in Arc, LeadsOn(b), arc_to_wires'[b] = arc_to_wires[b],
           sink' = sink,
           \A w \in arc_to_wires[b] :
               fab'.wires[ArcNet[b]][w] = fab.wires[ArcNet[b]][w]
    PROVE  LeadsOn(b)'
BY DEF LeadsOn

(* The walk of setup goes to no wire by chance: every wire of it but the   *)
(* one it began with drives the wire before (setup).                       *)
LEMMA ChainLeads ==
    ASSUME NEW f \in FabricState, NEW n \in Net, NEW s \in Wire,
           NEW w \in Chain(f, n, s), w # s
    PROVE  \E v \in Chain(f, n, s) :
              f.wires[n][v].pip # NoPip /\ PipSrc[f.wires[n][v].pip] = w
<1> DEFINE C == Chain(f, n, s)
<1> SUFFICES ASSUME \A v \in C : f.wires[n][v].pip # NoPip
                                 => PipSrc[f.wires[n][v].pip] # w
             PROVE  FALSE
  OBVIOUS
<1>1. s \in C /\ C \subseteq Wire /\ UpClosed(f, n, C)
  BY ChainClosed
<1> DEFINE T == C \ {w}
<1>2. s \in T /\ T \in SUBSET Wire
  BY <1>1
<1>3. UpClosed(f, n, T)
  BY <1>1 DEF UpClosed
<1>4. \A x \in C : x \in T
  BY <1>2, <1>3 DEF Chain
<1> QED BY <1>4

-----------------------------------------------------------------------------
(* The beginning, and steps that change no binding *)

(* The router starts on trees (Router1::Router1).                          *)
LEMMA InitTree == TreePriorRoutings /\ Init => TreeInv
<1> SUFFICES ASSUME TreePriorRoutings, Init PROVE TreeInv
  OBVIOUS
<1> USE DEF Init
<1>1. Acyclic
  BY DEF Acyclic, TreePriorRoutings
<1>2. NoStubs
  BY DEF NoStubs
<1>3. NoStrays
  BY DEF NoStrays, TreePriorRoutings
<1> QED BY <1>1, <1>2, <1>3 DEF TreeInv

(* Steps that leave the fabric, the maps and the queue as they are.        *)
LEMMA QuietStep ==
    ASSUME IInv, TreeInv, IInv',
           UNCHANGED <<fab, sink, arc_to_wires, wire_to_arcs, queued_arcs>>,
           \/ pc = "bind" /\ pc' = "bind" /\ arc' = arc
           \/ pc # "bind",
           todo' \subseteq todo, todo \ todo' \subseteq Undriven,
           \A a \in Arc : InHand(a) => InHand(a)'
    PROVE  TreeInv'
<1> USE DEF TreeInv
<1>1. Acyclic'
  BY DEF Acyclic
<1>2. NoStubs'
  <2> SUFFICES ASSUME NEW n \in Net \ todo', NEW a \in RoutedArcs(n)'
               PROVE  a \in queued_arcs \/ InHand(a)' \/ LeadsOn(a)
    BY DEF NoStubs, LeadsOn
  <2>1. n \notin Undriven /\ a \in Arc /\ a \in RoutedArcs(n)
    BY DEF RoutedArcs, skip_net, IsFirstArc, ArcsOf
  <2>2. n \in Net \ todo
    BY <2>1
  <2> QED BY <2>1, <2>2 DEF NoStubs
<1>3. NoStrays'
  BY DEF NoStrays
<1> QED BY <1>1, <1>2, <1>3

-----------------------------------------------------------------------------
(* Setup *)

(* Entering the arcs of a net and unbinding its unused wires (setup).      *)
LEMMA SetupNetTree ==
    ASSUME IInv, TreeInv, NEW n \in Net, SetupNet(n) PROVE TreeInv'
<1> USE DEF TreeInv
<1> DEFINE arcs == RoutedArcs(n)
           W == {w \in WiresOf(fab, n) :
                   /\ fab.wires[n][w].strength < STRENGTH_LOCKED
                   /\ wire_to_arcs'[w] = {}}
<1>1. /\ n \in todo \ Undriven /\ todo' = todo \ {n} /\ sink' = sink
      /\ fab' = UnbindWires(fab, W) /\ pc = "setup" /\ pc' \in {"setup", "loop"}
      /\ arcs \subseteq Arc /\ \A a \in arcs : ArcNet[a] = n
      /\ sink \in [Arc -> Wire] /\ fab \in FabricState /\ FabricConsistent(fab)
  BY DEF SetupNet, skip_net, RoutedArcs, ArcsOf, IInv, TypeOK, ContextCheck
<1>2. /\ \A w \in Wire, a \in Arc : a \in wire_to_arcs'[w] <=>
            a \in wire_to_arcs[w] \/ (a \in arcs /\ w \in SetupWires(a))
      /\ \A a \in Arc : arc_to_wires'[a] =
            IF a \in arcs THEN SetupWires(a) ELSE arc_to_wires[a]
      /\ \A a \in Arc : a \in queued_arcs => a \in queued_arcs'
  BY <1>1 DEF SetupNet
<1>3. \A w \in W : w \in Wire /\ fab.wire_to_net[w] = n
  BY <1>1 DEF WiresOf, FabricState, FabricConsistent, WireMapsAgree
<1>4. \A m \in Net, w \in Wire : fab'.wires[m][w] =
            IF w \in W THEN NoEntry ELSE fab.wires[m][w]
  BY <1>1, <1>3, UnbindWiresEffect, FabricAssumption
<1>5. \A a \in arcs : SetupWires(a) \cap W = {} /\ SetupWires(a) \subseteq Wire
  BY <1>1, <1>2, SetupWiresBound DEF WiresOf
<1>6. ASSUME NEW a \in Arc, ArcNet[a] # n
      PROVE  \A w \in arc_to_wires[a] :
                fab'.wires[ArcNet[a]][w] = fab.wires[ArcNet[a]][w]
  <2> TAKE w \in arc_to_wires[a]
  <2>1. w \in Wire /\ fab.wire_to_net[w] = ArcNet[a] /\ ArcNet[a] \in Net
    BY Router1Assumption DEF IInv, TypeOK, TrackedIsBound
  <2> QED BY <2>1, <1>3, <1>4, <1>6
<1> HIDE DEF W
<1>7. Acyclic'
  BY <1>1, <1>4, AcyclicKept
<1>8. NoStubs'
  <2> SUFFICES ASSUME NEW m \in Net \ todo', NEW a \in RoutedArcs(m)'
               PROVE  a \in queued_arcs' \/ LeadsOn(a)'
    BY <1>1 DEF NoStubs
  <2>1. a \in Arc /\ ArcNet[a] = m /\ a \in RoutedArcs(m)
    BY <1>1 DEF RoutedArcs, IsFirstArc, ArcsOf
  <2>2. CASE m # n
    <3>1. a \in queued_arcs \/ LeadsOn(a)
      BY <2>1, <2>2, <1>1 DEF NoStubs, InHand
    <3>2. arc_to_wires'[a] = arc_to_wires[a]
      BY <2>1, <2>2, <1>1, <1>2
    <3> QED BY <3>1, <3>2, <2>1, <2>2, <1>1, <1>2, <1>6, LeadsOnKept
  <2>3. CASE m = n
    <3>1. a \in arcs /\ arc_to_wires'[a] = SetupWires(a)
      BY <2>1, <2>3, <1>2
    <3>2. CASE ~HasWire(fab, n, sink[a])
      BY <3>1, <3>2, <1>1 DEF LeadsOn, SetupWires
    <3>3. CASE HasWire(fab, n, sink[a])
      <4>1. SetupWires(a) = Chain(fab, n, sink[a]) /\ sink[a] \in Wire
        BY <3>1, <3>3, <1>1 DEF SetupWires
      <4>2. \A v \in SetupWires(a) : fab'.wires[n][v] = fab.wires[n][v]
        BY <3>1, <1>4, <1>5
      <4>3. \A w \in SetupWires(a) \ {sink[a]} : \E v \in SetupWires(a) :
              fab.wires[n][v].pip # NoPip /\ PipSrc[fab.wires[n][v].pip] = w
        BY <4>1, <1>1, ChainLeads
      <4> QED BY <4>2, <4>3, <3>1, <1>1 DEF LeadsOn
    <3> QED BY <3>2, <3>3
  <2> QED BY <2>2, <2>3
<1>9. NoStrays'
  <2> SUFFICES ASSUME NEW m \in Net \ Undriven, NEW w \in Wire,
                      HasWire(fab', m, w)
               PROVE  IF m \in todo'
                      THEN fab'.wires[m][w].strength >= STRENGTH_LOCKED
                           => \E a \in ArcsOf(m) : /\ HasWire(fab', m, sink[a])
                                                   /\ w \in Chain(fab', m, sink[a])
                      ELSE wire_to_arcs'[w] # {}
    BY <1>1 DEF NoStrays
  <2>1. w \notin W /\ fab'.wires[m][w] = fab.wires[m][w] /\ HasWire(fab, m, w)
    BY <1>4 DEF HasWire
  <2>2. CASE m # n
    <3>1. \A v \in Wire : fab'.wires[m][v] = fab.wires[m][v]
      <4> TAKE v \in Wire
      <4>1. v \in W => fab.wires[m][v] = NoEntry
        BY <2>2, <1>1, <1>3 DEF FabricConsistent, WireMapsAgree, HasWire
      <4> QED BY <4>1, <1>4
    <3>2. \A a \in ArcsOf(m) : sink[a] \in Wire
      BY <1>1 DEF ArcsOf
    <3>3. \A a \in ArcsOf(m) : /\ Chain(fab', m, sink[a]) = Chain(fab, m, sink[a])
                               /\ HasWire(fab', m, sink[a]) <=> HasWire(fab, m, sink[a])
      BY <3>1, <3>2, ChainLocal DEF HasWire
    <3>4. CASE m \in todo'
      <4>1. m \in todo /\ HasWire(fab, m, w)
        BY <3>4, <2>1, <1>1
      <4>2. fab.wires[m][w].strength >= STRENGTH_LOCKED
            => \E a \in ArcsOf(m) : HasWire(fab, m, sink[a]) /\ w \in Chain(fab, m, sink[a])
        BY <4>1 DEF NoStrays
      <4> QED BY <4>2, <3>3, <3>4, <2>1
    <3>5. CASE m \notin todo'
      <4>1. wire_to_arcs[w] # {} /\ wire_to_arcs[w] \subseteq Arc
        BY <3>5, <2>1, <2>2, <1>1 DEF NoStrays, IInv, TypeOK
      <4> QED BY <4>1, <3>5, <1>2
    <3> QED BY <3>4, <3>5
  <2>3. CASE m = n
    <3>1. m \in todo /\ m \notin todo'
      BY <2>3, <1>1
    <3>2. CASE fab.wires[n][w].strength >= STRENGTH_LOCKED
      <4>1. PICK a \in ArcsOf(n) : HasWire(fab, n, sink[a]) /\ w \in Chain(fab, n, sink[a])
        BY <3>1, <3>2, <2>1, <2>3 DEF NoStrays
      <4>2. a \in Arc /\ ArcNet[a] = n /\ n \notin Undriven
        BY <1>1 DEF ArcsOf
      <4>3. PICK b \in RoutedArcs(n) : sink[b] = sink[a]
        BY <4>2, <1>1, FirstArcExists
      <4>4. w \in SetupWires(b) /\ b \in Arc /\ b \in arcs
        BY <4>1, <4>3, <1>1 DEF SetupWires
      <4> QED BY <4>4, <3>1, <1>2
    <3>3. CASE ~(fab.wires[n][w].strength >= STRENGTH_LOCKED)
      <4>1. w \in WiresOf(fab, n) /\ fab.wires[n][w].strength < STRENGTH_LOCKED
        <5>1. fab.wires[n][w] \in PipMap
          BY <2>1, <2>3, <1>1 DEF HasWire, FabricState
        <5>2. fab.wires[n][w].strength \in Int
          BY <5>1 DEF PipMap, PlaceStrength, STRENGTH_USER
        <5> QED BY <5>2, <3>3, <2>1, <2>3 DEF WiresOf, STRENGTH_LOCKED
      <4> QED BY <4>1, <3>1, <2>1 DEF W
    <3> QED BY <3>2, <3>3
  <2> QED BY <2>2, <2>3
<1> QED BY <1>7, <1>8, <1>9
-----------------------------------------------------------------------------
(* Releasing and ripping up *)

(* Steps in which wires are taken, arcs that lose a wire are queued or in  *)
(* hand, and every wire that stays bound keeps one of its arcs.            *)
LEMMA TakingStep ==
    ASSUME IInv, TreeInv, IInv', todo = {}, todo' = {}, sink' = sink,
           pc \notin {"bind", "search"},
           \A n \in Net, w \in Wire : fab'.wires[n][w] \in {fab.wires[n][w], NoEntry},
           \A b \in Arc : \/ b \in queued_arcs' \/ InHand(b)' \/ LeadsOn(b)'
                          \/ /\ b \notin queued_arcs /\ ~InHand(b)
                             /\ arc_to_wires'[b] = arc_to_wires[b]
                             /\ \A w \in arc_to_wires[b] :
                                  fab'.wires[ArcNet[b]][w] = fab.wires[ArcNet[b]][w],
           \A n \in Net, w \in Wire : HasWire(fab', n, w) /\ wire_to_arcs[w] # {}
                                      => wire_to_arcs'[w] # {}
    PROVE  TreeInv'
<1> USE DEF TreeInv
<1>1. Acyclic'
  BY AcyclicKept
<1>2. NoStubs'
  <2> SUFFICES ASSUME NEW n \in Net, NEW b \in RoutedArcs(n)'
               PROVE  b \in queued_arcs' \/ InHand(b)' \/ LeadsOn(b)'
    BY DEF NoStubs
  <2>1. b \in Arc /\ b \in RoutedArcs(n)
    BY DEF RoutedArcs, IsFirstArc, ArcsOf
  <2>2. b \in queued_arcs \/ InHand(b) \/ LeadsOn(b)
    BY <2>1 DEF NoStubs
  <2> QED BY <2>1, <2>2, LeadsOnKept
<1>3. NoStrays'
  <2> SUFFICES ASSUME NEW n \in Net \ Undriven, NEW w \in Wire,
                      HasWire(fab', n, w)
               PROVE  wire_to_arcs'[w] # {}
    BY DEF NoStrays
  <2>1. HasWire(fab, n, w)
    BY DEF HasWire
  <2> QED BY <2>1 DEF NoStrays
<1> QED BY <1>1, <1>2, <1>3

(* Taking an arc from the queue and releasing its wires (arc_queue_pop,    *)
(* route_arc).                                                             *)
LEMMA ReleaseArcTree ==
    ASSUME IInv, TreeInv, IInv', NEW a \in queued_arcs, ReleaseArc(a)
    PROVE  TreeInv'
<1>1. /\ a \in Arc
      /\ \A n \in Net, w \in Wire : fab'.wires[n][w] =
            IF wire_to_arcs[w] = {a} THEN NoEntry ELSE fab.wires[n][w]
      /\ \A w \in Wire : wire_to_arcs'[w] = wire_to_arcs[w] \ {a}
  BY ReleaseEffect DEF ReleaseArc
<1>2. /\ arc' = a /\ pc = "loop" /\ pc' = "search" /\ sink' = sink
      /\ todo' = todo /\ todo = {} /\ queued_arcs' = queued_arcs \ {a}
      /\ \A b \in Arc \ {a} : arc_to_wires'[b] = arc_to_wires[b]
  BY DEF ReleaseArc, SetupFirst, IInv, TypeOK
<1>3. ASSUME NEW b \in Arc, b # a
      PROVE  \A w \in arc_to_wires[b] :
                fab'.wires[ArcNet[b]][w] = fab.wires[ArcNet[b]][w]
  <2> TAKE w \in arc_to_wires[b]
  <2>1. w \in Wire /\ b \in wire_to_arcs[w] /\ ArcNet[b] \in Net
    BY Router1Assumption DEF IInv, TypeOK, MapsInverse
  <2> QED BY <2>1, <1>1, <1>3
<1>4. InHand(a)' /\ \A b \in Arc : ~InHand(b)
  BY <1>2 DEF InHand
<1>5. \A b \in Arc : \/ b \in queued_arcs' \/ InHand(b)'
                     \/ /\ b \notin queued_arcs /\ ~InHand(b)
                        /\ arc_to_wires'[b] = arc_to_wires[b]
                        /\ \A w \in arc_to_wires[b] :
                             fab'.wires[ArcNet[b]][w] = fab.wires[ArcNet[b]][w]
  BY <1>2, <1>3, <1>4
<1>6. \A n \in Net, w \in Wire : HasWire(fab', n, w) /\ wire_to_arcs[w] # {}
                                 => wire_to_arcs'[w] # {}
  BY <1>1 DEF HasWire
<1>7. \A n \in Net, w \in Wire : fab'.wires[n][w] \in {fab.wires[n][w], NoEntry}
  BY <1>1
<1> QED BY <1>2, <1>5, <1>6, <1>7, TakingStep

(* The timing-driven ripup (router1).                                      *)
LEMMA TimingRipupTree ==
    ASSUME IInv, TreeInv, IInv', NEW late \in SUBSET Arc, TimingDrivenRipup(late)
    PROVE  TreeInv'
<1> DEFINE W == {w \in {sink[a] : a \in late} : ~CheckWireAvail(fab, w)}
<1>1. /\ W \in SUBSET Wire /\ \A w \in W : fab.wire_to_net[w] # NoNet
  BY DEF IInv, TypeOK, CheckWireAvail
<1>2. /\ pc = "timing" /\ pc' = "loop" /\ sink' = sink /\ todo' = todo /\ todo = {}
      /\ fab' = UnbindWires(fab, W)
      /\ queued_arcs' = queued_arcs \cup Victims(W)
      /\ wire_to_arcs' = [w \in Wire |-> IF w \in W THEN {} ELSE wire_to_arcs[w]]
      /\ arc_to_wires' = [a \in Arc |-> arc_to_wires[a] \
                                        {w \in W : a \in wire_to_arcs[w]}]
  BY DEF TimingDrivenRipup, SetupFirst, IInv
<1>3. \A m \in Net, w \in Wire : fab'.wires[m][w] =
            IF w \in W THEN NoEntry ELSE fab.wires[m][w]
  BY <1>1, <1>2, UnbindTracked
<1> HIDE DEF W
<1>4. ASSUME NEW b \in Arc, b \notin Victims(W)
      PROVE  /\ arc_to_wires'[b] = arc_to_wires[b]
             /\ \A w \in arc_to_wires[b] :
                  fab'.wires[ArcNet[b]][w] = fab.wires[ArcNet[b]][w]
  <2>1. \A w \in arc_to_wires[b] : w \in Wire /\ w \notin W
    BY <1>1, <1>4 DEF Victims, IInv, MapsInverse, TypeOK
  <2> QED BY <2>1, <1>2, <1>3, Router1Assumption
<1>5. \A b \in Arc : ~InHand(b)
  BY <1>2 DEF InHand
<1>6. \A b \in Arc : \/ b \in queued_arcs'
                     \/ /\ b \notin queued_arcs /\ ~InHand(b)
                        /\ arc_to_wires'[b] = arc_to_wires[b]
                        /\ \A w \in arc_to_wires[b] :
                             fab'.wires[ArcNet[b]][w] = fab.wires[ArcNet[b]][w]
  BY <1>2, <1>4, <1>5
<1>7. \A n \in Net, w \in Wire : HasWire(fab', n, w) /\ wire_to_arcs[w] # {}
                                 => wire_to_arcs'[w] # {}
  BY <1>2, <1>3 DEF HasWire
<1>8. \A n \in Net, w \in Wire : fab'.wires[n][w] \in {fab.wires[n][w], NoEntry}
  BY <1>3
<1> QED BY <1>2, <1>6, <1>7, <1>8, TakingStep

-----------------------------------------------------------------------------
(* Binding *)

(* Routing an arc whose source is its sink (route_arc, special case).      *)
LEMMA RouteTrivialArcTree ==
    ASSUME IInv, TreeInv, IInv', NEW a \in queued_arcs, RouteTrivialArc(a)
    PROVE  TreeInv'
<1> USE DEF TreeInv
<1> DEFINE f == UnbindWires(fab, OnlyUser(a))
           n == ArcNet[a]
<1>1. /\ a \in Arc /\ f \in FabricState /\ FabricConsistent(f)
      /\ \A w \in Wire : f.wire_to_net[w] =
            IF wire_to_arcs[w] = {a} THEN NoNet ELSE fab.wire_to_net[w]
      /\ \A m \in Net, w \in Wire : f.wires[m][w] =
            IF wire_to_arcs[w] = {a} THEN NoEntry ELSE fab.wires[m][w]
      /\ \A w \in Wire : WithoutArc(a)[w] = wire_to_arcs[w] \ {a}
      /\ WithoutArc(a) \in [Wire -> SUBSET Arc]
  BY ReleaseEffect
<1>2. /\ Src(a) = sink[a] /\ Src(a) \in Wire /\ n \in Net /\ sink' = sink
      /\ pc = "loop" /\ todo = {} /\ todo' = {} /\ pc' \in {"loop", "timing"}
      /\ queued_arcs' = queued_arcs \ {a}
      /\ fab' = IF CheckWireAvail(f, Src(a))
                THEN BindWire(f, Src(a), n, STRENGTH_WEAK) ELSE f
      /\ wire_to_arcs' = [WithoutArc(a) EXCEPT ![Src(a)] = @ \cup {a}]
      /\ arc_to_wires'[a] = {Src(a)}
      /\ \A b \in Arc \ {a} : arc_to_wires'[b] = arc_to_wires[b]
  <2>1. /\ Src(a) \in Wire /\ n \in Net /\ arc_to_wires \in [Arc -> SUBSET Wire]
        /\ pc = "loop" => todo = {}
    BY <1>1, Router1Assumption DEF SetupFirst, IInv, TypeOK, Src
  <2>2. /\ pc = "loop" /\ Src(a) = sink[a] /\ sink' = sink /\ todo' = todo
        /\ queued_arcs' = queued_arcs \ {a}
        /\ pc' = AfterArc(queued_arcs')
        /\ wire_to_arcs' = [WithoutArc(a) EXCEPT ![Src(a)] = @ \cup {a}]
        /\ arc_to_wires' = [arc_to_wires EXCEPT ![a] = {Src(a)}]
        /\ fab' = IF CheckWireAvail(f, Src(a))
                  THEN BindWire(f, Src(a), n, STRENGTH_WEAK) ELSE f
    BY DEF RouteTrivialArc
  <2>3. AfterArc(queued_arcs') \in {"loop", "timing"}
    BY DEF AfterArc
  <2> HIDE DEF f
  <2> QED BY <1>1, <2>1, <2>2, <2>3
<1> HIDE DEF f
<1>3. /\ \A m \in Net, w \in Wire : ~(m = n /\ w = Src(a)) => fab'.wires[m][w] = f.wires[m][w]
      /\ \/ fab'.wires[n][Src(a)] = f.wires[n][Src(a)]
         \/ /\ fab'.wires[n][Src(a)].pip = NoPip
            /\ f.wire_to_net[Src(a)] = NoNet
  <2>1. CASE CheckWireAvail(f, Src(a))
    BY <2>1, <1>1, <1>2, BindSourceEffect DEF CheckWireAvail
  <2>2. CASE ~CheckWireAvail(f, Src(a))
    BY <2>2, <1>2
  <2> QED BY <2>1, <2>2
<1>4. Acyclic'
  <2> SUFFICES ASSUME NEW m \in Net \ Undriven, NEW S \in SUBSET Wire,
                      Loop(fab', m, S)
               PROVE  FALSE
    BY DEF Acyclic
  <2>1. \A w \in S : w \in Wire /\ fab'.wires[m][w] # NoEntry /\ fab'.wires[m][w].pip # NoPip
    BY DEF Loop, HasWire
  <2>2. \A w \in S : fab'.wires[m][w] = f.wires[m][w]
    BY <2>1, <1>3
  <2>3. \A w \in S : fab'.wires[m][w] = fab.wires[m][w]
    BY <2>1, <2>2, <1>1
  <2>4. Loop(fab, m, S)
    BY <2>3 DEF Loop, HasWire
  <2> QED BY <2>4, <1>2 DEF Acyclic
<1>5. NoStubs'
  <2> SUFFICES ASSUME NEW m \in Net, NEW b \in RoutedArcs(m)'
               PROVE  b \in queued_arcs' \/ LeadsOn(b)'
    BY DEF NoStubs
  <2>1. b \in Arc /\ b \in RoutedArcs(m)
    BY <1>2 DEF RoutedArcs, IsFirstArc, ArcsOf
  <2>2. CASE b = a
    BY <2>2, <1>2 DEF LeadsOn
  <2>3. CASE b # a
    <3>1. b \in queued_arcs \/ LeadsOn(b)
      BY <2>1, <1>2 DEF NoStubs, InHand
    <3>2. \A w \in arc_to_wires[b] :
             fab'.wires[ArcNet[b]][w] = fab.wires[ArcNet[b]][w]
      <4> TAKE w \in arc_to_wires[b]
      <4>1. /\ w \in Wire /\ b \in wire_to_arcs[w] /\ ArcNet[b] \in Net
            /\ fab.wire_to_net[w] = ArcNet[b]
        BY <2>1, Router1Assumption DEF IInv, TypeOK, MapsInverse, TrackedIsBound
      <4>2. f.wires[ArcNet[b]][w] = fab.wires[ArcNet[b]][w] /\ f.wire_to_net[w] # NoNet
        BY <4>1, <2>3, <1>1, FabricAssumption
      <4> QED BY <4>1, <4>2, <1>3
    <3> QED BY <3>1, <3>2, <2>1, <2>3, <1>2, LeadsOnKept
  <2> QED BY <2>2, <2>3
<1>6. NoStrays'
  <2> SUFFICES ASSUME NEW m \in Net \ Undriven, NEW w \in Wire,
                      HasWire(fab', m, w)
               PROVE  wire_to_arcs'[w] # {}
    BY <1>2 DEF NoStrays
  <2>1. CASE w = Src(a)
    BY <2>1, <1>1, <1>2
  <2>2. CASE w # Src(a)
    <3>1. fab'.wires[m][w] = f.wires[m][w]
      BY <2>2, <1>3
    <3>2. wire_to_arcs[w] # {a} /\ HasWire(fab, m, w)
      BY <3>1, <1>1 DEF HasWire
    <3>3. wire_to_arcs[w] # {}
      BY <3>2, <1>2 DEF NoStrays
    <3>4. wire_to_arcs'[w] = wire_to_arcs[w] \ {a}
      BY <2>2, <1>1, <1>2
    <3> QED BY <3>2, <3>3, <3>4
  <2> QED BY <2>1, <2>2
<1> QED BY <1>4, <1>5, <1>6
(* What one turn of the bind loop does to the maps of the router           *)
(* (route_arc, ripup_wire).                                                *)
LEMMA BindStepMaps ==
    ASSUME IInv, BindStep
    PROVE  /\ arc_to_wires'[arc] = arc_to_wires[arc] \cup {cursor}
           /\ arc \in wire_to_arcs'[cursor]
           /\ \A w \in Wire \ {cursor} : wire_to_arcs'[w] = wire_to_arcs[w]
           /\ queued_arcs' = queued_arcs \cup Victims(Ripped)
           /\ \A b \in Arc \ {arc} : b \notin Victims(Ripped) =>
                arc_to_wires'[b] = arc_to_wires[b]
           /\ \A b \in Arc : cursor \in arc_to_wires[b] /\ Ripped # {}
                             => b \in Victims(Ripped)
<1>1. arc \in Arc /\ cursor \in Wire /\ Ripped \subseteq {cursor}
  BY DEF IInv, TypeOK, Ripped
<1>2. cursor \notin arc_to_wires[arc] /\ pc = "bind"
  BY DEF BindStep, IInv, PartlyBound
<1>3. arc_to_wires'[arc] = arc_to_wires[arc] \cup {cursor}
  BY <1>1, <1>2 DEF BindStep
<1>4. /\ arc \in wire_to_arcs'[cursor]
      /\ \A w \in Wire \ {cursor} : wire_to_arcs'[w] = wire_to_arcs[w]
      /\ queued_arcs' = queued_arcs \cup Victims(Ripped)
      /\ \A b \in Arc \ {arc} : b \notin Victims(Ripped) =>
            arc_to_wires'[b] = arc_to_wires[b]
  BY <1>1 DEF BindStep
<1>5. \A b \in Arc : cursor \in arc_to_wires[b] /\ Ripped # {} => b \in Victims(Ripped)
  BY <1>1 DEF IInv, MapsInverse, Victims
<1> QED BY <1>3, <1>4, <1>5

(* The wires bound so far, each driven through a pip of the path, drive    *)
(* none of themselves in a circle: a path has no cycle (route_arc).        *)
LEMMA NoCircleOnPath ==
    ASSUME IInv, pc = "bind", NEW S \in SUBSET Wire,
           \A w \in S \cap arc_to_wires[arc] :
              PipSrc[fab.wires[ArcNet[arc]][w].pip] \in S,
           cursor \notin S
    PROVE  S \cap arc_to_wires[arc] = {}
<1> DEFINE n == ArcNet[arc]
           d == arc_to_wires[arc]
           T == S \cap d
           C == {fab.wires[n][w].pip : w \in T}
<1>1. arc \in Arc /\ n \in Net /\ d \subseteq Wire
  BY Router1Assumption DEF IInv, TypeOK
<1>2. \A w \in d : /\ fab.wires[n][w].pip \in route
                   /\ PipSrc[fab.wires[n][w].pip] \in d \cup {cursor}
  BY DEF IInv, PartlyBound
<1>3. \A w \in d : fab.wires[n][w].pip # NoPip
  BY <1>2, FabricAssumption DEF IInv, TypeOK
<1>4. \A w \in d : PipDst[fab.wires[n][w].pip] = w
  BY <1>1, <1>3 DEF IInv, ContextCheck, FabricConsistent, DriversBound
<1>5. \A w \in T : PipSrc[fab.wires[n][w].pip] \in T
  BY <1>2
<1>6. C \in SUBSET route
  BY <1>2
<1>7. Sources(C) \subseteq Dests(C)
  <2> SUFFICES ASSUME NEW x \in Sources(C) PROVE x \in Dests(C)
    OBVIOUS
  <2>1. PICK w \in T : x = PipSrc[fab.wires[n][w].pip]
    BY DEF Sources
  <2>2. x \in T
    BY <2>1, <1>5
  <2>3. fab.wires[n][x].pip \in C /\ PipDst[fab.wires[n][x].pip] = x
    BY <2>2, <1>4
  <2> QED BY <2>3 DEF Dests
<1>8. C = {}
  <2>1. \A D \in SUBSET route : Sources(D) \subseteq Dests(D) => D = {}
    BY DEF IInv, PartlyBound, IsPath
  <2> HIDE DEF C
  <2> QED BY <1>6, <1>7, <2>1
<1> QED BY <1>8

(* One turn of the bind loop (route_arc).                                  *)
LEMMA BindStepTree ==
    ASSUME IInv, TreeInv, IInv', BindStep PROVE TreeInv'
<1> USE DEF TreeInv
<1> DEFINE n == ArcNet[arc]
           c == cursor
           d == arc_to_wires[arc]
           v == VisitedPip
<1>1. /\ arc \in Arc /\ n \in Net /\ c \in Wire
      /\ FabricConsistent(fab')
      /\ \A w \in Wire : fab'.wire_to_net[w] =
            IF w = c THEN n ELSE fab.wire_to_net[w]
      /\ \A m \in Net, w \in Wire \ {c} :
            fab'.wires[m][w] = fab.wires[m][w]
      /\ fab'.wires[n][c].pip = v
      /\ ~NeedsBinding => fab' = fab
      /\ NeedsBinding /\ Ripped = {} => wire_to_arcs[c] = {}
  BY BindStepEffect
<1>2. /\ pc = "bind" /\ arc' = arc /\ sink' = sink /\ todo' = todo /\ todo = {}
      /\ route' = route /\ c \notin d /\ d \subseteq Wire
      /\ v # NoPip => pc' = "bind"
      /\ v = NoPip => pc' \in {"loop", "timing"}
  BY <1>1 DEF BindStep, PartlyBound, SetupFirst, IInv, TypeOK, AfterArc
<1>3. /\ arc_to_wires'[arc] = d \cup {c}
      /\ arc \in wire_to_arcs'[c]
      /\ \A w \in Wire \ {c} : wire_to_arcs'[w] = wire_to_arcs[w]
      /\ queued_arcs' = queued_arcs \cup Victims(Ripped)
      /\ \A b \in Arc \ {arc} : b \notin Victims(Ripped) =>
            arc_to_wires'[b] = arc_to_wires[b]
      /\ \A b \in Arc : c \in arc_to_wires[b] /\ Ripped # {} => b \in Victims(Ripped)
  BY BindStepMaps
<1>4. Acyclic'
  <2> SUFFICES ASSUME NEW m \in Net \ Undriven, NEW S \in SUBSET Wire,
                      Loop(fab', m, S)
               PROVE  pc' = "bind" /\ m = n /\ S \cap (d \cup {c}) # {}
    BY <1>2, <1>3 DEF Acyclic
  <2>1. S # {} /\ \A w \in S : /\ HasWire(fab', m, w)
                               /\ fab'.wires[m][w].pip # NoPip
                               /\ PipSrc[fab'.wires[m][w].pip] \in S
    BY DEF Loop
  <2>2. c \in S => m = n /\ v # NoPip
    BY <2>1, <1>1 DEF FabricConsistent, WireMapsAgree
  <2>3. CASE c \in S
    BY <2>2, <2>3, <1>2
  <2>4. CASE c \notin S
    <3>1. \A w \in S : fab'.wires[m][w] = fab.wires[m][w]
      BY <2>4, <1>1
    <3>2. Loop(fab, m, S)
      BY <2>1, <3>1 DEF Loop, HasWire
    <3>3. m = n /\ S \cap d # {}
      BY <3>2 DEF Acyclic
    <3>4. \A w \in S \cap d : PipSrc[fab.wires[n][w].pip] \in S
      BY <2>1, <3>1, <3>3
    <3>5. FALSE
      BY <3>3, <3>4, <2>4, <1>2, NoCircleOnPath
    <3> QED BY <3>5
  <2> QED BY <2>3, <2>4
<1>5. NoStubs'
  <2> SUFFICES ASSUME NEW m \in Net, NEW b \in RoutedArcs(m)'
               PROVE  b \in queued_arcs' \/ InHand(b)' \/ LeadsOn(b)'
    BY DEF NoStubs
  <2>1. b \in Arc /\ b \in RoutedArcs(m) /\ ArcNet[b] \in Net
    BY <1>2, Router1Assumption DEF RoutedArcs, IsFirstArc, ArcsOf
  <2>2. CASE b = arc
    <3>1. CASE v # NoPip
      BY <3>1, <2>2, <1>2 DEF InHand
    <3>2. CASE v = NoPip
      <4> SUFFICES ASSUME NEW w \in (d \cup {c}) \ {sink[arc]}
                   PROVE  \E x \in d \cup {c} :
                             /\ fab'.wires[n][x].pip # NoPip
                             /\ PipSrc[fab'.wires[n][x].pip] = w
        BY <2>2, <1>2, <1>3 DEF LeadsOn
      <4>1. PICK q \in route : PipDst[q] \in d /\ PipSrc[q] = w
        BY <1>2 DEF IInv, PartlyBound
      <4> DEFINE x == PipDst[q]
                 p == fab.wires[n][x].pip
      <4>2. p \in route /\ route \subseteq Pip
        BY <4>1, <1>2 DEF IInv, PartlyBound, TypeOK
      <4>3. p # NoPip /\ PipDst[p] = x
        BY <4>1, <4>2, <1>1, <1>2, FabricAssumption
           DEF IInv, ContextCheck, FabricConsistent, DriversBound
      <4>4. p = q
        BY <4>1, <4>2, <4>3, <1>2 DEF IInv, PartlyBound, IsPath
      <4>5. fab'.wires[n][x] = fab.wires[n][x]
        BY <4>1, <1>1, <1>2
      <4> QED BY <4>1, <4>3, <4>4, <4>5
    <3> QED BY <3>1, <3>2
  <2>3. CASE b # arc /\ b \notin Victims(Ripped)
    <3>1. b \in queued_arcs \/ LeadsOn(b)
      BY <2>1, <2>3, <1>2 DEF NoStubs, InHand
    <3>2. arc_to_wires'[b] = arc_to_wires[b]
      BY <2>1, <2>3, <1>3
    <3>3. c \in arc_to_wires[b] => fab' = fab
      <4>1. c \in arc_to_wires[b] => b \in wire_to_arcs[c]
        BY <2>1, <1>1 DEF IInv, MapsInverse
      <4> QED BY <4>1, <2>1, <2>3, <1>1, <1>3
    <3>4. arc_to_wires[b] \subseteq Wire
      BY <2>1 DEF IInv, TypeOK
    <3>5. \A w \in arc_to_wires[b] :
             fab'.wires[ArcNet[b]][w] = fab.wires[ArcNet[b]][w]
      BY <3>3, <3>4, <2>1, <1>1
    <3> QED BY <3>1, <3>2, <3>5, <2>1, <1>2, <1>3, LeadsOnKept
  <2>4. CASE b \in Victims(Ripped)
    BY <2>4, <1>3
  <2> QED BY <2>2, <2>3, <2>4
<1>6. NoStrays'
  BY <1>1, <1>2, <1>3 DEF NoStrays, HasWire
<1> QED BY <1>4, <1>5, <1>6

-----------------------------------------------------------------------------
(* All steps *)

(* Every step keeps the nets free of loops, stubs and strays.              *)
LEMMA TreeInvPreserved ==
    ASSUME Assumptions, IInv, TreeInv, [Next]_vars PROVE TreeInv'
<1>0. IInv'
  BY IInvPreserved
<1>1. ASSUME NEW n \in Net, SkipNet(n) PROVE TreeInv'
  <2>1. /\ UNCHANGED <<fab, sink, arc_to_wires, wire_to_arcs, queued_arcs>>
        /\ pc = "setup" /\ todo' \subseteq todo /\ todo \ todo' \subseteq Undriven
    BY <1>1 DEF SkipNet, skip_net
  <2>2. \A a \in Arc : ~InHand(a)
    BY <2>1 DEF InHand
  <2> QED BY <1>0, <2>1, <2>2, QuietStep
<1>2. ASSUME NEW n \in Net, SetupError(n) PROVE TreeInv'
  <2>1. /\ UNCHANGED <<fab, sink, arc_to_wires, wire_to_arcs, queued_arcs>>
        /\ pc = "setup" /\ todo' = todo
    BY <1>2 DEF SetupError
  <2>2. \A a \in Arc : ~InHand(a)
    BY <2>1 DEF InHand
  <2> QED BY <1>0, <2>1, <2>2, QuietStep
<1>3. ASSUME NEW n \in Net, SetupNet(n) PROVE TreeInv'
  BY <1>3, SetupNetTree
<1>4. ASSUME NEW a \in queued_arcs, ReleaseArc(a) PROVE TreeInv'
  BY <1>0, <1>4, ReleaseArcTree
<1>5. ASSUME NEW a \in queued_arcs, RouteTrivialArc(a) PROVE TreeInv'
  BY <1>0, <1>5, RouteTrivialArcTree
<1>6. ASSUME NEW P \in Paths[Src(arc), sink[arc]], SearchFinds(P) PROVE TreeInv'
  <2>1. /\ UNCHANGED <<fab, sink, arc_to_wires, wire_to_arcs, queued_arcs, todo, arc>>
        /\ pc = "search" /\ pc' = "bind"
    BY <1>6 DEF SearchFinds
  <2>2. \A a \in Arc : InHand(a) => InHand(a)'
    BY <2>1 DEF InHand
  <2> QED BY <1>0, <2>1, <2>2, QuietStep
<1>7. CASE SearchFails \/ Finish
  <2>1. /\ UNCHANGED <<fab, sink, arc_to_wires, wire_to_arcs, queued_arcs, todo, arc>>
        /\ \/ pc = "search" /\ pc' = "failed"
           \/ pc = "loop" /\ pc' = "done"
    BY <1>7 DEF SearchFails, Finish
  <2>2. pc # "bind" /\ \A a \in Arc : InHand(a) => InHand(a)'
    BY <2>1 DEF InHand
  <2> QED BY <1>0, <2>1, <2>2, QuietStep
<1>8. CASE BindStep
  BY <1>0, <1>8, BindStepTree
<1>9. ASSUME NEW late \in SUBSET Arc, TimingDrivenRipup(late) PROVE TreeInv'
  BY <1>0, <1>9, TimingRipupTree
<1>10. CASE UNCHANGED vars
  <2>1. UNCHANGED <<fab, sink, arc_to_wires, wire_to_arcs, queued_arcs, todo, arc, pc>>
    BY <1>10 DEF vars
  <2>2. \A a \in Arc : InHand(a) => InHand(a)'
    BY <2>1 DEF InHand
  <2> QED BY <1>0, <2>1, <2>2, QuietStep
<1> QED BY <1>1, <1>2, <1>3, <1>4, <1>5, <1>6, <1>7, <1>8, <1>9,
        <1>10 DEF Next, Returned

(* When the queue is empty the wires of a net are those of its arcs, and   *)
(* each of these leads from the source to a sink (router1).                *)
LEMMA DoneIsRouted ==
    ASSUME IInv, TreeInv, pc = "done", NEW n \in Net \ Undriven, ArcsOf(n) # {}
    PROVE  FullyRouted(n)
<1> DEFINE W == WiresOf(fab, n)
<1>1. todo = {} /\ queued_arcs = {} /\ sink \in [Arc -> Wire]
  BY DEF IInv, SetupFirst, IdleQueue, TypeOK
<1>2. ASSUME NEW b \in RoutedArcs(n)
      PROVE  /\ b \in Arc /\ ArcNet[b] = n
             /\ arc_to_wires[b] \subseteq W
             /\ Settled(b) /\ LeadsOn(b)
  <2>1. b \in Arc /\ ArcNet[b] = n
    BY DEF RoutedArcs, ArcsOf
  <2>2. Settled(b) /\ LeadsOn(b)
    BY <1>1 DEF IInv, TreeInv, QueueComplete, NoStubs, InHand
  <2>3. \A w \in arc_to_wires[b] : w \in Wire /\ fab.wire_to_net[w] = n
    BY <2>1 DEF IInv, TypeOK, TrackedIsBound
  <2>4. arc_to_wires[b] \subseteq W
    BY <2>3 DEF WiresOf, IInv, ContextCheck, FabricConsistent, WireMapsAgree
  <2> QED BY <2>1, <2>2, <2>4
<1>3. ASSUME NEW w \in W
      PROVE  \E b \in RoutedArcs(n) : w \in arc_to_wires[b]
  <2>1. w \in Wire /\ HasWire(fab, n, w) /\ fab.wire_to_net[w] = n
    BY DEF WiresOf, IInv, ContextCheck, FabricConsistent, WireMapsAgree
  <2>2. PICK b \in Arc : w \in arc_to_wires[b]
    BY <2>1, <1>1 DEF TreeInv, NoStrays, IInv, TypeOK, MapsInverse
  <2>3. ArcNet[b] = n /\ IsRouted(b)
    BY <2>1, <2>2 DEF IInv, TrackedIsBound, OnlyRouted
  <2> QED BY <2>2, <2>3 DEF IsRouted
<1>4. ASSUME NEW a \in ArcsOf(n) PROVE sink[a] \in W /\ NetSrc[n] \in W
  <2>1. a \in Arc /\ ArcNet[a] = n
    BY DEF ArcsOf
  <2>2. PICK b \in RoutedArcs(n) : sink[b] = sink[a]
    BY <2>1, <1>1, FirstArcExists
  <2> QED BY <2>2, <1>2 DEF Settled, Src
<1>5. ASSUME NEW w \in W \ {NetSrc[n]} PROVE \E v \in W : Drives(n, v, w)
  <2>1. PICK b \in RoutedArcs(n) : w \in arc_to_wires[b]
    BY <1>3
  <2>2. LET p == fab.wires[n][w].pip IN p # NoPip /\ PipSrc[p] \in arc_to_wires[b]
    BY <2>1, <1>2 DEF Settled, Src
  <2> QED BY <2>1, <2>2, <1>2 DEF Drives, WiresOf
<1>6. ASSUME NEW v \in W
      PROVE  \/ \E w \in W : Drives(n, v, w)
             \/ \E a \in ArcsOf(n) : sink[a] = v
  <2>1. PICK b \in RoutedArcs(n) : v \in arc_to_wires[b]
    BY <1>3
  <2>2. CASE v = sink[b]
    BY <2>1, <2>2, <1>2 DEF ArcsOf
  <2>3. CASE v # sink[b]
    BY <2>1, <2>3, <1>2 DEF LeadsOn, Drives, WiresOf
  <2> QED BY <2>2, <2>3
<1> QED BY <1>4, <1>5, <1>6 DEF FullyRouted

-----------------------------------------------------------------------------
(* The theorems *)

(* Whatever is ripped up and turned around, nets stay free of loops, stubs *)
(* and strays, but for the path being bound (route_arc).                   *)
THEOREM TreesInvariant ==
    ASSUME Assumptions, TreePriorRoutings PROVE Spec => []TreeInv
<1>1. Init => TreeInv
  BY InitTree
<1>2. IInv /\ TreeInv /\ [Next]_vars => TreeInv'
  BY TreeInvPreserved
<1> QED BY <1>1, <1>2, Router1Invariant, PTL DEF Spec

(* Between two arcs no net drives a wire from itself (route_arc).          *)
THEOREM NeverALoop ==
    ASSUME Assumptions, TreePriorRoutings PROVE Spec => []NoLoops
<1>1. TreeInv => NoLoops
  BY DEF TreeInv, Acyclic, NoLoops, AtRest
<1> QED BY <1>1, TreesInvariant, PTL

(* When router1() returns true, checkRoutedDesign() finds every net        *)
(* routed, all of it connected and none of it for nothing.                 *)
THEOREM DoneMeansRouted ==
    ASSUME Assumptions, TreePriorRoutings PROVE Spec => []RoutedWhenDone
<1>1. IInv /\ TreeInv => RoutedWhenDone
  BY DoneIsRouted DEF RoutedWhenDone
<1> QED BY <1>1, Router1Invariant, TreesInvariant, PTL
=============================================================================
