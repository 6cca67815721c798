------------------------------ MODULE Router1 ------------------------------
(***************************************************************************)
(* The rip-up and re-route router of common/route/router1.cc on the xilinx *)
(* fabric.  An arc is one (net, sink wire) pair.  The router keeps a queue *)
(* of arcs to route and two maps that are inverse to each other: the arcs  *)
(* that use a wire, and the wires an arc uses.  It routes the arcs one by  *)
(* one, takes wires from other arcs when it must, and queues the arcs it   *)
(* took them from.                                                         *)
(*                                                                         *)
(* Abstracted: delays, penalties and scores.  The order of the queue is    *)
(* any order, and the A* search returns any simple path whose pips pass    *)
(* the tests the search makes, or fails (useEstimate prunes the search, so *)
(* it may fail although a path exists).                                    *)
(*                                                                         *)
(* The assertions of the code are conjuncts of the guards; NoAbort says    *)
(* that they never block a handler.                                        *)
(***************************************************************************)
EXTENDS Fabric

CONSTANTS
    Arc,            \* the arcs (net_info, user_idx, phys_idx)
    ArcNet,         \* the net of an arc
    ArcPos,         \* its place among the users of the net
    NetSrc,         \* getNetinfoSourceWire
    Undriven,       \* the nets without a driver cell
    Placements,     \* the possible maps from arcs to sink wires
    PriorRoutings,  \* the fabrics the router may be started on
    TimingRipup,    \* setting router/tmg_ripup
    MaxTimingRipup  \* timing_fail_count stops at 50 in the code

ASSUME Router1Assumption ==
    /\ Arc # {}
    /\ ArcNet \in [Arc -> Net]
    /\ ArcPos \in [Arc -> Nat]
    /\ NetSrc \in [Net -> Wire]
    /\ Undriven \subseteq Net
    /\ Placements \subseteq [Arc -> Wire]
    /\ PriorRoutings \subseteq FabricState
    /\ \A f \in PriorRoutings : FabricConsistent(f)
    /\ TimingRipup \in BOOLEAN
    /\ MaxTimingRipup \in Nat

VARIABLES
    fab,                 \* the fabric
    sink,                \* getNetinfoSinkWire of every arc; fixed by placement
    todo,                \* the nets setup has not come to
    queued_arcs,         \* arc_queue
    wire_to_arcs,
    arc_to_wires,
    pc,
    arc,                 \* the argument of route_arc
    route,               \* the pips of the path the search chose
    cursor,              \* the wire of that path to be bound next
    timing_fail_count

vars == <<fab, sink, todo, queued_arcs, wire_to_arcs, arc_to_wires, pc, arc,
          route, cursor, timing_fail_count>>

-----------------------------------------------------------------------------
skip_net(n) == n \in Undriven
ArcsOf(n)   == {a \in Arc : ArcNet[a] = n}
Src(a)      == NetSrc[ArcNet[a]]

(* setup enters the first arc of a net that ends in a wire; it leaves      *)
(* later arcs of that net to the same wire out of every map.               *)
IsFirstArc(a) ==
    \A b \in ArcsOf(ArcNet[a]) : sink[b] = sink[a] => ArcPos[a] <= ArcPos[b]
RoutedArcs(n) == IF skip_net(n) THEN {} ELSE {a \in ArcsOf(n) : IsFirstArc(a)}

(* The nets of src_to_net: the driven ones setup has dealt with. *)
Entered == {m \in Net \ todo : ~skip_net(m)}

(* The four log_error checks of setup on net n. *)
EndpointClash(n) ==
    \E m \in Entered :
        \/ NetSrc[m] = NetSrc[n]
        \/ \E b \in ArcsOf(m) : sink[b] = NetSrc[n]
        \/ \E a \in ArcsOf(n) : sink[a] = NetSrc[m]
        \/ \E a \in ArcsOf(n), b \in ArcsOf(m) : sink[a] = sink[b]

(* The wires setup visits when it walks from wire w of net n to the source *)
(* through the driving pips: the least set that contains w and, with every *)
(* wire bound to n other than the source, the wire before it.              *)
UpClosed(f, n, S) ==
    \A v \in S : v # NetSrc[n] /\ HasWire(f, n, v) /\ f.wires[n][v].pip # NoPip
                 => PipSrc[f.wires[n][v].pip] \in S
Chain(f, n, w) ==
    {x \in Wire : \A S \in SUBSET Wire : w \in S /\ UpClosed(f, n, S) => x \in S}

(* The wires setup enters for arc a. *)
SetupWires(a) ==
    LET n == ArcNet[a]
    IN  IF HasWire(fab, n, sink[a]) THEN Chain(fab, n, sink[a]) ELSE {}

-----------------------------------------------------------------------------
(* setup, for one net; the nets come in a shuffled order. *)
SkipNet(n) ==
    /\ pc = "setup" /\ n \in todo /\ skip_net(n)
    /\ todo' = todo \ {n}
    /\ pc' = IF todo' = {} THEN "loop" ELSE "setup"
    /\ UNCHANGED <<fab, sink, queued_arcs, wire_to_arcs, arc_to_wires, arc,
                   route, cursor, timing_fail_count>>

SetupError(n) ==
    /\ pc = "setup" /\ n \in todo /\ ~skip_net(n) /\ EndpointClash(n)
    /\ pc' = "error"
    /\ UNCHANGED <<fab, sink, todo, queued_arcs, wire_to_arcs, arc_to_wires,
                   arc, route, cursor, timing_fail_count>>

(* NPNR_ASSERT(it->second.pip != PipId()) on the walk to the source. *)
SetupAsserts(n) ==
    \A a \in RoutedArcs(n) : \A w \in SetupWires(a) :
        w # NetSrc[n] /\ HasWire(fab, n, w) => fab.wires[n][w].pip # NoPip

SetupNet(n) ==
    /\ pc = "setup" /\ n \in todo /\ ~skip_net(n) /\ ~EndpointClash(n)
    /\ SetupAsserts(n)
    /\ LET arcs == RoutedArcs(n) IN
       /\ arc_to_wires' = [a \in Arc |-> IF a \in arcs THEN SetupWires(a)
                                                       ELSE arc_to_wires[a]]
       /\ wire_to_arcs' = [w \in Wire |-> wire_to_arcs[w] \cup
                                          {a \in arcs : w \in SetupWires(a)}]
       /\ queued_arcs' = queued_arcs \cup
                         {a \in arcs : NetSrc[n] \notin SetupWires(a)}
    /\ fab' = UnbindWires(fab, {w \in WiresOf(fab, n) :
                                  /\ fab.wires[n][w].strength < STRENGTH_LOCKED
                                  /\ wire_to_arcs'[w] = {}})
    /\ todo' = todo \ {n}
    /\ pc' = IF todo' = {} THEN "loop" ELSE "setup"
    /\ UNCHANGED <<sink, arc, route, cursor, timing_fail_count>>

-----------------------------------------------------------------------------
(* Faults for the sensitivity runs: ripup_wire queues one of the arcs that *)
(* share the wire; the head of route_arc unbinds shared wires; it drops    *)
(* the key of a wire no arc uses any more.                                 *)
Victims_One(W) ==
    LET V == UNION {wire_to_arcs[w] : w \in W}
    IN  IF V = {} THEN {} ELSE {CHOOSE a \in V : TRUE}
OnlyUser_Shared(a)    == arc_to_wires[a]
WithoutArc_Dropped(a) == [w \in {w \in Wire : wire_to_arcs[w] # {a}} |->
                             wire_to_arcs[w] \ {a}]

(* ripup_wire on every wire of W: forget the wire for all its arcs, queue  *)
(* them, unbind it.  On this fabric getConflictingWireWire(w) is w.        *)
Victims(W) == UNION {wire_to_arcs[w] : w \in W}

(* Where the main loop goes when route_arc returns true. *)
AfterArc(queue) ==
    IF TimingRipup /\ queue = {} /\ timing_fail_count < MaxTimingRipup
    THEN "timing" ELSE "loop"

(* arc_queue_pop and the head of route_arc: the wires the arc used are     *)
(* taken from it, and unbound if no other arc uses them.                   *)
OnlyUser(a)       == {w \in arc_to_wires[a] : wire_to_arcs[w] = {a}}
WithoutArc(a)     == [w \in Wire |-> IF w \in arc_to_wires[a]
                                     THEN wire_to_arcs[w] \ {a}
                                     ELSE wire_to_arcs[w]]
ReleaseAsserts(a) ==
    /\ \A w \in arc_to_wires[a] : a \in wire_to_arcs[w]
    /\ \A w \in OnlyUser(a) : CanUnbindWire(fab, w)

ReleaseArc(a) ==
    /\ pc = "loop" /\ a \in queued_arcs /\ Src(a) # sink[a]
    /\ ReleaseAsserts(a)
    /\ arc' = a
    /\ queued_arcs' = queued_arcs \ {a}
    /\ fab' = UnbindWires(fab, OnlyUser(a))
    /\ wire_to_arcs' = WithoutArc(a)
    /\ arc_to_wires' = [arc_to_wires EXCEPT ![a] = {}]
    /\ pc' = "search"
    /\ UNCHANGED <<sink, todo, route, cursor, timing_fail_count>>

(* The special case of route_arc: the source is the sink. *)
TrivialAsserts(a) ==
    UnbindWires(fab, OnlyUser(a)).wire_to_net[Src(a)] \in {NoNet, ArcNet[a]}

RouteTrivialArc(a) ==
    /\ pc = "loop" /\ a \in queued_arcs /\ Src(a) = sink[a]
    /\ ReleaseAsserts(a) /\ TrivialAsserts(a)
    /\ arc' = a
    /\ queued_arcs' = queued_arcs \ {a}
    /\ fab' = LET f == UnbindWires(fab, OnlyUser(a))
              IN  IF CheckWireAvail(f, Src(a))
                  THEN BindWire(f, Src(a), ArcNet[a], STRENGTH_WEAK) ELSE f
    /\ wire_to_arcs' = [WithoutArc(a) EXCEPT ![Src(a)] = @ \cup {a}]
    /\ arc_to_wires' = [arc_to_wires EXCEPT ![a] = {Src(a)}]
    /\ pc' = AfterArc(queued_arcs')
    /\ UNCHANGED <<sink, todo, route, cursor, timing_fail_count>>

-----------------------------------------------------------------------------
(* A set of pips is a simple path from s to t when it enters and leaves    *)
(* every wire at most once, every entered wire but t is left, every left   *)
(* wire but s is entered, and no part of it only leaves wires it enters,   *)
(* as a cycle would.                                                       *)
Sources(P) == {PipSrc[p] : p \in P}
Dests(P)   == {PipDst[p] : p \in P}
IsPath(P, s, t) ==
    /\ \A p, q \in P : PipSrc[p] = PipSrc[q] \/ PipDst[p] = PipDst[q] => p = q
    /\ s \notin Dests(P) /\ t \in Dests(P) /\ t \notin Sources(P)
    /\ Sources(P) \ {s} = Dests(P) \ {t}
    /\ \A C \in SUBSET P : C # {} => ~(Sources(C) \subseteq Dests(C))

Paths == [e \in Wire \X Wire |-> {P \in SUBSET Pip : IsPath(P, e[1], e[2])}]

StrengthOf(f, w) == IF f.wire_to_net[w] = NoNet THEN 0
                    ELSE f.wires[f.wire_to_net[w]][w].strength
Reused(f, n, p)  == HasWire(f, n, PipDst[p]) /\ f.wires[n][PipDst[p]].pip = p

(* A fault for the sensitivity runs: the strength is not looked at. *)
Usable_AnyStrength(f, n, p) == Reused(f, n, p) \/ PipConflictIsWire(p)

(* The tests of the search on pip p for net n with ripup = true: n already *)
(* reaches the destination through p, or neither the destination nor the   *)
(* pip is held by a binding stronger than STRENGTH_STRONG, and the pip is  *)
(* not hard-unavailable.  The source wire of the arc is never tested.      *)
Usable(f, n, p)  ==
    \/ Reused(f, n, p)
    \/ /\ \/ CheckWireAvail(f, PipDst[p])
          \/ StrengthOf(f, PipDst[p]) <= STRENGTH_STRONG
       /\ \/ CheckPipAvail(f, p)
          \/ PipConflictIsWire(p) /\ StrengthOf(f, PipDst[p]) <= STRENGTH_STRONG

SearchFinds(P) ==
    /\ pc = "search"
    /\ \A p \in P : Usable(fab, ArcNet[arc], p)
    /\ route' = P
    /\ cursor' = sink[arc]
    /\ pc' = "bind"
    /\ UNCHANGED <<fab, sink, todo, queued_arcs, wire_to_arcs, arc_to_wires,
                   arc, timing_fail_count>>

(* No route found: router1() returns false. *)
SearchFails ==
    /\ pc = "search"
    /\ pc' = "failed"
    /\ UNCHANGED <<fab, sink, todo, queued_arcs, wire_to_arcs, arc_to_wires,
                   arc, route, cursor, timing_fail_count>>

-----------------------------------------------------------------------------
(* One turn of the loop that binds the path from the sink to the source.   *)
(* visited[cursor].pip is the pip of the path that ends in cursor.         *)
VisitedPip == IF \E p \in route : PipDst[p] = cursor
              THEN CHOOSE p \in route : PipDst[p] = cursor
              ELSE NoPip

(* A fault for the sensitivity runs: a wire the net holds is kept, however *)
(* it is driven.                                                           *)
NeedsBinding_NewWires == ~HasWire(fab, ArcNet[arc], cursor)

NeedsBinding == LET n == ArcNet[arc] IN
    ~HasWire(fab, n, cursor) \/ fab.wires[n][cursor].pip # VisitedPip

(* The wire the step rips up, if any. *)
Ripped == IF NeedsBinding /\ ~CheckWireAvail(fab, cursor) THEN {cursor} ELSE {}

(* With the destination free, ripup_pip would unbind a free wire and       *)
(* abort, so the pip must be available once the wire has been ripped up.   *)
BindAsserts ==
    /\ \A w \in Ripped : CanUnbindWire(fab, w)
    /\ NeedsBinding /\ VisitedPip # NoPip
       => CheckPipAvail(UnbindWires(fab, Ripped), VisitedPip)

BindStep ==
    /\ pc = "bind"
    /\ BindAsserts
    /\ LET n == ArcNet[arc]
           f == UnbindWires(fab, Ripped)
       IN  fab' = IF ~NeedsBinding THEN fab
                  ELSE IF VisitedPip = NoPip
                       THEN BindWire(f, cursor, n, STRENGTH_WEAK)
                       ELSE BindPip(f, VisitedPip, n, STRENGTH_WEAK)
    /\ queued_arcs' = queued_arcs \cup Victims(Ripped)
    /\ wire_to_arcs' = [w \in Wire |->
                          (IF w \in Ripped THEN {} ELSE wire_to_arcs[w])
                          \cup (IF w = cursor THEN {arc} ELSE {})]
    /\ arc_to_wires' = [a \in Arc |->
                          (IF a \in Victims(Ripped) THEN arc_to_wires[a] \ Ripped
                                                    ELSE arc_to_wires[a])
                          \cup (IF a = arc THEN {cursor} ELSE {})]
    /\ IF VisitedPip = NoPip
       THEN pc' = AfterArc(queued_arcs') /\ cursor' = cursor
       ELSE pc' = "bind" /\ cursor' = PipSrc[VisitedPip]
    /\ UNCHANGED <<sink, todo, arc, route, timing_fail_count>>

-----------------------------------------------------------------------------
(* A fault for the sensitivity runs: nets with locked wires take part. *)
RipupCandidates_Locked == {a \in Arc : ~skip_net(ArcNet[a])}

(* The timing-driven ripup once the queue is empty: the sinks of any users *)
(* (those with bad slack) of nets that hold no wire above STRENGTH_STRONG. *)
RipupCandidates ==
    {a \in Arc : /\ ~skip_net(ArcNet[a])
                 /\ \A w \in WiresOf(fab, ArcNet[a]) :
                        fab.wires[ArcNet[a]][w].strength <= STRENGTH_STRONG}

TimingDrivenRipup(late) ==
    LET W == {w \in {sink[a] : a \in late} : ~CheckWireAvail(fab, w)} IN
    /\ pc = "timing" /\ late \subseteq RipupCandidates
    /\ fab' = UnbindWires(fab, W)
    /\ queued_arcs' = queued_arcs \cup Victims(W)
    /\ wire_to_arcs' = [w \in Wire |-> IF w \in W THEN {} ELSE wire_to_arcs[w]]
    /\ arc_to_wires' = [a \in Arc |-> arc_to_wires[a] \
                                      {w \in W : a \in wire_to_arcs[w]}]
    /\ timing_fail_count' = timing_fail_count + 1
    /\ pc' = "loop"
    /\ UNCHANGED <<sink, todo, arc, route, cursor>>

(* The queue is empty: router1() returns true. *)
Finish ==
    /\ pc = "loop" /\ queued_arcs = {}
    /\ pc' = "done"
    /\ UNCHANGED <<fab, sink, todo, queued_arcs, wire_to_arcs, arc_to_wires,
                   arc, route, cursor, timing_fail_count>>

Returned == pc \in {"done", "failed", "error"} /\ UNCHANGED vars

-----------------------------------------------------------------------------
Init ==
    /\ fab \in PriorRoutings
    /\ sink \in Placements
    /\ todo = Net
    /\ queued_arcs = {}
    /\ wire_to_arcs = [w \in Wire |-> {}]
    /\ arc_to_wires = [a \in Arc |-> {}]
    /\ pc = "setup"
    /\ arc = CHOOSE a \in Arc : TRUE
    /\ route = {}
    /\ cursor = sink[arc]
    /\ timing_fail_count = 0

Next ==
    \/ \E n \in Net : SkipNet(n) \/ SetupError(n) \/ SetupNet(n)
    \/ \E a \in queued_arcs : ReleaseArc(a) \/ RouteTrivialArc(a)
    \/ \E P \in Paths[Src(arc), sink[arc]] : SearchFinds(P)
    \/ SearchFails
    \/ BindStep
    \/ \E late \in SUBSET Arc : TimingDrivenRipup(late)
    \/ Finish
    \/ Returned

Spec == Init /\ [][Next]_vars

-----------------------------------------------------------------------------
(* Properties *)

(* The maps and the fabric hold what the code's containers hold.           *)
TypeOK ==
    /\ fab \in FabricState
    /\ sink \in [Arc -> Wire]
    /\ todo \subseteq Net
    /\ queued_arcs \subseteq Arc
    /\ wire_to_arcs \in [Wire -> SUBSET Arc]
    /\ arc_to_wires \in [Arc -> SUBSET Wire]
    /\ pc \in {"setup", "loop", "search", "bind", "timing",
               "done", "failed", "error"}
    /\ arc \in Arc
    /\ route \subseteq Pip
    /\ cursor \in Wire
    /\ timing_fail_count \in Nat

(* Context::check() finds nothing, in every state and not only at the end  *)
(* of the run: the per-net wire maps, the wire map and the pip map of the  *)
(* architecture agree while wires change hands, and no pip stays bound     *)
(* once its wire has gone.                                                 *)
ContextCheck == FabricConsistent(fab)

(* No NPNR_ASSERT of the router or of the binding functions it calls       *)
(* fails: a tracked wire is still bound when its last arc lets it go, and  *)
(* ripping up the wire is enough to make the pip available.                *)
NoAbort ==
    /\ pc = "setup" => \A n \in todo : ~skip_net(n) /\ ~EndpointClash(n)
                                       => SetupAsserts(n)
    /\ pc = "loop" => \A a \in queued_arcs :
                        ReleaseAsserts(a) /\ (Src(a) = sink[a] => TrivialAsserts(a))
    /\ pc = "bind" => BindAsserts

(* Router1::check(), between two arcs: the two tracking maps are inverse   *)
(* to each other, an arc is only tracked on wires its own net holds, and   *)
(* every wire of a driven net is tracked, or was locked before the router  *)
(* came.                                                                   *)
AtRest == pc \in {"loop", "timing", "done", "failed"}
MapsInverse ==
    \A w \in Wire, a \in Arc : a \in wire_to_arcs[w] <=> w \in arc_to_wires[a]
TrackedIsBound ==
    \A a \in Arc : \A w \in arc_to_wires[a] : fab.wire_to_net[w] = ArcNet[a]
BoundIsTracked ==
    \A n \in Net, w \in Wire :
        fab.wire_to_net[w] = n /\ wire_to_arcs[w] = {} =>
            skip_net(n) \/ fab.wires[n][w].strength >= STRENGTH_LOCKED
RouterCheck ==
    AtRest => MapsInverse /\ TrackedIsBound /\ BoundIsTracked

(* The queue misses nothing: an arc that is neither queued nor being       *)
(* routed is tracked along a set of wires of its net that holds its sink   *)
(* and its source and, with every wire but the source, the wire before it. *)
(* Ripping up any wire of it, for whatever net, must have queued the arc.  *)
InHand(a) == pc \in {"search", "bind", "failed"} /\ a = arc
Settled(a) ==
    /\ {sink[a], Src(a)} \subseteq arc_to_wires[a]
    /\ \A w \in arc_to_wires[a] \ {Src(a)} :
         LET p == fab.wires[ArcNet[a]][w].pip
         IN  p # NoPip /\ PipSrc[p] \in arc_to_wires[a]
QueueComplete ==
    \A n \in Net \ todo : \A a \in RoutedArcs(n) :
        a \in queued_arcs \/ InHand(a) \/ Settled(a)

(* No net drives a wire from itself, however often its own arcs turned     *)
(* each other's wires around.  While a path is being bound this may fail   *)
(* for a moment; between two arcs it never does.                           *)
Loop(f, n, S) ==
    S # {} /\ \A w \in S : /\ HasWire(f, n, w)
                           /\ f.wires[n][w].pip # NoPip
                           /\ PipSrc[f.wires[n][w].pip] \in S
NoLoops ==
    AtRest => \A n \in Net \ Undriven, S \in SUBSET Wire : ~Loop(fab, n, S)

(* checkRoutedDesign() when router1() returns true: in each net with sinks *)
(* the source and all the sinks are bound (those of arcs the queue never   *)
(* saw, too), every other wire is driven, by a wire of the net, and        *)
(* no wire but a sink leads nowhere (no stubs, nothing dangling).          *)
Drives(n, v, w) == /\ HasWire(fab, n, w) /\ fab.wires[n][w].pip # NoPip
                   /\ PipSrc[fab.wires[n][w].pip] = v
FullyRouted(n) ==
    LET W == WiresOf(fab, n) IN
    /\ NetSrc[n] \in W /\ \A a \in ArcsOf(n) : sink[a] \in W
    /\ \A w \in W \ {NetSrc[n]} : \E v \in W : Drives(n, v, w)
    /\ \A v \in W : \/ \E w \in W : Drives(n, v, w)
                    \/ \E a \in ArcsOf(n) : sink[a] = v
RoutedWhenDone ==
    pc = "done" =>
        \A n \in Net \ Undriven : ArcsOf(n) # {} => FullyRouted(n)

(* A binding above STRENGTH_STRONG (for setup: STRENGTH_LOCKED or above)   *)
(* is given up only by an arc of its own net that is being routed again,   *)
(* never for another net and never by the timing-driven ripup.             *)
LockedWire(w) ==
    /\ StrengthOf(fab, w) > STRENGTH_STRONG
    /\ pc = "setup" => StrengthOf(fab, w) >= STRENGTH_LOCKED
LockedStays ==
    [][\A w \in Wire :
         LockedWire(w) /\ fab'.wire_to_net[w] # fab.wire_to_net[w]
         => pc = "loop" /\ fab.wire_to_net[w] = ArcNet[arc']]_vars

-----------------------------------------------------------------------------
(* An assertion of Router1::check() that setup itself can break.           *)

(* log_assert(net_info->wires.count(wire)): a wire tracked for an arc is a *)
(* wire of its net.                                                        *)
AssertTrackedBound == AtRest => TrackedIsBound
=============================================================================
