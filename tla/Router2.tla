------------------------------ MODULE Router2 ------------------------------
(***************************************************************************)
(* The negotiating router of common/route/router2.cc on the xilinx fabric. *)
(* Unlike Router1 it lets nets share wires while it works: each net has a  *)
(* private map of the wires it would use, each wire a counter of the nets  *)
(* that would use it.  Nets on overused wires are routed again, until none *)
(* is overused; only then is the routing bound in the fabric.              *)
(*                                                                         *)
(* Many nets are routed by several threads at once, without a lock: a net  *)
(* whose bounding box lies in one part of the grid goes to the thread of   *)
(* that part, and that thread only explores wires located there.  The      *)
(* counters are plain integers, so a step that changes one is modelled as  *)
(* a load and a store.                                                     *)
(*                                                                         *)
(* Abstracted: costs, hence the order of nets and arcs and the path chosen *)
(* among those that pass the tests of the search; and the budget of a      *)
(* search confined to a bounding box, which may therefore fail at any time.*)
(*                                                                         *)
(* The assertions of the code are conjuncts of the guards; NoAbort says    *)
(* that they never block a handler.                                        *)
(***************************************************************************)
EXTENDS Fabric, Sequences, SequencesExt

CONSTANTS
    Arc,            \* the arcs (user, physical pin)
    NetOrder,       \* nets_by_udata
    NetArcs,        \* the arcs of a net, in the order of its users
    SinkWire,       \* PerArcData::sink_wire
    NetSrc,         \* PerNetData::src_wire
    Undriven,       \* the nets without a driver cell
    Reserved,       \* reserved_net after find_all_reserved_wires, or NoNet
    WireLoc, PipLoc,\* PerWireData::x, y and getPipLocation
    NetBox,         \* PerNetData::bb after setup_nets
    MidX, MidY,     \* the split point partition_nets computes
    GridX, GridY,   \* getGridDimX, getGridDimY
    MinThreaded,    \* the least queue that is multi-threaded; 200 in the code
    GrowPeriod,     \* a box grows on every GrowPeriod-th failure; 3 in the code
    MayBeLate,      \* the nets whose slack may fail; none unless the
                    \* setting router/tmg_ripup is on
    MaxTimingIter,  \* late nets are queued while iter < 500 in the code
    PriorRoutings,  \* the fabrics the router may be started on
    MaxIter,        \* bound on the number of iterations
    NoReg

Use    == [pip : Pip \cup {NoPip}, count : Nat]
NoUse  == [pip |-> NoPip, count |-> -1]
ArcNet == [a \in Arc |-> CHOOSE n \in Net : a \in ToSet(NetArcs[n])]
Src(a) == NetSrc[ArcNet[a]]
Range0(n) == 0 .. n
Box    == [x0 : Range0(GridX), y0 : Range0(GridY),
           x1 : Range0(GridX), y1 : Range0(GridY)]

ASSUME Router2Assumption ==
    /\ NetOrder \in Seq(Net) /\ ToSet(NetOrder) = Net
    /\ NetArcs \in [Net -> Seq(Arc)]
    /\ \A a \in Arc : \E n \in Net : a \in ToSet(NetArcs[n])
    /\ \A m, n \in Net : m # n => ToSet(NetArcs[m]) \cap ToSet(NetArcs[n]) = {}
    /\ Net \cap Arc = {}
    /\ SinkWire \in [Arc -> Wire] /\ IsFiniteSet(Wire)
    /\ NetSrc \in [Net -> Wire]
    /\ Undriven \subseteq Net
    /\ Reserved \in [Wire -> Net \cup {NoNet}]
    /\ \A n \in Net \ Undriven : NetArcs[n] # <<>> => Reserved[NetSrc[n]] = n
    /\ \A a \in Arc : ArcNet[a] \notin Undriven => Reserved[SinkWire[a]] = ArcNet[a]
    /\ WireLoc \in [Wire -> [x : Int, y : Int]]
    /\ NetBox \in [Net -> Box]
    /\ GridX \in Nat /\ GridY \in Nat /\ MidX \in Int /\ MidY \in Int
    /\ GrowPeriod \in Nat \ {0}
    /\ PriorRoutings \subseteq FabricState
    /\ \A f \in PriorRoutings : FabricConsistent(f)
    /\ MayBeLate \subseteq Net
    /\ MaxIter \in Nat
    /\ NoReg \notin Int \cup Arc

VARIABLES
    fab,            \* the fabric
    net_wires,      \* PerNetData::wires: driving pip, number of arcs
    curr_cong,      \* PerWireData::curr_cong
    routed,         \* PerArcData::routed
    bb,             \* PerNetData::bb
    fail_count,     \* PerNetData::fail_count
    late,           \* the nets with an arc of failing slack
    route_queue, failed_nets,
    pc, stage, th,  \* the main thread, the stage of do_route, the threads
    bind_queue,     \* what bind_and_check_all has still to visit
    iter,
    strayed         \* history: some thread was given a net that has wires
                    \* outside the thread's box

routing == <<net_wires, curr_cong, routed>>
plan    == <<bb, fail_count, late, route_queue, failed_nets, bind_queue, iter,
             strayed>>
vars == <<fab, routing, plan, pc, stage, th>>

-----------------------------------------------------------------------------
(* Boxes.  Threads 0 to 3 have the quadrants of the grid, 4 and 5 its      *)
(* upper and lower, 6 and 7 its left and right half, 8 all of it.          *)
Thread == 0 .. 8

In(b, l) == b.x0 <= l.x /\ l.x <= b.x1 /\ b.y0 <= l.y /\ l.y <= b.y1

ThreadBox(t) ==
    [x0 |-> IF t \in {1, 3, 7} THEN MidX + 1 ELSE 0,
     x1 |-> IF t \in {0, 2, 6} THEN MidX ELSE GridX,
     y0 |-> IF t \in {2, 3, 5} THEN MidY + 1 ELSE 0,
     y1 |-> IF t \in {0, 1, 4} THEN MidY ELSE GridY]

(* The bin do_route puts a net with box b into. *)
Bin(b) ==
    LET left  == b.x1 < MidX /\ b.x0 < MidX
        right == b.x0 >= MidX /\ b.x1 >= MidX
        upper == b.y1 < MidY /\ b.y0 < MidY
        lower == b.y0 >= MidY /\ b.y1 >= MidY
    IN  CASE left /\ upper  -> 0
          [] right /\ upper -> 1
          [] left /\ lower  -> 2
          [] right /\ lower -> 3
          [] upper -> 4
          [] lower -> 5
          [] left  -> 6
          [] right -> 7
          [] OTHER -> 8

(* Stages 1 to 3 run threads in parallel; 4 and 5 are single-threaded: the *)
(* nets that fit no other thread, then the nets that failed in theirs.     *)
StageThreads == <<{0, 1, 2, 3}, {4, 5}, {6, 7}, {8}, {8}>>
is_mt == stage <= 3

(* A fault for the sensitivity runs: the box may leave the grid. *)
Grown_Beyond(b) ==
    [x0 |-> b.x0 - 1, y0 |-> b.y0 - 1, x1 |-> b.x1 + 1, y1 |-> b.y1 + 1]

Grown(b) ==
    [x0 |-> IF b.x0 = 0 THEN 0 ELSE b.x0 - 1,
     y0 |-> IF b.y0 = 0 THEN 0 ELSE b.y0 - 1,
     x1 |-> IF b.x1 = GridX THEN GridX ELSE b.x1 + 1,
     y1 |-> IF b.y1 = GridY THEN GridY ELSE b.y1 + 1]

-----------------------------------------------------------------------------
(* The trees of the nets *)
Uses(n, w) == net_wires[n][w] # NoUse

(* The wires from w towards the source of n, as the map nw of the wires of *)
(* n tells: up to the source, or to the first wire that has no driver.     *)
WalkIn(nw, n, w) ==
    LET walk[k \in Nat] == [v \in Wire |->
          IF k = 0 \/ v = NetSrc[n] \/ nw[v].pip = NoPip THEN <<v>>
          ELSE <<v>> \o walk[k-1][PipSrc[nw[v].pip]]]
    IN  walk[Cardinality(Wire)][w]

Walk(n, w)    == WalkIn(net_wires[n], n, w)
Reaches(n, w) == Last(Walk(n, w)) = NetSrc[n]
Trunk(n, w)   == ToSet(Walk(n, w)) \ {NetSrc[n]}

(* The same as steps, the wires below the source with their drivers. *)
Step(w, p)   == [wire |-> w, pip |-> p]
Branch(n, w) == LET up == Front(Walk(n, w))
                IN  [i \in DOMAIN up |-> Step(up[i], net_wires[n][up[i]].pip)]

(* check_arc_routing *)
Legal(a) ==
    LET n == ArcNet[a] IN
    /\ Reaches(n, SinkWire[a])
    /\ \A w \in ToSet(Walk(n, SinkWire[a])) : Uses(n, w) => curr_cong[w] = 1

(* Wires bound above STRENGTH_PLACER are unavailable, wires bound with it  *)
(* reserved; router2 changes neither kind of binding.                      *)
Bound(w, S) == \E n \in Net : fab.wires[n][w].strength \in S
Unavailable(w) == Bound(w, STRENGTH_PLACER + 1 .. STRENGTH_USER)
ReservedFor(n, w) ==
    /\ Reserved[w] \in {NoNet, n}
    /\ Bound(w, {STRENGTH_PLACER}) => HasWire(fab, n, w)

CheckPipAvailForNet(p, n) == fab.pip_to_net[p] \in {NoNet, n}

-----------------------------------------------------------------------------
(* The threads.  A thread takes its nets one by one; of each net it checks *)
(* the arcs in turn and rips up the ones that are not legal, then routes   *)
(* these.  path holds the wires that remain to be unbound or bound.        *)
Idle == [phase |-> "idle", nets |-> {}, failed |-> {}, net |-> NoNet,
         check |-> <<>>, arcs |-> {}, sinks |-> {}, seeds |-> {},
         arc |-> NoReg, path |-> <<>>, reg |-> NoReg, bad |-> FALSE]

Running(t) == pc = "route" /\ t \in StageThreads[stage]
InPhase(t, ph) == Running(t) /\ th[t].phase = ph

(* A multi-threaded thread is given a net it cannot keep to itself. *)
Stray(t, n) ==
    \E w \in {v \in Wire : Uses(n, v)} \cup {NetSrc[n]}
             \cup {SinkWire[a] : a \in ToSet(NetArcs[n])} :
        ~In(ThreadBox(t), WireLoc[w])

(* do_route hands the queue out. *)
BeginRoute ==
    LET mt     == Cardinality(route_queue) >= MinThreaded
        bin(n) == IF mt THEN Bin(bb[n]) ELSE 8
    IN  /\ pc = "loop" /\ iter <= MaxIter
        /\ th' = [t \in Thread |->
                    [Idle EXCEPT !.nets = {n \in route_queue : bin(n) = t}]]
        /\ strayed' = (strayed \/ \E n \in route_queue \ Undriven :
                                    bin(n) # 8 /\ Stray(bin(n), n))
        /\ stage' = IF mt THEN 1 ELSE 4
        /\ pc' = "route"
        /\ UNCHANGED <<fab, routing, bb, fail_count, late, route_queue,
                       failed_nets, bind_queue, iter>>

(* All threads of a stage are joined before the next begins. *)
NextStage ==
    /\ pc = "route"
    /\ \A t \in StageThreads[stage] : th[t].phase = "idle" /\ th[t].nets = {}
    /\ IF stage = 5 THEN stage' = 0 /\ pc' = "congestion"
                    ELSE stage' = stage + 1 /\ pc' = pc
    /\ th' = IF stage # 4 THEN th
             ELSE [th EXCEPT ![8].nets = UNION {th[t].failed : t \in 0 .. 7}]
    /\ UNCHANGED <<fab, routing, plan>>

(* route_net, for net n; there is nothing to do if it is undriven.  The    *)
(* queue is shuffled, but failed nets come thread by thread.               *)
TakeNet(t, n) ==
    /\ InPhase(t, "idle") /\ n \in th[t].nets
    /\ stage = 5 => \A m \in th[t].nets : Bin(bb[n]) <= Bin(bb[m])
    /\ th' = IF n \in Undriven THEN [th EXCEPT ![t].nets = @ \ {n}]
             ELSE [th EXCEPT ![t].nets = @ \ {n}, ![t].net = n,
                             ![t].phase = "check", ![t].check = NetArcs[n]]
    /\ UNCHANGED <<fab, routing, plan, pc, stage>>

(* One turn of the loop over the arcs: a legal arc stays and its wires     *)
(* become starting points; any other is ripped up if it is routed.         *)
Keeps(a) == ArcNet[a] \notin late /\ Legal(a)
CheckAsserts(t) ==
    LET a == Head(th[t].check)
    IN  ~Keeps(a) /\ routed[a] => Reaches(th[t].net, SinkWire[a])

CheckArc(t) ==
    LET n == th[t].net
        a == Head(th[t].check)
    IN  /\ InPhase(t, "check") /\ th[t].check # <<>>
        /\ CheckAsserts(t)
        /\ th' = IF Keeps(a)
                 THEN [th EXCEPT ![t].check = Tail(@),
                                 ![t].seeds = @ \cup IF Uses(n, SinkWire[a])
                                                     THEN Trunk(n, SinkWire[a]) ELSE {}]
                 ELSE [th EXCEPT ![t].check = Tail(@), ![t].arcs = @ \cup {a},
                                 ![t].arc = a,
                                 ![t].phase = IF routed[a] THEN "rip" ELSE "check",
                                 ![t].path = IF routed[a]
                                             THEN Branch(n, SinkWire[a]) ELSE <<>>]
        /\ UNCHANGED <<fab, routing, plan, pc, stage>>

(* A fault for the sensitivity runs: the wire stays in the map of the net. *)
Freed_Kept(u) == [u EXCEPT !.count = 0]
Freed(u) == NoUse

RipAsserts(t) == Uses(th[t].net, Head(th[t].path).wire)

(* unbind_pip_internal on the next wire: with other arcs of the net on it  *)
(* only their number changes; with none, --curr_cong is a load ...         *)
RipLoad(t) ==
    LET n == th[t].net
        w == Head(th[t].path).wire
    IN  /\ InPhase(t, "rip") /\ th[t].path # <<>> /\ th[t].reg = NoReg
        /\ RipAsserts(t)
        /\ IF net_wires[n][w].count > 1
           THEN /\ net_wires' = [net_wires EXCEPT ![n][w].count = @ - 1]
                /\ th' = [th EXCEPT ![t].path = Tail(@)]
           ELSE /\ th' = [th EXCEPT ![t].reg = curr_cong[w]]
                /\ UNCHANGED net_wires
        /\ UNCHANGED <<fab, curr_cong, routed, plan, pc, stage>>

(* ... and a store. *)
RipStore(t) ==
    LET n == th[t].net
        w == Head(th[t].path).wire
    IN  /\ InPhase(t, "rip") /\ th[t].reg # NoReg
        /\ curr_cong' = [curr_cong EXCEPT ![w] = th[t].reg - 1]
        /\ net_wires' = [net_wires EXCEPT ![n][w] = Freed(@)]
        /\ th' = [th EXCEPT ![t].path = Tail(@), ![t].reg = NoReg]
        /\ UNCHANGED <<fab, routed, plan, pc, stage>>

RipDone(t) ==
    /\ InPhase(t, "rip") /\ th[t].path = <<>>
    /\ routed' = [routed EXCEPT ![th[t].arc] = FALSE]
    /\ th' = [th EXCEPT ![t].phase = "check"]
    /\ UNCHANGED <<fab, net_wires, curr_cong, plan, pc, stage>>

-----------------------------------------------------------------------------
(* The search.  All simple paths of the fabric, as sequences of pips. *)
Visits(q) == {PipSrc[q[1]]} \cup {PipDst[q[i]] : i \in DOMAIN q}
Longer(q) ==
    {Append(q, p) : p \in {p \in Pip : /\ PipSrc[p] = PipDst[Last(q)]
                                       /\ PipDst[p] \notin Visits(q)}}
PathsOfAtMost[k \in Range0(Cardinality(Wire))] ==
    IF k = 0 THEN {}
    ELSE LET Q == PathsOfAtMost[k-1]
         IN  {<<p>> : p \in {p \in Pip : PipSrc[p] # PipDst[p]}}
             \cup Q \cup UNION {Longer(q) : q \in Q}
Paths == PathsOfAtMost[Cardinality(Wire)]

(* A fault for the sensitivity runs: a wire may get a second driver. *)
PipTest_AnyDriver(n, p, is_bb) ==
    (is_bb => In(bb[n], PipLoc[p])) /\ CheckPipAvailForNet(p, n)

(* The tests of the search on a pip for net n: inside the bounding box if  *)
(* there is one, not held by another net, and not a second driver for a    *)
(* wire the net uses already.                                              *)
PipTest(n, p, is_bb) ==
    /\ is_bb => In(bb[n], PipLoc[p])
    /\ CheckPipAvailForNet(p, n)
    /\ ~Uses(n, PipDst[p]) \/ net_wires[n][PipDst[p]].pip \in {p, NoPip}

(* A fault for the sensitivity runs: threads look at every wire. *)
WireTest_AnyPlace(t, n, w) == ~Unavailable(w) /\ ReservedFor(n, w)

(* And on a wire: not locked, not reserved for another net, in the box of  *)
(* the thread.                                                             *)
WireTest(t, n, w) ==
    /\ ~Unavailable(w) /\ ReservedFor(n, w)
    /\ In(ThreadBox(t), WireLoc[w])

(* The two-ended search does not test the wires it starts from, but of a   *)
(* path of one pip it tests the wire it meets at.  It goes through no wire *)
(* twice, and never through the source.                                    *)
SearchFinds(t, a, q, is_bb) ==
    LET n == th[t].net
        s == PipSrc[q[1]]
    IN  /\ PipDst[Last(q)] = SinkWire[a]
        /\ s = NetSrc[n] \/ s \in th[t].seeds
        /\ \A i \in DOMAIN q : PipTest(n, q[i], is_bb)
        /\ \A w \in Visits(q) \ {s, SinkWire[a]} :
              w # NetSrc[n] /\ WireTest(t, n, w)
        /\ Len(q) = 1 => WireTest(t, n, s) \/ WireTest(t, n, SinkWire[a])

(* A fault for the sensitivity runs: the tree that a path is tacked onto   *)
(* does not count the arc.                                                 *)
ToBind_PathOnly(n, s, q) ==
    [i \in DOMAIN q |-> Step(PipDst[q[i]], q[i])]

(* The pip through which each wire is bound to the net when path q has     *)
(* been found for arc a: the wires of q, the source if q starts there, and *)
(* otherwise the existing tree up to the source.                           *)
ToBind(n, s, q) ==
    [i \in DOMAIN q |-> Step(PipDst[q[i]], q[i])]
    \o IF s = NetSrc[n] THEN <<Step(s, NoPip)>> ELSE Branch(n, s)

Searching(t) == InPhase(t, "check") /\ th[t].check = <<>> /\ th[t].arcs # {}

TackAsserts(t) == \A s \in th[t].seeds : Reaches(th[t].net, s)

BeginBind(t, a, s, q) ==
    /\ TackAsserts(t)
    /\ th' = [th EXCEPT ![t].phase = "bind", ![t].arc = a,
                        ![t].arcs = @ \ {a},
                        ![t].path = ToBind(th[t].net, s, q)]
    /\ UNCHANGED <<fab, routing, plan, pc, stage>>

(* route_arc found a path: inside the box, or, in a single thread, outside *)
(* it at the second attempt.                                               *)
FindPath(t, a) ==
    /\ Searching(t) /\ a \in th[t].arcs
    /\ SinkWire[a] \notin th[t].sinks \cup {Src(a)}
    /\ \E q \in Paths : /\ SearchFinds(t, a, q, is_mt)
                        /\ BeginBind(t, a, PipSrc[q[1]], q)

(* The sink is the source, or already lies on the tree. *)
FindAtOnce(t, a) ==
    /\ Searching(t) /\ a \in th[t].arcs /\ SinkWire[a] \notin th[t].sinks
    /\ SinkWire[a] \in {Src(a)} \cup th[t].seeds
    /\ BeginBind(t, a, SinkWire[a], <<>>)

(* A second arc of the net to a sink that has just been routed to. *)
SkipArc(t, a) ==
    /\ Searching(t) /\ a \in th[t].arcs /\ SinkWire[a] \in th[t].sinks
    /\ th' = [th EXCEPT ![t].arcs = @ \ {a}]
    /\ UNCHANGED <<fab, routing, plan, pc, stage>>

(* No path inside the boxes: the net is left to the single thread. *)
GiveUpArc(t, a) ==
    /\ is_mt
    /\ Searching(t) /\ a \in th[t].arcs
    /\ SinkWire[a] \notin th[t].sinks \cup {Src(a)}
    /\ th' = [th EXCEPT ![t].arcs = @ \ {a}, ![t].bad = TRUE]
    /\ UNCHANGED <<fab, routing, plan, pc, stage>>

(* No path at all: log_error. *)
RouteError(t, a) ==
    /\ ~is_mt
    /\ Searching(t) /\ a \in th[t].arcs
    /\ SinkWire[a] \notin th[t].sinks \cup th[t].seeds \cup {Src(a)}
    /\ ~\E q \in Paths : SearchFinds(t, a, q, FALSE)
    /\ pc' = "error"
    /\ UNCHANGED <<fab, routing, plan, stage, th>>

(* The visited flags and pips of a search are shared by the threads; they  *)
(* stand until the loops that bind the path have read them.  A search      *)
(* marks its end points and starting points, in its thread's box or not;   *)
(* one that lies in the box of another thread in route_arc, or that this   *)
(* one marks too, leads one of the two onto a path of the other's net.     *)
Marks(t) == {NetSrc[th[t].net]} \cup th[t].seeds
            \cup {SinkWire[a] : a \in IF th[t].phase = "bind" THEN {th[t].arc}
                                       ELSE th[t].arcs}
InRouteArc(t) == Searching(t) \/ InPhase(t, "bind")
Meets(t, u) == \E w \in Marks(u) : w \in Marks(t) \/ In(ThreadBox(t), WireLoc[w])
Disturb(t) ==
    /\ InRouteArc(t)
    /\ \E u \in Thread \ {t} : InRouteArc(u) /\ Meets(t, u)
    /\ pc' = "disturbed"
    /\ UNCHANGED <<fab, routing, plan, stage, th>>

-----------------------------------------------------------------------------
(* A fault for the sensitivity runs: a wire has one user however many arcs *)
(* come through it.                                                        *)
OneMore_Not(n, w) == net_wires[n][w]

(* ++found->second.second.  The count of the source, which grows with      *)
(* every path that starts there and which no ripup lowers, is left alone.  *)
OneMore(n, w) == IF w = NetSrc[n] THEN net_wires[n][w]
                 ELSE [net_wires[n][w] EXCEPT !.count = @ + 1]

BindAsserts(t) ==
    LET b == Head(th[t].path)
    IN  Uses(th[t].net, b.wire) => net_wires[th[t].net][b.wire].pip = b.pip

(* bind_pip_internal: a wire the net uses already must have the same       *)
(* driver; for a new one, ++curr_cong is a load ...                        *)
BindLoad(t) ==
    LET n == th[t].net
        b == Head(th[t].path)
    IN  /\ InPhase(t, "bind") /\ th[t].path # <<>> /\ th[t].reg = NoReg
        /\ IF Uses(n, b.wire)
           THEN /\ BindAsserts(t)
                /\ net_wires' = [net_wires EXCEPT ![n][b.wire] = OneMore(n, b.wire)]
                /\ th' = [th EXCEPT ![t].path = Tail(@)]
           ELSE /\ net_wires' = [net_wires EXCEPT ![n][b.wire] =
                                   [pip |-> b.pip, count |-> 1]]
                /\ th' = [th EXCEPT ![t].reg = curr_cong[b.wire]]
        /\ UNCHANGED <<fab, curr_cong, routed, plan, pc, stage>>

(* ... and a store. *)
BindStore(t) ==
    /\ InPhase(t, "bind") /\ th[t].reg # NoReg
    /\ curr_cong' = [curr_cong EXCEPT ![Head(th[t].path).wire] = th[t].reg + 1]
    /\ th' = [th EXCEPT ![t].path = Tail(@), ![t].reg = NoReg]
    /\ UNCHANGED <<fab, net_wires, routed, plan, pc, stage>>

BindDone(t) ==
    LET n == th[t].net
        w == SinkWire[th[t].arc]
    IN  /\ InPhase(t, "bind") /\ th[t].path = <<>>
        /\ routed' = [routed EXCEPT ![th[t].arc] = TRUE]
        /\ th' = [th EXCEPT ![t].phase = "check", ![t].sinks = @ \cup {w},
                            ![t].seeds = @ \cup Trunk(n, w)]
        /\ UNCHANGED <<fab, net_wires, curr_cong, plan, pc, stage>>

(* The end of route_net; router_thread notes the net if an arc failed. *)
LeaveNet(t) ==
    /\ InPhase(t, "check") /\ th[t].check = <<>> /\ th[t].arcs = {}
    /\ th' = [th EXCEPT ![t] =
                [Idle EXCEPT !.nets = th[t].nets,
                             !.failed = th[t].failed
                                \cup IF th[t].bad THEN {th[t].net} ELSE {}]]
    /\ UNCHANGED <<fab, routing, plan, pc, stage>>

-----------------------------------------------------------------------------
(* Between two iterations. *)
Overused == {w \in Wire : curr_cong[w] > 1 /\ \E n \in Net : Uses(n, w)}
Crowded  == {n \in Net : \E w \in Overused : Uses(n, w)}

(* NPNR_ASSERT of get_route_delay, for the nets just routed. *)
DelayAsserts ==
    \A n \in route_queue \ Undriven : \A a \in ToSet(NetArcs[n]) :
        Reaches(n, SinkWire[a])

(* update_route_delays, update_congestion and the timing analysis.  Every  *)
(* GrowPeriod-th time a net is found on an overused wire its box grows.    *)
UpdateCongestion(new_late) ==
    LET tmgfail == IF iter < MaxTimingIter THEN new_late ELSE {}
        count(n) == (fail_count[n] + 1) % GrowPeriod
    IN  /\ pc = "congestion" /\ DelayAsserts
        /\ late' = new_late
        /\ failed_nets' = Crowded \cup tmgfail
        /\ fail_count' = [n \in Net |-> IF n \in Crowded THEN count(n)
                                                         ELSE fail_count[n]]
        /\ bb' = [n \in Net |-> IF n \in Crowded /\ count(n) = 0
                                THEN Grown(bb[n]) ELSE bb[n]]
        /\ IF Overused = {} /\ tmgfail = {}
           THEN /\ pc' = "bind"
                /\ bind_queue' = FlattenSeq([i \in DOMAIN NetOrder |->
                                   <<NetOrder[i]>> \o NetArcs[NetOrder[i]]])
           ELSE pc' = "again" /\ UNCHANGED bind_queue
        /\ UNCHANGED <<fab, routing, route_queue, iter, strayed, stage, th>>

(* The end of an iteration; without failed nets router1 takes over. *)
EndIteration ==
    /\ \/ pc = "again"
       \/ pc = "bind" /\ bind_queue = <<>>
    /\ pc' = IF failed_nets = {} THEN "done" ELSE "loop"
    /\ route_queue' = failed_nets
    /\ iter' = iter + 1
    /\ UNCHANGED <<fab, routing, bb, fail_count, late, failed_nets, bind_queue,
                   strayed, stage, th>>

-----------------------------------------------------------------------------
(* A fault for the sensitivity runs: the strength is not looked at. *)
Rippable_All(n) == WiresOf(fab, n)
(* bind_and_check_all.  For a net: unbind all it has in the fabric, except *)
(* what is bound above STRENGTH_STRONG.                                    *)
Rippable(n) == {w \in WiresOf(fab, n) :
                    fab.wires[n][w].strength <= STRENGTH_STRONG}

UnbindNet(n) ==
    /\ pc = "bind" /\ bind_queue # <<>> /\ Head(bind_queue) = n
    /\ fab' = UnbindWires(fab, Rippable(n))
    /\ bind_queue' = Tail(bind_queue)
    /\ UNCHANGED <<routing, bb, fail_count, late, route_queue, failed_nets,
                   iter, strayed, pc, stage, th>>

DriversOf(n, W) == {net_wires[n][w].pip : w \in W}

(* A fault for the sensitivity runs: the net is not routed again. *)
Failed_Forgotten(n) == failed_nets
Failed(n) == failed_nets \cup {n}

Bindable(n, W) ==
    /\ \A w \in W : fab.wire_to_net[w] \in {NoNet, n}
    /\ \A p \in DriversOf(n, W) : CheckPipAvailForNet(p, n)

BindPips(f, n, P) ==
    LET W == {PipDst[p] : p \in P}
    IN  [wire_to_net |-> [w \in Wire |-> IF w \in W THEN n ELSE f.wire_to_net[w]],
         pip_to_net  |-> [p \in Pip |-> IF p \in P THEN n ELSE f.pip_to_net[p]],
         wires |-> [f.wires EXCEPT ![n] = [w \in Wire |->
                      IF w \in W
                      THEN [pip |-> CHOOSE p \in P : PipDst[p] = w,
                            strength |-> STRENGTH_WEAK]
                      ELSE f.wires[n][w]]]]

(* What bind_and_check asserts of arc a: a complete route tree, and that   *)
(* the fabric accepts what it binds.                                       *)
FabricAsserts(a) ==
    LET n == ArcNet[a]
        W == Trunk(n, SinkWire[a])
    IN  n \notin Undriven =>
          IF routed[a]
          THEN /\ Reaches(n, SinkWire[a])
               /\ Bindable(n, W) => \A p \in DriversOf(n, W) :
                    fab.pip_to_net[p] = NoNet => CanBindPip(fab, p, n)
          ELSE Src(a) = SinkWire[a]
               => fab.wire_to_net[Src(a)] \in {NoNet, n}

(* bind_and_check, for an arc that is not routed: it has no source, or its *)
(* source is its sink, or it doubles another arc.                          *)
BindUnrouted(a) ==
    LET n == ArcNet[a]
    IN  /\ pc = "bind" /\ bind_queue # <<>> /\ Head(bind_queue) = a
        /\ n \in Undriven \/ ~routed[a]
        /\ FabricAsserts(a)
        /\ fab' = IF /\ n \notin Undriven /\ Src(a) = SinkWire[a]
                     /\ fab.wire_to_net[Src(a)] # n
                  THEN BindWire(fab, Src(a), n, STRENGTH_WEAK) ELSE fab
        /\ bind_queue' = Tail(bind_queue)
        /\ UNCHANGED <<routing, bb, fail_count, late, route_queue, failed_nets,
                       iter, strayed, pc, stage, th>>

(* For a routed arc: bind its wires that are not bound yet. *)
BindArc(a) ==
    LET n == ArcNet[a]
        W == Trunk(n, SinkWire[a])
        P == {p \in DriversOf(n, W) : fab.pip_to_net[p] = NoNet}
        f == IF fab.wire_to_net[Src(a)] = NoNet
             THEN BindWire(fab, Src(a), n, STRENGTH_WEAK) ELSE fab
    IN  /\ pc = "bind" /\ bind_queue # <<>> /\ Head(bind_queue) = a
        /\ n \notin Undriven /\ routed[a]
        /\ FabricAsserts(a)
        /\ Bindable(n, W)
        /\ fab' = BindPips(f, n, P)
        /\ bind_queue' = Tail(bind_queue)
        /\ UNCHANGED <<routing, bb, fail_count, late, route_queue, failed_nets,
                       iter, strayed, pc, stage, th>>

(* Another net is still bound there: rip the arc up and try again later. *)
BindFails(a) ==
    LET n == ArcNet[a]
        W == Trunk(n, SinkWire[a])
        freed == {w \in W : net_wires[n][w].count = 1}
    IN  /\ pc = "bind" /\ bind_queue # <<>> /\ Head(bind_queue) = a
        /\ n \notin Undriven /\ routed[a]
        /\ FabricAsserts(a)
        /\ ~Bindable(n, W)
        /\ net_wires' = [net_wires EXCEPT ![n] = [w \in Wire |->
              IF w \in freed THEN NoUse
              ELSE IF w \in W
              THEN [net_wires[n][w] EXCEPT !.count = net_wires[n][w].count - 1]
              ELSE net_wires[n][w]]]
        /\ curr_cong' = [w \in Wire |-> IF w \in freed THEN curr_cong[w] - 1
                                                       ELSE curr_cong[w]]
        /\ routed' = [routed EXCEPT ![a] = FALSE]
        /\ failed_nets' = Failed(n)
        /\ bind_queue' = Tail(bind_queue)
        /\ UNCHANGED <<fab, bb, fail_count, late, route_queue, iter, strayed,
                       pc, stage, th>>

-----------------------------------------------------------------------------
(* setup_wires on fabric f: every bound wire of a net counts one user; the *)
(* arcs the fabric routes completely are routed.                           *)
SetupUses(f) ==
    LET own(n) == [w \in Wire |-> IF HasWire(f, n, w)
                                  THEN [pip |-> f.wires[n][w].pip, count |-> 0]
                                  ELSE NoUse]
        legal(n) == IF n \in Undriven THEN {}
                    ELSE {a \in ToSet(NetArcs[n]) :
                            Last(WalkIn(own(n), n, SinkWire[a])) = NetSrc[n]}
        users(n, w) == {a \in legal(n) :
                          w \in ToSet(Front(WalkIn(own(n), n, SinkWire[a])))}
    IN  [n \in Net |-> [w \in Wire |->
           IF HasWire(f, n, w)
           THEN [own(n)[w] EXCEPT !.count = Cardinality(users(n, w))]
           ELSE NoUse]]

Init ==
    /\ fab \in PriorRoutings
    /\ net_wires = SetupUses(fab)
    /\ curr_cong = [w \in Wire |-> IF fab.wire_to_net[w] = NoNet THEN 0 ELSE 1]
    /\ routed = [a \in Arc |-> ArcNet[a] \notin Undriven
                               /\ Reaches(ArcNet[a], SinkWire[a])]
    /\ bb = NetBox
    /\ fail_count = [n \in Net |-> 0]
    /\ late \in SUBSET MayBeLate
    /\ route_queue = Net
    /\ failed_nets = {}
    /\ pc = "loop"
    /\ stage = 0
    /\ th = [t \in Thread |-> Idle]
    /\ bind_queue = <<>>
    /\ iter = 1
    /\ strayed = FALSE

Returned ==
    /\ \/ pc \in {"done", "error", "disturbed"}
       \/ pc = "loop" /\ iter > MaxIter
    /\ UNCHANGED vars

ThreadStep(t) ==
    \/ \E n \in th[t].nets : TakeNet(t, n)
    \/ CheckArc(t) \/ RipLoad(t) \/ RipStore(t) \/ RipDone(t)
    \/ \E a \in th[t].arcs : \/ FindPath(t, a) \/ FindAtOnce(t, a)
                             \/ SkipArc(t, a) \/ GiveUpArc(t, a)
                             \/ RouteError(t, a)
    \/ Disturb(t)
    \/ BindLoad(t) \/ BindStore(t) \/ BindDone(t)
    \/ LeaveNet(t)

Next ==
    \/ BeginRoute \/ NextStage
    \/ \E t \in Thread : ThreadStep(t)
    \/ \E l \in SUBSET MayBeLate : UpdateCongestion(l)
    \/ EndIteration
    \/ \E n \in Net : UnbindNet(n)
    \/ \E a \in Arc : BindUnrouted(a) \/ BindArc(a) \/ BindFails(a)
    \/ Returned

Spec == Init /\ [][Next]_vars

-----------------------------------------------------------------------------
(* Properties *)

PathStep == [wire : Wire, pip : Pip \cup {NoPip}]
TypeOK ==
    /\ fab \in FabricState
    /\ net_wires \in [Net -> [Wire -> Use \cup {NoUse}]]
    /\ curr_cong \in [Wire -> Int]
    /\ routed \in [Arc -> BOOLEAN]
    /\ bb \in [Net -> Box]
    /\ fail_count \in [Net -> Range0(GrowPeriod - 1)]
    /\ {late, route_queue, failed_nets} \subseteq SUBSET Net
    /\ pc \in {"loop", "route", "congestion", "again", "bind", "done",
               "error", "disturbed"}
    /\ stage \in 0 .. 5
    /\ \A t \in Thread :
         /\ th[t].phase \in {"idle", "check", "rip", "bind"}
         /\ th[t].nets \cup th[t].failed \subseteq Net
         /\ th[t].arcs \subseteq Arc
         /\ th[t].sinks \cup th[t].seeds \subseteq Wire
         /\ ToSet(th[t].path) \subseteq PathStep
    /\ ToSet(bind_queue) \subseteq Net \cup Arc
    /\ iter \in 1 .. MaxIter + 1
    /\ strayed \in BOOLEAN

(* The bins and boxes of do_route keep the threads apart: as long as every *)
(* net was given to a thread whose box holds all its wires and ends, no    *)
(* thread comes near a wire that another one counts, binds, rips up or     *)
(* searches from.                                                          *)
Touched(t) ==
    IF th[t].phase = "idle" THEN {}
    ELSE Marks(t) \cup {w \in Wire : Uses(th[t].net, w)}
         \cup {b.wire : b \in ToSet(th[t].path)}
ThreadsApart ==
    ~strayed => /\ \A t, u \in Thread : t # u => Touched(t) \cap Touched(u) = {}
                /\ pc # "disturbed"

(* The congestion counter of a wire is the number of nets that use it, at  *)
(* every moment of a multi-threaded iteration (but for the increment a     *)
(* thread is about to store): what is never overused in the counters is    *)
(* never shared.                                                           *)
Incrementing(w) ==
    {t \in Thread : /\ th[t].phase = "bind" /\ th[t].reg # NoReg
                    /\ Head(th[t].path).wire = w}
CountersExact ==
    ~strayed => \A w \in Wire :
        curr_cong[w] + Cardinality(Incrementing(w))
            = Cardinality({n \in Net : Uses(n, w)})

(* Whatever was ripped up and bound again, shared by arcs or refused by    *)
(* the fabric: a net no thread has in hand has for every routed arc a path *)
(* to its source, and on each wire below the source counts exactly its     *)
(* routed arcs through it, so that the next ripup frees what it should.    *)
InHand(n) == pc = "route" /\ \E t \in Thread : th[t].net = n
ArcsThrough(n, w) ==
    {a \in ToSet(NetArcs[n]) : routed[a] /\ w \in Trunk(n, SinkWire[a])}
RoutesStand ==
    pc # "disturbed" => \A n \in Net \ Undriven : ~InHand(n) =>
        /\ \A a \in ToSet(NetArcs[n]) : routed[a] => Reaches(n, SinkWire[a])
        /\ \A w \in Wire \ {NetSrc[n]} :
             Uses(n, w) => net_wires[n][w].count = Cardinality(ArcsThrough(n, w))

(* No NPNR_ASSERT of the router or the fabric fails, no .at() throws: the  *)
(* ripup finds every wire up to the source, no wire gets a second driver,  *)
(* the tree a path is tacked onto leads to the source, every arc has a     *)
(* route when its delay is read, and the fabric takes what is bound.       *)
NoAbort ==
    /\ \A t \in Thread :
         /\ InPhase(t, "check") /\ th[t].check # <<>> => CheckAsserts(t)
         /\ InPhase(t, "rip") /\ th[t].path # <<>> => RipAsserts(t)
         /\ InPhase(t, "bind") /\ th[t].path # <<>> /\ th[t].reg = NoReg
               => BindAsserts(t)
         /\ Searching(t) => TackAsserts(t)
    /\ pc = "congestion" => DelayAsserts
    /\ pc = "bind" /\ bind_queue # <<>> /\ Head(bind_queue) \in Arc
          => FabricAsserts(Head(bind_queue))

(* When router2 hands over to router1 every arc of a driven net is routed  *)
(* in the fabric, not only in the maps of the router: every wire from its  *)
(* sink to its source is bound to the net.                                 *)
RoutedWhenDone ==
    pc = "done" => \A n \in Net \ Undriven : \A a \in ToSet(NetArcs[n]) :
        LET W == WalkIn(fab.wires[n], n, SinkWire[a])
        IN  /\ Last(W) = NetSrc[n]
            /\ \A w \in ToSet(W) : fab.wire_to_net[w] = n

(* A binding above STRENGTH_STRONG is neither given up nor replaced, in    *)
(* the net that holds it either.                                           *)
(* It holds as long as no arc with such wires is ripped up; "lockNet-      *)
(* Routing(netname): set the routing of a net as fixed" (docs/python.md:81)*)
(* promises it without that condition, which router/tmg_ripup breaks.      *)
LockedStays ==
    [][\A n \in Net, w \in Wire :
         fab.wires[n][w].strength > STRENGTH_STRONG
         => fab'.wires[n][w] = fab.wires[n][w]]_vars

(* "Check that the arch is still internally consistent!": whatever is      *)
(* bound, refused and bound again in bind_and_check_all, the three maps of *)
(* the fabric agree.  It holds under the condition of LockedStays.         *)
ArchConsistent == FabricConsistent(fab)

-----------------------------------------------------------------------------
(* What the code says of itself and does not keep. *)

(* "NPNR_ASSERT(cursor_bwd == src_wire_idx)" (router2.cc:836): the tree a  *)
(* path is tacked onto leads to the source, whatever route_net has ripped  *)
(* up since it noted the starting points.  NoAbort has it for a fabric     *)
(* where no sink drives a wire that another net may take.                  *)
SeedsStand == \A t \in Thread : Searching(t) => TackAsserts(t)

(* "to guarantee thread safety": no two threads change the counter of a    *)
(* wire at the same time.                                                  *)
Changing(t) == IF th[t].path = <<>> THEN {} ELSE {Head(th[t].path).wire}
ThreadSafety ==
    \A t, u \in Thread : t # u => Changing(t) \cap Changing(u) = {}
=============================================================================
