----------------------------- MODULE Router2Inv -----------------------------
(***************************************************************************)
(* The inductive invariant behind the properties of Router2.  It says what *)
(* holds in the middle of ripping up and of binding a path too, and who    *)
(* may be where when.  TLC checks it; Router2Proofs proves it.             *)
(***************************************************************************)
EXTENDS Router2

NetWires == [Wire -> Use \cup {NoUse}]

ThreadState ==
    [phase : {"idle", "check", "rip", "bind"}, nets : SUBSET Net,
     failed : SUBSET Net, net : Net \cup {NoNet}, check : Seq(Arc),
     arcs : SUBSET Arc, sinks : SUBSET Wire, seeds : SUBSET Wire,
     arc : Arc \cup {NoReg}, path : Seq(PathStep), reg : Int \cup {NoReg},
     bad : BOOLEAN]

TypeInv ==
    /\ net_wires \in [Net -> NetWires]
    /\ curr_cong \in [Wire -> Int] /\ routed \in [Arc -> BOOLEAN]
    /\ bb \in [Net -> Box]
    /\ route_queue \in SUBSET Net /\ failed_nets \in SUBSET Net
    /\ stage \in 0 .. 5 /\ th \in [Thread -> ThreadState]
    /\ strayed \in BOOLEAN

-----------------------------------------------------------------------------
(* Who is at work when. *)
Busy(t)  == th[t].phase # "idle"
Given(t) == th[t].nets \cup IF Busy(t) THEN {th[t].net} ELSE {}

(* A thread that has no net in hand has nothing of it. *)
AtRest(x) == x.net = NoNet /\ x.arcs = {} /\ x.seeds = {} /\ x.path = <<>>

(* Only the threads of the present stage work, those of an earlier one     *)
(* have nothing left, and a net is given to the one thread of its bin.     *)
Staged ==
    /\ \A t \in Thread : Busy(t) => /\ stage # 0 /\ t \in StageThreads[stage]
                                    /\ th[t].net \in Net \ Undriven
                                    /\ th[t].arcs \cup ToSet(th[t].check)
                                          \subseteq ToSet(NetArcs[th[t].net])
    /\ \A t \in Thread : ~Busy(t) => AtRest(th[t])
    /\ pc = "route" => stage # 0
    /\ pc \notin {"route", "error", "disturbed"} => stage = 0
    /\ pc = "error" => \A t \in Thread : th[t].phase \in {"idle", "check"}
    /\ stage = 0 => \A t \in Thread : Given(t) = {}
    /\ \A s \in 1 .. 4 : s < stage => \A t \in StageThreads[s] \ {8} : Given(t) = {}
    /\ \A t \in Thread \ {8} : \A n \in Given(t) : Bin(bb[n]) = t

-----------------------------------------------------------------------------
(* The trees. *)
TrunkIn(nw, n, w) == ToSet(WalkIn(nw, n, w)) \ {NetSrc[n]}
ReachesIn(nw, n, w) == Last(WalkIn(nw, n, w)) = NetSrc[n]

(* The routed arcs of n other than a that come over wire w. *)
OthersIn(nw, rt, n, a, w) ==
    {b \in ToSet(NetArcs[n]) \ {a} : rt[b] /\ w \in TrunkIn(nw, n, SinkWire[b])}

(* All routed arcs of n but a have their paths, and the wires count them,  *)
(* and a on those of X.                                                    *)
WholeBut(nw, rt, n, a, X) ==
    /\ \A b \in ToSet(NetArcs[n]) \ {a} : rt[b] => ReachesIn(nw, n, SinkWire[b])
    /\ \A w \in Wire \ {NetSrc[n]} :
         nw[w] # NoUse => nw[w].count = Cardinality(OthersIn(nw, rt, n, a, w))
                                        + IF w \in X THEN 1 ELSE 0

(* A net no thread is ripping up or binding is whole. *)
InWork(n) == \E t \in Thread : th[t].phase \in {"rip", "bind"} /\ th[t].net = n
NetsWhole == \A n \in Net \ Undriven :
                ~InWork(n) => WholeBut(net_wires[n], routed, n, NoReg, {})

PathWires(path) == {b.wire : b \in ToSet(path)}
OnePass(path) == \A i, j \in DOMAIN path : path[i].wire = path[j].wire => i = j

(* An arc that is being ripped up still counts on the wires left to do,    *)
(* which the net still has.                                                *)
Ripping(nw, rt, n, a, path, reg) ==
    /\ a \in ToSet(NetArcs[n])
    /\ OnePass(path)
    /\ WholeBut(nw, rt, n, a, PathWires(path))
    /\ \A w \in PathWires(path) : nw[w] # NoUse /\ w # NetSrc[n]
    /\ reg # NoReg => path # <<>> /\ nw[Head(path).wire].count <= 1

(* The wires of the net as they will be once the path is bound: they lead  *)
(* from the sink to the source, and the arc counts on those it has been    *)
(* bound to.                                                               *)
PipOn(path, w) == (CHOOSE b \in ToSet(path) : b.wire = w).pip
AsBound(nw, path) ==
    [w \in Wire |-> [pip |-> IF w \in PathWires(path) THEN PipOn(path, w)
                                                      ELSE nw[w].pip,
                     count |-> 0]]

Binding(nw, rt, n, a, path, reg) ==
    LET T == TrunkIn(AsBound(nw, path), n, SinkWire[a])
    IN  /\ a \in ToSet(NetArcs[n]) /\ ~rt[a]
        /\ OnePass(path)
        /\ ReachesIn(AsBound(nw, path), n, SinkWire[a])
        /\ PathWires(path) \subseteq T \cup {NetSrc[n]}
        /\ WholeBut(nw, rt, n, a,
                    (T \ PathWires(path))
                    \cup IF reg = NoReg THEN {} ELSE {Head(path).wire})
        /\ reg # NoReg => /\ path # <<>>
                          /\ nw[Head(path).wire] # NoUse
                          /\ nw[Head(path).wire].pip = Head(path).pip

AtWork(x, nw, rt) ==
    /\ x.phase = "rip"  => Ripping(nw, rt, x.net, x.arc, x.path, x.reg)
    /\ x.phase = "bind" => Binding(nw, rt, x.net, x.arc, x.path, x.reg)
    /\ x.phase \in {"idle", "check"} => x.reg = NoReg
    \* the arcs that are still to be routed are not routed
    /\ x.phase # "idle" => \A a \in x.arcs : rt[a] => x.phase = "rip" /\ x.arc = a
    /\ x.phase = "bind" => x.arc \notin x.arcs

TreesInv == /\ NetsWhole
            /\ \A t \in Thread : AtWork(th[t], net_wires[th[t].net], routed)

-----------------------------------------------------------------------------
(* The boxes. *)
Inside(t, w) == In(ThreadBox(t), WireLoc[w])
BoxesInv ==
    ~strayed => /\ \A t \in Thread \ {8} :
                     /\ \A n \in Given(t) \ Undriven : ~Stray(t, n)
                     /\ Busy(t) => \A w \in th[t].seeds \cup PathWires(th[t].path) :
                                      Inside(t, w)
                /\ pc # "disturbed"

-----------------------------------------------------------------------------
(* The counters: a thread that has loaded one stores what follows from the *)
(* value it still has.                                                     *)
CountersInv ==
    ~strayed => /\ CountersExact
                /\ \A t \in Thread : th[t].reg # NoReg =>
                     th[t].reg = curr_cong[Head(th[t].path).wire]

(* What IInv leaves out of the types: the fabric, and the plan of the main *)
(* thread, which takes up to MaxIter iterations.                           *)
PlanInv ==
    /\ fab \in FabricState
    /\ fail_count \in [Net -> Range0(GrowPeriod - 1)] /\ late \subseteq Net
    /\ pc \in {"loop", "route", "congestion", "again", "bind", "done",
               "error", "disturbed"}
    /\ bind_queue \in Seq(Net \cup Arc)
    /\ iter \in 1 .. MaxIter + 1
    /\ pc \notin {"loop", "done"} => iter <= MaxIter

IInv == TypeInv /\ Staged /\ TreesInv /\ BoxesInv /\ CountersInv

-----------------------------------------------------------------------------
(* What is bound above STRENGTH_STRONG before the router starts.           *)
Held(n, w)    == fab.wires[n][w].strength > STRENGTH_STRONG
Foreign(n, w) == \E m \in Net \ Undriven : m # n /\ Held(m, w)

(* The wires the search for a net starts from and looks for. *)
Ends(n) == IF NetArcs[n] = <<>> THEN {}
           ELSE {NetSrc[n]} \cup {SinkWire[a] : a \in ToSet(NetArcs[n])}

(* An arc that is routed from end to end over such wires. *)
LockedArc(n, a) == /\ SinkWire[a] # NetSrc[n] /\ Reaches(n, SinkWire[a])
                   /\ \A v \in ToSet(Walk(n, SinkWire[a])) : Held(n, v)
OnLockedArc(n, w) ==
    \E a \in ToSet(NetArcs[n]) : LockedArc(n, a) /\ w \in Trunk(n, SinkWire[a])

(* How routeClock leaves a net: what is locked, beside the source, are     *)
(* whole routes to its sinks.  No such net may be ripped up for its slack, *)
(* and no net holds an end of another.                                     *)
LockedRoutes(n) == \A w \in Wire \ {NetSrc[n]} :
                      Held(n, w) => n \notin MayBeLate /\ OnLockedArc(n, w)
OwnEnds(n)   == \A w \in Ends(n) : ~Foreign(n, w)
LockedPrior  == \A n \in Net \ Undriven : LockedRoutes(n) /\ OwnEnds(n)

(* A net keeps such a wire in its map, on its pip and as the only net that *)
(* uses it, and the arc it is on stays routed.                             *)
NetHeld(n) ==
    /\ \A w \in Wire : Held(n, w) =>
          /\ Uses(n, w) /\ curr_cong[w] = 1
          /\ net_wires[n][w].pip = fab.wires[n][w].pip
    /\ \A w \in Wire : Uses(n, w) => ~Foreign(n, w)
    /\ \A a \in ToSet(NetArcs[n]) : LockedArc(n, a) => routed[a]
    /\ LockedRoutes(n) /\ OwnEnds(n)

(* A thread neither starts from nor binds a wire another net holds, has no *)
(* counter of a wire its own net holds in hand, and rips up no such arc.   *)
Mindful(x) ==
    x.net \in Net \ Undriven =>
        /\ \A w \in x.seeds \cup PathWires(x.path) : ~Foreign(x.net, w)
        /\ x.reg # NoReg => \A w \in Wire : Held(x.net, w) => Head(x.path).wire # w
        /\ \A a \in ToSet(NetArcs[x.net]) : LockedArc(x.net, a) =>
              a \notin x.arcs /\ (x.phase = "rip" => x.arc # a)

HeldInv == /\ late \subseteq MayBeLate
           /\ \A n \in Net \ Undriven : NetHeld(n)
           /\ \A t \in Thread : Mindful(th[t])

(* Each wire hangs on a pip that leads to it.                              *)
Fits(b) == b.pip # NoPip => PipDst[b.pip] = b.wire
PipsFit == /\ \A n \in Net, w \in Wire : Fits(Step(w, net_wires[n][w].pip))
           /\ \A t \in Thread : \A b \in ToSet(th[t].path) : Fits(b)

(* What net n has in the fabric hangs there on the same pips as in its     *)
(* map.                                                                    *)
Agrees(n) ==
    \A w \in Wire \ {NetSrc[n]} :
        fab.wires[n][w].pip # NoPip /\ Uses(n, w) =>
            net_wires[n][w].pip = fab.wires[n][w].pip

(* In bind_and_check_all, a net whose turn has come is unbound before its  *)
(* arcs, and agrees with its map from then on.                             *)
Before(s, j, x) == \E i \in 1 .. j - 1 : s[i] = x
QueueInv ==
    pc = "bind" => \A j \in DOMAIN bind_queue :
        LET a == bind_queue[j]
        IN  a \in Arc /\ ArcNet[a] \notin Undriven =>
                Agrees(ArcNet[a]) \/ Before(bind_queue, j, ArcNet[a])

LockInv == FabricConsistent(fab) /\ HeldInv /\ PipsFit /\ QueueInv
=============================================================================
