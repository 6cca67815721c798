---------------------------- MODULE DetailPlace ----------------------------
(***************************************************************************)
(* The parallel refinement placer: common/place/parallel_refine.cc over    *)
(* the transactions of detail_place_core.cc, on a placed design.           *)
(*                                                                         *)
(* In every iteration the main thread cuts the cells into one partition    *)
(* per thread, by location, and starts the threads.  A thread tries moves  *)
(* inside the box of its partition: it collects the cells of a move and    *)
(* their new bels, follows the bounding boxes of their nets, decides from  *)
(* the change of cost, binds the move in the context under archapi_mutex,  *)
(* asks under the same mutex (shared) whether the tiles are valid, and     *)
(* commits or reverts.  The mutex is free between these steps, and most    *)
(* reads of the context take no lock at all.                               *)
(*                                                                         *)
(* A bel is its location: a record x, y, z.  Abstracted: the delays, hence *)
(* the acceptance test, which is a free choice; the radius and the order   *)
(* in which cells are tried.                                               *)
(***************************************************************************)
EXTENDS NetBounds, FiniteSetsExt, Functions, TLC

CONSTANTS
    Bels, Cells, Nets,
    NoBel, NoCell, NoThread, NoCluster,
    Pins,           \* the cells of a net, one for each pin, the driver first
    SkipNet,        \* skip_net: nets of a global buffer
    BelsFor,        \* isValidBelForCellType
    Region,         \* the bels testRegion admits for a cell
    HardUnavail,    \* usp_bel_hard_unavail: bels no cell may be bound to
    ClusterOf,      \* CellInfo::cluster
    Members,        \* of a cluster, the root first, with constr_x, y, z, abs_z
    Locked,         \* the cells bound with more than STRENGTH_STRONG
    TileLegal(_),   \* isBelLocationValid, of the cells bound in a tile
    Start,          \* the placements the refinement may be started on
    Threads,        \* a power of two
    MaxTries        \* bound on the moves of a thread in an iteration

Axis    == {"x", "y"}
Thread  == 1 .. Threads
Cluster == DOMAIN Members
MemberCells(k) == {m.cell : m \in ToSet(Members[k])}
MemberType == [cell : Cells, x : Int, y : Int, z : Int, abs_z : BOOLEAN]

ASSUME DetailPlaceAssumption ==
    /\ Threads \in Nat \ {0} /\ MaxTries \in Nat
    /\ Bels \subseteq [x : Nat, y : Nat, z : Nat] /\ IsFiniteSet(Cells)
    /\ NoBel \notin Bels /\ NoCell \notin Cells /\ NoThread \notin Thread
    /\ IsFiniteSet(Nets) /\ SkipNet \subseteq Nets /\ Locked \subseteq Cells
    /\ Pins \in [Nets -> Seq(Cells)] /\ \A n \in Nets \ SkipNet : Pins[n] # <<>>
    /\ BelsFor \in [Cells -> SUBSET Bels] /\ Region \in [Cells -> SUBSET Bels]
    /\ Start \subseteq [Cells -> Bels]
    /\ \A p \in Start : IsInjective(p)
    /\ NoCluster \notin Cluster /\ ClusterOf \in [Cells -> Cluster \cup {NoCluster}]
    /\ \A k \in Cluster :
        /\ Members[k] \in Seq(MemberType) /\ Members[k] # <<>>
        /\ \A i, j \in DOMAIN Members[k] :
                Members[k][i].cell = Members[k][j].cell => i = j
    /\ \A k \in Cluster, c \in Cells : c \in MemberCells(k) <=> ClusterOf[c] = k
    /\ \A k \in Cluster : \/ MemberCells(k) \cap Locked = {}
                          \/ MemberCells(k) \subseteq Locked

VARIABLES
    main,           \* what the main thread does
    parts, yaxis,   \* the partitions; the axis of the next cut
    lastBounds,     \* last_bounds, after update_global_costs
    minWirelen,     \* min_wirelen of run()
    cellBel,        \* CellInfo::bel
    belCell,        \* boundcells of the tiles
    locked,         \* the cells with a belStrength above STRENGTH_STRONG
    archMutex,      \* the thread that holds archapi_mutex exclusively
    \* for each thread:
    pc,
    view,           \* local_cell2bel
    bounds,         \* net_bounds
    track,          \* new_net_bounds and already_bounds_changed
    moved,          \* moved_cells: cell -> old and new bel
    chain,          \* in chain_swap
    todo,           \* the rest of dest_bels, or of the cells to swap
    displaced,      \* displaced_clusters
    used,           \* used_bels
    dirty,          \* arch_state_dirty
    tries           \* n_move

global == <<main, parts, yaxis, lastBounds, minWirelen>>
arch   == <<cellBel, belCell, locked>>
local  == <<view, bounds, track, moved, chain, todo, displaced, used>>
vars   == <<global, arch, archMutex, pc, local, dirty, tries>>

-----------------------------------------------------------------------------
(* Bounding boxes of nets.                                                 *)

Coord(b, ax) == IF ax = "x" THEN b.x ELSE b.y
Positions(n, place, ax) == [i \in DOMAIN Pins[n] |-> Coord(place[Pins[n][i]], ax)]
Compute(n, place) == [ax \in Axis |-> Scan(Positions(n, place, ax))]
Ports == [n \in Nets |-> [c \in Cells |->
            Cardinality({i \in DOMAIN Pins[n] : Pins[n][i] = c})]]
CellNets(C) == {n \in Nets : ToSet(Pins[n]) \cap C # {}}
NetCells(N) == UNION {ToSet(Pins[n]) : n \in N}
Hpwl(b) == Span(b["x"]) + Span(b["y"])

TotalWirelen(b) == MapThenSumSet(LAMBDA n : Hpwl(b[n]), Nets \ SkipNet)
GlobalBounds(place) == [n \in Nets \ SkipNet |-> Compute(n, place)]

TrackedNet(b) == [ax \in Axis |-> Tracked(b[ax])]
PlainNet(k)   == [ax \in Axis |-> Untracked(k[ax])]

(* compute_changes_for_cell *)
FollowCell(tr, c, old, new) ==
    [n \in DOMAIN tr |-> [ax \in Axis |->
        MovePins(tr[n][ax], Ports[n][c], Coord(old, ax), Coord(new, ax))]]

Changed(tr, ax) == {n \in DOMAIN tr : tr[n][ax].change # "NO_CHANGE"}

(* compute_total_change: a net asked for on the x axis is scanned whole,   *)
(* so it is asked for on the y axis only if not on the x axis.             *)
Rescan(tr, place) ==
    [n \in DOMAIN tr |->
        IF \E ax \in Axis : tr[n][ax].change = "FULL_RECOMPUTE"
        THEN [ax \in Axis |-> WithChange(Compute(n, place)[ax], tr[n][ax].change)]
        ELSE tr[n]]

(* Mutant: a net that changes on both axes counts twice.                   *)
WirelenDeltaTwice(b, tr) ==
    LET diff(n) == Hpwl(tr[n]) - Hpwl(b[n])
    IN  MapThenSumSet(diff, Changed(tr, "x")) + MapThenSumSet(diff, Changed(tr, "y"))

WirelenDelta(b, tr) ==
    LET diff(n) == Hpwl(tr[n]) - Hpwl(b[n])
    IN  MapThenSumSet(diff, Changed(tr, "x"))
        + MapThenSumSet(diff, Changed(tr, "y") \ Changed(tr, "x"))

-----------------------------------------------------------------------------
(* Partitions.                                                             *)

InBox(b, box) == /\ box.x0 <= b.x /\ b.x <= box.x1
                 /\ box.y0 <= b.y /\ b.y <= box.y1

Whole(place) ==
    LET xs == {place[c].x : c \in Cells}
        ys == {place[c].y : c \in Cells}
    IN  [box |-> [x0 |-> Min(xs), y0 |-> Min(ys), x1 |-> Max(xs), y1 |-> Max(ys)],
         cells |-> Cells]

(* size_t(cells.size() * pivot), for a pivot of at least 0.45 and below    *)
(* 0.5.                                                                    *)
PivotPoints(n) == IF n = 0 THEN {0} ELSE (45 * n) \div 100 .. (n - 1) \div 2

(* The coordinate of the cell in place i of the cells sorted by it.        *)
SortedCoord(place, C, i, ax) ==
    CHOOSE q \in {Coord(place[c], ax) : c \in C} :
        /\ Cardinality({c \in C : Coord(place[c], ax) < q}) < i
        /\ Cardinality({c \in C : Coord(place[c], ax) <= q}) >= i

(* Where the upper part begins, if the lower one ends at at.               *)
(* Mutant: the two share a column.                                         *)
NextCoordSame(at, last) == at
NextCoord(at, last) == IF at = last THEN last ELSE at + 1

(* PlacePartition::split *)
SplitAt(p, place, ax, i) ==
    LET last == IF ax = "x" THEN p.box.x1 ELSE p.box.y1
        at   == IF i = 0 THEN last ELSE SortedCoord(place, p.cells, i, ax)
        low  == {c \in p.cells : Coord(place[c], ax) <= at}
        next == NextCoord(at, last)
    IN  IF ax = "x"
        THEN <<[box |-> [p.box EXCEPT !.x1 = at],   cells |-> low],
               [box |-> [p.box EXCEPT !.x0 = next], cells |-> p.cells \ low]>>
        ELSE <<[box |-> [p.box EXCEPT !.y1 = at],   cells |-> low],
               [box |-> [p.box EXCEPT !.y0 = next], cells |-> p.cells \ low]>>

ThreadNets(t) == CellNets(parts[t].cells)
InPartition(t, b) == InBox(b, parts[t].box)

-----------------------------------------------------------------------------
Running == main = "running"

Init ==
    /\ cellBel \in Start
    /\ belCell = [b \in Bels |-> IF b \in Range(cellBel)
                                 THEN CHOOSE c \in Cells : cellBel[c] = b
                                 ELSE NoCell]
    /\ locked = Locked
    /\ archMutex = NoThread
    /\ main = "partition" /\ parts = <<Whole(cellBel)>> /\ yaxis = FALSE
    /\ lastBounds = GlobalBounds(cellBel)
    /\ minWirelen = TotalWirelen(lastBounds)
    /\ pc = [t \in Thread |-> "joined"]
    /\ view = [t \in Thread |-> <<>>]
    /\ bounds = [t \in Thread |-> <<>>]
    /\ track = [t \in Thread |-> <<>>]
    /\ moved = [t \in Thread |-> <<>>]
    /\ chain = [t \in Thread |-> FALSE]
    /\ todo = [t \in Thread |-> <<>>]
    /\ displaced = [t \in Thread |-> <<>>]
    /\ used = [t \in Thread |-> {}]
    /\ dirty = [t \in Thread |-> FALSE]
    /\ tries = [t \in Thread |-> 0]

(* One pass of the loop of do_partition: every partition is cut in two.    *)
Split ==
    /\ main = "partition" /\ Len(parts) < Threads
    /\ \E at \in [DOMAIN parts -> 0 .. Cardinality(Cells)] :
        /\ \A i \in DOMAIN parts : at[i] \in PivotPoints(Cardinality(parts[i].cells))
        /\ parts' = [j \in 1 .. 2 * Len(parts) |->
                        LET i == (j + 1) \div 2
                        IN  SplitAt(parts[i], cellBel, IF yaxis THEN "y" ELSE "x",
                                    at[i])[IF j % 2 = 1 THEN 1 ELSE 2]]
    /\ yaxis' = ~yaxis
    /\ UNCHANGED <<main, lastBounds, minWirelen, arch, archMutex, pc, local, dirty,
                   tries>>

(* set_partition of every thread, and setup_initial_state with which its   *)
(* run_iter begins.                                                        *)
StartThreads ==
    /\ main = "partition" /\ Len(parts) = Threads
    /\ main' = "running"
    /\ pc' = [t \in Thread |-> "idle"]
    /\ view' = [t \in Thread |-> Restrict(cellBel, NetCells(ThreadNets(t)))]
    /\ bounds' = [t \in Thread |-> Restrict(lastBounds, ThreadNets(t) \ SkipNet)]
    /\ track' = [t \in Thread |-> [n \in DOMAIN bounds'[t] |-> TrackedNet(bounds'[t][n])]]
    /\ tries' = [t \in Thread |-> 0]
    /\ UNCHANGED <<parts, yaxis, lastBounds, minWirelen, arch, archMutex, moved, chain,
                   todo, displaced, used, dirty>>

(* run() stops when the wirelength is not below the least so far.          *)
(* Mutant: it goes on when it is equal.                                    *)
IsLastWhenLonger(total) == total > minWirelen
IsLast(total) == total >= minWirelen

(* All threads are joined: update_global_costs, and the next iteration     *)
(* unless the wirelength has not gone down.                                *)
EndIteration ==
    /\ Running /\ \A t \in Thread : pc[t] = "joined"
    /\ lastBounds' = GlobalBounds(cellBel)
    /\ LET total == TotalWirelen(lastBounds')
       IN  IF IsLast(total)
           THEN main' = "done" /\ UNCHANGED <<minWirelen, parts, yaxis>>
           ELSE /\ main' = "partition" /\ minWirelen' = total
                /\ parts' = <<Whole(cellBel)>> /\ yaxis' = FALSE
    /\ UNCHANGED <<arch, archMutex, pc, local, dirty, tries>>

-----------------------------------------------------------------------------
(* A thread picks a move.                                                  *)

Begin(t, ch, cells, disp) ==
    /\ tries[t] < MaxTries
    /\ pc' = [pc EXCEPT ![t] = "adding"]
    /\ tries' = [tries EXCEPT ![t] = @ + 1]
    /\ chain' = [chain EXCEPT ![t] = ch]
    /\ todo' = [todo EXCEPT ![t] = cells]
    /\ displaced' = [displaced EXCEPT ![t] = disp]
    /\ UNCHANGED <<global, arch, archMutex, view, bounds, track, moved, used,
                   dirty>>

(* What random_bel_for_cell looks for, without the radius: any bel that    *)
(* passes its tests.  If it is the one the cell is on, nothing is tried.   *)
Suitable(t, c) == {b \in BelsFor[c] \cap Region[c] : InPartition(t, b)}
Candidates(t, c) == Suitable(t, c) \ {cellBel[c]}

To(c, b) == [cell |-> c, bel |-> b]

SingleCellSwap(t) ==
    /\ pc[t] = "idle"
    /\ \E c \in parts[t].cells \ locked : \E b \in Candidates(t, c) :
           /\ ClusterOf[c] = NoCluster
           /\ LET bound == belCell[b]
              IN  /\ bound # NoCell => bound \notin locked /\ ClusterOf[bound] = NoCluster
                  /\ Begin(t, FALSE,
                           IF bound = NoCell THEN <<To(c, b)>>
                           ELSE <<To(c, b), To(bound, cellBel[c])>>, <<>>)

ChainSwap(t) ==
    /\ pc[t] = "idle"
    /\ \E k \in Cluster :
           LET root == Members[k][1].cell
           IN  /\ root \in parts[t].cells \ locked
               /\ \E b \in Candidates(t, root) :
                   /\ b.z = cellBel[root].z
                   /\ Begin(t, TRUE, <<>>, <<[cluster |-> k, root |-> b]>>)

(* A fault for the sensitivity runs: the bel the cell is on is no answer.  *)
MayLookForEver_Others(t, c) == Candidates(t, c) = {}

(* The loop of random_bel_for_cell has no other way out.  Whatever the     *)
(* radius, it takes in the bel the cell is on: only for a cell that is     *)
(* itself on no suitable bel may there be nothing to find.                 *)
MayLookForEver(t, c) == cellBel[c] \notin Suitable(t, c)

SearchInVain(t) ==
    /\ pc[t] = "idle"
    /\ \E c \in parts[t].cells \ locked :
        /\ ClusterOf[c] # NoCluster => c = Members[ClusterOf[c]][1].cell
        /\ MayLookForEver(t, c)
    /\ pc' = [pc EXCEPT ![t] = "searching"]
    /\ UNCHANGED <<global, arch, archMutex, local, dirty, tries>>

SearchOn(t) == pc[t] = "searching" /\ UNCHANGED vars

(* do_tile_swap: the cells of two tiles change places.                     *)
CellsIn(t, x, y) == {c \in parts[t].cells : cellBel[c].x = x /\ cellBel[c].y = y}
(* Mutant: clusters are not looked at.                                     *)
MayLeaveCluster(C) == C \cap locked = {}
MayLeave(C) == \A c \in C : /\ c \notin locked
                            /\ ClusterOf[c] # NoCluster => MemberCells(ClusterOf[c]) \subseteq C
InTile(b, u) == [x |-> u.x, y |-> u.y, z |-> b.z]

TileSwap(t) ==
    /\ pc[t] = "idle"
    /\ \E c \in parts[t].cells, u \in Bels :
           LET v     == cellBel[c]
               here  == CellsIn(t, v.x, v.y)
               there == CellsIn(t, u.x, u.y)
           IN  /\ InPartition(t, u) /\ <<u.x, u.y>> # <<v.x, v.y>>
               /\ MayLeave(here) /\ MayLeave(there)
               /\ Begin(t, FALSE,
                        SetToSeq({To(d, InTile(cellBel[d], u)) : d \in here})
                        \o SetToSeq({To(d, InTile(cellBel[d], v)) : d \in there}), <<>>)

(* run_iter is over. *)
Finish(t) ==
    /\ Running /\ pc[t] = "idle"
    /\ pc' = [pc EXCEPT ![t] = "joined"]
    /\ UNCHANGED <<global, arch, archMutex, local, dirty, tries>>

-----------------------------------------------------------------------------
(* The cells of the move are collected.                                    *)

(* What add_to_move answers and what it changes.  A call that fails part   *)
(* of the way is followed by revert_move, which forgets what it had done.  *)
(* Mutant: bounds_check is left out.                                       *)
MayAddAnywhere(t, c, old, new) == new \in BelsFor[c]
MayAdd(t, c, old, new) ==
    InPartition(t, old) /\ InPartition(t, new) /\ new \in BelsFor[c]

(* The map f, with g where f has no entry: @@ of module TLC, written so    *)
(* that it can be reasoned about.                                          *)
Over(f, g) == [c \in DOMAIN f \cup DOMAIN g |-> IF c \in DOMAIN f THEN f[c] ELSE g[c]]

AddToMove(t, adds) ==
    LET dest == [c \in {a.cell : a \in ToSet(adds)} |->
                    (CHOOSE a \in ToSet(adds) : a.cell = c).bel]
        follow(tr, a) == FollowCell(tr, a.cell, cellBel[a.cell], a.bel)
    IN  /\ moved' = [moved EXCEPT ![t] =
                Over([c \in DOMAIN dest |-> [old |-> cellBel[c], new |-> dest[c]]], @)]
        /\ view' = [view EXCEPT ![t] = Over(dest, @)]
        /\ track' = [track EXCEPT ![t] = FoldLeft(follow, @, adds)]

Fail(t) ==
    /\ pc' = [pc EXCEPT ![t] = "revert"]
    /\ UNCHANGED <<global, arch, archMutex, local, dirty, tries>>

Adding(t) == pc[t] = "adding" /\ todo[t] # <<>>

AddNext(t) ==
    /\ Adding(t) /\ ~chain[t]
    /\ LET a == Head(todo[t])
       IN  IF MayAdd(t, a.cell, cellBel[a.cell], a.bel)
           THEN /\ AddToMove(t, <<a>>)
                /\ todo' = [todo EXCEPT ![t] = Tail(@)]
                /\ UNCHANGED <<global, arch, archMutex, pc, bounds, chain, displaced,
                               used, dirty, tries>>
           ELSE Fail(t)

(* getClusterPlacement, the default of base_arch.h. *)
MemberLoc(root, m) == [x |-> root.x + m.x, y |-> root.y + m.y,
                       z |-> IF m.abs_z THEN m.z ELSE root.z + m.z]
ClusterPlacement(k, b) ==
    LET root == MemberLoc(b, Members[k][1])
    IN  [i \in DOMAIN Members[k] |->
            To(Members[k][i].cell, IF i = 1 THEN root ELSE MemberLoc(root, Members[k][i]))]

NextCluster(t) ==
    /\ pc[t] = "adding" /\ todo[t] = <<>> /\ displaced[t] # <<>>
    /\ LET d    == Head(displaced[t])
           dest == ClusterPlacement(d.cluster, d.root)
       IN  IF \A i \in DOMAIN dest : dest[i].bel \in BelsFor[dest[i].cell]
           THEN /\ todo' = [todo EXCEPT ![t] = dest]
                /\ displaced' = [displaced EXCEPT ![t] = Tail(@)]
                /\ UNCHANGED <<global, arch, archMutex, pc, view, bounds, track, moved,
                               chain, used, dirty, tries>>
           ELSE Fail(t)

(* One turn of the loop over dest_bels in chain_swap: the cell goes to its *)
(* bel, and what is bound there changes places with it, or is displaced    *)
(* with its whole cluster.                                                 *)
DisplacedRoot(old, bound) ==
    LET root == cellBel[Members[ClusterOf[bound]][1].cell]
    IN  [x |-> old.x + (root.x - cellBel[bound].x),
         y |-> old.y + (root.y - cellBel[bound].y),
         z |-> old.z + (root.z - cellBel[bound].z)]

(* checkBelAvail *)
BelAvail(b) == b \notin HardUnavail /\ belCell[b] = NoCell

AddMember(t) ==
    /\ Adding(t) /\ chain[t]
    /\ LET a     == Head(todo[t])
           old   == cellBel[a.cell]
           bound == belCell[a.bel]
           ok    == /\ a.cell \notin DOMAIN moved[t]
                    /\ MayAdd(t, a.cell, old, a.bel)
                    /\ a.bel \notin used[t]
           next  == /\ todo' = [todo EXCEPT ![t] = Tail(@)]
                    /\ UNCHANGED <<global, arch, archMutex, pc, bounds, chain,
                                   dirty, tries>>
       IN  \/ /\ ok /\ BelAvail(a.bel)
              /\ AddToMove(t, <<a>>)
              /\ used' = [used EXCEPT ![t] = @ \cup {a.bel}]
              /\ UNCHANGED displaced
              /\ next
           \/ /\ ok /\ bound # NoCell
              /\ bound \notin DOMAIN moved[t] \cup {a.cell} \cup locked
              /\ ClusterOf[bound] # NoCluster
              /\ DisplacedRoot(old, bound) \in Bels
              /\ AddToMove(t, <<a>>)
              /\ used' = [used EXCEPT ![t] = @ \cup {a.bel}]
              /\ displaced' = [displaced EXCEPT ![t] =
                    Append(@, [cluster |-> ClusterOf[bound],
                               root |-> DisplacedRoot(old, bound)])]
              /\ next
           \/ /\ ok /\ bound # NoCell
              /\ bound \notin DOMAIN moved[t] \cup {a.cell} \cup locked
              /\ ClusterOf[bound] = NoCluster
              /\ old \notin used[t] \cup {a.bel}
              /\ MayAdd(t, bound, cellBel[bound], old)
              /\ AddToMove(t, <<a, To(bound, old)>>)
              /\ used' = [used EXCEPT ![t] = @ \cup {a.bel, old}]
              /\ UNCHANGED displaced
              /\ next
           \/ /\ \/ ~ok
                 \/ bound = NoCell /\ ~BelAvail(a.bel)
                 \/ /\ bound # NoCell
                    /\ \/ bound \in DOMAIN moved[t] \cup {a.cell} \cup locked
                       \/ /\ ClusterOf[bound] # NoCluster
                          /\ DisplacedRoot(old, bound) \notin Bels
                       \/ /\ ClusterOf[bound] = NoCluster
                          /\ \/ old \in used[t] \cup {a.bel}
                             \/ ~MayAdd(t, bound, cellBel[bound], old)
              /\ Fail(t)

-----------------------------------------------------------------------------
(* The cost of the move, of which wirelen_delta is a part, and its         *)
(* acceptance.                                                             *)

ComputeTotalChange(t) ==
    /\ pc[t] = "adding" /\ todo[t] = <<>> /\ displaced[t] = <<>>
    /\ track' = [track EXCEPT ![t] = Rescan(@, view[t])]
    /\ pc' = [pc EXCEPT ![t] = "decide"]
    /\ UNCHANGED <<global, arch, archMutex, view, bounds, moved, chain, todo, displaced,
                   used, dirty, tries>>

AcceptMove(t) ==
    /\ pc[t] = "decide"
    /\ pc' \in {[pc EXCEPT ![t] = "bind"], [pc EXCEPT ![t] = "revert"]}
    /\ UNCHANGED <<global, arch, archMutex, local, dirty, tries>>

-----------------------------------------------------------------------------
(* The move in the context.                                                *)

Unbind(C) ==
    /\ cellBel' = [c \in Cells |-> IF c \in C THEN NoBel ELSE cellBel[c]]
    /\ belCell' = [b \in Bels |-> IF \E c \in C : cellBel[c] = b THEN NoCell ELSE belCell[b]]
    /\ locked' = locked \ C

Bind(f) ==
    /\ cellBel' = [c \in Cells |-> IF c \in DOMAIN f THEN f[c] ELSE cellBel[c]]
    /\ belCell' = [b \in Bels |-> IF b \in Range(f) THEN CHOOSE c \in DOMAIN f : f[c] = b
                                  ELSE belCell[b]]
    /\ locked' = locked \ DOMAIN f

Old(t) == [c \in DOMAIN moved[t] |-> moved[t][c].old]

(* bind_move takes the mutex and unbinds the old bels ...                  *)
BindMoveBegin(t) ==
    /\ pc[t] = "bind" /\ archMutex = NoThread
    /\ archMutex' = t
    /\ Unbind({belCell[Old(t)[c]] : c \in DOMAIN moved[t]})
    /\ pc' = [pc EXCEPT ![t] = "binding"]
    /\ dirty' = [dirty EXCEPT ![t] = TRUE]
    /\ UNCHANGED <<global, local, tries>>

(* ... binds the cells one by one, and stops at a bel that is not free.     *)
BindMoveCell(t) ==
    /\ pc[t] = "binding"
    /\ \E c \in DOMAIN moved[t] :
        /\ cellBel[c] = NoBel
        /\ IF BelAvail(moved[t][c].new)
           THEN /\ Bind([d \in {c} |-> moved[t][c].new])
                /\ IF \E d \in DOMAIN moved[t] \ {c} : cellBel[d] = NoBel
                   THEN UNCHANGED <<pc, archMutex>>
                   ELSE pc' = [pc EXCEPT ![t] = "check"] /\ archMutex' = NoThread
           ELSE /\ pc' = [pc EXCEPT ![t] = "revert"] /\ archMutex' = NoThread
                /\ UNCHANGED arch
    /\ UNCHANGED <<global, local, dirty, tries>>

(* check_validity looks at the tiles of the old and of the new bels.       *)
TileAt(bc, b) == Restrict(bc, {d \in Bels : d.x = b.x /\ d.y = b.y})

(* Mutant: the tiles the cells leave are not checked.                      *)
BelsToCheckNew(t) == {moved[t][c].new : c \in DOMAIN moved[t]}
BelsToCheck(t) == {moved[t][c].old : c \in DOMAIN moved[t]} \cup
                  {moved[t][c].new : c \in DOMAIN moved[t]}

CheckValidity(t) ==
    /\ pc[t] = "check" /\ archMutex = NoThread
    /\ LET valid == \A b \in BelsToCheck(t) : TileLegal(TileAt(belCell, b))
       IN  pc' = [pc EXCEPT ![t] = IF valid THEN "commit" ELSE "revert"]
    /\ UNCHANGED <<global, arch, archMutex, local, dirty, tries>>

(* reset_move_state; newBounds are the bounds the thread goes on with.     *)
ResetMoveState(t, newBounds) ==
    /\ track' = [track EXCEPT ![t] = [n \in DOMAIN newBounds |->
                    IF \E ax \in Axis : n \in Changed(track[t], ax)
                    THEN TrackedNet(newBounds[n]) ELSE track[t][n]]]
    /\ moved' = [moved EXCEPT ![t] = <<>>]
    /\ todo' = [todo EXCEPT ![t] = <<>>]
    /\ displaced' = [displaced EXCEPT ![t] = <<>>]
    /\ used' = [used EXCEPT ![t] = {}]
    /\ chain' = [chain EXCEPT ![t] = FALSE]
    /\ pc' = [pc EXCEPT ![t] = "idle"]

(* The boxes commit_move takes over.  Mutant: those that changed along x.  *)
NewBoundsX(b, tr) == [n \in DOMAIN b |->
    IF n \in Changed(tr, "x") THEN PlainNet(tr[n]) ELSE b[n]]
NewBounds(b, tr) == [n \in DOMAIN b |->
    IF \E ax \in Axis : n \in Changed(tr, ax) THEN PlainNet(tr[n]) ELSE b[n]]

CommitMove(t) ==
    /\ pc[t] = "commit"
    /\ bounds' = [bounds EXCEPT ![t] = NewBounds(@, track[t])]
    /\ ResetMoveState(t, bounds'[t])
    /\ dirty' = [dirty EXCEPT ![t] = FALSE]
    /\ UNCHANGED <<global, arch, archMutex, view, tries>>

(* revert_move; the local map is restored last.  Mutant: it is not.        *)
ForgetView(t) ==
    /\ ResetMoveState(t, bounds[t])
    /\ dirty' = [dirty EXCEPT ![t] = FALSE]
    /\ UNCHANGED <<global, view, bounds, tries>>

Forget(t) ==
    /\ view' = [view EXCEPT ![t] = Over(Old(t), @)]
    /\ ResetMoveState(t, bounds[t])
    /\ dirty' = [dirty EXCEPT ![t] = FALSE]
    /\ UNCHANGED <<global, bounds, tries>>

RevertClean(t) ==
    /\ pc[t] = "revert" /\ ~dirty[t]
    /\ Forget(t)
    /\ UNCHANGED <<arch, archMutex>>

RevertUnbind(t) ==
    /\ pc[t] = "revert" /\ dirty[t] /\ archMutex = NoThread
    /\ archMutex' = t
    /\ Unbind({c \in DOMAIN moved[t] : cellBel[c] # NoBel})
    /\ pc' = [pc EXCEPT ![t] = "rebind"]
    /\ UNCHANGED <<global, local, dirty, tries>>

RevertRebind(t) ==
    /\ pc[t] = "rebind"
    /\ Bind(Old(t))
    /\ archMutex' = NoThread
    /\ Forget(t)

-----------------------------------------------------------------------------
ThreadNext(t) ==
    \/ SingleCellSwap(t) \/ ChainSwap(t) \/ TileSwap(t) \/ Finish(t)
    \/ SearchInVain(t) \/ SearchOn(t)
    \/ AddNext(t) \/ NextCluster(t) \/ AddMember(t)
    \/ ComputeTotalChange(t) \/ AcceptMove(t)
    \/ BindMoveBegin(t) \/ BindMoveCell(t) \/ CheckValidity(t) \/ CommitMove(t)
    \/ RevertClean(t) \/ RevertUnbind(t) \/ RevertRebind(t)

MainNext == Split \/ StartThreads \/ EndIteration

Done == main = "done" /\ UNCHANGED vars

Next == MainNext \/ (\E t \in Thread : ThreadNext(t)) \/ Done

Spec == Init /\ [][Next]_vars

(* The scheduler runs every thread; the main thread waits for them.        *)
Fairness == WF_vars(MainNext) /\ \A t \in Thread : WF_vars(ThreadNext(t))
FairSpec == Spec /\ Fairness

-----------------------------------------------------------------------------
(* Properties.                                                             *)

BoxType == [lo : Int, nlo : Nat, hi : Int, nhi : Nat]
ToType  == [cell : Cells, bel : [x : Int, y : Int, z : Int]]

TypeOK ==
    /\ main \in {"partition", "running", "done"} /\ yaxis \in BOOLEAN
    /\ \A i \in DOMAIN parts : parts[i].cells \subseteq Cells
    /\ minWirelen \in Nat
    /\ cellBel \in [Cells -> Bels \cup {NoBel}]
    /\ belCell \in [Bels -> Cells \cup {NoCell}]
    /\ locked \subseteq Cells /\ archMutex \in Thread \cup {NoThread}
    /\ pc \in [Thread -> {"joined", "idle", "searching", "adding", "decide", "bind",
                          "binding", "check", "commit", "revert", "rebind"}]
    /\ \A t \in Thread :
        /\ DOMAIN moved[t] \subseteq Cells
        /\ \A c \in DOMAIN moved[t] : moved[t][c] \in [old : Bels, new : Bels]
        /\ todo[t] \in Seq(ToType) /\ used[t] \subseteq Bels
        /\ DOMAIN track[t] = DOMAIN bounds[t]
        /\ \A n \in DOMAIN bounds[t] : bounds[t][n] \in [Axis -> BoxType]
        /\ chain[t] \in BOOLEAN /\ dirty[t] \in BOOLEAN
        /\ tries[t] \in 0 .. MaxTries

(* A move is in flight while its cells are, or may be, away from their old *)
(* bels.                                                                   *)
InFlight(t) == pc[t] \in {"binding", "check", "commit", "revert", "rebind"} /\ dirty[t]
FlightCells(t) == IF InFlight(t) THEN DOMAIN moved[t] ELSE {}
FlightTiles(t) == {<<moved[t][c].old.x, moved[t][c].old.y>> : c \in DOMAIN moved[t]} \cup
                  {<<moved[t][c].new.x, moved[t][c].new.y>> : c \in DOMAIN moved[t]}

(* The partitions keep the threads apart (split, bounds_check): what lies  *)
(* in the box of a thread, and no move in flight has unbound, is a cell of *)
(* its partition, and no tile is part of the moves of two threads.  Every  *)
(* unlocked read of the context by a thread relies on it.                  *)
ThreadsApart ==
    Running =>
        /\ \A t \in Thread : \A c \in Cells :
            /\ c \in parts[t].cells =>
                    \A u \in Thread \ {t} : c \notin parts[u].cells \cup DOMAIN moved[u]
            /\ cellBel[c] # NoBel /\ InPartition(t, cellBel[c]) /\ parts[t].cells # {}
                    => c \in parts[t].cells
        /\ \A t, u \in Thread : t # u => FlightTiles(t) \cap FlightTiles(u) = {}

(* The box of a net along an axis, by its meaning.                         *)
ExactAxis(pos) ==
    LET at(q) == Cardinality({i \in DOMAIN pos : pos[i] = q})
        lo == Min(ToSet(pos))
        hi == Max(ToSet(pos))
    IN  [lo |-> lo, nlo |-> at(lo), hi |-> hi, nhi |-> at(hi)]
ExactBox(n, place) == [ax \in Axis |-> ExactAxis(Positions(n, place, ax))]

(* The incremental bounds never drift: whenever a thread is between two    *)
(* moves, the box it has for each of its nets, edges and counts, is the    *)
(* one of the positions of the cells (commit_move, reset_move_state).      *)
BoundsExact ==
    \A t \in Thread : pc[t] \in {"idle", "adding"} /\ moved[t] = <<>> =>
        \A n \in DOMAIN bounds[t] :
            /\ bounds[t][n] = ExactBox(n, view[t])
            /\ track[t][n] = TrackedNet(bounds[t][n])

(* The acceptance test is given the exact change of the wirelength of the  *)
(* nets of the thread (compute_changes_for_cell, compute_total_change).    *)
DeltaExact ==
    \A t \in Thread : pc[t] = "decide" =>
        LET before == Over(Old(t), view[t])
        IN  WirelenDelta(bounds[t], track[t]) = MapThenSumSet(
                LAMBDA n : Hpwl(ExactBox(n, view[t])) - Hpwl(ExactBox(n, before)),
                DOMAIN bounds[t])

(* local_cell2bel agrees with the context on the cells of the partition    *)
(* whenever the thread has no move in flight, and the context itself is    *)
(* consistent: no cell is lost, doubled or left unbound.                   *)
ViewCurrent ==
    /\ \A t \in Thread : pc[t] = "idle" =>
        \A c \in parts[t].cells \cap DOMAIN view[t] : view[t][c] = cellBel[c]
    /\ \A c \in Cells : cellBel[c] # NoBel => belCell[cellBel[c]] = c
    /\ \A c \in Cells : cellBel[c] = NoBel =>
            \E t \in Thread : InFlight(t) /\ c \in DOMAIN moved[t]

(* No assertion of bindBel, unbindBel or add_to_move fails, and no lookup  *)
(* of a net that is not one of the thread.                                 *)
NoAbort ==
    \A t \in Thread :
        /\ Running => DOMAIN moved[t] \subseteq parts[t].cells
        /\ Adding(t) /\ ~chain[t] => Head(todo[t]).cell \notin DOMAIN moved[t]
        /\ pc[t] = "bind" =>
            /\ IsInjective(Old(t))
            /\ \A c \in DOMAIN moved[t] : belCell[Old(t)[c]] = c
        /\ pc[t] = "rebind" =>
            /\ IsInjective(Old(t))
            /\ \A c \in DOMAIN moved[t] : belCell[Old(t)[c]] = NoCell

(* The placement as others may count on it: the cells of a move that is    *)
(* not committed are where they were.                                      *)
Placed == [c \in Cells |->
            IF \E t \in Thread : c \in FlightCells(t)
            THEN moved[CHOOSE t \in Thread : c \in FlightCells(t)][c].old
            ELSE cellBel[c]]

InShape(p, k) ==
    LET root == Members[k][1].cell
    IN  \A i \in DOMAIN Members[k] :
            p[Members[k][i].cell] = ClusterPlacement(k, p[root])[i].bel
Legal(p) ==
    /\ \A c \in Cells : p[c] \in BelsFor[c]
    /\ \A k \in Cluster : InShape(p, k)
    /\ LET bc == [b \in Bels |-> IF \E c \in Cells : p[c] = b
                                  THEN CHOOSE c \in Cells : p[c] = b ELSE NoCell]
       IN  \A b \in Bels : TileLegal(TileAt(bc, b))

(* Whatever the threads interleave, the placement changes only by commits, *)
(* each from a legal placement to a legal one, clusters keep their shape   *)
(* and locked cells stay (bind_move, check_validity, revert_move).         *)
P == INSTANCE Placement WITH place <- Placed
MovesAreAtomic == P!Spec

(* The refinement ends: an iteration that does not shorten the wires is    *)
(* the last, and every thread comes to the end of its moves, unless it     *)
(* looks for ever for a bel for a cell that has been moved out of its      *)
(* region (random_bel_for_cell; RegionsRespected shows such a move).       *)
OutsideRegion(C) == \E c \in C : cellBel[c] # NoBel /\ cellBel[c] \notin Region[c]
LooksForEver(t) == pc[t] = "searching" /\ OutsideRegion(parts[t].cells)
Terminates == <>(main = "done" \/ \E t \in Thread : LooksForEver(t))

(* A cell that is constrained to a region is placed in it.                 *)
RegionsRespected == \A c \in Cells : Placed[c] \in Region[c]
=============================================================================
