# A specification of nextpnr-xilinx

TLA+ modules, TLC configurations and TLAPS proofs for the place-and-route program in `src/`: how its
routers move wires between nets, how its threads share the design and move cells in it, and how it decides
whether a tile is legal. Every definition is translated
from the source; `PROJECT.json` gives the lines of each ("map"), and the hazards the properties aim at.

## 1. The system

nextpnr reads a netlist (JSON), packs it into the cells of an FPGA, places the cells on *bels*, routes
the nets over *wires* and *pips* (programmable connections between wires) and writes a bitstream text.
This repository is the fork for Xilinx 7-series and UltraScale+.

| Component | State | Operations | Interacts with |
|---|---|---|---|
| Routing fabric (`xilinx/arch.h`, `NetInfo`) | `wire_to_net`, `pip_to_net`, `NetInfo::wires` | `bindWire`, `bindPip`, `unbindWire`, `unbindPip`, `checkWireAvail`, `checkPipAvail` | called by every router and by the scripts |
| `router1` (`common/route/router1.cc`) | `arc_queue`, `wire_to_arcs`, `arc_to_wires`, scores | set up, pop an arc, release, search, bind, rip up, timing ripup, check | changes the fabric; `yield`s to the GUI |
| `router2` (`common/route/router2.cc`) | per-net wire counts, `curr_cong`, `arcs` | route in bins of nets on threads, rip up, bind into the context | copies its result into the fabric; default router of this architecture |
| Context locks (`common/kernel/basectx.h`, `scope_lock.h`) | `mutex`, `mutex_owner`, `ui_mutex` | `lock`, `unlock`, `yield`, `lock_ui`, `unlock_ui` | worker, UI and render thread |
| GUI (`gui/worker.cc`, `basewindow.cc`, `designwidget.cc`, `fpgaviewwidget.cc`) | `toPause`, `toTerminate`, two event queues, enabled actions | pack, place, route, pause, continue, stop, click, render | log calls of the placers and routers run its hook |
| Placers (`placer1.cc`, `placer_heap.cc`, `place_common.cc`, `timing_opt.cc`) | bels of cells, costs | place, displace, move, revert | bind bels; ask the architecture for validity |
| Detailed placement (`parallel_refine.cc`, `detail_place_core.cc`) | moves in flight and net boxes of each thread | bind, check, commit or revert a move | threads share the context under `archapi_mutex` |
| Tile validity (`xilinx/arch_place.cc`, `updateLogicBel`) | cells of a tile, valid and dirty flags | bind and unbind a bel, check a location | asked by the placers |
| Netlist (`basectx.cc`, `nextpnr_types.cc`) | nets, cells, ports, aliases | connect, disconnect, rename, rip up, lock | packers, scripts |
| Pre-routing (`xilinx/arch.cc`) | the fabric | `routeVcc`, `routeClock`, `fixupRouting` | before and after the router |
| Packers, frontend, timing analysis, fasm output, Python | their data | sequential | - |
| Other architectures, vendored code, build | - | - | - |

What is hard to get right, and to test, is listed line by line under "hazards". In short:

* a rip-up router spreads one fact (who uses a wire) over five maps and changes them in steps, while
  other arcs and other nets lose wires; a slip shows thousands of arcs later or not at all;
* three threads share one design under two unfair mutexes, one of which is given up in the middle of
  placement and routing; a task may be paused or interrupted inside any log call;
* concurrent placement moves are applied, checked and taken back while other threads do the same;
* caches (tile validity, bounding boxes, congestion counters) are updated step by step.

What makes each component correct:

* fabric: the three maps agree at all times;
* router1: no arc is forgotten, no assertion fails, locked routing stays, a routing reported complete is
  a set of trees from the sources to the sinks;
* locks and GUI: the display reads a design nobody is changing, waits only for so long, and the buttons
  mean what they say; an interrupted task leaves no lock;
* router2: congestion counters equal the number of nets on a wire; what is copied into the context is
  what was found; an arc reported as routed is;
* detailed placement: a move is all or nothing whatever other threads do; no cell is lost;
* tile validity: the cached verdict is the fresh one;
* netlist: ports and users refer to each other.

## 2. Modules

```
Fabric ──> Router1 ──> Router1Inv ──> Router1Proofs ──> Router1TreeProofs
   │                        ├──> MCRouter1                 ContextLock ──> GuiTask ──> GuiTaskProofs
   ├──> FabricProofs ───────┘ (lemmas of both routers' proofs)                       └──────> MCGuiTask
   └──> Router2 ──> Router2Inv ──> Router2Proofs           LogicTile ──> LogicTileProofs
                        └──> MCRouter2                         └───────> MCLogicTile
NetBounds ──> NetBoundsProofs
   └────────> DetailPlace ──> DetailPlaceInv ──> DetailPlaceProofs
                   │                └──────────> MCDetailPlace
Placement ─────────┘ (the abstract specification that DetailPlace implements)
```

**Fabric** models the binding functions of `xilinx/arch.h`. A fabric is a *value*, a record of the three
maps, so that a handler that calls several operations composes them (`BindPip(UnbindWires(fab, W), ...)`).
The `NPNR_ASSERT`s at the head of an operation `Op` are an operator `CanOp`. That a pip is never available
for the current placement (`usp_pip_hard_unavail`) is the constant set `HardUnavail`: no router changes
the placement. `FabricConsistent` is what `Context::check()` demands, and its converse for pips.

**Router1** models `router1.cc`. `fab` is the fabric; `queued_arcs`, `wire_to_arcs` and `arc_to_wires`
are the maps of the same names; `arc`, `route`, `cursor` are the locals of `route_arc`; `sink` is the
placement's map of arcs to wires. Actions:

| Action | Code |
|---|---|
| `SkipNet`, `SetupError`, `SetupNet` | one turn of the loop of `setup` (364-464), the unbinding at its end included |
| `ReleaseArc` | `arc_queue_pop` and the head of `route_arc`: the wires only this arc uses are unbound |
| `RouteTrivialArc` | the special case in which source and sink are one wire |
| `SearchFinds(P)`, `SearchFails` | the A* search (515-734): any simple path of pips that pass the tests of the search, or none |
| `BindStep` | one turn of the loop that binds the path from the sink up (736-798), with `ripup_wire` in it |
| `TimingDrivenRipup` | the ripup of sinks with bad slack once the queue is empty (925-965) |
| `Finish`, `Returned` | return from `router1()` |

The queue has no order in the model, and delays, penalties and wire scores are left out: they decide
which of the behaviours happens. The search does not test the source wire of an arc, nor does the model.
Assertions of the code are conjuncts of the guards, and `NoAbort` states that they never block a handler.

**Router2** models `router2.cc`, on the same fabric, up to the call of `router1` that ends it. `net_wires`
is `PerNetData::wires`, `curr_cong` and `routed` the fields of those names; `th[t]` is the thread context
of thread `t` with the locals of `route_net` and `route_arc`. Threads 0 to 7 have the quadrants and
halves of the grid, thread 8 stands for the single-threaded part.

| Action | Code |
|---|---|
| `BeginRoute`, `NextStage` | `do_route`: nets to bins, quadrants, halves, then the rest and the failed nets one by one |
| `TakeNet`, `CheckArc`, `LeaveNet` | `router_thread`, and the loops of `route_net` |
| `RipLoad`, `RipStore`, `RipDone` | `ripup_arc`, one wire per turn; `--curr_cong` is a load and a store |
| `FindPath`, `FindAtOnce`, `SkipArc` | `route_arc` found a path, has none to find, or has done this sink already |
| `GiveUpArc`, `RouteError` | it found none: in a thread, in the single thread |
| `BindLoad`, `BindStore`, `BindDone` | the three loops that bind the path, one wire per turn |
| `Disturb` | two threads in `route_arc`, searching or binding, meet on the visited flags and pointers that all threads share (800-853); what follows is undefined and the model stops |
| `UpdateCongestion`, `EndIteration` | `update_route_delays`, `update_congestion`, timing, the end of the loop |
| `UnbindNet`, `BindUnrouted`, `BindArc`, `BindFails` | `bind_and_check_all`, net by net and arc by arc |

A path is any simple path of pips that pass the tests of the two-ended search, which differ for the pips
and wires at its ends (`SearchFinds`). Costs are left out. A search in a thread may also give up at any
time: it has a budget, and which paths it would have found depends on costs. The order in which the wires
of one path are bound is that of the model, not of the code: within one thread only the sums matter. The
use count of a source wire, which grows with every path from it and is never lowered, is not tracked.
`find_all_reserved_wires` and `partition_nets` run once, before the loop; what they compute are the
constants `Reserved`, `MidX` and `MidY`. `MinThreaded` stands for the 200 nets below which the code
uses one thread, `GrowPeriod` for 3, `MaxTimingIter` for 500.

**Router1Inv** holds the two inductive invariants and the assumptions on the starting point (section 5),
**Router2Inv** those of router2: `IInv`, and `LockInv` for what is locked.

**ContextLock** models the two mutexes; the operations are state relations over `mutex`, `mutex_owner`
and `ui_mutex`. **GuiTask** composes them with the threads. A *task* is a sequence of *phases*, by how
the code holds the lock: `"bare"` (mutates without it: packing, `routeVcc`, `routeClock`,
`fixupRouting`), `"yielding"` (`ScopeLock` and `yield()`: placer1, placer_heap, parallel_refine, router1),
`"held"` (`ScopeLock` throughout: router2), `"raw"` (`lock()`/`unlock()` without a guard: `timing_opt`).
In every turn a phase logs once, and the log call runs `log_write_function` (worker.cc 34-50) step by
step: test `toTerminate`, throw; test `toPause`, emit `taskPaused`, sleep, test again. The same hook runs
in the UI thread when a slot logs. The program points of `yield()` are steps of their own. The UI thread
handles queued signals and the user's buttons one at a time; the render thread is poked at any time.

**NetBounds** models the bounding box of a net along one axis, as `detail_place_core.cc` keeps it: the
least and the greatest coordinate of the pins and how many pins lie on each. `Scan` is `NetBB::compute`;
`MovePin` is what `compute_changes_for_cell` does for one port of a cell that moves: it extends an edge,
counts a pin onto it or off it, or, when the last pin leaves an edge, asks for a scan (`FULL_RECOMPUTE`).

**DetailPlace** models the refinement placer: `parallel_refine.cc` over the transactions of
`detail_place_core.cc`. The context is `cellBel` and `belCell`, the two sides of `bindBel`, and the cells
above `STRENGTH_STRONG` (`locked`); `HardUnavail` are the bels that `checkBelAvail` always refuses (`usp_bel_hard_unavail`); `archMutex` is `archapi_mutex`, held exclusively. A thread has its
own map of cells to bels (`view`, `local_cell2bel`), its boxes (`bounds`, `net_bounds`), and of the move
in hand the cells with their old and new bels (`moved`), the boxes followed (`track`), what is still to
be added (`todo`, `displaced`, `used`) and `arch_state_dirty`.

| Action | Code |
|---|---|
| `Split`, `StartThreads`, `EndIteration` | `do_partition` (a cut of every part; the pivot is any the code may draw), `set_partition` with `setup_initial_state`, the loop of `run()` |
| `SingleCellSwap`, `ChainSwap`, `TileSwap`, `Finish` | `run_iter` picks a cell and a bel, a cluster and a bel for its root, two tiles; or is over |
| `SearchInVain`, `SearchOn` | `random_bel_for_cell` has no way out but a suitable bel; a cell that is on none itself may have none in reach, and its thread draws for ever |
| `AddNext`, `NextCluster`, `AddMember` | `add_to_move` for the cells of the move; in `chain_swap` one turn of each of its two loops |
| `ComputeTotalChange`, `AcceptMove` | the scans that were asked for; the decision |
| `BindMoveBegin`, `BindMoveCell` | `bind_move` under the mutex: unbind all, bind one by one, stop at a bel that is taken |
| `CheckValidity` | `check_validity`: the tiles of all old and new bels |
| `CommitMove`, `RevertClean`, `RevertUnbind`, `RevertRebind` | `commit_move` and `revert_move`, each with `reset_move_state` |

Between these steps the mutex is free, and the other threads go on. Delays are left out, so the decision is free;
a move is any the random draws could give, up to `MaxTries` in an iteration. `revert_move` forgets what a
call that failed half way had noted, so such a call notes nothing in the model. A cluster is locked as a
whole or not at all (`DetailPlaceAssumption`): the packers and placers bind its cells with one strength,
and `MayLeave` would otherwise have to look at cells outside the tile. The same assumption says that there are
finitely many nets and that a net without a pin is in `SkipNet`, as `skip_net` (`detail_place_core.h`) has it
for a net without a driver. What a tile may hold is the
constant operator `TileLegal`, a function of the cells bound in it. That the code's answer, given from
flags, *is* such a function is what LogicTile is about; it holds as long as memory LUTs come with their chain.

**Placement** is what a refinement promises to whoever holds the design: every cell has a bel, no two
have the same, every step leads from a legal placement to a legal one and leaves locked cells alone.
DetailPlace implements it (`MovesAreAtomic`) with `place <- Placed`: the placement in which a cell of a
move that has been bound and not yet committed is where it was. **DetailPlaceInv** holds the inductive
invariants `ApartInv`, `LegalInv` and `BoundsInv` of the proofs, and `LegalStart`, what the
placer before must deliver.

**LogicTile** models the validity of a logic tile of series 7: `xc7_logic_tile_valid` (`arch_place.cc`)
and the flags that `updateLogicBel` (`arch.h`) keeps for it. `cell`, `dirty` and `valid` are the fields
of `LogicTileStatus`; the flags of the halves never get clean, so they are not variables. `EightFits` has
the rules of a slice (its two LUTs, who may use its X input, who may use its output multiplexer),
`HalfLegal` those of the flip-flops of four slices, `WriteClocks` the clock that memories and shift
registers share over the tile.

| Action | Code |
|---|---|
| `Bind`, `Unbind` | `bindBel`, `unbindBel` with `updateLogicBel` |
| `Check` | `isBelLocationValid`: dirty eights are examined in turn and cleaned, up to the first that fails, a clean one is believed; the write clock is taken from the eights examined. The placer then keeps the move or undoes it, valid or not (a refusal, a cost, other bels to be tried) |
| `Remove` | `legalise_placement_strict` takes cells off for good, with no question asked |
| `KeepBest` | it ends on the best bel it has seen (`best` is the tile with the cell on `bestBel`, forgotten when another cell is bound), again with no question |

A flip-flop's set/reset, enable and inversions are one value (`ctrl`); a LUT's inputs are a set.

**MCRouter1**, **MCRouter2**, **MCGuiTask**, **MCDetailPlace** and **MCLogicTile** give the constants
their values.

## 3. Runs

| Run | What it shows | States |
|---|---|---|
| `router1` | Nets A (three sinks, two of them the same wire) and B compete for the shared wires x and y, C is a net whose source is its sink, U has no driver and holds a wire. Five prior routings: none, A routed, B routed and locked, A's trunk locked, only U; two placements, one with two nets on one sink. With `router/tmg_ripup`, any set of sinks of unlocked nets may be ripped up whenever the queue is empty, or none. Invariants and `LockedStays` hold for every path the search may pick. | 8658 |
| `router1_broken_prior` | Finding 1 below. | |
| `gui` | Two jobs, of two tasks (`bare, yielding, bare` and `held`), all buttons at any time: lock discipline, exclusive reads, no circle of waiting, honest buttons; a displaying thread that has `ui_mutex` gets the design, unless a task stays paused with the main mutex held. | 43289 |
| `gui_late_stop` | Finding 2. | |
| `router2` | A row of tiles split in the middle: A (two sinks) on the left, B on the right, C (three arcs, one of them from the source to itself, two to the same sink) across, U without a driver. Shared wires on both sides; a path of A may leave its box. Five prior routings: none, C routed, B routed and locked, C's source reserved, a partly routed B beside an arc of A without a source. | 634521 |
| `router2_race` | Finding 3. | |
| `router2_seeds` | Finding 6. | |
| `detail_place` | Four threads in the quarters of a grid of four columns and two rows, five cells, two of them a cluster that stands across two rows, one net with two pins on the same cell, a bel the cluster may be sent to that is unusable, a cell confined to a region. | 3739 |
| `detail_place_row` | Two threads on five tiles with a LUT and a flip-flop each, two moves in an iteration: a cluster inside a tile, a cluster of one cell, a locked cell, a net that is skipped, an unusable bel, a rule of validity that a tile a cell *leaves* can break. | 107640 |
| `detail_place_region` | Finding 4. | |
| `logic_tile` | A SLICEM tile with shift registers of two clocks, a chained memory, flip-flops, F7 and F8 multiplexers. | 39268 |
| `logic_tile_alone` | Finding 5. | |

*Bounds.* In `router1` two contended wires are enough for every kind of step: a path that takes a wire
from one or two arcs, of another net or its own; a wire shared by two arcs; a path that reuses part of
the net's own tree or turns it around; a ripup in the middle of binding; a hard-unavailable pip; a
search that fails. `MaxTimingRipup` (50 in the code) is 2: a ripup can follow a routing that a ripup has already disturbed.
In `gui`, `MaxJobs = 2` lets a job wait behind another and lets a button pressed for the first act on
the second; three threads are all there are.

In `router2`, `MaxIter = 3` iterations are needed for a net to be routed out of its box by the single
thread, ripped up by its thread, and bound; with `GrowPeriod = 2` a box grows within them, and A moves
from its quadrant to the single-threaded part, B to the right half. `MinThreaded = 3` lets the first
iteration use threads and later ones either. A and B run at the same time in two quadrants, C in the
upper half after them; the other threads differ from these only in their boxes. C may
fail its slack in any iteration, so that its arcs are ripped up without congestion. A sink of A has a pip to its other
sink (`ThruOwn`), so that one arc may run over the sink of another; in `MCRouter2Seeds.cfg` it drives a shared wire instead.


In `detail_place`, four threads give two cuts, along x and then along y, with parts that have no cell and
parts that share their last row or column; one move each is enough for four moves in flight at once, and
iterations go on until the wires no longer get shorter. In `detail_place_row`, `MaxTries = 2` lets a move
follow one that was reverted, on the state the reversal left; five tiles and two threads leave room for a
cluster to displace a cell and another cluster. Coordinates of up to five values give boxes with several
pins on an edge, with one, with none.

In `logic_tile`, `MaxMoved = 2` bels change in one move (a swap of two cells, a chain of two); the cells
are chosen so that every rule with two parties has both: an X input wanted by a flip-flop, a multiplexer
and an address; write clocks that agree and that clash with each other and with a flip-flop; a change in
one eight that matters to another. The theorems (section 5) have no such bound.

*Fairness* (`FairSpec` of GuiTask): weak fairness of each thread's steps, that is, the operating system runs a
thread that can run. No mutex is fair: a waiting thread may be overtaken for ever, as `std::mutex`
allows. The user and the timer that pokes the renderer are under no obligation. `UiNotStarved` then
rests on `yield()`, where the worker has to pass through `ui_mutex`, which the displaying thread holds, and on the
end of each phase, interrupted or not. A task that is paused with the main mutex held, and never continued,
is the one exception it makes.
For router1 no fairness and no liveness is stated: under "any path" two nets may rip each other up for
ever, and what prevents it in the code is a heuristic score. The same holds of router2, whose costs grow.

`FairSpec` of DetailPlace is weak fairness of each thread and of the main thread, for the same reason. No
fairness of `archapi_mutex` is needed: a thread that is overtaken for ever would need another that moves
for ever, and the moves of an iteration are counted (`inner_iters`, here `MaxTries`).

*Deadlock* is checked in every run. In the GUI's it says little, since the user and the poke of the renderer can
nearly always do something; there `NoCircularWait` and `UiNotStarved` are what speaks of threads that wait.

### Properties

* `TypeOK` of each model, `IInv` (the inductive invariant, checked as an invariant before it was proved).
* `ContextCheck`: the three maps of the fabric agree in *every* state, inside `route_arc` too.
* `NoAbort`: no `NPNR_ASSERT` of the router or of a binding function fails.
* `RouterCheck`: `Router1::check()` between two arcs.
* `QueueComplete`: an arc that is not queued or in hand is tracked from its sink to its source; that is,
  whoever ripped up one of its wires queued it.
* `TreeInv`: its wires, but for the path being bound, form no loop, no arc's chain has a stub, and every wire
  of a net set up is on the chain of an arc (the invariant behind the next two).
* `NoLoops`: no net drives a wire from itself.
* `RoutedWhenDone`: when `router1()` returns true, every driven net is a tree from its source to all its sinks, as
  `checkRoutedDesign()` demands of nets with users. (That a net *without* users has no wires, router1.cc:1016, is not stated.)
* `LockedStays`: a wire above `STRENGTH_STRONG` is given up only by a re-routed arc of its own net.
* `ThreadsApart`, `CountersExact` (router2): as long as no thread was given a net with wires or ends
  outside its box (`strayed`, a history variable), no two threads come near the same wire, and every
  counter is the number of nets on the wire. That this condition can fail is finding 3.
* `RoutesStand`: between nets, every routed arc has its path, and every wire counts exactly the routed
  arcs over it.
* `TreesInv` (router2): the invariant behind it, which speaks of the middle of a ripup and of a binding too:
  the arc in work counts on just the wires that are left to do or are done, and the others on theirs.
* `RoutedWhenDone` (router2): what router1 is handed is routed in the *fabric*, whatever bindings failed
  on the way.
* `NoAbort` (router2): the assertions of router2 and of the fabric it binds in, and `map::at`. It holds where no
  sink wire drives a wire another net may take; finding 6 is what happens on other fabrics.
* `LockedStays` (router2): a binding above `STRENGTH_STRONG` is neither given up nor replaced. It assumes
  that no arc over such wires is late (`MayBeLate` of the run); section 4 says what happens otherwise.
* `ArchConsistent` (router2): the maps of the fabric agree throughout `bind_and_check_all`; it rests on
  `LockedStays`, for what is not unbound before the arcs are bound is what is locked.
* `LockDiscipline`, `ReadsAlone`, `NoCircularWait`, `ButtonsMeanTask`, `UiNotStarved`: see GuiTask.
* `MovesAreAtomic` (DetailPlace): the refinement of Placement above.
* `ThreadsApart` (DetailPlace): what lies in the box of a thread is a cell of its part, and no tile is in
  the moves of two threads. Every unlocked read of the context rests on it.
* `ApartInv`: the invariant behind it. The parts share no cell and no bel of their boxes, a move is of whole
  clusters of unlocked cells of the thread's own part, inside its box, and a cell without a bel is in a move.
* `LegalInv`: the placement the other threads may count on, with every move not committed taken back, is
  legal; the clusters of a move keep their shape; tiles found valid still are when the move is committed.
* `BoundsExact`, `DeltaExact`: between two moves the boxes a thread kept step by step are those of the
  positions, edges and counts; the change of wirelength the decision is given is the true one.
* `ViewCurrent`: a thread's own map agrees with the context on its cells when it has no move in flight; no
  cell is lost, doubled or left without a bel, but by a move that will put it back.
* `NoAbort` (DetailPlace): the assertions of `bindBel`, `unbindBel` and `add_to_move`, and no look-up of a
  net the thread does not have.
* `BoundsInv`: the invariant behind `BoundsExact` and `DeltaExact` (section 5).
* `Terminates`: the refinement ends, unless a thread looks for ever for a bel for a cell that has been moved out
  of its region (finding 4).
* `AnswerIsCurrent` (LogicTile): the answer from the flags is that of a complete examination of the cells
  now bound. `CacheInv` is the inductive invariant behind it.

Each has a mutant in `PROJECT.json`: a plausible slip in the code under which TLC finds it violated.

## 4. Findings

1. `router1_broken_prior`: `setup` enters a wire in its maps before it looks whether the net holds it,
   so a partly routed arc makes the `check()` after `setup` fail (`log_assert(net_info->wires.count(wire))`).
2. `gui_late_stop`: a Stop after the last log call of a task is found by the UI thread's own log call,
   which throws where nothing catches.
3. `router2_race`: bins are chosen by bounding box, but a net may have wires outside its box, left by the
   single-threaded search; its thread then changes the counters of another thread's wires (an
   unsynchronised `++`), whose updates may be lost.
4. `detail_place_region`: only the cell that is picked is tested against its region; a cell that makes room
   for it, or moves with its tile, is not. The annealing placer tests both. A cell outside its region may later
   hang its thread: `random_bel_for_cell` draws until it finds a bel of the region in the thread's box.
5. `logic_tile_alone`: the write clock is collected from the dirty eights, and a memory LUT makes all
   eights dirty only on top of its slice. A memory LUT elsewhere, beside a clean shift register of another
   clock, is found valid. Whole chains, which have a LUT on top, are safe (section 5); the annealing placer
   first places the cells of a chain one by one.
6. `router2_seeds`: `route_net` keeps an arc that runs over the sink of another arc and notes its wires as starting
   points; the other arc is ripped up later in the same loop, the wires are freed, and the search that ends on one
   of them fails `NPNR_ASSERT(cursor_bwd == src_wire_idx)`. It takes a fabric on which a sink wire drives a wire
   another net may take. The search does not see `usp_pip_hard_unavail` (xilinx redefines `checkPipAvail`, not
   `checkPipAvailForNet`), so the LUT route-throughs make this such a fabric.

Observed while modelling, and not runs of their own:

* `router1`: a re-routed arc releases the wires only it uses even when they are locked; an arc that shares
  its sink wire with an earlier arc of the net is in no map; a search that fails leaves the other nets
  routed and the arc in hand without wires. `setup` keeps locked wires no arc runs over, which `check()`
  asserts there are none of; `routeClock` leaves such a wire when it finds no dedicated route.
* GUI: a paused task sleeps in a log call with the main mutex held; a click on a bel then blocks the UI thread, with
  the Play button in it, and both wait for ever (`UiNotStarved` fails without its condition). A Stop during
  `timing_opt`, which uses no `ScopeLock` (phase `"raw"`), leaves the mutex locked; no placer of xilinx calls it, ice40
  does. Packing and the phases around the router change the design without the lock (phase `"bare"`).
* `router2`: with `router/tmg_ripup` a late arc over locked wires is routed anew and bound over them, although
  `lockNetRouting` is to "set the routing of a net as fixed" (`docs/python.md`): with `MayBeLate = {B}` and
  `MorePips <- Direct` in `MCRouter2.cfg`, TLC finds `LockedStays` violated.
* `chain_swap` is meant to "Displace the entire cluster" that is in the way. It asks the context, where the cell that
  displaces it is still bound to the place it is to get; that cell has been moved already, so the move fails. No
  harm is done, but no chain moves two clusters.
* `bind_move` and `revert_move` bind with `STRENGTH_WEAK`, whatever the strength was before.
* `ConstraintLegaliseWorker` (`place_common.cc`) does not undo a change that was refused, but rips cells up
  one at a time; the next answer then may come from flags that a clash of write clocks left clean.

## 5. Proofs

`tlapm` proves, for all values of the constants:

| Theorem | States |
|---|---|
| `Router1Proofs!Router1Invariant` | `Assumptions => (Spec => []IInv)` |
| `TypeCorrect`, `FabricStaysConsistent`, `RouterStaysConsistent`, `NothingForgotten`, `AssertionsHold` | `[]TypeOK`, `[]ContextCheck`, `[]RouterCheck`, `[]QueueComplete`, `[]NoAbort` |
| `LockedRoutingKept` | `LockedStays` |
| `Router1TreeProofs!TreesInvariant`, `NeverALoop`, `DoneMeansRouted` | with `TreePriorRoutings`: `[]TreeInv`, `[]NoLoops`, `[]RoutedWhenDone` |
| `GuiTaskProofs!TypeCorrect`, `WorkerKeepsDiscipline` | `SafeTasks => (Spec => []TypeOK)`, and `[]LockDiscipline` |
| `DisplayReadsAlone`, `NoCircle`, `ButtonsMeanRunningTask` | `[]ReadsAlone`, `[]NoCircularWait`, `[]ButtonsMeanTask` |
| `Router2Proofs!Router2Invariant`, `TreesInvariant` | `Spec => []IInv`, and `[]TreesInv` |
| `CountersStayExact`, `RoutesAlwaysStand`, `ThreadsStayApart`, `TypeCorrect` | `[]CountersExact`, `[]RoutesStand`, `[]ThreadsApart`, `[]TypeOK` |
| `ArchStaysConsistent`, `LockedBindingsStay` | `LockedPrior /\ Spec => []ArchConsistent`, and `=> LockedStays` |
| `LogicTileProofs!CacheInvariant`, `AnswersAreCurrent` | `MemoryChained => (Spec => []CacheInv)`, and `[]AnswerIsCurrent` |
| `NetBoundsProofs!PinFollowed` | `MovePin` leaves a box that follows the pins, edges and counts, or asks for a scan |
| `BoxUnique` | two boxes that follow the same pins and ask for no scan are equal |
| `ScanFollows`, `CellFollowed` | `Scan` computes such a box; a cell with any number of pins on the net is followed |
| `DetailPlaceProofs!ApartInvariant` | `Spec => []ApartInv` |
| `ThreadsStayApart`, `AssertionsHold`, `ViewsCurrent` | `[]ThreadsApart`, `[]NoAbort`, `[]ViewCurrent` |
| `LegalInvariant`, `AtomicMoves` | `LegalStart => (Spec => []LegalInv)`, and `MovesAreAtomic`: DetailPlace implements Placement |
| `BoundsInvariant`, `RefinementTypes` | `Spec => []BoundsInv`, and `[]TypeOK` |
| `BoundsStayExact`, `DeltaStaysExact` | `[]BoundsExact`, `[]DeltaExact` |

*router1.* The properties one wants are not inductive. While a path is being bound, `RouterCheck` fails
for a moment, and whether the assertions hold at the next step depends on how the part bound so far and
the rest of the path lie to each other. `IInv` adds

* `Routing` and `PartlyBound`: the wires bound so far form the end of the path, from the sink to the
  cursor; each hangs on its pip of the path; every pip of the path is either one the net already uses or
  one that was takeable when the search looked, and still is;
* `OnlyRouted`, `WholeTodo`, `SourcesOwn`: only arcs `setup` has entered are queued or tracked; nets not
  yet set up keep whole routings; no net takes another's source;
* `TrackedInv`: `BoundIsTracked` for the nets set up so far.

There is one lemma per action. `FabricProofs` has the lemmas about `BindWire`, `BindPip` and
`UnbindWires` (what they preserve, and what they leave alone) that all of them cite.

Two assumptions on the starting point, both in `Router1Inv`: `WholePriorRoutings`, no arc is half routed
when the router starts (finding 1 is what happens otherwise), and `SourcesReserved`, a wire driven by a
bel pin cannot be taken by a path (on this fabric the pips into it are route-throughs of the occupied
bel, which `usp_pip_hard_unavail` rejects; the code never tests the source wire).

*router1, trees.* That a loop never closes looks like an induction over paths; it is not one. A *loop* is a set
of wires of a net each of which is driven from inside the set, and every argument is about such sets.
`BindStep` drives one more wire of the path from the next one up. A loop that appears then contains that wire;
either it was there before, or it stays inside the part of the path already bound, and a simple path has no
set of wires closed under predecessors but through its source (`IsPath`, `NoCircleOnPath`). In the other steps
wires are only unbound, and a subset of a fabric without loops has none. `NoStubs` says that every wire of a
settled arc other than its sink drives another wire of that arc; what makes it inductive is that whoever
loses a wire is queued (`QueueComplete`, from `IInv`). `NoStrays` says that every bound wire is on some arc's
chain. `DoneMeansRouted` combines the three: once the queue is empty the wires of a net are those of its arcs,
each leads from the source to a sink. Its assumption `TreePriorRoutings`: no prior routing of a driven net has
a loop, and its locked wires are on the chains of arcs (`routeClock` may break the second; section 4).

*router2.* Its threads take no lock, `++curr_cong` is a load and a store, and a net's map is changed wire by
wire, so none of the three properties is inductive, nor can they be proved one by one: the counters are exact
because the threads stay apart, the threads stay apart because the wires of a net lie in its thread's box,
these are known because its map is a tree, and a map only is one if nobody else changes it. `IInv` is

* `Staged`: only threads of the present stage are at work, each holds arcs of the one net it has taken, and
  a net is given to the thread of its bin only;
* `TreesInv`: a net that is in no thread's hands is *whole*: each routed arc reaches the source, and each wire
  counts the routed arcs whose trunk it is on. While an arc is ripped up (`Ripping`) the net is whole but for it,
  and the arc counts on the wires still to be visited. While a path is bound (`Binding`) the net *would be*
  whole with the rest of the path bound (`AsBound`), and the arc counts on the wires visited so far;
* `BoxesInv`: until a net strays, the wires of a net in work, its start points and its path lie in the
  thread's box;
* `CountersInv`: until then the counters are exact, and a counter loaded and not yet stored is unchanged.

The lemmas are about one net's map: the walk from a wire to the source is determined by the pips on it
(`WayIsWalk`), comes over no wire twice (`WayDistinct`) and does not see other wires change (`WayFrame`); a wire
that is freed is on no other arc's trunk (`NoOthers`); a path that the search may find enters the tree only
through pips the tree has, so it and the tree below its start lead from the sink to the source, whichever of
the three binding loops comes first (`OffTheTree`, `Found`). `Trunk` is a recursive function on the naturals; that it
has the values of its definition is not built into the prover, so `PrimitiveRecursion` proves that such
functions exist, from the library's well-founded minimum (`FlattenType` does the same for a sequence operator). `BoxesApart` and `BusyApart` are the arithmetic of
the quadrants and halves.

There are no hypotheses but `FabricAssumption` and `Router2Assumption`, on the constants: arcs belong to one net
each and are no nets, finitely many wires, each prior routing is consistent. What setup_wires does with a partly routed net, and
bind_and_check with a refused arc, is inside. `strayed` is no hypothesis to be discharged: finding 3 shows a run in
which it comes true, and the theorems say that nothing less goes wrong.

*router2, what is locked.* `bind_and_check_all` unbinds all a net has in the fabric but what is bound above
`STRENGTH_STRONG`, and binds its arcs anew from the map the threads have made. Nothing in that loop compares
the two: if the map led to a locked wire through another pip, the wire would get a second driver in
the fabric. It does not because the threads never give up a locked wire, and that has to be said of every
step of theirs. `LockInv` is `FabricConsistent` with

* `HeldInv`: a net uses each wire it holds locked, through the pip it has in the fabric, and as the only net
  (`NetHeld`); no path or start point of a thread is a wire another net holds, no thread has a counter of a held
  wire in hand or rips up an arc that is locked end to end (`Mindful`). A held wire is never freed since the
  locked arc over it stays routed and is counted (`TreesInv`), and that arc stays since it is legal whenever it
  is checked: its wires have one user each;
* `PipsFit`: the wires of a map and of a path hang on pips that lead to them;
* `QueueInv`: each arc still to be bound comes after its net in the queue, or the net has been unbound and what it has in
  the fabric agrees with its map (`Agrees`). Hence a free pip of the trunk leads to a wire without a driver.

The hypothesis `LockedPrior` speaks of the state the router starts in: what is locked, beside a net's source,
are whole routes to its sinks, the net is not one whose slack may fail, and no net holds an end of another. So
`routeClock` leaves the clocks it routes to the end (`xilinx/arch.cc`); three of the five prior routings of
`MCRouter2` satisfy it, the other two TLC covers. The theorems need neither the condition on `strayed`
nor `NoAbort`: on this point threads that stray do no harm, as a wire that is held is never shared.

*GUI.* `SafeTasks`, no task has a `"raw"` phase: on xilinx no placer calls `timing_opt` (section 4 says what
happens otherwise). `LockDiscipline` is inductive with `TypeOK`; the others add where the two displaying
threads hold which mutex.

*Logic tile.* The answer is current because the flags are (`CacheInv`):

* `FlagsAreCurrent`: a clean valid eight is legal, and a clean invalid one is not. The second half has an
  exception: an eight may be invalid because its write clock clashes with that of *another* eight; then the
  change that brought the clash is one that marks all eights, and it is still to be undone (`undoing`),
  which marks them again.
* `BestIsWatched`: the tile as it was when the best bel was tried has one write clock, so that going back to it
  without a question is safe;
* `ClocksAreWatched`: the cells kept agree on their write clock, and while no move is being undone, either
  all eights are dirty or no bel that differs from the kept ones has put a write clock on or off in silence.

`Reads(e)` is what the examination of eight e looks at, and the proof has one lemma that a change of a bel
marks every eight that reads it. The first-failure exit makes the order of the eights matter: `Reached`
lemmas relate the eights that were examined to those that were not.

The hypothesis `MemoryChained` is about the packer: in a tile a memory LUT has one place and belongs to a
chain with a LUT on top of the slice and the same write clock. `pack_dram` gives every LUT of a memory an
absolute `constr_z`, from the top down, and legalisers bind chains whole. Finding 5 is what happens otherwise.

*Net boxes.* `TrackedBox` says what a followed box must be of the coordinates of the pins: unless a scan
was asked for, the edge is the least (greatest) of them and the count is how many are there.
`PinFollowed` proves that `MovePin` keeps it when one pin moves from anywhere to anywhere, for nets of any
size; with `BoxUnique`, a box that follows is *the* box, whatever moves led to it. `CellFollowed` is the same for
a cell and all its pins on a net: the model folds `MovePin` over them, and what is proved by
induction over the set of pins done is that the box follows the positions with those pins moved.

*Refinement placer, apart.* The threads share the context and lock it only while they write, so everything
rests on their not meeting. `ThreadsApart` is not inductive: that the tiles of two moves differ follows from
where the cells of the moves are going, which follows from what was looked up, and when. `ApartInv` has

* `PartsApart`: the parts are disjoint sets of unlocked cells; the boxes of two parts share no tile; the cells
  of a part lie in its box. `Split` keeps it because the pivot is a cell's coordinate, one half has what
  is at most the pivot and the other what is above;
* `MoveInv` with `ViewInv`: what a thread remembers of the cells of its move is where they are (or, once bound, were), every
  bel it is going to is in its box, is free or held by another cell of the move, and no other move has it;
* `WholeClusters` and `Requests`: a move has all members of a cluster or is still to add them, so that no bound cell
  leaves its cluster behind; what is still to be added is a cell of the part and a bel of the box;
* `Phase`: what each program counter says of the other locals (nothing bound while the move is drawn up, all
  old bels free while it is being reverted).

No step of one thread touches a cell or a bel of another's box, so the invariant of a thread is disturbed by its own
steps only (`Stays` lemmas); the rest is one lemma per action.

*Refinement placer, atomic.* A refinement mapping needs the commit to be the one visible step: `Placed`
takes every uncommitted move back, `CommitMove` is a step of Placement and all others stutter. The commit must
lead to a legal placement. The tiles of the move were found valid by `CheckValidity`, an earlier step with
other threads in between; `LegalInv` says they have not changed (the boxes are disjoint). The clusters have
their shape since each member goes where the root's new place demands, and a move that is committed has
bound all of them. `LegalStart` is the assumption that the placer before hands over a legal placement;
`MCDetailPlace` has TLC evaluate it. `DetailPlaceAssumption` (section 2) is the other.

*Refinement placer, boxes.* `BoundsExact` speaks of the time between two moves; a move leaves it in up to as
many steps as it has cells, and half of the moves are taken back. `BoundsInv` says of every thread, in every state:

* `BoxesBefore`: its boxes are those of the positions *before* the move in hand (`Before`), so that a move that is
  taken back has nothing to repair;
* `BoxesFollow`: the box tracked for the move is, unless it asks for a scan, the one of the positions the
  thread has noted so far, the move included; after the scans (`BoxesAfter`) none asks for one;
* `UnnotedKept`, `NothingNoted`: a net without a noted change is tracked as it was, so that the commit, which
  copies the noted nets only, and the sum of the changes, which goes over these only, miss nothing.

`DeltaStaysExact` then is about a sum: the code adds the differences net by net over the nets noted, `DeltaExact`
takes the difference of the two sums over all nets. Sums and the pins of a cell are folds over finite sets; the
library's induction over those takes an operator as a parameter and cannot be instantiated here. The proofs make
their own induction, over the sets of members done (`SubsetsDown`: a family of subsets that has a
subset whenever it has it without any one of its members has all of them), with fold equations proved from `FoldFunction`'s definition.

Only model-checked: `UiNotStarved` and `Terminates` (liveness); of Router2 `NoAbort` and `RoutedWhenDone`, which need
more of the starting point than the constants promise (every wire a prior routing binds is on the trunk of an arc,
and no sink wire drives a wire another net may take). The run of `MCRouter2` reaches the final binding, where `RoutedWhenDone`
speaks, from the prior routings `Empty`, `RoutedC` and `LockedB`; from `ReservedC` and `Partial` it is not reached
within the bounds, so for a partly bound prior routing that property is not exercised. `LockInv` was checked by TLC before it was proved, on the prior routings of
`MCRouter2` that satisfy `LockedPrior`. Termination of router1 is neither checked nor true of the model.

## 6. Not modelled, and why

See "components" in `PROJECT.json`, which covers the whole repository; most of its lines are vendored
libraries and generated tables (`build-wasm`, `Nathan_Serv`, other architectures). Data-driven sequential parts (packers, fasm, frontend, JSON, timing
numbers, the analytic placer's solver) have no control worth a state machine. Within the modelled parts:
nets without a source wire (an error before anything is bound), scores and delays, the debug outputs,
replacing the context by opening another design, the lost wake-up of the renderer (it concerns only how
fresh the picture is), the Python console; of the refinement placer the delays, the temperature and the
radius; of the tiles the rules of UltraScale+ and of block RAM.

## 7. Plan

Done in this order: `Fabric`, `Router1` (the one algorithm that changes the design in steps and must
keep the most maps in agreement), its invariant and proofs; `ContextLock`, `GuiTask` and its proofs;
`Router2`; `NetBounds`, `Placement` and `DetailPlace` with their proofs; `LogicTile` and its proofs.

Left:

1. Abstract specification of a router: a set of trees over the fabric, which Router1 and Router2 both
   implement from the state in which they return true; `find_all_reserved_wires` against the first
   iteration's searches.
2. Initial placement (`place_single_cell`: displace and retry), on the tiles of LogicTile.
3. The rules of UltraScale+ tiles, whose eights share more.
4. Netlist (ports, users, renaming), pre-routing of constants and clocks.
5. Proofs: `NoAbort` and `RoutedWhenDone` of Router2, from the assumptions section 5 names.
