----------------------------- MODULE Router1Inv -----------------------------
(***************************************************************************)
(* The inductive invariant of Router1, and the conditions on the starting  *)
(* fabric under which it holds.                                            *)
(***************************************************************************)
EXTENDS Router1

(* A walk of setup from wire w of net n ends at the source of n, through   *)
(* wires that are all bound to n, and driven by a pip but for the source.  *)
WholeChain(f, n, w) ==
    /\ NetSrc[n] \in Chain(f, n, w)
    /\ \A v \in Chain(f, n, w) :
         HasWire(f, n, v) /\ (v # NetSrc[n] => f.wires[n][v].pip # NoPip)

(* No arc is half routed when the router starts: a sink that is bound is   *)
(* connected to the source.                                                *)
WholePriorRoutings ==
    \A f \in PriorRoutings, s \in Placements, a \in Arc :
        ArcNet[a] \notin Undriven /\ HasWire(f, ArcNet[a], s[a])
        => WholeChain(f, ArcNet[a], s[a])

(* A wire driven by a bel pin cannot be reached through a pip that could   *)
(* be taken (the pips into it are route-throughs of the bel, which are     *)
(* hard-unavailable when the bel is occupied), and no other net starts on  *)
(* it.                                                                     *)
SourcesReserved ==
    /\ \A p \in Pip, n \in Net \ Undriven :
         PipDst[p] = NetSrc[n] => p \in HardUnavail
    /\ \A f \in PriorRoutings, n \in Net \ Undriven :
         f.wire_to_net[NetSrc[n]] \in {NoNet, n}

Assumptions == WholePriorRoutings /\ SourcesReserved

-----------------------------------------------------------------------------
(* An arc the router has entered in its maps. *)
IsRouted(a) == ArcNet[a] \notin todo /\ a \in RoutedArcs(ArcNet[a])

SetupFirst == pc \notin {"setup", "error"} => todo = {}

IdleQueue == pc \in {"timing", "done"} => queued_arcs = {}

WholeTodo ==
    \A a \in Arc : /\ ArcNet[a] \in todo \ Undriven
                   /\ HasWire(fab, ArcNet[a], sink[a])
                   => WholeChain(fab, ArcNet[a], sink[a])

OnlyRouted ==
    /\ \A a \in queued_arcs : IsRouted(a)
    /\ \A a \in Arc : arc_to_wires[a] # {} => IsRouted(a)

SourcesOwn ==
    /\ \A n \in Net \ Undriven : fab.wire_to_net[NetSrc[n]] \in {NoNet, n}
    /\ \A m, n \in Entered : NetSrc[m] = NetSrc[n] => m = n

TrackedInv ==
    \A n \in Net \ todo, w \in Wire :
        fab.wire_to_net[w] = n /\ wire_to_arcs[w] = {} =>
            skip_net(n) \/ fab.wires[n][w].strength >= STRENGTH_LOCKED

(* While an arc is routed: it is in no queue, and while its path is being  *)
(* bound the wires done so far form the end of the path, from the sink up  *)
(* to the cursor.                                                          *)
Routing ==
    pc \in {"search", "bind"} =>
        /\ IsRouted(arc) /\ arc \notin queued_arcs /\ Src(arc) # sink[arc]
        /\ pc = "search" => arc_to_wires[arc] = {}

PartlyBound ==
    pc = "bind" =>
      LET n    == ArcNet[arc]
          done == arc_to_wires[arc]
      IN  /\ IsPath(route, Src(arc), sink[arc])
          /\ cursor \notin done
          /\ IF done = {} THEN cursor = sink[arc]
             ELSE /\ sink[arc] \in done
                  /\ \E q \in route : PipDst[q] \in done /\ PipSrc[q] = cursor
          /\ \A w \in done :
               /\ fab.wires[n][w].pip \in route
               /\ PipSrc[fab.wires[n][w].pip] \in done \cup {cursor}
               /\ w # sink[arc] =>
                    \E q \in route : PipDst[q] \in done /\ PipSrc[q] = w
          /\ \A q \in route :
               \/ Reused(fab, n, q)
               \/ q \notin HardUnavail /\ StrengthOf(fab, PipDst[q]) <= STRENGTH_STRONG

IInv ==
    /\ TypeOK /\ ContextCheck
    /\ MapsInverse /\ TrackedIsBound
    /\ SetupFirst /\ IdleQueue
    /\ WholeTodo /\ OnlyRouted /\ SourcesOwn /\ TrackedInv
    /\ QueueComplete
    /\ Routing /\ PartlyBound

-----------------------------------------------------------------------------
(* What a routing reported complete rests on. *)

(* The router starts on trees: no net drives a wire from itself, and no    *)
(* wire is locked but on the way to a sink (setup unbinds the other ones). *)
TreePriorRoutings ==
    \A f \in PriorRoutings, n \in Net \ Undriven :
        /\ \A S \in SUBSET Wire : ~Loop(f, n, S)
        /\ \A s \in Placements, w \in Wire :
             HasWire(f, n, w) /\ f.wires[n][w].strength >= STRENGTH_LOCKED
             => \E a \in ArcsOf(n) : HasWire(f, n, s[a]) /\ w \in Chain(f, n, s[a])

(* While a path is being bound its net may drive a wire from itself, but   *)
(* only over a wire that has just been bound.                              *)
Acyclic ==
    \A n \in Net \ Undriven, S \in SUBSET Wire :
        Loop(fab, n, S) => /\ pc = "bind" /\ n = ArcNet[arc]
                           /\ S \cap arc_to_wires[arc] # {}

(* Every wire of an arc but its sink drives another wire of the arc.       *)
LeadsOn(a) ==
    \A w \in arc_to_wires[a] \ {sink[a]} : \E v \in arc_to_wires[a] :
        LET p == fab.wires[ArcNet[a]][v].pip IN p # NoPip /\ PipSrc[p] = w
NoStubs ==
    \A n \in Net \ todo : \A a \in RoutedArcs(n) :
        a \in queued_arcs \/ InHand(a) \/ LeadsOn(a)

(* No net has a wire that no arc runs over, or, if setup has not come to   *)
(* the net, will run over.                                                 *)
NoStrays ==
    \A n \in Net \ Undriven, w \in Wire :
        HasWire(fab, n, w) =>
            IF n \in todo
            THEN fab.wires[n][w].strength >= STRENGTH_LOCKED
                 => \E a \in ArcsOf(n) : /\ HasWire(fab, n, sink[a])
                                         /\ w \in Chain(fab, n, sink[a])
            ELSE wire_to_arcs[w] # {}

TreeInv == Acyclic /\ NoStubs /\ NoStrays
=============================================================================
