------------------------------- MODULE Fabric -------------------------------
(***************************************************************************)
(* The routing fabric of the xilinx architecture as the routers see it:    *)
(* the three maps that record which net occupies which wire and pip, and   *)
(* the binding operations of xilinx/arch.h on them.                        *)
(*                                                                         *)
(* A fabric is a value, a record f with the fields                         *)
(*   wire_to_net, pip_to_net   Arch::wire_to_net, Arch::pip_to_net         *)
(*   wires                     NetInfo::wires, per net: WireId -> PipMap   *)
(* so that a handler that calls several operations composes them.  Each    *)
(* operation Op comes with CanOp, the NPNR_ASSERTs at its head.            *)
(***************************************************************************)
EXTENDS Integers, FiniteSets

CONSTANTS
    Net, Wire, Pip,       \* identifiers of nets, wires and pips
    NoNet, NoPip,         \* nullptr and PipId()
    PipSrc, PipDst,       \* getPipSrcWire, getPipDstWire
    HardUnavail           \* the pips usp_pip_hard_unavail rejects; it depends
                          \* on the placement, which no router changes

ASSUME FabricAssumption ==
    /\ NoNet \notin Net
    /\ NoPip \notin Pip
    /\ PipSrc \in [Pip -> Wire]
    /\ PipDst \in [Pip -> Wire]
    /\ HardUnavail \subseteq Pip

-----------------------------------------------------------------------------
(* enum PlaceStrength *)
STRENGTH_WEAK   == 1
STRENGTH_STRONG == 2
STRENGTH_PLACER == 3
STRENGTH_LOCKED == 5
STRENGTH_USER   == 6
PlaceStrength   == 0 .. STRENGTH_USER

(* struct PipMap, the value of an entry of NetInfo::wires; NoEntry stands  *)
(* for a wire that is no key of the map.                                   *)
PipMap  == [pip : Pip \cup {NoPip}, strength : PlaceStrength]
NoEntry == [pip |-> NoPip, strength |-> -1]

FabricState ==
    [wire_to_net : [Wire -> Net \cup {NoNet}],
     pip_to_net  : [Pip -> Net \cup {NoNet}],
     wires       : [Net -> [Wire -> PipMap \cup {NoEntry}]]]

(* net->wires.count(w): w is bound to n as far as n itself knows. *)
HasWire(f, n, w) == f.wires[n][w] # NoEntry
WiresOf(f, n)    == {w \in Wire : HasWire(f, n, w)}

-----------------------------------------------------------------------------
(* Queries *)
CheckWireAvail(f, w) == f.wire_to_net[w] = NoNet
CheckPipAvail(f, p)  == p \notin HardUnavail /\ f.pip_to_net[p] = NoNet

(* A fault for the sensitivity runs: a hard-unavailable pip names its      *)
(* destination as the conflict, like any other pip.                        *)
PipConflictIsWire_Always(p) == TRUE

(* getConflictingPipWire is the destination of the pip and                 *)
(* getConflictingPipNet the net it is bound to; for a hard-unavailable pip *)
(* they are WireId() and nullptr, so nothing would free it.                *)
PipConflictIsWire(p) == p \notin HardUnavail

(* The pip that drives w in the net that holds w. *)
DrivingPip(f, w) == f.wires[f.wire_to_net[w]][w].pip

-----------------------------------------------------------------------------
(* Updates *)
CanBindWire(f, w) == f.wire_to_net[w] = NoNet

BindWire(f, w, n, s) ==
    [wire_to_net |-> [f.wire_to_net EXCEPT ![w] = n],
     pip_to_net  |-> f.pip_to_net,
     wires       |-> [f.wires EXCEPT ![n][w] = [pip |-> NoPip, strength |-> s]]]

(* bindPip accepts a destination the same net already holds: routeClock    *)
(* binds the sink wire first and its pip afterwards.                       *)
CanBindPip(f, p, n) ==
    /\ f.pip_to_net[p] = NoNet
    /\ f.wire_to_net[PipDst[p]] \in {NoNet, n}

BindPip(f, p, n, s) ==
    [wire_to_net |-> [f.wire_to_net EXCEPT ![PipDst[p]] = n],
     pip_to_net  |-> [f.pip_to_net EXCEPT ![p] = n],
     wires       |-> [f.wires EXCEPT ![n][PipDst[p]] =
                                        [pip |-> p, strength |-> s]]]

CanUnbindWire(f, w) ==
    /\ f.wire_to_net[w] # NoNet
    /\ HasWire(f, f.wire_to_net[w], w)

(* A fault for the sensitivity runs: the pip that drove the wire stays     *)
(* bound.                                                                  *)
UnbindWires_PipKept(f, W) ==
    [f EXCEPT !.wire_to_net = [w \in Wire |-> IF w \in W THEN NoNet ELSE @[w]],
              !.wires = [n \in Net |-> [w \in Wire |->
                           IF w \in W /\ f.wire_to_net[w] = n
                           THEN NoEntry ELSE @[n][w]]]]

(* unbindWire on every wire of W; the pips freed are the ones the entries  *)
(* of those wires name.                                                    *)
UnbindWires(f, W) ==
    [wire_to_net |-> [w \in Wire |-> IF w \in W THEN NoNet
                                                ELSE f.wire_to_net[w]],
     pip_to_net  |-> [p \in Pip |-> IF \E w \in W : DrivingPip(f, w) = p
                                    THEN NoNet ELSE f.pip_to_net[p]],
     wires       |-> [n \in Net |-> [w \in Wire |->
                         IF w \in W /\ f.wire_to_net[w] = n
                         THEN NoEntry ELSE f.wires[n][w]]]]

UnbindWire(f, w) == UnbindWires(f, {w})

-----------------------------------------------------------------------------
(* What Context::check() demands of the three maps, and its converse: the  *)
(* nets and the architecture agree on who holds each wire, a wire entered  *)
(* through a pip holds that pip, and a pip is held only as the driver of   *)
(* its destination.                                                        *)
WireMapsAgree(f) ==
    \A n \in Net, w \in Wire : HasWire(f, n, w) <=> f.wire_to_net[w] = n

DriversBound(f) ==
    \A n \in Net, w \in Wire :
        LET p == f.wires[n][w].pip
        IN  p # NoPip => PipDst[p] = w /\ f.pip_to_net[p] = n

NoPipLeak(f) ==
    \A p \in Pip, n \in Net :
        f.pip_to_net[p] = n => f.wires[n][PipDst[p]].pip = p

FabricConsistent(f) == WireMapsAgree(f) /\ DriversBound(f) /\ NoPipLeak(f)
=============================================================================
