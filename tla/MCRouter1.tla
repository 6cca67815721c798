----------------------------- MODULE MCRouter1 -----------------------------
(* Instance of Router1 for TLC.  Nets A and B compete for the wires x and  *)
(* y, which drive each other and every sink; net C is its own sink; net U  *)
(* has no driver.                                                          *)
EXTENDS Router1Inv, TLC

CONSTANTS A, B, C, U, a1, a2, a3, b1, c1

MCNet == {A, B, C, U}
MCWire == {"sA", "sB", "sC", "x", "y", "tA1", "tA2", "tB"}
MCArc == {a1, a2, a3, b1, c1}

(* A pip is the pair of its source and destination. *)
MCPip == {<<"sA", "x">>, <<"sA", "y">>, <<"sB", "x">>, <<"sB", "y">>,
          <<"x", "y">>, <<"y", "x">>, <<"x", "tA1">>, <<"y", "tA2">>,
          <<"x", "tB">>, <<"y", "tB">>, <<"x", "tA2">>,
          <<"sB", "tB">>}
MCPipSrc == [p \in MCPip |-> p[1]]
MCPipDst == [p \in MCPip |-> p[2]]
MCHardUnavail == {<<"sB", "tB">>}

MCArcNet == a1 :> A @@ a2 :> A @@ a3 :> A @@ b1 :> B @@ c1 :> C
MCArcPos == a1 :> 0 @@ a2 :> 1 @@ a3 :> 2 @@ b1 :> 0 @@ c1 :> 0
MCNetSrc == A :> "sA" @@ B :> "sB" @@ C :> "sC" @@ U :> "y"

(* a3 ends in the wire of a1; in the second placement C and A clash. *)
Plain == a1 :> "tA1" @@ a2 :> "tA2" @@ a3 :> "tA1" @@ b1 :> "tB" @@ c1 :> "sC"
MCPlacements == {Plain, [Plain EXCEPT ![c1] = "tA2"]}

(* The fabric in which the bindings of the set E, records of a net, a      *)
(* wire, a pip and a strength, have been made.                             *)
FabricOf(E) ==
    [wire_to_net |-> [w \in MCWire |->
        IF \E e \in E : e.w = w THEN (CHOOSE e \in E : e.w = w).n ELSE NoNet],
     pip_to_net |-> [p \in MCPip |->
        IF \E e \in E : e.p = p THEN (CHOOSE e \in E : e.p = p).n ELSE NoNet],
     wires |-> [n \in MCNet |-> [w \in MCWire |->
        IF \E e \in E : e.w = w /\ e.n = n
        THEN LET e == CHOOSE e \in E : e.w = w
             IN  [pip |-> e.p, strength |-> e.s]
        ELSE NoEntry]]]

AtSrc(n, w, s)    == [n |-> n, w |-> w, p |-> NoPip, s |-> s]
Via(n, v, w, s)   == [n |-> n, w |-> w, p |-> <<v, w>>, s |-> s]

Empty     == FabricOf({})
RoutedA   == FabricOf({AtSrc(A, "sA", 1), Via(A, "sA", "x", 1),
                       Via(A, "x", "tA1", 1), Via(A, "sA", "y", 3)})
LockedB   == FabricOf({AtSrc(B, "sB", 6), Via(B, "sB", "y", 5),
                       Via(B, "y", "tB", 5)})
TrunkA    == FabricOf({AtSrc(A, "sA", 5), Via(A, "sA", "x", 5),
                       Via(A, "x", "y", 1), Via(A, "y", "tA2", 1)})
UndrivenU == FabricOf({AtSrc(U, "y", 1)})
MCPriorRoutings == {Empty, RoutedA, LockedB, TrunkA, UndrivenU}

(* What the theorems about Router1 assume of the starting fabrics. *)
ASSUME MCAssumptions == PriorRoutings = MCPriorRoutings => Assumptions /\ TreePriorRoutings

(* A prior routing that lacks the wire between x and the source, as a      *)
(* ROUTING attribute or a script may leave it.                             *)
BrokenA == FabricOf({Via(A, "x", "tA1", 1)})
MCBrokenPrior == {BrokenA}
=============================================================================
