----------------------------- MODULE MCRouter2 -----------------------------
(* Instance of Router2 for TLC: a row of tiles, split in the middle.  Net  *)
(* A lies on the left, net B on the right, net C across; x and y are the   *)
(* shared wires of the left side, z and v those of the right, and a path   *)
(* of A that finds no room on the left may go over z.                      *)
EXTENDS Router2Inv, TLC

CONSTANTS MorePips, A, B, C, U, a1, a2, b1, c1, c2, c3

MCNet == {A, B, C, U}
MCNetOrder == <<A, U, B, C>>
MCNetArcs == A :> <<a1, a2>> @@ B :> <<b1>> @@ C :> <<c2, c1, c3>> @@ U :> <<>>
MCNetSrc  == A :> "sA" @@ B :> "sB" @@ C :> "sC" @@ U :> "z"
MCSinkWire == a1 :> "tA1" @@ a2 :> "tA2" @@ b1 :> "tB" @@ c1 :> "tC"
              @@ c2 :> "sC" @@ c3 :> "tC"

MCX == "sA" :> 1 @@ "tA1" :> 1 @@ "tA2" :> 2 @@ "x" :> 1 @@ "sC" :> 2
       @@ "z" :> 4 @@ "v" :> 5 @@ "sB" :> 5 @@ "tB" :> 5 @@ "tC" :> 4
MCWire == DOMAIN MCX
At(x) == [x |-> x, y |-> 0]
MCWireLoc == [w \in MCWire |-> At(MCX[w])]

(* A pip is the pair of its source and destination; it lies where its      *)
(* destination does, except that z can also be driven from the left.       *)
(* MorePips are pips from a sink through its site to another wire, to      *)
(* another sink of the same net or back to a wire that nets share, or      *)
(* direct pips that leave room for B.                                      *)
ThruOwn    == {<<"tA1", "tA2">>}
ThruShared == {<<"sA", "tA1">>, <<"tA1", "x">>}
Direct     == {<<"sA", "tA1">>, <<"sA", "tA2">>}
MCPip == {<<"sA", "x">>, <<"x", "tA1">>, <<"x", "tA2">>,
          <<"sA", "z">>, <<"z", "tA2">>,
          <<"sB", "z">>, <<"z", "tB">>, <<"sB", "v">>, <<"v", "tB">>,
          <<"sC", "x">>, <<"x", "tC">>, <<"sC", "v">>, <<"v", "tC">>}
         \cup MorePips
MCPipSrc == [p \in MCPip |-> p[1]]
MCPipDst == [p \in MCPip |-> p[2]]
MCPipLoc == [p \in MCPip |-> At(IF p = <<"sA", "z">> THEN 2 ELSE MCX[p[2]])]

MCReserved == "sA" :> A @@ "tA1" :> A @@ "tA2" :> A @@ "sB" :> B @@ "tB" :> B
              @@ "sC" :> C @@ "tC" :> C @@ [w \in {"x", "z", "v"} |-> NoNet]
MCBox(l, r) == [x0 |-> l, x1 |-> r, y0 |-> 0, y1 |-> 0]
MCNetBox == A :> MCBox(0, 2) @@ B :> MCBox(4, 6) @@ C :> MCBox(1, 5)
            @@ U :> MCBox(0, 6)

FabricOf(E) ==
    [wire_to_net |-> [w \in MCWire |->
        IF \E e \in E : e.w = w THEN (CHOOSE e \in E : e.w = w).n ELSE NoNet],
     pip_to_net |-> [p \in MCPip |->
        IF \E e \in E : e.p = p THEN (CHOOSE e \in E : e.p = p).n ELSE NoNet],
     wires |-> [n \in MCNet |-> [w \in MCWire |->
        IF \E e \in E : e.w = w /\ e.n = n
        THEN LET e == CHOOSE e \in E : e.w = w
             IN  [pip |-> e.p, strength |-> e.s]
        ELSE NoEntry]]]
AtSrc(n, w, s)  == [n |-> n, w |-> w, p |-> NoPip, s |-> s]
Via(n, v, w, s) == [n |-> n, w |-> w, p |-> <<v, w>>, s |-> s]

Empty     == FabricOf({})
RoutedC   == FabricOf({AtSrc(C, "sC", 1), Via(C, "sC", "x", 1),
                       Via(C, "x", "tC", 1)})
ReservedC == FabricOf({AtSrc(C, "sC", 3), Via(C, "sC", "x", 3)})
LockedB   == FabricOf({AtSrc(B, "sB", 6), Via(B, "sB", "z", 5),
                       Via(B, "z", "tB", 5)})
Partial   == FabricOf({Via(B, "sB", "v", 3), Via(A, "x", "tA2", 1),
                       AtSrc(U, "z", 1)})
MCPriorRoutings == {Empty, RoutedC, LockedB, ReservedC, Partial}
=============================================================================
