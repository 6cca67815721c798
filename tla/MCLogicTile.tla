---------------------------- MODULE MCLogicTile ----------------------------
(* Instances of LogicTile.                                                 *)
EXTENDS LogicTile, TLC

CONSTANTS
    clkA, clkB, netD, netI, netS,   \* nets
    a, b,       \* shift registers, of clocks A and B
    f, g,       \* flip-flops, of clocks A and B; g takes netD, which l drives
    l,          \* a LUT
    t, m,       \* a memory of clock B: its top LUT and one below it
    x,          \* an F7MUX
    y,          \* an F8MUX
    k           \* a carry chain that uses the X input of eight 0

LutOf(clk) == [inputs |-> {netI}, outs |-> 1, o |-> netI, o5 |-> NoNet,
               onlyCarry |-> FALSE, di2 |-> NoNet, clk |-> clk,
               msb |-> [i \in 0 .. 1 |-> NoNet]]
FfOf(clk, d) == [clk |-> clk, d |-> d, ctrl |-> "sr", latch |-> FALSE]

KindDef  == a :> "srl" @@ b :> "srl" @@ f :> "FF" @@ g :> "FF" @@ l :> "logic"
            @@ t :> "memory" @@ m :> "memory"
            @@ x :> "MUX" @@ y :> "MUX" @@ k :> "CARRY"
LutDef   == a :> LutOf(clkA) @@ b :> LutOf(clkB)
            @@ l :> [LutOf(NoNet) EXCEPT !.o = netD]
            @@ t :> [LutOf(clkB) EXCEPT !.msb = [i \in 0 .. 1 |-> IF i = 0 THEN netS ELSE NoNet]]
            @@ m :> LutOf(clkB)
FfDef    == f :> FfOf(clkA, netI) @@ g :> FfOf(clkB, netD)
MuxDef   == x :> [sel |-> netS, out |-> NoNet] @@ y :> [sel |-> netS, out |-> NoNet]
CarryDef == k :> [x |-> [i \in 0 .. 3 |-> IF i = 0 THEN netS ELSE NoNet],
                  o |-> [i \in 0 .. 3 |-> NoNet]]
DriverDef == netD :> l @@ netI :> NoCell @@ netS :> NoCell
BelsForAll ==
    a :> {<<0, "6LUT">>, <<1, "6LUT">>} @@ b :> {<<1, "6LUT">>}
    @@ f :> {<<1, "FF">>} @@ g :> {<<2, "FF">>} @@ l :> {<<2, "5LUT">>}
    @@ t :> {<<3, "6LUT">>} @@ m :> {<<2, "6LUT">>}
    @@ x :> {<<2, "F7MUX">>} @@ y :> {<<0, "F8MUX">>} @@ k :> {<<0, "CARRY4">>}
BelsForDef == [c \in Cells |-> BelsForAll[c]]
ChainsDef == {{t, m}}

(* The annealing placer starts from cells placed one by one.               *)
BelsForAlone == [BelsForDef EXCEPT ![m] = {<<1, "6LUT">>, <<2, "6LUT">>}]
=============================================================================
