----------------------------- MODULE LogicTile -----------------------------
(***************************************************************************)
(* The validity of a series 7 logic tile: isBelLocationValid               *)
(* (xilinx/arch_place.cc) and the flags that let it skip what has not      *)
(* changed (updateLogicBel in xilinx/arch.h), under a placer that tries    *)
(* changes of the tile and undoes those it does not keep.                  *)
(*                                                                         *)
(* A tile is eight slices of a 6LUT, a 5LUT and two flip-flops, with the   *)
(* multiplexers and carry chains that span them.  bindBel and unbindBel    *)
(* mark the eights a bel matters to as dirty; isBelLocationValid examines  *)
(* dirty eights only, cleans those it reaches, stops at the first that     *)
(* fails, and takes the write clock from the dirty eights alone.  Several  *)
(* chains and bels of a tile meet in one such answer, and the placers rely *)
(* on it: a wrong answer is an illegal design.                             *)
(*                                                                         *)
(* A bel is <<e, k>>: in the code z = (e << 4) | k.  A net that is not     *)
(* there is NoNet.                                                         *)
(***************************************************************************)
EXTENDS Integers, FiniteSets

CONSTANTS
    Cells, NoCell, NoNet,
    IsSlicem,       \* the tile is a CLBLM
    Kind,           \* of a cell: "logic", "memory", "srl", "FF", "MUX", "CARRY"
    BelsFor,        \* the bels of this tile that suit a cell
    Chains,         \* the sets of cells that are placed together
    Lut,            \* lutInfo of a LUT, inputs as a set
    Ff,             \* ffInfo; sr, ce and the inversions are one value, ctrl
    Mux,            \* muxInfo
    Carry,          \* carryInfo, by position
    Driver,         \* the cell that drives a net
    FromMC31,       \* the nets driven from an MC31 port
    Shared,         \* the nets with more than one user
    MaxMoved        \* bound on the bels a move changes

Eight == 0 .. 7
Half  == 0 .. 1
LutKind == {"6LUT", "5LUT"}
FfKind  == {"FF", "FF2"}
Bel   == Eight \X (LutKind \cup FfKind \cup {"F7MUX", "F8MUX", "CARRY4"})
Empty == [b \in Bel |-> NoCell]
Top   == {<<3, "6LUT">>, <<3, "5LUT">>}
IsMemory(c) == c # NoCell /\ Kind[c] = "memory"
IsSrl(c)    == c # NoCell /\ Kind[c] = "srl"

ASSUME LogicTileAssumption ==
    /\ NoCell \notin Cells
    /\ BelsFor \in [Cells -> SUBSET Bel] /\ Chains \subseteq SUBSET Cells
    /\ \A c \in Cells :
        /\ Kind[c] \in {"memory", "srl"} => /\ BelsFor[c] \subseteq (0 .. 3) \X LutKind
                                           /\ Lut[c].clk # NoNet
        /\ Kind[c] = "MUX" => Mux[c].sel # NoNet

VARIABLES
    cell,       \* LogicTileStatus::cells
    dirty,      \* the eights that are dirty
    valid,      \* the eights that are valid
    answer,     \* what isBelLocationValid said of the cells, or "none"
    kept,       \* the cells before the move under way
    best,       \* the cells bestBel would make of it, or as kept if there is none
    undoing     \* the move is being undone

flags == <<dirty, valid>>
vars  == <<cell, flags, answer, kept, best, undoing>>

-----------------------------------------------------------------------------
(* The rules of an eight.                                                  *)

(* What the examination of eight e reads of the tile.                      *)
Reads(e) == {<<e, k>> : k \in LutKind \cup FfKind}
            \cup (IF e % 2 = 0 THEN {<<e, "F7MUX">>} ELSE {})
            \cup (IF e % 4 = 1 THEN {<<e - 1, "F8MUX">>} ELSE {})
            \cup {<<IF e < 4 THEN 0 ELSE 4, "CARRY4">>}
Near(m, e) == [b \in Reads(e) |-> m[b]]

LutsFit(n, e) ==
    LET l6 == n[<<e, "6LUT">>]
        l5 == n[<<e, "5LUT">>]
    IN  /\ \A l \in {l6, l5} : IsMemory(l) \/ IsSrl(l) => IsSlicem
        /\ IsSrl(l6) => e < 4
        /\ l5 # NoCell => /\ Cardinality(Lut[l5].inputs) <= 5
                          /\ Lut[l5].outs # 2
        /\ l6 # NoCell /\ l5 # NoCell =>
            /\ IsMemory(l6) <=> IsMemory(l5)
            /\ IsSrl(l6) <=> IsSrl(l5)
            /\ Cardinality(Lut[l6].inputs) # 6 /\ Lut[l6].outs # 2
            /\ Cardinality(Lut[l6].inputs \cup Lut[l5].inputs) <= 5

(* The multiplexer whose select is the X input of eight e, and whose       *)
(* output shares the output multiplexer of e.                              *)
MuxOf(n, e) == IF e % 2 = 0 THEN n[<<e, "F7MUX">>]
               ELSE IF e % 4 = 1 THEN n[<<e - 1, "F8MUX">>] ELSE NoCell
CarryOf(n, e) == n[<<IF e < 4 THEN 0 ELSE 4, "CARRY4">>]
DataOf(ff) == IF ff = NoCell THEN NoNet ELSE Ff[ff].d

XNets(n, e) ==
    LET l6 == n[<<e, "6LUT">>]
        l5 == n[<<e, "5LUT">>]
        d1 == DataOf(n[<<e, "FF">>])
        d2 == DataOf(n[<<e, "FF2">>])
        Direct(d) == d = NoNet \/ Driver[d] = NoCell \/ Driver[d] = l5
    IN  ({Lut[l].di2 : l \in {l6} \ {NoCell}}
         \cup {Mux[x].sel : x \in {MuxOf(n, e)} \ {NoCell}}
         \cup {Carry[c].x[e % 4] : c \in {CarryOf(n, e)} \ {NoCell}}
         \cup {d \in {d1} : ~ \/ Direct(d)
                              \/ Driver[d] = l6 /\ d \notin FromMC31
                              \/ Driver[d] = MuxOf(n, e)}
         \cup {d \in {d2} : ~ Direct(d)}) \ {NoNet}

(* The users of the output multiplexer of eight e.                         *)
OutUsers(n, e) ==
    LET l6 == n[<<e, "6LUT">>]
        l5 == n[<<e, "5LUT">>]
        d1 == DataOf(n[<<e, "FF">>])
        d2 == DataOf(n[<<e, "FF2">>])
        o5 == IF l6 # NoCell /\ Lut[l6].outs = 2 THEN Lut[l6].o5
              ELSE IF l5 # NoCell /\ ~ Lut[l5].onlyCarry THEN Lut[l5].o
              ELSE NoNet
        f7f8 == IF MuxOf(n, e) = NoCell THEN NoNet ELSE Mux[MuxOf(n, e)].out
    IN  {u \in {"o5", "carry", "f7f8", "ff2"} :
            \/ u = "o5" /\ o5 # NoNet /\ (o5 \in Shared \/ o5 \notin {d1, d2})
            \/ u = "carry" /\ CarryOf(n, e) # NoCell
                           /\ Carry[CarryOf(n, e)].o[e % 4] # NoNet
            \/ u = "f7f8" /\ f7f8 # NoNet /\ (f7f8 \in Shared \/ f7f8 # d1)
            \/ u = "ff2" /\ n[<<e, "FF2">>] # NoCell}

(* In a memory of more than one LUT's depth, the X inputs of eights 2 and  *)
(* 1 carry the upper address of the top LUT: the nets they must be, or {}. *)
TopAddress(m, e) ==
    LET top == m[<<3, "6LUT">>]
    IN  IF IsMemory(top) /\ ~ IsMemory(m[<<3, "5LUT">>]) /\ e \in {1, 2}
        THEN {Lut[top].msb[2 - e]} ELSE {}

EightFits(n, top, e) ==
    /\ LutsFit(n, e)
    /\ Cardinality(XNets(n, e)) <= 1
    /\ \A a \in top : XNets(n, e) = {a} \ {NoNet}
    /\ Cardinality(OutUsers(n, e)) <= 1

EightLegal(m, e) == EightFits(Near(m, e), TopAddress(m, e), e)

-----------------------------------------------------------------------------
(* The rules the eights share.                                             *)

(* The write clocks that eight e contributes.                              *)
WriteClocks(m, e) ==
    {Lut[l].clk : l \in {c \in {m[<<e, "6LUT">>]} : IsMemory(c) \/ IsSrl(c)}
                        \cup {c \in {m[<<e, "5LUT">>]} : IsSrl(c)}}
ClocksOf(m, E) == UNION {WriteClocks(m, e) : e \in E}
AtMostOne(S) == \A x, y \in S : x = y

(* Half 0 looks for a write clock among its LUTs if no eight that was      *)
(* examined had one: that of the last eight counts, of its 6LUT first.     *)
WriteBels(m) == {b \in (0 .. 3) \X LutKind : IsMemory(m[b]) \/ IsSrl(m[b])}
LastClock(m) ==
    {Lut[m[b]].clk : b \in {x \in WriteBels(m) : \A z \in WriteBels(m) :
        \/ z[1] < x[1]
        \/ z[1] = x[1] /\ (z = x \/ x[2] = "6LUT")}}

HalfFfs(m, h) == {m[b] : b \in {x \in (4 * h .. 4 * h + 3) \X FfKind : m[x] # NoCell}}
HalfLegal(m, h, clocks) ==
    /\ \A e \in 4 * h .. 4 * h + 3 :
            m[<<e, "FF2">>] # NoCell => ~ Ff[m[<<e, "FF2">>]].latch
    /\ \A f, g \in HalfFfs(m, h) : /\ Ff[f].clk = Ff[g].clk
                                   /\ Ff[f].ctrl = Ff[g].ctrl
                                   /\ Ff[f].latch = Ff[g].latch
    /\ h = 0 => \A f \in HalfFfs(m, h) : clocks \subseteq {Ff[f].clk}

-----------------------------------------------------------------------------
(* updateLogicBel: what a change at bel b, from cell old to cell new,      *)
(* makes dirty.                                                            *)

(* Mutant: an SRL marks its own eight only.                                *)
WriteClockMarksMemory(b, old, new) ==
    IF b \in Top /\ (IsMemory(old) \/ IsMemory(new)) THEN Eight ELSE {}

WriteClockMarks(b, old, new) ==
    IF \/ b \in Top /\ (IsMemory(old) \/ IsMemory(new))
       \/ b[2] \in LutKind /\ (IsSrl(old) \/ IsSrl(new))
    THEN Eight ELSE {}

(* Mutant: an F8MUX marks the eight of its own bel and the last.           *)
BelMarksOwn(b) ==
    CASE b[2] \in LutKind  -> {b[1]}
      [] b[2] \in FfKind   -> {b[1]} \cup (IF b[1] < 4 THEN {3} ELSE {})
      [] b[2] = "F7MUX"    -> {b[1], b[1] + 1} \cap Eight
      [] b[2] = "F8MUX"    -> {b[1], b[1] + 2} \cap Eight
      [] b[2] = "CARRY4"   -> IF b[1] < 4 THEN 0 .. 3 ELSE 4 .. 7

BelMarks(b) ==
    CASE b[2] \in LutKind  -> {b[1]}
      [] b[2] \in FfKind   -> {b[1]} \cup (IF b[1] < 4 THEN {3} ELSE {})
      [] b[2] = "F7MUX"    -> {b[1], b[1] + 1} \cap Eight
      [] b[2] = "F8MUX"    -> {b[1] + 1, b[1] + 2} \cap Eight
      [] b[2] = "CARRY4"   -> IF b[1] < 4 THEN 0 .. 3 ELSE 4 .. 7

UpdateLogicBel(b, new) ==
    /\ cell' = [cell EXCEPT ![b] = new]
    /\ dirty' = dirty \cup BelMarks(b) \cup WriteClockMarks(b, cell[b], new)
    /\ answer' = "none"
    /\ UNCHANGED <<valid, kept>>

-----------------------------------------------------------------------------
(* isBelLocationValid.                                                     *)

Fails(e) == IF e \in dirty
            THEN \/ ~ EightLegal(cell, e)
                 \/ ~ AtMostOne(ClocksOf(cell, {d \in dirty : d <= e}))
            ELSE e \notin valid
Reached == {e \in Eight : \A d \in Eight : d < e => ~ Fails(d)}
FoundClocks == IF ClocksOf(cell, dirty) # {} THEN ClocksOf(cell, dirty)
               ELSE LastClock(cell)

(* The halves are always examined: their dirty flag is never cleared.      *)
Answer == /\ \A e \in Eight : ~ Fails(e)
          /\ \A h \in Half : HalfLegal(cell, h, FoundClocks)

-----------------------------------------------------------------------------
(* The placer.                                                             *)

PlacedIn(m, c) == \E b \in Bel : m[b] = c
Whole(m) == \A C \in Chains : \A c, d \in C : PlacedIn(m, c) => PlacedIn(m, d)
Diff(m, n) == {b \in Bel : m[b] # n[b]}
Bounded(m) == Cardinality(Diff(m, kept)) <= MaxMoved

Init ==
    /\ cell = Empty /\ kept = Empty /\ best = Empty
    /\ dirty = Eight /\ valid = Eight
    /\ answer = "none" /\ undoing = FALSE

Unbind(b) ==
    /\ cell[b] # NoCell
    /\ UpdateLogicBel(b, NoCell)
    /\ IF undoing THEN cell[b] # kept[b] ELSE Bounded(cell')
    /\ undoing' = (undoing /\ cell' # kept)
    /\ UNCHANGED best

(* The placer forgets bestBel when it turns to another cell.               *)
Bind(b, c) ==
    /\ cell[b] = NoCell
    /\ b \in BelsFor[c] /\ ~ PlacedIn(cell, c)
    /\ UpdateLogicBel(b, c)
    /\ IF undoing THEN c = kept[b] ELSE Bounded(cell')
    /\ undoing' = (undoing /\ cell' # kept)
    /\ best' = IF c = kept[b] \/ PlacedIn(best, c) THEN best ELSE kept

(* A cell that no chain ties down is tried on one bel: what the analytic   *)
(* placer may note as bestBel, and come back to.                           *)
OneCellTried == \E b \in Bel : /\ Diff(cell, kept) = {b} /\ cell[b] # NoCell
                               /\ UNION Chains \cap {cell[b], kept[b]} = {}

(* A move is complete, and isBelLocationValid is asked.  The move stands   *)
(* or is undone: because it is not valid, because it costs too much, or    *)
(* because other places are to be tried first.                             *)
Check ==
    /\ ~ undoing /\ Whole(cell)
    /\ dirty' = dirty \ Reached
    /\ valid' = (valid \ Reached) \cup {e \in Reached : ~ Fails(e)}
    /\ answer' = IF Answer THEN "yes" ELSE "no"
    /\ \/ Answer /\ kept' = cell /\ best' = cell /\ undoing' = FALSE
       \/ /\ kept' = kept /\ undoing' = (cell # kept)
          /\ best' \in {best} \cup (IF Answer /\ OneCellTried THEN {cell} ELSE {})
    /\ UNCHANGED cell

(* Cells are taken off the tile for good without a question: the analytic  *)
(* placer does so before every legalisation.                               *)
Remove ==
    /\ ~ undoing /\ Whole(cell)
    /\ cell # kept /\ \A b \in Bel : cell[b] \in {kept[b], NoCell}
    /\ kept' = cell /\ best' = cell
    /\ UNCHANGED <<cell, flags, answer, undoing>>

(* The search of the analytic placer ends on bestBel: the cell is bound    *)
(* there again, without a question.                                        *)
KeepBest ==
    /\ ~ undoing /\ cell = best /\ cell # kept
    /\ kept' = cell
    /\ UNCHANGED <<cell, flags, answer, best, undoing>>

Next == \/ \E b \in Bel : Unbind(b) \/ \E c \in Cells : Bind(b, c)
        \/ Check
        \/ Remove
        \/ KeepBest

Spec == Init /\ [][Next]_vars

-----------------------------------------------------------------------------
(* Properties.                                                             *)

(* What a complete examination of the tile finds.                          *)
Legal(m) ==
    /\ \A e \in Eight : EightLegal(m, e)
    /\ AtMostOne(ClocksOf(m, Eight))
    /\ \A h \in Half : HalfLegal(m, h, IF ClocksOf(m, Eight) # {}
                                       THEN ClocksOf(m, Eight) ELSE LastClock(m))

(* The answer isBelLocationValid gives from its flags is the one that a    *)
(* complete examination of the cells now bound would give, whatever the    *)
(* changes since, the refusals and the order of both.                      *)
AnswerIsCurrent == answer # "none" => (answer = "yes" <=> Legal(cell))

(* In the tile a memory LUT has one place, and a chain of memory LUTs has  *)
(* one write clock and a LUT on top (pack_dram gives every LUT an absolute *)
(* constr_z, from the top of the SLICEM down).                             *)
MemoryChained ==
    \A c \in Cells : IsMemory(c) =>
        /\ \A b, d \in BelsFor[c] : b = d
        /\ \E C \in Chains : c \in C /\ \E r \in C \cap Cells :
              IsMemory(r) /\ BelsFor[r] = {<<3, "6LUT">>} /\ Lut[r].clk = Lut[c].clk

TypeOK ==
    /\ cell \in [Bel -> Cells \cup {NoCell}]
    /\ kept \in [Bel -> Cells \cup {NoCell}]
    /\ best \in [Bel -> Cells \cup {NoCell}]
    /\ dirty \subseteq Eight /\ valid \subseteq Eight
    /\ answer \in {"none", "yes", "no"} /\ undoing \in BOOLEAN

Placed(m) == /\ \A b \in Bel : m[b] # NoCell => b \in BelsFor[m[b]]
             /\ \A b, d \in Bel : m[b] = m[d] /\ m[b] # NoCell => b = d

(* The bels whose change from m to n puts a write clock on or off.         *)
LoudDiff(m, n) == {b \in Diff(m, n) : WriteClockMarks(b, m[b], n[b]) = Eight}

(* A clean eight is valid exactly if it is legal, but for one that a clash *)
(* of write clocks failed: the change that brought the clash is still to   *)
(* be undone, and will mark every eight.                                   *)
FlagsAreCurrent ==
    /\ \A e \in valid \ dirty : EightLegal(cell, e)
    /\ \/ \A e \in Eight \ (valid \cup dirty) : ~ EightLegal(cell, e)
       \/ undoing /\ LoudDiff(cell, kept) # {}

(* The cells kept agree on their write clock, and no other clock comes     *)
(* without every eight being examined.                                     *)
ClocksAreWatched ==
    /\ Whole(kept) /\ AtMostOne(ClocksOf(kept, Eight))
    /\ ~ undoing => dirty = Eight \/ LoudDiff(cell, kept) = {}
    /\ undoing => cell # kept

(* So do those of bestBel, which the placer keeps without a question.      *)
BestIsWatched == Whole(best) /\ AtMostOne(ClocksOf(best, Eight))

CacheInv == /\ TypeOK
            /\ Placed(cell) /\ Placed(kept)
            /\ FlagsAreCurrent
            /\ ClocksAreWatched /\ BestIsWatched
            /\ AnswerIsCurrent

=============================================================================
