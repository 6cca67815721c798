----------------------------- MODULE NetBounds -----------------------------
(***************************************************************************)
(* The bounding box of a net along one axis, as detail_place_core.cc keeps *)
(* it: NetBB holds the least and the greatest coordinate of the pins of a  *)
(* net and how many pins lie on each of the two.  compute scans the pins;  *)
(* compute_changes_for_cell follows a cell that moves, pin by pin, and     *)
(* gives up (asks for a scan) when the last pin leaves an edge.            *)
(*                                                                         *)
(* A box is a record lo, nlo, hi, nhi; a tracked box also has the          *)
(* BoundChange of the move in flight.                                      *)
(***************************************************************************)
EXTENDS Integers, Sequences, SequencesExt, FiniteSets

BoundChange == {"NO_CHANGE", "CELL_MOVED_INWARDS", "CELL_MOVED_OUTWARDS",
                "FULL_RECOMPUTE"}

(* One more pin, at q, seen from the lower and from the upper edge: it     *)
(* extends the edge, is on the edge, or neither.                           *)
ScanLower(edge, q) ==
    IF q < edge.at THEN [at |-> q, n |-> 1]
    ELSE IF q = edge.at THEN [edge EXCEPT !.n = @ + 1] ELSE edge
ScanUpper(edge, q) ==
    IF q > edge.at THEN [at |-> q, n |-> 1]
    ELSE IF q = edge.at THEN [edge EXCEPT !.n = @ + 1] ELSE edge

(* NetBB::compute along one axis: pos is the sequence of the coordinates   *)
(* of the pins, the driver first.                                          *)
Scan(pos) ==
    LET driver == [at |-> Head(pos), n |-> 1]
        lower  == FoldLeft(ScanLower, driver, Tail(pos))
        upper  == FoldLeft(ScanUpper, driver, Tail(pos))
    IN  [lo |-> lower.at, nlo |-> lower.n, hi |-> upper.at, nhi |-> upper.n]

WithChange(b, what) ==
    [lo |-> b.lo, nlo |-> b.nlo, hi |-> b.hi, nhi |-> b.nhi, change |-> what]
Tracked(b)   == WithChange(b, "NO_CHANGE")
Untracked(k) == [lo |-> k.lo, nlo |-> k.nlo, hi |-> k.hi, nhi |-> k.nhi]

(* A change is noted unless one is noted already.                          *)
Note(k, what) == IF k.change = "NO_CHANGE" THEN what ELSE k.change

(* Mutant: a cell that comes to lie on the bound is not counted.           *)
LowerBoundUncounted(k, old, new) ==
    IF new < k.lo
    THEN [k EXCEPT !.lo = new, !.nlo = 1, !.change = Note(k, "CELL_MOVED_OUTWARDS")]
    ELSE IF old = k.lo /\ new > k.lo
    THEN IF k.nlo = 1
         THEN [k EXCEPT !.change = "FULL_RECOMPUTE"]
         ELSE [k EXCEPT !.nlo = @ - 1, !.change = Note(k, "CELL_MOVED_INWARDS")]
    ELSE k

LowerBound(k, old, new) ==
    IF new < k.lo
    THEN [k EXCEPT !.lo = new, !.nlo = 1, !.change = Note(k, "CELL_MOVED_OUTWARDS")]
    ELSE IF new = k.lo /\ old > k.lo
    THEN [k EXCEPT !.nlo = @ + 1, !.change = Note(k, "CELL_MOVED_OUTWARDS")]
    ELSE IF old = k.lo /\ new > k.lo
    THEN IF k.nlo = 1
         THEN [k EXCEPT !.change = "FULL_RECOMPUTE"]
         ELSE [k EXCEPT !.nlo = @ - 1, !.change = Note(k, "CELL_MOVED_INWARDS")]
    ELSE k

UpperBound(k, old, new) ==
    IF new > k.hi
    THEN [k EXCEPT !.hi = new, !.nhi = 1, !.change = Note(k, "CELL_MOVED_OUTWARDS")]
    ELSE IF new = k.hi /\ old < k.hi
    THEN [k EXCEPT !.nhi = @ + 1, !.change = Note(k, "CELL_MOVED_OUTWARDS")]
    ELSE IF old = k.hi /\ new < k.hi
    THEN IF k.nhi = 1
         THEN [k EXCEPT !.change = "FULL_RECOMPUTE"]
         ELSE [k EXCEPT !.nhi = @ - 1, !.change = Note(k, "CELL_MOVED_INWARDS")]
    ELSE k

(* What compute_changes_for_cell does for one port of a cell that moves    *)
(* from old to new.                                                        *)
MovePin(k, old, new) == UpperBound(LowerBound(k, old, new), old, new)

(* The same for a cell with n ports on the net.                            *)
MovePins(k, n, old, new) ==
    LET after[i \in 0 .. n] == IF i = 0 THEN k ELSE MovePin(after[i - 1], old, new)
    IN  after[n]

(* Mutant: the bounds in the wrong order.                                  *)
SpanReversed(b) == b.lo - b.hi

Span(b) == b.hi - b.lo
=============================================================================
