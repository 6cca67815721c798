----------------------------- MODULE Placement -----------------------------
(***************************************************************************)
(* What the users of a refinement placer are promised: a placement gives   *)
(* every cell a bel, a change of it is atomic, goes from a legal placement *)
(* to a legal one, and does not touch a locked cell.                       *)
(***************************************************************************)
CONSTANTS Cells, Bels, Locked, Legal(_)

VARIABLE place

Placements == [Cells -> Bels]
NoOverlap(p) == \A c, d \in Cells : p[c] = p[d] => c = d

Init == /\ place \in Placements
        /\ NoOverlap(place)
        /\ Legal(place)

Move == /\ place' \in Placements
        /\ NoOverlap(place')
        /\ Legal(place')
        /\ \A c \in Locked : place'[c] = place[c]

Spec == Init /\ [][Move]_place
=============================================================================
