--------------------------- MODULE DetailPlaceInv ---------------------------
(***************************************************************************)
(* The inductive invariant behind the properties of DetailPlace: the       *)
(* partitions keep the threads apart, and each thread always knows where   *)
(* the cells of its own move are.  TLC checks it; DetailPlaceProofs proves *)
(* it.                                                                     *)
(***************************************************************************)
EXTENDS DetailPlace

TypeInv ==
    /\ main \in {"partition", "running", "done"} /\ yaxis \in BOOLEAN
    /\ Len(parts) \in Nat /\ DOMAIN parts = 1 .. Len(parts)
    /\ Running => Len(parts) = Threads
    /\ cellBel \in [Cells -> Bels \cup {NoBel}]
    /\ belCell \in [Bels -> Cells \cup {NoCell}]
    /\ locked = Locked /\ archMutex \in Thread \cup {NoThread}
    /\ pc \in [Thread -> {"joined", "idle", "searching", "adding", "decide", "bind",
                          "binding", "check", "commit", "revert", "rebind"}]
    /\ dirty \in [Thread -> BOOLEAN] /\ chain \in [Thread -> BOOLEAN]
    /\ DOMAIN view = Thread /\ DOMAIN moved = Thread
    /\ todo \in [Thread -> Seq(ToType)]
    /\ displaced \in [Thread -> Seq([cluster : Cluster, root : Bels])]

(* The two sides of bindBel agree. *)
MapsInverse ==
    /\ \A c \in Cells : cellBel[c] # NoBel => belCell[cellBel[c]] = c
    /\ \A b \in Bels : belCell[b] # NoCell => cellBel[belCell[b]] = b

(* Every cell is in one partition and, unless unbound, in the box of it;   *)
(* the boxes of two partitions that have cells share no bel.               *)
PartsApart ==
    /\ \A i \in DOMAIN parts : parts[i].cells \subseteq Cells
    /\ \A c \in Cells : \E i \in DOMAIN parts : c \in parts[i].cells
    /\ \A i \in DOMAIN parts : parts[i].cells # {} =>
        /\ parts[i].box \in [x0 : Nat, y0 : Nat, x1 : Nat, y1 : Nat]
        /\ \A c \in parts[i].cells : cellBel[c] # NoBel => InBox(cellBel[c], parts[i].box)
        /\ \A j \in DOMAIN parts \ {i} : parts[j].cells # {} =>
            /\ parts[i].cells \cap parts[j].cells = {}
            /\ \A b \in Bels : ~(InBox(b, parts[i].box) /\ InBox(b, parts[j].box))

(* A cell without a bel is part of a move in flight. *)
OnlyInFlight ==
    \A c \in Cells : cellBel[c] = NoBel =>
        \E t \in Thread : dirty[t] /\ c \in DOMAIN moved[t]

(* Where a thread is with its move, and who has the mutex. *)
Phase(t) ==
    /\ Running \/ pc[t] = "joined"
    /\ pc[t] \in {"binding", "check", "commit", "rebind"} => dirty[t]
    /\ dirty[t] => pc[t] \in {"binding", "check", "commit", "revert", "rebind"}
    /\ archMutex = t <=> pc[t] \in {"binding", "rebind"}
    /\ pc[t] \in {"joined", "idle"} => DOMAIN moved[t] = {}
    /\ pc[t] = "adding" \/ (pc[t] = "revert" /\ ~dirty[t]) \/
           (todo[t] = <<>> /\ displaced[t] = <<>>)

(* The cells of a move are cells of the partition and move inside its box; *)
(* their old bels are theirs to go back to.                                *)
MoveInv(t) ==
    \A c \in DOMAIN moved[t] :
        /\ c \in parts[t].cells \ Locked
        /\ moved[t][c].old \in Bels /\ InPartition(t, moved[t][c].old)
        /\ moved[t][c].new \in BelsFor[c] /\ InPartition(t, moved[t][c].new)
        /\ \A d \in DOMAIN moved[t] : moved[t][d].old = moved[t][c].old => d = c
        /\ IF dirty[t]
           THEN /\ belCell[moved[t][c].old] \in DOMAIN moved[t] \cup {NoCell}
                /\ cellBel[c] \in {NoBel, moved[t][c].new}
                /\ pc[t] \in {"check", "commit"} => cellBel[c] # NoBel
                /\ pc[t] = "rebind" => cellBel[c] = NoBel
           ELSE cellBel[c] = moved[t][c].old

(* What is still to be added can be looked up: it is bound, as it lies in  *)
(* the partition, or a cell of its cluster does.                           *)
TodoCells(t) == {a.cell : a \in ToSet(todo[t])}
Reaches(t, k) == MemberCells(k) \cap parts[t].cells # {}

Requests(t) ==
    pc[t] = "adding" =>
        /\ parts[t].cells # {}
        /\ TodoCells(t) \cap Locked = {}
        /\ \A i, j \in DOMAIN todo[t] : todo[t][i].cell = todo[t][j].cell => i = j
        /\ \A c \in TodoCells(t) :
            IF chain[t]
            THEN ClusterOf[c] # NoCluster /\ Reaches(t, ClusterOf[c])
            ELSE c \in parts[t].cells \ DOMAIN moved[t]
        /\ chain[t] \/ displaced[t] = <<>>
        /\ \A i \in DOMAIN displaced[t] :
            LET k == displaced[t][i].cluster
            IN  Reaches(t, k) /\ MemberCells(k) \cap Locked = {}

(* A move takes whole clusters. *)
Collected(t) == DOMAIN moved[t] \cup TodoCells(t)
WholeClusters(t) ==
    pc[t] # "revert" \/ dirty[t] =>
        \A c \in Collected(t) :
            ClusterOf[c] # NoCluster => MemberCells(ClusterOf[c]) \subseteq Collected(t)

(* The thread's own map has the cells of the partition where they are, or  *)
(* where the move in hand is to put them.                                  *)
ViewInv(t) ==
    pc[t] # "joined" =>
        \A c \in parts[t].cells \cap DOMAIN view[t] :
            view[t][c] = IF c \in DOMAIN moved[t] THEN moved[t][c].new ELSE cellBel[c]

ThreadInv(t) == /\ Phase(t) /\ MoveInv(t) /\ Requests(t)
                /\ WholeClusters(t) /\ ViewInv(t)

ApartInv == /\ TypeInv /\ MapsInverse /\ PartsApart /\ OnlyInFlight
            /\ \A t \in Thread : ThreadInv(t)

-----------------------------------------------------------------------------
(* What makes a commit legal.                                              *)

(* Where the cells collected so far are to go. *)
Goal(t) == [c \in Collected(t) |->
    IF c \in TodoCells(t) THEN (CHOOSE a \in ToSet(todo[t]) : a.cell = c).bel
    ELSE moved[t][c].new]

(* A cluster is moved as it is: its members keep their places relative to  *)
(* the root.                                                               *)
ShapesKept(t) ==
    pc[t] # "revert" \/ dirty[t] =>
        \A k \in Cluster : MemberCells(k) \cap Collected(t) # {} => InShape(Goal(t), k)

(* Once checked, the tiles of a move stay as they were checked. *)
TilesChecked(t) ==
    pc[t] = "commit" => \A b \in BelsToCheck(t) : TileLegal(TileAt(belCell, b))

LegalInv == Legal(Placed) /\ \A t \in Thread : ShapesKept(t) /\ TilesChecked(t)

(* The placement the refinement starts on is a legal one: what the placer  *)
(* before it has to deliver.                                               *)
LegalStart == \A p \in Start : Legal(p)

-----------------------------------------------------------------------------
(* What makes the bounds exact.                                            *)

(* The placement of the cells of a thread without the move in hand.        *)
Before(t) == Over(Old(t), view[t])

(* A tracked box is the one of the positions pos, or asks for a scan.      *)
TrackedType == [lo : Int, nlo : Int, hi : Int, nhi : Int, change : BoundChange]
Follows(k, pos) == k.change # "FULL_RECOMPUTE" => Untracked(k) = ExactAxis(pos)

(* A thread knows where the cells of its nets are; a box is the one from   *)
(* before the move, and the box tracked for it follows the cells to where  *)
(* the move is to put them, or has not been touched.                       *)
ViewTyped(t) ==
    /\ DOMAIN view[t] \subseteq Cells /\ \A c \in DOMAIN view[t] : view[t][c] \in Bels
    /\ DOMAIN bounds[t] \subseteq Nets \ SkipNet /\ DOMAIN track[t] = DOMAIN bounds[t]
    /\ NetCells(DOMAIN bounds[t]) \subseteq DOMAIN view[t]
BoxesBefore(t) == \A n \in DOMAIN bounds[t] : bounds[t][n] = ExactBox(n, Before(t))
BoxesFollow(t) ==
    \A n \in DOMAIN track[t] : \A ax \in Axis :
        track[t][n][ax] \in TrackedType /\ Follows(track[t][n][ax], Positions(n, view[t], ax))
Unnoted(k) == \A ax \in Axis : k[ax].change = "NO_CHANGE"
UnnotedKept(t) ==
    \A n \in DOMAIN track[t] : Unnoted(track[t][n]) => track[t][n] = TrackedNet(bounds[t][n])
NothingNoted(t) ==
    pc[t] \in {"idle", "adding"} /\ DOMAIN moved[t] = {} =>
        \A n \in DOMAIN track[t] : Unnoted(track[t][n])
BoxesAfter(t) ==
    pc[t] \in {"decide", "bind", "binding", "check", "commit"} =>
        \A n \in DOMAIN track[t] : \A ax \in Axis :
            Untracked(track[t][n][ax]) = ExactAxis(Positions(n, view[t], ax))
BoxesInv(t) == /\ ViewTyped(t) /\ BoxesBefore(t) /\ BoxesFollow(t) /\ UnnotedKept(t)
               /\ NothingNoted(t) /\ BoxesAfter(t)

(* The bounds the threads start from are those of the placement.           *)
LastBoundsInv == main = "partition" => lastBounds = GlobalBounds(cellBel)

RestTyped ==
    /\ minWirelen \in Nat /\ tries \in [Thread -> 0 .. MaxTries]
    /\ used \in [Thread -> SUBSET Bels] /\ DOMAIN bounds = Thread /\ DOMAIN track = Thread
    /\ \A t \in Thread : \A c \in DOMAIN moved[t] : moved[t][c] \in [old : Bels, new : Bels]

BoundsInv == RestTyped /\ LastBoundsInv /\ \A t \in Thread : BoxesInv(t)

=============================================================================
