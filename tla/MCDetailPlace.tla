--------------------------- MODULE MCDetailPlace ---------------------------
(* Instances of DetailPlace for TLC.                                       *)
EXTENDS DetailPlaceInv

CONSTANTS ca, cb, cc, cd, ce, K, J, n1, n2, n3, lut, ff, lut2, ff2, lut3, pin

At(x, y, z) == [x |-> x, y |-> y, z |-> z]
Root(q)     == [cell |-> q, x |-> 0, y |-> 0, z |-> 0, abs_z |-> FALSE]
Child(q, x, y, z) == [cell |-> q, x |-> x, y |-> y, z |-> z, abs_z |-> FALSE]

(* Threads on a grid of four columns and two rows, a bel in each tile. *)
(* cc and cd are a cluster, one above the other.                             *)
GridBels == {At(x, y, 0) : x \in 0 .. 3, y \in 0 .. 1}
GridCells == {ca, cb, cc, cd, ce}
GridPins == n1 :> <<ca, cb>> @@ n2 :> <<ce, cc, cd, cd>> @@ n3 :> <<cb, cd>>
GridCluster == [q \in GridCells |-> IF q \in {cc, cd} THEN K ELSE NoCluster]
GridMembers == K :> <<Root(cc), Child(cd, 0, 1, 0)>>
GridStart == {ca :> At(0, 0, 0) @@ cb :> At(1, 1, 0) @@ cc :> At(2, 0, 0)
              @@ cd :> At(2, 1, 0) @@ ce :> At(3, 0, 0)}
GridAny == [q \in GridCells |-> GridBels]
AnyTile(f) == TRUE

(* Nothing may be bound below cb.                                           *)
GridUnavail == {At(1, 0, 0)}

(* cb is constrained to the bel it is placed on.                            *)
GridRegion == [GridAny EXCEPT ![cb] = {At(1, 1, 0)}]

(* Two threads on a row of six tiles, each with a bel for a LUT (z = 0)    *)
(* and one for a flip-flop.  lut and ff are a cluster inside a tile, lut3  *)
(* a cluster of one cell; pin is locked.  ff2 is fed by the LUT of its tile, so  *)
(* moving a LUT away can make the tile it leaves illegal.                  *)
RowBels  == {At(x, 0, z) : x \in 0 .. 5, z \in 0 .. 1}
RowCells == {lut, ff, lut2, ff2, lut3, pin}
RowPins  == n1 :> <<lut2, ff2, pin>> @@ n2 :> <<lut3, lut, ff2>> @@ n3 :> <<pin, ff2, ff>>
RowMembers ==
    K :> <<Root(lut), [Child(ff, 0, 0, 1) EXCEPT !.abs_z = TRUE]>>
    @@ J :> <<Root(lut3)>>
RowCluster == [q \in RowCells |-> IF q \in {lut, ff} THEN K
                                  ELSE IF q = lut3 THEN J ELSE NoCluster]
RowFor == [q \in RowCells |-> {g \in RowBels : g.z = IF q \in {ff, ff2} THEN 1 ELSE 0}]
(* No flip-flop may be bound in the last tile.                              *)
RowUnavail == {At(5, 0, 1)}
RowTile(f) ==
    \A g \in DOMAIN f : f[g] = ff2 => \A h \in DOMAIN f : h.z = 0 => f[h] # NoCell
RowStart ==
    {lut2 :> At(x, 0, 0) @@ pin :> At(2, 0, 0) @@ ff2 :> At(2, 0, 1)
     @@ lut :> At(3, 0, 0) @@ ff :> At(3, 0, 1)
     @@ lut3 :> At(5, 0, 0) : x \in {0, 1}}

ASSUME StartIsLegal == LegalStart
=============================================================================
