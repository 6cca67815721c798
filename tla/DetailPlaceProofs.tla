------------------------- MODULE DetailPlaceProofs -------------------------
(***************************************************************************)
(* Proofs about DetailPlace for any number of threads, cells and bels: the *)
(* threads of the refinement placer stay apart, whatever they interleave,  *)
(* every commit makes a legal placement of a legal one, the boxes of the   *)
(* nets never drift from the placement, and a move takes one cluster.      *)
(***************************************************************************)
EXTENDS DetailPlaceInv, NetBoundsProofs

-----------------------------------------------------------------------------
(* Sets of numbers and sequences.                                          *)

(* A set of numbers has a least one.                                       *)
LEMMA LeastNumber ==
    ASSUME NEW S \in SUBSET Nat, S # {}
    PROVE  \E m \in S : \A k \in S : m <= k
<1>1. \A x, y \in Nat : <<y, x>> \in OpToRel(<, Nat) <=> y < x
  BY DEF OpToRel
<1>2. PICK x \in S : \A y \in S : ~(<<y, x>> \in OpToRel(<, Nat))
  BY WFMin, NatLessThanWellFounded
<1>3. \A y \in S : ~(y < x)
  BY <1>1, <1>2
<1> QED BY <1>3

(* A finite set of numbers has a bound: a least set without one would have *)
(* one when an element is taken out.                                       *)
LEMMA FiniteIsBounded ==
    ASSUME NEW S \in SUBSET Nat, IsFiniteSet(S)
    PROVE  \E m \in Nat : \A x \in S : x <= m
<1> DEFINE Free(T) == IsFiniteSet(T) /\ \A m \in Nat : \E x \in T : ~(x <= m)
           Sizes == {n \in Nat : \E T \in SUBSET Nat : Free(T) /\ Cardinality(T) = n}
<1> SUFFICES ASSUME Free(S) PROVE FALSE
  OBVIOUS
<1>1. Cardinality(S) \in Sizes
  BY FS_CardinalityType
<1>2. PICK n \in Sizes : \A k \in Sizes : n <= k
  <2> HIDE DEF Sizes
  <2>1. Sizes \subseteq Nat
    BY DEF Sizes
  <2> QED BY <1>1, <2>1, LeastNumber
<1>3. PICK T \in SUBSET Nat : Free(T) /\ Cardinality(T) = n
  BY <1>2
<1>4. PICK x \in T : TRUE
  BY <1>3
<1> DEFINE U == T \ {x}
<1>5. IsFiniteSet(U) /\ Cardinality(U) = n - 1 /\ n \in Nat
  BY <1>2, <1>3, <1>4, FS_RemoveElement
<1>6. ~Free(U)
  <2>1. U \in SUBSET Nat /\ n - 1 \in Nat /\ ~(n <= n - 1)
    BY <1>3, <1>5, FS_CardinalityType
  <2>2. Free(U) => n - 1 \in Sizes
    <3> HIDE DEF U, Free
    <3> QED BY <1>5, <2>1
  <2> QED BY <1>2, <2>1, <2>2
<1>7. PICK m \in Nat : \A y \in U : y <= m
  BY <1>5, <1>6
<1>8. x \in Nat
  BY <1>4
<1>9. \E y \in T : ~(y <= m + x)
  <2>1. m + x \in Nat
    BY <1>7, <1>8
  <2>2. \A k \in Nat : \E y \in T : ~(y <= k)
    BY <1>3
  <2> QED BY <2>1, <2>2
<1>10. \A y \in T : y <= m + x
  <2> SUFFICES ASSUME NEW y \in T PROVE y <= m + x
    OBVIOUS
  <2>1. y \in Nat /\ (y = x \/ y <= m)
    BY <1>7
  <2> QED BY <2>1, <1>8
<1> QED BY <1>9, <1>10

(* A finite set of numbers has a greatest one.                             *)
LEMMA GreatestNumber ==
    ASSUME NEW S \in SUBSET Nat, IsFiniteSet(S), S # {}
    PROVE  \E m \in S : \A k \in S : k <= m
<1> DEFINE B == {m \in Nat : \A x \in S : x <= m}
<1>1. B # {} /\ B \subseteq Nat
  BY FiniteIsBounded
<1>2. PICK m \in B : \A k \in B : m <= k
  <2> HIDE DEF B
  <2> QED BY <1>1, LeastNumber
<1>3. PICK y \in S : TRUE
  OBVIOUS
<1>4. CASE m = 0
  <2>1. y = 0
    BY <1>2, <1>3, <1>4
  <2> QED BY <2>1, <1>2, <1>3, <1>4
<1>5. CASE m # 0
  <2>1. m - 1 \in Nat /\ m - 1 \notin B
    BY <1>2, <1>5
  <2>2. PICK x \in S : ~(x <= m - 1)
    BY <2>1
  <2>3. x = m
    BY <2>2, <1>2
  <2> QED BY <2>3, <1>2
<1> QED BY <1>4, <1>5

(* A sequence is its head and the rest.                                    *)
LEMMA TakeHead ==
    ASSUME NEW S, NEW s \in Seq(S), s # <<>>
    PROVE  /\ Head(s) \in S /\ Tail(s) \in Seq(S)
           /\ ToSet(s) = {Head(s)} \cup ToSet(Tail(s))
           /\ ToSet(Tail(s)) \subseteq S
           /\ Len(Tail(s)) = Len(s) - 1 /\ Len(s) \in Nat \ {0}
           /\ \A i \in 1 .. Len(s) - 1 : Tail(s)[i] = s[i + 1]
           /\ Head(s) = s[1]
<1>1. /\ Len(s) >= 1 /\ Len(s) \in Nat /\ Head(s) = s[1]
      /\ Tail(s) \in Seq(S) /\ Len(Tail(s)) = Len(s) - 1
      /\ DOMAIN Tail(s) = 1 .. Len(s) - 1
      /\ \A i \in 1 .. Len(s) - 1 : Tail(s)[i] = s[i + 1]
  OBVIOUS
<1>2. Head(s) \in ToSet(s) /\ Head(s) \in S
  BY <1>1 DEF ToSet
<1>3. ASSUME NEW x \in ToSet(Tail(s)) PROVE x \in ToSet(s) /\ x \in S
  <2>1. PICK i \in 1 .. Len(s) - 1 : x = Tail(s)[i]
    BY <1>1, <1>3 DEF ToSet
  <2>2. x = s[i + 1] /\ i + 1 \in 1 .. Len(s)
    BY <2>1, <1>1
  <2> QED BY <2>2 DEF ToSet
<1>4. ASSUME NEW x \in ToSet(s), x # Head(s) PROVE x \in ToSet(Tail(s))
  <2>1. PICK i \in 1 .. Len(s) : x = s[i]
    BY <1>1, <1>4 DEF ToSet
  <2>2. i # 1
    BY <2>1, <1>1, <1>4
  <2> DEFINE j == i - 1
  <2>3. j \in 1 .. Len(s) - 1 /\ j + 1 = i
    BY <2>1, <2>2, <1>1
  <2> HIDE DEF j
  <2>4. x = Tail(s)[j]
    BY <2>1, <2>3, <1>1
  <2> QED BY <2>3, <2>4, <1>1 DEF ToSet
<1> QED BY <1>1, <1>2, <1>3, <1>4

(* Two lists in a row list what each of them lists.                        *)
LEMMA Concatenated ==
    ASSUME NEW S, NEW s \in Seq(S), NEW u \in Seq(S)
    PROVE  ToSet(s \o u) = ToSet(s) \cup ToSet(u)
<1>1. ASSUME NEW x \in ToSet(s) PROVE x \in ToSet(s \o u)
  <2>1. PICK i \in 1 .. Len(s) : x = s[i]
    BY DEF ToSet
  <2>2. (s \o u)[i] = x /\ i \in DOMAIN (s \o u)
    BY <2>1
  <2> QED BY <2>2 DEF ToSet
<1>2. ASSUME NEW x \in ToSet(u) PROVE x \in ToSet(s \o u)
  <2>1. PICK i \in 1 .. Len(u) : x = u[i]
    BY DEF ToSet
  <2>2. (s \o u)[i + Len(s)] = x /\ i + Len(s) \in DOMAIN (s \o u)
    BY <2>1
  <2> QED BY <2>2 DEF ToSet
<1>3. ASSUME NEW x \in ToSet(s \o u) PROVE x \in ToSet(s) \cup ToSet(u)
  <2>1. PICK i \in 1 .. Len(s) + Len(u) : x = (s \o u)[i]
    BY <1>3 DEF ToSet
  <2>2. CASE i <= Len(s)
    BY <2>1, <2>2 DEF ToSet
  <2>3. CASE i > Len(s)
    <3>1. x = u[i - Len(s)] /\ i - Len(s) \in 1 .. Len(u)
      BY <2>1, <2>3
    <3> QED BY <3>1 DEF ToSet
  <2> QED BY <2>1, <2>2, <2>3
<1> QED BY <1>1, <1>2, <1>3

(* SetToSeq lists every element once. *)
LEMMA Listed ==
    ASSUME NEW S, IsFiniteSet(S)
    PROVE  /\ SetToSeq(S) \in Seq(S) /\ ToSet(SetToSeq(S)) = S
           /\ \A i, j \in DOMAIN SetToSeq(S) : SetToSeq(S)[i] = SetToSeq(S)[j] => i = j
<1> DEFINE n == Cardinality(S)
           s == SetToSeq(S)
<1>1. n \in Nat /\ IsFiniteSet(1 .. n) /\ Cardinality(1 .. n) = n
  <2>1. n \in Nat
    BY FS_CardinalityType
  <2> QED BY <2>1, FS_Interval
<1>2. PICK f \in Bijection(1 .. n, S) : TRUE
  BY <1>1, FS_SameCardinalityBij DEF ExistsBijection
<1>3. f \in [1 .. n -> S] /\ IsInjective(f)
  BY <1>2 DEF Bijection, Injection
<1>4. s \in [1 .. n -> S] /\ IsInjective(s)
  BY <1>3 DEF SetToSeq
<1>5. s \in Injection(1 .. n, S)
  BY <1>4 DEF Injection
<1>6. s \in Surjection(1 .. n, S)
  BY <1>1, <1>5, FS_Injection
<1>7. \A x \in S : \E i \in 1 .. n : s[i] = x
  BY <1>6 DEF Surjection
<1> HIDE DEF s, n
<1>8. s \in Seq(S) /\ DOMAIN s = 1 .. n
  BY <1>1, <1>4
<1>9. ToSet(s) = S
  BY <1>4, <1>7, <1>8 DEF ToSet
<1> QED BY <1>4, <1>8, <1>9 DEF IsInjective, s

-----------------------------------------------------------------------------
(* Partitions.                                                             *)

BoxT == [x0 : Nat, y0 : Nat, x1 : Nat, y1 : Nat]

(* What the assumption says about bels, cells and threads.                 *)
LEMMA Grid == /\ Bels \subseteq [x : Nat, y : Nat, z : Nat]
              /\ IsFiniteSet(Cells) /\ NoBel \notin Bels /\ NoCell \notin Cells
              /\ Threads \in Nat \ {0} /\ NoThread \notin Thread
              /\ Locked \subseteq Cells
              /\ \A c \in Cells : BelsFor[c] \subseteq Bels
<1>1. BelsFor \in [Cells -> SUBSET Bels]
  BY DetailPlaceAssumption
<1> QED BY <1>1, DetailPlaceAssumption

(* What the assumption says about clusters: each cell is of at most one,   *)
(* listed once, and a cluster is locked as a whole or not at all.          *)
LEMMA Clusters ==
    /\ NoCluster \notin Cluster /\ ClusterOf \in [Cells -> Cluster \cup {NoCluster}]
    /\ \A k \in Cluster, c \in Cells : c \in MemberCells(k) <=> ClusterOf[c] = k
    /\ \A k \in Cluster : /\ Members[k] \in Seq(MemberType) /\ Members[k] # <<>>
                          /\ MemberCells(k) \subseteq Cells /\ Members[k][1].cell \in MemberCells(k)
                          /\ MemberCells(k) \cap Locked = {} \/ MemberCells(k) \subseteq Locked
                          /\ \A i, j \in DOMAIN Members[k] :
                                Members[k][i].cell = Members[k][j].cell => i = j
<1>1. /\ NoCluster \notin Cluster /\ ClusterOf \in [Cells -> Cluster \cup {NoCluster}]
      /\ \A k \in Cluster, c \in Cells : c \in MemberCells(k) <=> ClusterOf[c] = k
  BY DetailPlaceAssumption
<1>2. ASSUME NEW k \in Cluster
      PROVE  /\ Members[k] \in Seq(MemberType) /\ Members[k] # <<>>
             /\ MemberCells(k) \cap Locked = {} \/ MemberCells(k) \subseteq Locked
             /\ \A i, j \in DOMAIN Members[k] :
                    Members[k][i].cell = Members[k][j].cell => i = j
  BY DetailPlaceAssumption
<1>3. ASSUME NEW k \in Cluster
      PROVE  MemberCells(k) \subseteq Cells /\ Members[k][1].cell \in MemberCells(k)
  <2>1. ToSet(Members[k]) \subseteq MemberType /\ Members[k][1] \in ToSet(Members[k])
    BY <1>2 DEF ToSet
  <2> QED BY <2>1 DEF MemberCells, MemberType
<1> QED BY <1>1, <1>2, <1>3

(* Bels have coordinates.                                                  *)
LEMMA CoordIsNat ==
    ASSUME NEW b \in Bels, NEW ax \in Axis PROVE Coord(b, ax) \in Nat
BY Grid DEF Coord

(* The cells of a partition have finitely many coordinates.                *)
LEMMA CoordsFinite ==
    ASSUME NEW C \in SUBSET Cells, NEW place \in [Cells -> Bels], NEW ax \in Axis
    PROVE  /\ IsFiniteSet({Coord(place[c], ax) : c \in C})
           /\ {Coord(place[c], ax) : c \in C} \subseteq Nat
<1> DEFINE T == {Coord(place[c], ax) : c \in C}
           f == [c \in C |-> Coord(place[c], ax)]
<1>1. IsFiniteSet(C)
  BY Grid, FS_Subset
<1>2. f \in Surjection(C, T)
  BY DEF Surjection
<1>3. IsFiniteSet(T)
  BY <1>1, <1>2, FS_Surjection
<1> QED BY <1>3, CoordIsNat

(* The pivot is the coordinate of a cell (split).                          *)
LEMMA PivotIsACell ==
    ASSUME NEW C \in SUBSET Cells, NEW place \in [Cells -> Bels], NEW ax \in Axis,
           NEW i \in 1 .. Cardinality(C)
    PROVE  SortedCoord(place, C, i, ax) \in {Coord(place[c], ax) : c \in C}
<1> DEFINE pos(c) == Coord(place[c], ax)
           upto(q) == {c \in C : pos(c) <= q}
           Q == {q \in Nat : Cardinality(upto(q)) >= i}
<1>1. IsFiniteSet(C) /\ Cardinality(C) \in Nat
  BY Grid, FS_Subset, FS_CardinalityType
<1>2. \A c \in C : pos(c) \in Nat
  BY CoordIsNat
<1>3. \A q : IsFiniteSet(upto(q)) /\ Cardinality(upto(q)) \in Nat
  BY <1>1, FS_Subset, FS_CardinalityType
<1>4. Q # {} /\ Q \subseteq Nat
  <2> DEFINE Places == {pos(c) : c \in C}
  <2>0. IsFiniteSet(Places) /\ Places \in SUBSET Nat
    BY CoordsFinite
  <2>1. PICK m \in Nat : \A x \in Places : x <= m
    <3> HIDE DEF Places
    <3> QED BY <2>0, FiniteIsBounded
  <2>2. upto(m) = C
    BY <2>1
  <2>3. Cardinality(upto(m)) >= i
    <3> HIDE DEF upto
    <3> QED BY <1>1, <2>2
  <2>4. m \in Q /\ Q \subseteq Nat
    <3> HIDE DEF upto
    <3> QED BY <2>1, <2>3
  <2> QED BY <2>4
<1>5. PICK q \in Q : \A k \in Q : q <= k
  <2> HIDE DEF Q
  <2> QED BY <1>4, LeastNumber
<1>6. Cardinality({c \in C : pos(c) < q}) < i
  <2>1. CASE q = 0
    <3>1. {c \in C : pos(c) < q} = {}
      BY <2>1, <1>2
    <3> QED BY <3>1, FS_EmptySet
  <2>2. CASE q # 0
    <3>1. q - 1 \in Nat /\ q - 1 \notin Q
      BY <2>2, <1>5
    <3>2. {c \in C : pos(c) < q} = upto(q - 1)
      BY <1>2, <1>5
    <3>3. Cardinality(upto(q - 1)) \in Nat /\ i \in Nat
      BY <1>3
    <3>4. ~(Cardinality(upto(q - 1)) >= i)
      <4> HIDE DEF upto
      <4> QED BY <3>1
    <3>5. Cardinality(upto(q - 1)) < i
      <4> HIDE DEF upto
      <4> QED BY <3>3, <3>4
    <3> QED BY <3>2, <3>5
  <2> QED BY <2>1, <2>2
<1>7. q \in {pos(c) : c \in C}
  <2> SUFFICES ASSUME \A c \in C : pos(c) # q PROVE FALSE
    OBVIOUS
  <2>1. {c \in C : pos(c) < q} = upto(q)
    BY <1>2
  <2>2. Cardinality(upto(q)) >= i /\ Cardinality(upto(q)) \in Nat
    BY <1>3, <1>5
  <2> QED BY <2>1, <2>2, <1>6
<1>8. Cardinality(upto(q)) >= i
  BY <1>5
<1> QED BY <1>6, <1>7, <1>8 DEF SortedCoord

(* The halves of a partition share its cells and lie in its box; if both   *)
(* have cells their boxes share no bel (split).                            *)
Fits(p, place) == /\ p.cells \subseteq Cells
                  /\ p.cells # {} => /\ p.box \in BoxT
                                     /\ \A c \in p.cells : InBox(place[c], p.box)

(* A split divides the cells, and the boxes of the halves share no bel.    *)
LEMMA HalvesApart ==
    ASSUME NEW place \in [Cells -> Bels], NEW p, Fits(p, place), NEW ax \in Axis,
           NEW i \in PivotPoints(Cardinality(p.cells)), NEW l, NEW r,
           SplitAt(p, place, ax, i) = <<l, r>>
    PROVE  /\ l.cells \cup r.cells = p.cells /\ l.cells \cap r.cells = {}
           /\ Fits(l, place) /\ Fits(r, place)
           /\ p.cells # {} => \A b \in Bels : InBox(b, l.box) \/ InBox(b, r.box) => InBox(b, p.box)
           /\ l.cells # {} /\ r.cells # {} =>
                \A b \in Bels : ~(InBox(b, l.box) /\ InBox(b, r.box))
<1> DEFINE last == IF ax = "x" THEN p.box.x1 ELSE p.box.y1
           at   == IF i = 0 THEN last ELSE SortedCoord(place, p.cells, i, ax)
           low  == {c \in p.cells : Coord(place[c], ax) <= at}
           next == NextCoord(at, last)
<1>1. /\ l.cells = low /\ r.cells = p.cells \ low
      /\ l.box = IF ax = "x" THEN [p.box EXCEPT !.x1 = at] ELSE [p.box EXCEPT !.y1 = at]
      /\ r.box = IF ax = "x" THEN [p.box EXCEPT !.x0 = next] ELSE [p.box EXCEPT !.y0 = next]
  BY DEF SplitAt
<1> HIDE DEF low
<1>2. l.cells \cup r.cells = p.cells /\ l.cells \cap r.cells = {}
  BY <1>1 DEF low
<1>3. CASE p.cells = {}
  BY <1>2, <1>3 DEF Fits
<1>4. CASE p.cells # {}
  <2>1. /\ p.box \in BoxT /\ p.cells \subseteq Cells
        /\ \A c \in p.cells : InBox(place[c], p.box) /\ place[c] \in Bels
    BY <1>4 DEF Fits
  <2>2. /\ last \in Nat
        /\ \A c \in p.cells : Coord(place[c], ax) \in Nat /\ Coord(place[c], ax) <= last
    <3>1. \A c \in p.cells : Coord(place[c], ax) \in Nat
      BY <2>1, CoordIsNat
    <3> QED BY <2>1, <3>1 DEF BoxT, InBox, Coord, Axis
  <2>3. at \in Nat /\ at <= last /\ (i # 0 => at \in {Coord(place[c], ax) : c \in p.cells})
    <3>1. CASE i = 0
      BY <3>1, <2>2
    <3>2. CASE i # 0
      <4>1. Cardinality(p.cells) \in Nat
        BY <2>1, Grid, FS_Subset, FS_CardinalityType
      <4>2. i \in 1 .. Cardinality(p.cells)
        BY <3>2, <4>1 DEF PivotPoints
      <4>3. at \in {Coord(place[c], ax) : c \in p.cells}
        BY <2>1, <3>2, <4>2, PivotIsACell
      <4> QED BY <4>3, <2>2
    <3> QED BY <3>1, <3>2
  <2> HIDE DEF at, last
  <2>4. next \in Nat /\ (at = last => next = last) /\ (at # last => next = at + 1)
    BY <2>2, <2>3 DEF NextCoord
  <2> HIDE DEF next
  <2>5. at = last => r.cells = {}
    BY <1>1, <2>2 DEF low
  <2>6. /\ l.box \in BoxT /\ r.box \in BoxT
        /\ ax = "x" => /\ l.box.x0 = p.box.x0 /\ l.box.x1 = at /\ l.box.y0 = p.box.y0
                       /\ l.box.y1 = p.box.y1 /\ r.box.x0 = next /\ r.box.x1 = last
                       /\ r.box.y0 = p.box.y0 /\ r.box.y1 = p.box.y1 /\ last = p.box.x1
        /\ ax = "y" => /\ l.box.y0 = p.box.y0 /\ l.box.y1 = at /\ l.box.x0 = p.box.x0
                       /\ l.box.x1 = p.box.x1 /\ r.box.y0 = next /\ r.box.y1 = last
                       /\ r.box.x0 = p.box.x0 /\ r.box.x1 = p.box.x1 /\ last = p.box.y1
    BY <1>1, <2>1, <2>3, <2>4 DEF BoxT, last
  <2>7. /\ r.cells # {} => next = at + 1
        /\ p.box.x0 \in Nat /\ p.box.x1 \in Nat /\ p.box.y0 \in Nat /\ p.box.y1 \in Nat
    BY <2>1, <2>4, <2>5 DEF BoxT
  <2>8. ASSUME NEW b \in Bels
        PROVE  /\ InBox(b, l.box) => InBox(b, p.box)
               /\ InBox(b, p.box) => (InBox(b, l.box) <=> Coord(b, ax) <= at)
               /\ InBox(b, r.box) => Coord(b, ax) >= next
               /\ InBox(b, p.box) /\ Coord(b, ax) >= next => InBox(b, r.box)
    <3>1. b.x \in Nat /\ b.y \in Nat
      BY Grid
    <3> QED BY <3>1, <2>3, <2>4, <2>6, <2>7 DEF InBox, Coord, Axis
  <2>9. \E c \in p.cells : Coord(place[c], ax) \in Nat
    BY <1>4, <2>2
  <2>10. Fits(l, place)
    BY <1>1, <2>1, <2>6, <2>8 DEF Fits, low
  <2>11. Fits(r, place)
    <3>1. ASSUME NEW c \in r.cells PROVE InBox(place[c], r.box)
      <4>1. c \in p.cells /\ place[c] \in Bels /\ InBox(place[c], p.box)
        BY <1>1, <2>1
      <4>2. ~(Coord(place[c], ax) <= at)
        BY <1>1, <4>1 DEF low
      <4>3. Coord(place[c], ax) >= next
        BY <4>1, <4>2, <2>2, <2>3, <2>7
      <4> QED BY <4>1, <4>3, <2>8
    <3> QED BY <1>1, <2>1, <2>6, <3>1 DEF Fits
  <2>12. ASSUME NEW b \in Bels, InBox(b, r.box) PROVE InBox(b, p.box)
    <3>1. b.x \in Nat /\ b.y \in Nat
      BY Grid
    <3>2. next >= IF ax = "x" THEN p.box.x0 ELSE p.box.y0
      <4>1. last >= (IF ax = "x" THEN p.box.x0 ELSE p.box.y0)
        <5>1. PICK c \in p.cells : InBox(place[c], p.box) /\ place[c] \in Bels
          BY <1>4, <2>1
        <5>2. place[c].x \in Nat /\ place[c].y \in Nat
          BY <5>1, Grid
        <5> QED BY <5>1, <5>2, <2>6, <2>7 DEF InBox, Axis
      <4>2. CASE at = last
        BY <4>1, <4>2, <2>4
      <4>3. CASE i # 0
        <5>1. PICK c \in p.cells : at = Coord(place[c], ax)
          BY <4>3, <2>3
        <5>2. place[c] \in Bels /\ InBox(place[c], p.box)
          BY <2>1
        <5>3. at >= (IF ax = "x" THEN p.box.x0 ELSE p.box.y0)
          BY <5>1, <5>2 DEF InBox, Coord, Axis
        <5>4. next = at \/ next = at + 1
          BY <2>4
        <5> QED BY <5>3, <5>4, <2>3, <2>7
      <4>4. i = 0 => at = last
        BY DEF at
      <4> QED BY <4>2, <4>3, <4>4
    <3> QED BY <3>1, <3>2, <2>4, <2>6, <2>7, <2>12 DEF InBox, Axis
  <2>13. ASSUME l.cells # {}, r.cells # {}, NEW b \in Bels
         PROVE  ~(InBox(b, l.box) /\ InBox(b, r.box))
    <3>1. Coord(b, ax) \in Nat
      BY CoordIsNat
    <3>2. InBox(b, l.box) => Coord(b, ax) <= at
      BY <2>8
    <3>3. InBox(b, r.box) => Coord(b, ax) >= at + 1
      BY <2>7, <2>8, <2>13
    <3> QED BY <3>1, <3>2, <3>3, <2>3
  <2> QED BY <1>2, <2>8, <2>10, <2>11, <2>12, <2>13
<1> QED BY <1>3, <1>4

(* The partition of all cells fits a placement (PlacePartition).           *)
LEMMA WholeFits ==
    ASSUME NEW place \in [Cells -> Bels]
    PROVE  Whole(place).cells = Cells /\ Fits(Whole(place), place)
<1> DEFINE xs == {place[c].x : c \in Cells}
           ys == {place[c].y : c \in Cells}
<1>1. Whole(place).cells = Cells
  BY DEF Whole
<1>2. CASE Cells = {}
  BY <1>1, <1>2 DEF Fits
<1>3. CASE Cells # {}
  <2>1. xs = {Coord(place[c], "x") : c \in Cells} /\ ys = {Coord(place[c], "y") : c \in Cells}
    BY DEF Coord
  <2>2. /\ IsFiniteSet(xs) /\ xs \subseteq Nat /\ xs # {}
        /\ IsFiniteSet(ys) /\ ys \subseteq Nat /\ ys # {}
    <3>1. \A ax \in Axis : LET T == {Coord(place[c], ax) : c \in Cells}
                          IN  IsFiniteSet(T) /\ T \subseteq Nat
      BY CoordsFinite
    <3>2. xs # {} /\ ys # {}
      BY <1>3
    <3> QED BY <2>1, <3>1, <3>2 DEF Axis
  <2> HIDE DEF xs, ys
  <2>3. /\ Min(xs) \in xs /\ \A q \in xs : Min(xs) <= q
        /\ Min(ys) \in ys /\ \A q \in ys : Min(ys) <= q
    BY <2>2, LeastNumber DEF Min
  <2>4. /\ Max(xs) \in xs /\ \A q \in xs : Max(xs) >= q
        /\ Max(ys) \in ys /\ \A q \in ys : Max(ys) >= q
    <3>1. \E m \in xs : \A q \in xs : m >= q
      <4>1. PICK m \in xs : \A q \in xs : q <= m
        BY <2>2, GreatestNumber
      <4>2. \A q \in xs : m >= q
        BY <4>1, <2>2
      <4> QED BY <4>2
    <3>2. \E m \in ys : \A q \in ys : m >= q
      <4>1. PICK m \in ys : \A q \in ys : q <= m
        BY <2>2, GreatestNumber
      <4>2. \A q \in ys : m >= q
        BY <4>1, <2>2
      <4> QED BY <4>2
    <3> QED BY <3>1, <3>2 DEF Max
  <2>5. Whole(place).box = [x0 |-> Min(xs), y0 |-> Min(ys), x1 |-> Max(xs), y1 |-> Max(ys)]
    BY DEF Whole, xs, ys
  <2> DEFINE x0 == Min(xs)  y0 == Min(ys)  x1 == Max(xs)  y1 == Max(ys)
  <2>6. /\ x0 \in Nat /\ \A q \in xs : x0 <= q /\ q <= x1
        /\ y0 \in Nat /\ \A q \in ys : y0 <= q /\ q <= y1
        /\ x1 \in Nat /\ y1 \in Nat
    BY <2>2, <2>3, <2>4
  <2>7. Whole(place).box = [x0 |-> x0, y0 |-> y0, x1 |-> x1, y1 |-> y1]
    BY <2>5
  <2> HIDE DEF x0, y0, x1, y1
  <2>8. Whole(place).box \in BoxT
    BY <2>6, <2>7 DEF BoxT
  <2>9. ASSUME NEW c \in Cells PROVE InBox(place[c], Whole(place).box)
    <3>1. place[c].x \in xs /\ place[c].y \in ys
      BY DEF xs, ys
    <3> QED BY <3>1, <2>6, <2>7 DEF InBox
  <2> QED BY <1>1, <2>8, <2>9 DEF Fits
<1> QED BY <1>2, <1>3

-----------------------------------------------------------------------------
(* What the invariant says of the cells in reach of a thread.              *)

(* A bound cell in the box of a partition that is not empty is one of its  *)
(* cells; so what a thread finds on a bel of its box is its own.           *)
LEMMA InPart ==
    ASSUME ApartInv, Running, NEW t \in Thread, NEW b \in Bels, InPartition(t, b),
           parts[t].cells # {}
    PROVE  /\ \A c \in Cells : cellBel[c] = b => c \in parts[t].cells
           /\ belCell[b] # NoCell => /\ belCell[b] \in parts[t].cells
                                     /\ cellBel[belCell[b]] = b
<1>1. TypeInv /\ PartsApart /\ MapsInverse
  BY DEF ApartInv
<1>2. DOMAIN parts = Thread /\ NoBel \notin Bels
  BY <1>1, Grid DEF TypeInv, Thread
<1>3. ASSUME NEW c \in Cells, cellBel[c] = b PROVE c \in parts[t].cells
  <2>1. PICK i \in DOMAIN parts : c \in parts[i].cells
    BY <1>1 DEF PartsApart
  <2>2. InBox(b, parts[i].box)
    BY <1>1, <1>2, <1>3, <2>1 DEF PartsApart
  <2>3. i = t
    BY <1>1, <1>2, <2>1, <2>2 DEF PartsApart, InPartition
  <2> QED BY <2>1, <2>3
<1>4. belCell[b] # NoCell => belCell[b] \in Cells /\ cellBel[belCell[b]] = b
  BY <1>1 DEF TypeInv, MapsInverse
<1> QED BY <1>3, <1>4

(* The partitions of two threads share no cell and no bel.                 *)
LEMMA Apart ==
    ASSUME ApartInv, Running, NEW t \in Thread, NEW u \in Thread, t # u
    PROVE  /\ parts[t].cells \cap parts[u].cells = {}
           /\ parts[t].cells \subseteq Cells
           /\ parts[t].cells # {} /\ parts[u].cells # {} =>
                \A b \in Bels : ~(InPartition(t, b) /\ InPartition(u, b))
<1>1. TypeInv /\ PartsApart
  BY DEF ApartInv
<1>2. DOMAIN parts = Thread
  BY <1>1 DEF TypeInv, Thread
<1> QED BY <1>1, <1>2 DEF PartsApart, InPartition

(* No other thread has taken away the cells of the partition.              *)
LEMMA PartBound ==
    ASSUME ApartInv, Running, NEW t \in Thread, ~dirty[t], NEW c \in parts[t].cells
    PROVE  /\ c \in Cells /\ cellBel[c] \in Bels /\ InPartition(t, cellBel[c])
           /\ belCell[cellBel[c]] = c
<1>1. TypeInv /\ PartsApart /\ MapsInverse /\ OnlyInFlight /\ \A u \in Thread : MoveInv(u)
  BY DEF ApartInv, ThreadInv
<1>2. DOMAIN parts = Thread /\ NoBel \notin Bels
  BY <1>1, Grid DEF TypeInv, Thread
<1>3. c \in Cells
  BY <1>1, <1>2 DEF PartsApart
<1>4. cellBel[c] # NoBel
  <2> SUFFICES ASSUME cellBel[c] = NoBel PROVE FALSE
    OBVIOUS
  <2>1. PICK u \in Thread : dirty[u] /\ c \in DOMAIN moved[u]
    BY <1>1, <1>3 DEF OnlyInFlight
  <2>2. u # t /\ c \in parts[u].cells
    BY <1>1, <2>1 DEF MoveInv
  <2> QED BY <2>2, Apart
<1>5. cellBel[c] \in Bels
  BY <1>1, <1>3, <1>4 DEF TypeInv
<1>6. InPartition(t, cellBel[c])
  BY <1>1, <1>2, <1>4 DEF PartsApart, InPartition
<1> QED BY <1>1, <1>3, <1>4, <1>5, <1>6 DEF MapsInverse

(* Nor the cells of a cluster that has a cell in the partition: a move     *)
(* takes whole clusters.                                                   *)
LEMMA ClusterBound ==
    ASSUME ApartInv, Running, NEW t \in Thread, ~dirty[t], NEW k \in Cluster, Reaches(t, k),
           NEW c \in MemberCells(k)
    PROVE  c \in Cells /\ cellBel[c] \in Bels /\ belCell[cellBel[c]] = c
<1>1. TypeInv /\ MapsInverse /\ OnlyInFlight
  BY DEF ApartInv
<1>2. c \in Cells /\ ClusterOf[c] = k /\ k # NoCluster
  BY Clusters
<1>3. cellBel[c] # NoBel
  <2> SUFFICES ASSUME cellBel[c] = NoBel PROVE FALSE
    OBVIOUS
  <2>1. PICK u \in Thread : dirty[u] /\ c \in DOMAIN moved[u]
    BY <1>1, <1>2 DEF OnlyInFlight
  <2>2. Phase(u) /\ MoveInv(u) /\ WholeClusters(u)
    BY DEF ApartInv, ThreadInv
  <2>3. todo[u] = <<>>
    BY <2>1, <2>2 DEF Phase
  <2>4. TodoCells(u) = {}
    BY <2>3 DEF TodoCells, ToSet
  <2>5. MemberCells(k) \subseteq DOMAIN moved[u]
    BY <1>2, <2>1, <2>2, <2>4 DEF WholeClusters, Collected
  <2>6. PICK d \in MemberCells(k) : d \in parts[t].cells
    BY DEF Reaches
  <2>7. d \in parts[u].cells
    BY <2>2, <2>5 DEF MoveInv
  <2>8. u # t
    BY <2>1
  <2> QED BY <2>6, <2>7, <2>8, Apart
<1> QED BY <1>1, <1>2, <1>3 DEF TypeInv, MapsInverse

-----------------------------------------------------------------------------
(* Steps of a thread, seen from the others.                                *)

Same(u) == /\ pc'[u] = pc[u] /\ dirty'[u] = dirty[u] /\ moved'[u] = moved[u]
           /\ todo'[u] = todo[u] /\ displaced'[u] = displaced[u]
           /\ chain'[u] = chain[u] /\ view'[u] = view[u]

(* A thread whose own state, cells and bels are left alone keeps its       *)
(* invariant.                                                              *)
LEMMA Undisturbed ==
    ASSUME NEW u \in Thread, ThreadInv(u), Same(u), UNCHANGED <<main, parts>>,
           archMutex' = u <=> archMutex = u,
           \A c \in parts[u].cells : cellBel'[c] = cellBel[c],
           parts[u].cells # {} =>
                \A b \in Bels : InPartition(u, b) => belCell'[b] = belCell[b]
    PROVE  ThreadInv(u)'
<1>1. Phase(u)'
  BY DEF ThreadInv, Phase, Same, Running
<1>2. MoveInv(u)'
  BY DEF ThreadInv, MoveInv, Same, InPartition
<1>3. Requests(u)'
  BY DEF ThreadInv, Requests, Same, TodoCells, Reaches
<1>4. WholeClusters(u)'
  BY DEF ThreadInv, WholeClusters, Same, Collected, TodoCells
<1>5. ViewInv(u)'
  BY DEF ThreadInv, ViewInv, Same
<1> QED BY <1>1, <1>2, <1>3, <1>4, <1>5 DEF ThreadInv

(* A step of a thread that leaves the context alone. *)
LEMMA LocalStep ==
    ASSUME ApartInv, NEW t \in Thread, UNCHANGED <<main, parts, arch, archMutex>>,
           \A u \in Thread \ {t} : Same(u), TypeInv', ThreadInv(t)',
           dirty[t] => \/ dirty'[t] /\ moved'[t] = moved[t]
                       \/ \A c \in DOMAIN moved[t] : cellBel[c] # NoBel
    PROVE  ApartInv'
<1>1. MapsInverse'
  BY DEF ApartInv, MapsInverse, arch
<1>2. PartsApart'
  BY DEF ApartInv, PartsApart, arch
<1>3. OnlyInFlight'
  BY DEF ApartInv, OnlyInFlight, arch, Same
<1>4. ASSUME NEW u \in Thread \ {t} PROVE ThreadInv(u)'
  BY <1>4, Undisturbed DEF ApartInv, arch
<1> QED BY <1>1, <1>2, <1>3, <1>4 DEF ApartInv

(* A step that changes the context only in the cells of the move of the    *)
(* thread and in the bels of its box.                                      *)
Within(t) ==
    /\ \A c \in Cells \ DOMAIN moved[t] : cellBel'[c] = cellBel[c]
    /\ \A b \in Bels : belCell'[b] # belCell[b] => DOMAIN moved[t] # {} /\ InPartition(t, b)

(* A step of one thread between or within its bindings keeps the threads   *)
(* apart, if it keeps what is said of that thread alone and binds only in  *)
(* its own box.                                                            *)
LEMMA ContextStep ==
    ASSUME ApartInv, NEW t \in Thread, Running, UNCHANGED <<main, parts>>,
           \A u \in Thread \ {t} : Same(u) /\ (archMutex' = u <=> archMutex = u),
           TypeInv', MapsInverse', ThreadInv(t)', Within(t),
           \A c \in DOMAIN moved[t] :
                /\ cellBel'[c] = NoBel => dirty'[t] /\ c \in DOMAIN moved'[t]
                /\ cellBel'[c] # NoBel => InPartition(t, cellBel'[c])
    PROVE  ApartInv'
<1>1. TypeInv /\ PartsApart /\ OnlyInFlight /\ MoveInv(t)
  BY DEF ApartInv, ThreadInv
<1>2. /\ \A c \in Cells \ DOMAIN moved[t] : cellBel'[c] = cellBel[c]
      /\ \A b \in Bels : belCell'[b] # belCell[b] => DOMAIN moved[t] # {} /\ InPartition(t, b)
  BY DEF Within
<1>3. DOMAIN parts = Thread
  BY <1>1 DEF TypeInv, Thread
<1>4. DOMAIN moved[t] \subseteq parts[t].cells
  BY <1>1 DEF MoveInv
<1>5. PartsApart'
  <2>1. ASSUME NEW i \in Thread, NEW c \in parts[i].cells, cellBel'[c] # NoBel
        PROVE  InBox(cellBel'[c], parts[i].box)
    <3>1. CASE c \in DOMAIN moved[t]
      <4>1. i = t
        BY <1>4, <3>1, Apart
      <4> QED BY <2>1, <3>1, <4>1 DEF InPartition
    <3>2. CASE c \notin DOMAIN moved[t]
      BY <1>2, <1>1, <1>3, <2>1, <3>2 DEF PartsApart
    <3> QED BY <3>1, <3>2
  <2> QED BY <1>1, <1>3, <2>1 DEF PartsApart
<1>6. OnlyInFlight'
  <2> SUFFICES ASSUME NEW c \in Cells, cellBel'[c] = NoBel
               PROVE  \E u \in Thread : dirty'[u] /\ c \in DOMAIN moved'[u]
    BY DEF OnlyInFlight
  <2>1. CASE c \in DOMAIN moved[t]
    BY <2>1
  <2>2. CASE c \notin DOMAIN moved[t]
    <3>1. PICK u \in Thread : dirty[u] /\ c \in DOMAIN moved[u]
      BY <1>2, <1>1, <2>2 DEF OnlyInFlight
    <3>2. Same(u)
      BY <2>2, <3>1
    <3> QED BY <3>1, <3>2 DEF Same
  <2> QED BY <2>1, <2>2
<1>7. ASSUME NEW u \in Thread \ {t} PROVE ThreadInv(u)'
  <2>1. \A c \in parts[u].cells : cellBel'[c] = cellBel[c]
    <3>1. \A c \in parts[u].cells : c \in Cells /\ c \notin DOMAIN moved[t]
      BY <1>4, Apart
    <3> QED BY <1>2, <3>1
  <2>2. parts[u].cells # {} => \A b \in Bels : InPartition(u, b) => belCell'[b] = belCell[b]
    BY <1>2, <1>4, Apart
  <2> QED BY <2>1, <2>2, Undisturbed DEF ApartInv
<1> QED BY <1>5, <1>6, <1>7 DEF ApartInv

-----------------------------------------------------------------------------
(* The main thread.                                                        *)

LEMMA InitApart == Init => ApartInv
<1> SUFFICES ASSUME Init PROVE ApartInv
  OBVIOUS
<1>1. cellBel \in [Cells -> Bels] /\ IsInjective(cellBel)
  BY DetailPlaceAssumption DEF Init
<1>2. cellBel \in [Cells -> Bels \cup {NoBel}] /\ \A c \in Cells : cellBel[c] # NoBel
  BY <1>1, Grid
<1>3. \A b \in Bels : IF \E c \in Cells : cellBel[c] = b
                      THEN belCell[b] \in Cells /\ cellBel[belCell[b]] = b
                      ELSE belCell[b] = NoCell
  BY <1>1 DEF Init, Range
<1>4. belCell \in [Bels -> Cells \cup {NoCell}]
  <2>1. \E f \in {belCell} : f = [b \in Bels |-> f[b]]
    BY DEF Init
  <2>2. \A b \in Bels : belCell[b] \in Cells \cup {NoCell}
    BY <1>3
  <2> QED BY <2>1, <2>2
<1>5. MapsInverse
  BY <1>1, <1>3, Grid DEF MapsInverse, IsInjective
<1>6. TypeInv
  <2>1. Len(parts) = 1 /\ DOMAIN parts = 1 .. 1
    BY DEF Init
  <2>2. /\ todo \in [Thread -> Seq(ToType)]
        /\ displaced \in [Thread -> Seq([cluster : Cluster, root : Bels])]
    BY DEF Init
  <2> QED BY <1>2, <1>4, <2>1, <2>2 DEF Init, TypeInv, Running
<1>7. PartsApart
  <2>1. DOMAIN parts = {1} /\ parts[1] = Whole(cellBel)
    BY DEF Init
  <2> QED BY <1>1, <2>1, WholeFits DEF PartsApart, Fits, BoxT
<1>8. OnlyInFlight
  BY <1>2 DEF OnlyInFlight
<1>9. ASSUME NEW t \in Thread PROVE ThreadInv(t)
  <2>1. /\ pc[t] = "joined" /\ moved[t] = <<>> /\ ~dirty[t] /\ archMutex # t
        /\ todo[t] = <<>> /\ displaced[t] = <<>>
    BY Grid DEF Init
  <2>2. DOMAIN moved[t] = {} /\ TodoCells(t) = {}
    BY <2>1 DEF TodoCells, ToSet
  <2> QED BY <2>1, <2>2 DEF ThreadInv, Phase, MoveInv, Requests, WholeClusters, Collected,
                            ViewInv
<1> QED BY <1>5, <1>6, <1>7, <1>8, <1>9 DEF ApartInv

(* While the threads are joined every cell is bound. *)
LEMMA AllBound ==
    ASSUME ApartInv, \A t \in Thread : pc[t] = "joined"
    PROVE  /\ cellBel \in [Cells -> Bels]
           /\ \A t \in Thread : ~dirty[t] /\ archMutex # t /\ DOMAIN moved[t] = {}
                                /\ todo[t] = <<>> /\ displaced[t] = <<>>
<1>1. \A t \in Thread : ~dirty[t] /\ archMutex # t /\ DOMAIN moved[t] = {}
                                /\ todo[t] = <<>> /\ displaced[t] = <<>>
  BY DEF ApartInv, ThreadInv, Phase
<1>2. \A c \in Cells : cellBel[c] # NoBel
  BY <1>1 DEF ApartInv, OnlyInFlight
<1> QED BY <1>1, <1>2 DEF ApartInv, TypeInv

(* What is left to show of a step of the main thread. *)
LEMMA MainStep ==
    ASSUME ApartInv, \A t \in Thread : pc[t] = "joined", TypeInv', PartsApart',
           UNCHANGED <<arch, archMutex, moved, chain, todo, displaced, dirty>>,
           \A t \in Thread : /\ pc'[t] \in {"joined", "idle"}
                             /\ Running' \/ pc'[t] = "joined"
                             /\ ViewInv(t)'
    PROVE  ApartInv'
<1>1. MapsInverse' /\ OnlyInFlight'
  BY DEF ApartInv, MapsInverse, OnlyInFlight, arch
<1>2. ASSUME NEW t \in Thread PROVE ThreadInv(t)'
  <2>1. /\ ~dirty'[t] /\ archMutex' # t /\ DOMAIN moved'[t] = {}
        /\ todo'[t] = <<>> /\ displaced'[t] = <<>>
    BY AllBound
  <2>2. TodoCells(t)' = {}
    BY <2>1 DEF TodoCells, ToSet
  <2> QED BY <2>1, <2>2 DEF ThreadInv, Phase, MoveInv, Requests, WholeClusters, Collected
<1> QED BY <1>1, <1>2 DEF ApartInv

(* A split of a partition keeps the threads apart.                         *)
LEMMA SplitApart == ApartInv /\ Split => ApartInv'
<1> SUFFICES ASSUME ApartInv, Split PROVE ApartInv'
  OBVIOUS
<1>1. TypeInv /\ PartsApart /\ \A t \in Thread : Phase(t)
  BY DEF ApartInv, ThreadInv
<1>2. \A t \in Thread : pc[t] = "joined"
  BY <1>1 DEF Phase, Split, Running
<1>3. cellBel \in [Cells -> Bels]
  BY <1>2, AllBound
<1> DEFINE n == Len(parts)
           ax == IF yaxis THEN "y" ELSE "x"
           half(j) == (j + 1) \div 2
<1>4. n \in Nat /\ DOMAIN parts = 1 .. n /\ ax \in Axis
  BY <1>1 DEF TypeInv, Axis
<1>5. PICK at : /\ \A i \in 1 .. n : at[i] \in PivotPoints(Cardinality(parts[i].cells))
                /\ parts' = [j \in 1 .. 2 * n |->
                        SplitAt(parts[half(j)], cellBel, ax, at[half(j)])
                            [IF j % 2 = 1 THEN 1 ELSE 2]]
  BY <1>4 DEF Split
<1> HIDE DEF n, ax
<1>6. Len(parts') = 2 * n /\ 2 * n \in Nat /\ DOMAIN parts' = 1 .. 2 * n
  BY <1>4, <1>5
<1>7. /\ \A j \in 1 .. 2 * n : half(j) \in 1 .. n
      /\ \A i \in 1 .. n : /\ 2 * i - 1 \in 1 .. 2 * n /\ half(2 * i - 1) = i
                           /\ (2 * i - 1) % 2 = 1
                           /\ 2 * i \in 1 .. 2 * n /\ half(2 * i) = i /\ (2 * i) % 2 = 0
      /\ \A j, h \in 1 .. 2 * n : half(j) = half(h) /\ j # h =>
                                        (j % 2 = 1 /\ h % 2 = 0) \/ (j % 2 = 0 /\ h % 2 = 1)
      /\ \A j \in 1 .. 2 * n : j % 2 = 1 \/ j % 2 = 0
  BY <1>4
<1>8. ASSUME NEW i \in 1 .. n
      PROVE  \E l, r : /\ SplitAt(parts[i], cellBel, ax, at[i]) = <<l, r>>
                       /\ l.cells \cup r.cells = parts[i].cells /\ l.cells \cap r.cells = {}
                       /\ Fits(l, cellBel) /\ Fits(r, cellBel)
                       /\ parts[i].cells # {} => \A b \in Bels :
                            InBox(b, l.box) \/ InBox(b, r.box) => InBox(b, parts[i].box)
                       /\ l.cells # {} /\ r.cells # {} =>
                            \A b \in Bels : ~(InBox(b, l.box) /\ InBox(b, r.box))
  <2>1. \E l, r : SplitAt(parts[i], cellBel, ax, at[i]) = <<l, r>>
    BY DEF SplitAt
  <2>2. PICK l, r : SplitAt(parts[i], cellBel, ax, at[i]) = <<l, r>>
    BY <2>1
  <2>3. Fits(parts[i], cellBel)
    <3>1. \A c \in Cells : cellBel[c] # NoBel
      BY <1>3, Grid
    <3> QED BY <1>1, <1>4, <3>1 DEF PartsApart, Fits, BoxT
  <2>4. at[i] \in PivotPoints(Cardinality(parts[i].cells))
    BY <1>5
  <2> QED BY <1>3, <1>4, <2>2, <2>3, <2>4, HalvesApart
<1> HIDE DEF half
<1>9. ASSUME NEW j \in 1 .. 2 * n
      PROVE  /\ Fits(parts'[j], cellBel)
             /\ parts'[j].cells \subseteq parts[half(j)].cells
             /\ parts[half(j)].cells # {} =>
                    \A b \in Bels : InBox(b, parts'[j].box) => InBox(b, parts[half(j)].box)
  <2>1. half(j) \in 1 .. n
    BY <1>7
  <2>2. PICK l, r : /\ SplitAt(parts[half(j)], cellBel, ax, at[half(j)]) = <<l, r>>
                    /\ l.cells \cup r.cells = parts[half(j)].cells
                    /\ Fits(l, cellBel) /\ Fits(r, cellBel)
                    /\ parts[half(j)].cells # {} => \A b \in Bels :
                         InBox(b, l.box) \/ InBox(b, r.box) => InBox(b, parts[half(j)].box)
    BY <1>8, <2>1
  <2>3. parts'[j] = <<l, r>>[IF j % 2 = 1 THEN 1 ELSE 2]
    BY <1>5, <2>2
  <2>4. parts'[j] = l \/ parts'[j] = r
    BY <2>3
  <2> QED BY <2>2, <2>4
<1>10. ASSUME NEW j \in 1 .. 2 * n, NEW h \in 1 .. 2 * n, j # h,
              parts'[j].cells # {}, parts'[h].cells # {}
       PROVE  /\ parts'[j].cells \cap parts'[h].cells = {}
              /\ \A b \in Bels : ~(InBox(b, parts'[j].box) /\ InBox(b, parts'[h].box))
  <2>1. half(j) \in 1 .. n /\ half(h) \in 1 .. n
    BY <1>7
  <2>2. CASE half(j) # half(h)
    BY <1>1, <1>4, <1>9, <1>10, <2>1, <2>2, ZenonT(60) DEF PartsApart
  <2>3. CASE half(j) = half(h)
    <3>1. PICK l, r : /\ SplitAt(parts[half(j)], cellBel, ax, at[half(j)]) = <<l, r>>
                      /\ l.cells \cap r.cells = {}
                      /\ l.cells # {} /\ r.cells # {} =>
                            \A b \in Bels : ~(InBox(b, l.box) /\ InBox(b, r.box))
      BY <1>8, <2>1
    <3>2. /\ parts'[j] = <<l, r>>[IF j % 2 = 1 THEN 1 ELSE 2]
          /\ parts'[h] = <<l, r>>[IF h % 2 = 1 THEN 1 ELSE 2]
      BY <1>5, <2>3, <3>1
    <3>3. (j % 2 = 1 /\ h % 2 = 0) \/ (j % 2 = 0 /\ h % 2 = 1)
      BY <1>7, <1>10, <2>3
    <3>4. (parts'[j] = l /\ parts'[h] = r) \/ (parts'[j] = r /\ parts'[h] = l)
      BY <3>2, <3>3
    <3> QED BY <3>1, <3>4, <1>10
  <2> QED BY <2>2, <2>3
<1>11. ASSUME NEW c \in Cells PROVE \E j \in 1 .. 2 * n : c \in parts'[j].cells
  <2>1. PICK i \in 1 .. n : c \in parts[i].cells
    BY <1>1, <1>4 DEF PartsApart
  <2>2. PICK l, r : /\ SplitAt(parts[i], cellBel, ax, at[i]) = <<l, r>>
                    /\ l.cells \cup r.cells = parts[i].cells
    BY <1>8
  <2>3. parts'[2 * i - 1] = l /\ parts'[2 * i] = r
    <3>1. /\ 2 * i - 1 \in 1 .. 2 * n /\ half(2 * i - 1) = i /\ (2 * i - 1) % 2 = 1
          /\ 2 * i \in 1 .. 2 * n /\ half(2 * i) = i /\ (2 * i) % 2 = 0
      BY <1>7
    <3>2. /\ parts'[2 * i - 1] = <<l, r>>[IF (2 * i - 1) % 2 = 1 THEN 1 ELSE 2]
          /\ parts'[2 * i] = <<l, r>>[IF (2 * i) % 2 = 1 THEN 1 ELSE 2]
      BY <1>5, <2>2, <3>1
    <3> QED BY <3>1, <3>2
  <2> QED BY <1>7, <2>1, <2>2, <2>3
<1>12. PartsApart'
  <2>1. cellBel' = cellBel
    BY DEF Split, arch
  <2> QED BY <1>6, <1>9, <1>10, <1>11, <2>1 DEF PartsApart, Fits, BoxT
<1>13. TypeInv'
  <2>1. main' = "partition" /\ yaxis' \in BOOLEAN
    BY <1>1 DEF Split, TypeInv
  <2> QED BY <1>1, <1>6, <2>1 DEF TypeInv, Split, arch, local, Running
<1>14. \A t \in Thread : /\ pc'[t] = "joined" /\ ViewInv(t)'
  BY <1>2 DEF Split, ViewInv
<1> QED BY <1>2, <1>12, <1>13, <1>14, MainStep DEF Split, local

(* The start of the threads keeps them apart.                              *)
LEMMA StartApart == ApartInv /\ StartThreads => ApartInv'
<1> SUFFICES ASSUME ApartInv, StartThreads PROVE ApartInv'
  OBVIOUS
<1>1. TypeInv /\ PartsApart /\ \A t \in Thread : Phase(t)
  BY DEF ApartInv, ThreadInv
<1>2. \A t \in Thread : pc[t] = "joined"
  BY <1>1 DEF Phase, StartThreads, Running
<1>3. TypeInv'
  BY <1>1 DEF TypeInv, StartThreads, arch, Running
<1>4. PartsApart'
  BY <1>1, ZenonT(60) DEF PartsApart, StartThreads, arch
<1>5. ASSUME NEW t \in Thread PROVE ViewInv(t)'
  <2>1. view'[t] = [c \in NetCells(ThreadNets(t)) |-> cellBel[c]]
    BY DEF StartThreads, Restrict
  <2>2. DOMAIN moved[t] = {}
    BY <1>2, AllBound
  <2> QED BY <2>1, <2>2 DEF ViewInv, StartThreads, arch
<1>6. \A t \in Thread : pc'[t] = "idle" /\ Running'
  BY DEF StartThreads, Running
<1> QED BY <1>2, <1>3, <1>4, <1>5, <1>6, MainStep DEF StartThreads

(* The end of an iteration, with every thread at rest, keeps the           *)
(* partitions apart.                                                       *)
LEMMA EndApart == ApartInv /\ EndIteration => ApartInv'
<1> SUFFICES ASSUME ApartInv, EndIteration PROVE ApartInv'
  OBVIOUS
<1>1. TypeInv /\ PartsApart
  BY DEF ApartInv
<1>2. \A t \in Thread : pc[t] = "joined"
  BY DEF EndIteration
<1>3. cellBel \in [Cells -> Bels]
  BY <1>2, AllBound
<1>4. CASE main' = "done" /\ UNCHANGED <<parts, yaxis>>
  <2>1. TypeInv' /\ PartsApart'
    BY <1>1, <1>4, ZenonT(60) DEF TypeInv, PartsApart, EndIteration, arch, local, Running
  <2> QED BY <1>2, <2>1, MainStep DEF EndIteration, local, ViewInv
<1>5. CASE main' = "partition" /\ parts' = <<Whole(cellBel)>> /\ yaxis' = FALSE
  <2>1. DOMAIN parts' = {1} /\ DOMAIN parts' = 1 .. 1 /\ Len(parts') = 1
        /\ parts'[1] = Whole(cellBel)
    BY <1>5
  <2>2. PartsApart'
    BY <1>3, <2>1, WholeFits DEF PartsApart, Fits, BoxT, EndIteration, arch
  <2>3. TypeInv'
    BY <1>1, <1>5, <2>1 DEF TypeInv, EndIteration, arch, local, Running
  <2> QED BY <1>2, <2>2, <2>3, MainStep DEF EndIteration, local, ViewInv
<1> QED BY <1>4, <1>5 DEF EndIteration

-----------------------------------------------------------------------------
(* A thread begins a move.                                                 *)

Named(s) == {a.cell : a \in ToSet(s)}

(* The cells of a move may be any that are not locked, lie in the          *)
(* partition and take their cluster along.                                 *)
LEMMA BeginStep ==
    ASSUME ApartInv, NEW t \in Thread, pc[t] = "idle", NEW ch \in BOOLEAN,
           NEW cells \in Seq(ToType), NEW disp \in Seq([cluster : Cluster, root : Bels]),
           Begin(t, ch, cells, disp), parts[t].cells # {},
           ch => cells = <<>>, ch \/ disp = <<>>,
           Named(cells) \subseteq parts[t].cells \ Locked,
           \A c \in Named(cells) :
                ClusterOf[c] # NoCluster => MemberCells(ClusterOf[c]) \subseteq Named(cells),
           \A i, j \in DOMAIN cells : cells[i].cell = cells[j].cell => i = j,
           \A i \in DOMAIN disp : /\ Reaches(t, disp[i].cluster)
                                  /\ MemberCells(disp[i].cluster) \cap Locked = {}
    PROVE  ApartInv'
<1>1. TypeInv /\ Phase(t) /\ ViewInv(t)
  BY DEF ApartInv, ThreadInv
<1>2. /\ pc'[t] = "adding" /\ chain'[t] = ch /\ todo'[t] = cells /\ displaced'[t] = disp
      /\ UNCHANGED <<main, parts, yaxis, cellBel, belCell, locked, archMutex, moved, view, dirty>>
      /\ \A u \in Thread \ {t} : Same(u)
  BY <1>1 DEF Begin, TypeInv, Same, global, arch
<1>3. TypeInv'
  BY <1>1, <1>2 DEF Begin, TypeInv, Running
<1>4. ~dirty[t] /\ DOMAIN moved[t] = {} /\ Running /\ archMutex # t
  BY <1>1 DEF Phase
<1>5. TodoCells(t)' = Named(cells)
  BY <1>2 DEF TodoCells, Named
<1>6. Phase(t)' /\ MoveInv(t)' /\ ViewInv(t)'
  BY <1>1, <1>2, <1>4 DEF Phase, MoveInv, ViewInv, Running
<1>7. Requests(t)'
  <2>1. ch => TodoCells(t)' = {}
    BY <1>5 DEF ToSet, Named
  <2> QED BY <1>2, <1>4, <1>5, <2>1 DEF Requests, Reaches
<1>8. WholeClusters(t)'
  BY <1>2, <1>4, <1>5 DEF WholeClusters, Collected
<1> QED BY <1>2, <1>3, <1>4, <1>6, <1>7, <1>8, LocalStep DEF ThreadInv, arch

(* The choice of a swap of single cells keeps the threads apart.           *)
LEMMA SingleApart == ASSUME ApartInv, NEW t \in Thread, SingleCellSwap(t) PROVE ApartInv'
<1> DEFINE Swaps(c, b) ==
             /\ ClusterOf[c] = NoCluster
             /\ belCell[b] # NoCell => belCell[b] \notin locked /\ ClusterOf[belCell[b]] = NoCluster
             /\ Begin(t, FALSE, IF belCell[b] = NoCell THEN <<To(c, b)>>
                                ELSE <<To(c, b), To(belCell[b], cellBel[c])>>, <<>>)
<1>0. PICK c \in parts[t].cells \ locked : \E b \in Candidates(t, c) : Swaps(c, b)
  BY DEF SingleCellSwap
<1>1. PICK b \in Candidates(t, c) : Swaps(c, b)
  BY <1>0
<1>2. TypeInv /\ Phase(t) /\ pc[t] = "idle"
  BY DEF ApartInv, ThreadInv, SingleCellSwap
<1>3. Running /\ ~dirty[t] /\ locked = Locked
  BY <1>2 DEF Phase, TypeInv
<1>4. c \in Cells /\ cellBel[c] \in Bels /\ InPartition(t, cellBel[c])
  BY <1>3, PartBound
<1>5. b \in Bels /\ b # cellBel[c] /\ InPartition(t, b)
  BY <1>4, Grid DEF Candidates, Suitable
<1>6. \A g \in Bels : g \in [x : Int, y : Int, z : Int]
  BY Grid
<1>7. <<>> \in Seq([cluster : Cluster, root : Bels]) /\ DOMAIN <<>> = {}
  OBVIOUS
<1>8. CASE belCell[b] = NoCell
  <2> DEFINE s == <<To(c, b)>>
  <2>1. s \in Seq(ToType) /\ DOMAIN s = {1}
    BY <1>4, <1>5, <1>6 DEF To, ToType
  <2>2. Named(s) = {c}
    BY DEF ToSet, To, Named
  <2>3. Begin(t, FALSE, s, <<>>)
    BY <1>1, <1>8
  <2> HIDE DEF s
  <2>4. Named(s) \subseteq parts[t].cells \ Locked /\ parts[t].cells # {}
    BY <1>3, <2>2
  <2>5. \A i, j \in DOMAIN s : s[i].cell = s[j].cell => i = j
    BY <2>1
  <2> QED BY <1>1, <1>2, <1>7, <2>1, <2>2, <2>3, <2>4, <2>5, BeginStep
<1>9. CASE belCell[b] # NoCell
  <2> DEFINE d == belCell[b]
             s == <<To(c, b), To(d, cellBel[c])>>
  <2>1. d \in parts[t].cells /\ cellBel[d] = b
    BY <1>1, <1>3, <1>5, <1>9, InPart
  <2>2. d # c /\ d \in Cells
    BY <1>3, <1>5, <2>1, PartBound
  <2>3. s \in Seq(ToType) /\ DOMAIN s = 1 .. 2 /\ s[1].cell = c /\ s[2].cell = d
    BY <1>4, <1>5, <1>6, <2>2 DEF To, ToType
  <2>4. Named(s) = {c, d}
    BY <2>3 DEF ToSet, Named
  <2>5. Begin(t, FALSE, s, <<>>)
    BY <1>1, <1>9
  <2>6. \A i, j \in DOMAIN s : s[i].cell = s[j].cell => i = j
    BY <2>2, <2>3
  <2>7. {c, d} \subseteq parts[t].cells \ Locked /\ ClusterOf[c] = NoCluster
        /\ ClusterOf[d] = NoCluster
    BY <1>1, <1>3, <1>9, <2>1
  <2> HIDE DEF s, d
  <2>8. parts[t].cells # {} /\ Named(s) \subseteq parts[t].cells \ Locked
    BY <2>4, <2>7
  <2> QED BY <1>2, <1>7, <2>3, <2>4, <2>5, <2>6, <2>7, <2>8, BeginStep
<1> QED BY <1>8, <1>9

(* The choice of a cluster for a chain keeps the threads apart.            *)
LEMMA ChainApart == ASSUME ApartInv, NEW t \in Thread, ChainSwap(t) PROVE ApartInv'
<1> DEFINE root(k) == Members[k][1].cell
           Swaps(k, b) == /\ root(k) \in parts[t].cells \ locked
                          /\ Begin(t, TRUE, <<>>, <<[cluster |-> k, root |-> b]>>)
<1>0. PICK k \in Cluster : \E b \in Candidates(t, root(k)) : Swaps(k, b)
  BY DEF ChainSwap
<1>1. PICK b \in Candidates(t, root(k)) : Swaps(k, b)
  BY <1>0
<1>2. TypeInv /\ PartsApart /\ Phase(t) /\ pc[t] = "idle"
  BY DEF ApartInv, ThreadInv, ChainSwap
<1>3. locked = Locked /\ Running /\ ~dirty[t]
  BY <1>2 DEF TypeInv, Phase
<1>4. root(k) \in MemberCells(k) /\ MemberCells(k) \cap Locked = {}
  BY <1>1, <1>3, Clusters
<1>5. root(k) \in Cells
  BY <1>1, <1>3, PartBound
<1>6. b \in Bels
  BY <1>5, Grid DEF Candidates, Suitable
<1> DEFINE disp == <<[cluster |-> k, root |-> b]>>
<1>7. /\ disp \in Seq([cluster : Cluster, root : Bels]) /\ DOMAIN disp = {1}
      /\ disp[1].cluster = k
  BY <1>6
<1>8. Reaches(t, k)
  BY <1>1, <1>4 DEF Reaches
<1>9. <<>> \in Seq(ToType) /\ DOMAIN <<>> = {}
  OBVIOUS
<1>10. Begin(t, TRUE, <<>>, disp) /\ Named(<<>>) = {} /\ parts[t].cells # {}
  BY <1>1, <1>9 DEF ToSet, Named
<1> HIDE DEF disp
<1> QED BY <1>2, <1>4, <1>7, <1>8, <1>9, <1>10, BeginStep

(* The cells of a tile, listed with the bels they are to have. *)
ToTile(C, u) == {To(d, InTile(cellBel[d], u)) : d \in C}

(* The cells of a tile are listed each once, for the same place in the     *)
(* other tile.                                                             *)
LEMMA TileListed ==
    ASSUME NEW C \in SUBSET Cells, NEW u \in Bels, \A d \in C : cellBel[d] \in Bels,
           NEW s, s = SetToSeq(ToTile(C, u))
    PROVE  /\ s \in Seq(ToType) /\ Named(s) = C /\ ToSet(s) = ToTile(C, u)
           /\ \A i, j \in DOMAIN s : s[i].cell = s[j].cell => i = j
<1> DEFINE S == ToTile(C, u)
           f == [d \in C |-> To(d, InTile(cellBel[d], u))]
<1>1. IsFiniteSet(S)
  <2>1. IsFiniteSet(C)
    BY Grid, FS_Subset
  <2>2. f \in Surjection(C, S)
    BY DEF Surjection, ToTile
  <2> QED BY <2>1, <2>2, FS_Surjection
<1>2. S \subseteq ToType
  BY Grid DEF ToType, To, InTile, ToTile
<1>3. /\ s \in Seq(S) /\ ToSet(s) = S
      /\ \A i, j \in DOMAIN s : s[i] = s[j] => i = j
  BY <1>1, Listed
<1>4. /\ \A d \in C : f[d] \in S /\ f[d].cell = d
      /\ \A a \in S : a.cell \in C /\ a = f[a.cell]
  BY DEF To, ToTile
<1> HIDE DEF S, f
<1>5. s \in Seq(ToType)
  BY <1>2, <1>3
<1>6. \A i \in DOMAIN s : s[i] \in S
  BY <1>3
<1>7. Named(s) = C
  <2>1. ASSUME NEW d \in C PROVE d \in Named(s)
    BY <1>3, <1>4 DEF Named
  <2>2. ASSUME NEW d \in Named(s) PROVE d \in C
    BY <1>3, <1>4 DEF Named
  <2> QED BY <2>1, <2>2
<1>8. ASSUME NEW i \in DOMAIN s, NEW j \in DOMAIN s, s[i].cell = s[j].cell PROVE i = j
  <2>1. s[i] = s[j]
    BY <1>4, <1>6, <1>8
  <2> QED BY <1>3, <2>1
<1> QED BY <1>3, <1>5, <1>7, <1>8 DEF S

(* Two lists with no cell in common are one list without repetition.       *)
LEMMA BothListed ==
    ASSUME NEW s \in Seq(ToType), NEW r \in Seq(ToType), Named(s) \cap Named(r) = {},
           \A i, j \in DOMAIN s : s[i].cell = s[j].cell => i = j,
           \A i, j \in DOMAIN r : r[i].cell = r[j].cell => i = j
    PROVE  /\ s \o r \in Seq(ToType) /\ Named(s \o r) = Named(s) \cup Named(r)
           /\ \A i, j \in DOMAIN (s \o r) : (s \o r)[i].cell = (s \o r)[j].cell => i = j
<1>1. Named(s \o r) = Named(s) \cup Named(r)
  BY Concatenated DEF Named
<1>2. /\ s \o r \in Seq(ToType) /\ DOMAIN (s \o r) = 1 .. Len(s) + Len(r)
      /\ DOMAIN s = 1 .. Len(s) /\ DOMAIN r = 1 .. Len(r)
      /\ Len(s) \in Nat /\ Len(r) \in Nat
      /\ \A i \in 1 .. Len(s) : (s \o r)[i] = s[i]
      /\ \A i \in 1 .. Len(s) + Len(r) : i > Len(s) =>
            (s \o r)[i] = r[i - Len(s)] /\ i - Len(s) \in 1 .. Len(r)
  OBVIOUS
<1>3. ASSUME NEW i \in DOMAIN s, NEW j \in DOMAIN r
      PROVE  s[i].cell # r[j].cell
  <2>1. s[i].cell \in Named(s) /\ r[j].cell \in Named(r)
    BY DEF Named, ToSet
  <2> QED BY <2>1
<1>4. ASSUME NEW i \in 1 .. Len(s) + Len(r), NEW j \in 1 .. Len(s) + Len(r),
             (s \o r)[i].cell = (s \o r)[j].cell
      PROVE  i = j
  <2>1. CASE i <= Len(s) /\ j <= Len(s)
    BY <1>2, <1>4, <2>1
  <2>2. CASE i > Len(s) /\ j > Len(s)
    <3>1. i - Len(s) = j - Len(s)
      <4> DEFINE x == i - Len(s)  y == j - Len(s)
      <4>1. x \in DOMAIN r /\ y \in DOMAIN r /\ (s \o r)[i] = r[x] /\ (s \o r)[j] = r[y]
        BY <1>2, <2>2
      <4> HIDE DEF x, y
      <4>2. x = y
        BY <4>1, <1>4
      <4> QED BY <4>2 DEF x, y
    <3> QED BY <1>2, <3>1
  <2>3. CASE i <= Len(s) /\ j > Len(s)
    BY <1>2, <1>3, <1>4, <2>3, SMTT(60)
  <2>4. CASE i > Len(s) /\ j <= Len(s)
    BY <1>2, <1>3, <1>4, <2>4
  <2> QED BY <1>2, <2>1, <2>2, <2>3, <2>4
<1> QED BY <1>1, <1>2, <1>4

(* What do_tile_swap collects: the cells h of one tile for the other, and  *)
(* the cells th of the other for the first.                                *)
LEMMA TilePlan ==
    ASSUME ApartInv, NEW t \in Thread, TileSwap(t)
    PROVE  \E h, th \in SUBSET parts[t].cells : \E u, v \in Bels : \E q \in Seq(ToType) :
              /\ Begin(t, FALSE, q, <<>>) /\ parts[t].cells # {}
              /\ ToSet(q) = ToTile(h, u) \cup ToTile(th, v) /\ Named(q) = h \cup th
              /\ \A i, j \in DOMAIN q : q[i].cell = q[j].cell => i = j
              /\ MayLeave(h) /\ \A d \in h : cellBel[d].x = v.x /\ cellBel[d].y = v.y
              /\ MayLeave(th) /\ \A d \in th : cellBel[d].x = u.x /\ cellBel[d].y = u.y
<1> DEFINE here(c) == CellsIn(t, cellBel[c].x, cellBel[c].y)
           there(u) == CellsIn(t, u.x, u.y)
           s(c, u) == SetToSeq({To(d, InTile(cellBel[d], u)) : d \in here(c)})
           r(c, u) == SetToSeq({To(d, InTile(cellBel[d], cellBel[c])) : d \in there(u)})
<1>1. PICK c \in parts[t].cells, u \in Bels :
        /\ <<u.x, u.y>> # <<cellBel[c].x, cellBel[c].y>>
        /\ MayLeave(here(c)) /\ MayLeave(there(u))
        /\ Begin(t, FALSE, s(c, u) \o r(c, u), <<>>)
  BY DEF TileSwap
<1>2. TypeInv /\ Phase(t) /\ pc[t] = "idle"
  BY DEF ApartInv, ThreadInv, TileSwap
<1>3. Running /\ ~dirty[t] /\ locked = Locked
  BY <1>2 DEF Phase, TypeInv
<1>4. /\ \A d \in parts[t].cells : d \in Cells /\ cellBel[d] \in Bels
      /\ here(c) \in SUBSET parts[t].cells /\ there(u) \in SUBSET parts[t].cells
      /\ here(c) \cap there(u) = {}
      /\ \A d \in here(c) : cellBel[d].x = cellBel[c].x /\ cellBel[d].y = cellBel[c].y
      /\ \A d \in there(u) : cellBel[d].x = u.x /\ cellBel[d].y = u.y
  BY <1>1, <1>3, PartBound DEF CellsIn
<1>5. /\ here(c) \in SUBSET Cells /\ there(u) \in SUBSET Cells /\ cellBel[c] \in Bels
      /\ \A d \in here(c) \cup there(u) : cellBel[d] \in Bels
  BY <1>4
<1> DEFINE h == here(c)  th == there(u)  ss == s(c, u)  rr == r(c, u)  v == cellBel[c]
<1>6. /\ h \in SUBSET Cells /\ th \in SUBSET Cells
      /\ \A d \in h : cellBel[d] \in Bels
      /\ \A d \in th : cellBel[d] \in Bels
      /\ ss = SetToSeq(ToTile(h, u)) /\ rr = SetToSeq(ToTile(th, v))
  BY <1>5 DEF ToTile
<1>7. /\ Begin(t, FALSE, ss \o rr, <<>>) /\ h \cap th = {} /\ MayLeave(h) /\ MayLeave(th)
      /\ h \in SUBSET parts[t].cells /\ th \in SUBSET parts[t].cells /\ parts[t].cells # {}
      /\ \A d \in h : cellBel[d].x = v.x /\ cellBel[d].y = v.y
      /\ \A d \in th : cellBel[d].x = u.x /\ cellBel[d].y = u.y
      /\ v \in Bels
  BY <1>1, <1>4
<1> HIDE DEF ss, rr, h, th, v
<1>8. /\ ss \in Seq(ToType) /\ Named(ss) = h /\ ToSet(ss) = ToTile(h, u)
      /\ \A i, j \in DOMAIN ss : ss[i].cell = ss[j].cell => i = j
  BY <1>6, TileListed
<1>9. /\ rr \in Seq(ToType) /\ Named(rr) = th /\ ToSet(rr) = ToTile(th, v)
      /\ \A i, j \in DOMAIN rr : rr[i].cell = rr[j].cell => i = j
  BY <1>6, <1>7, TileListed, ZenonT(60)
<1>10. /\ ss \o rr \in Seq(ToType) /\ Named(ss \o rr) = h \cup th
       /\ \A i, j \in DOMAIN (ss \o rr) : (ss \o rr)[i].cell = (ss \o rr)[j].cell => i = j
       /\ ToSet(ss \o rr) = ToTile(h, u) \cup ToTile(th, v)
  BY <1>8, <1>9, <1>7, BothListed, Concatenated, SMTT(60)
<1> DEFINE q == ss \o rr
<1>11. /\ q \in Seq(ToType) /\ Named(q) = h \cup th /\ Begin(t, FALSE, q, <<>>)
       /\ \A i, j \in DOMAIN q : q[i].cell = q[j].cell => i = j
       /\ ToSet(q) = ToTile(h, u) \cup ToTile(th, v)
  BY <1>7, <1>10
<1> HIDE DEF q
<1> QED BY <1>7, <1>11, ZenonT(60)

(* The choice of a swap of tiles keeps the threads apart.                  *)
LEMMA TileApart == ASSUME ApartInv, NEW t \in Thread, TileSwap(t) PROVE ApartInv'
<1>1. PICK h, th \in SUBSET parts[t].cells : \E u, v \in Bels : \E q \in Seq(ToType) :
        /\ Begin(t, FALSE, q, <<>>) /\ parts[t].cells # {} /\ Named(q) = h \cup th
        /\ \A i, j \in DOMAIN q : q[i].cell = q[j].cell => i = j
        /\ MayLeave(h) /\ MayLeave(th)
  BY TilePlan, ZenonT(60)
<1>2. PICK q \in Seq(ToType) :
        /\ Begin(t, FALSE, q, <<>>) /\ parts[t].cells # {} /\ Named(q) = h \cup th
        /\ \A i, j \in DOMAIN q : q[i].cell = q[j].cell => i = j
        /\ MayLeave(h) /\ MayLeave(th)
  BY <1>1
<1>3. pc[t] = "idle" /\ locked = Locked
  BY DEF ApartInv, TypeInv, TileSwap
<1>4. /\ Named(q) \subseteq parts[t].cells \ Locked
      /\ \A d \in Named(q) : ClusterOf[d] # NoCluster =>
                                   MemberCells(ClusterOf[d]) \subseteq Named(q)
  BY <1>2, <1>3 DEF MayLeave
<1>5. <<>> \in Seq([cluster : Cluster, root : Bels]) /\ DOMAIN <<>> = {}
  OBVIOUS
<1> QED BY <1>2, <1>3, <1>4, <1>5, BeginStep

(* A thread that is done keeps the threads apart.                          *)
LEMMA FinishApart == ASSUME ApartInv, NEW t \in Thread, Finish(t) PROVE ApartInv'
<1>1. TypeInv /\ ThreadInv(t)
  BY DEF ApartInv
<1>2. /\ pc'[t] = "joined" /\ pc[t] = "idle" /\ \A u \in Thread \ {t} : Same(u)
      /\ UNCHANGED <<main, parts, arch, archMutex, moved, dirty, todo, displaced>>
  BY <1>1 DEF Finish, TypeInv, Same, local, global
<1>3. TypeInv'
  BY <1>1 DEF TypeInv, Finish, global, arch, local, Running
<1>4. ThreadInv(t)'
  <2>1. DOMAIN moved'[t] = {} /\ ~dirty'[t] /\ archMutex' # t /\ todo'[t] = <<>>
        /\ displaced'[t] = <<>>
    BY <1>1, <1>2 DEF ThreadInv, Phase
  <2>2. TodoCells(t)' = {}
    BY <2>1 DEF TodoCells, ToSet
  <2> QED BY <1>2, <2>1, <2>2 DEF ThreadInv, Phase, MoveInv, Requests, WholeClusters,
                                  Collected, ViewInv
<1> QED BY <1>2, <1>3, <1>4, LocalStep

(* A thread that looks for a bel in vain keeps the threads apart.          *)
LEMMA SearchApart == ASSUME ApartInv, NEW t \in Thread, SearchInVain(t) PROVE ApartInv'
<1>1. TypeInv /\ ThreadInv(t)
  BY DEF ApartInv
<1>2. /\ pc'[t] = "searching" /\ pc[t] = "idle" /\ \A u \in Thread \ {t} : Same(u)
      /\ UNCHANGED <<main, parts, arch, archMutex, moved, view, dirty, todo, displaced>>
  BY <1>1 DEF SearchInVain, TypeInv, Same, local, global
<1>3. TypeInv'
  BY <1>1 DEF TypeInv, SearchInVain, global, arch, local, Running
<1>4. ThreadInv(t)'
  <2>1. DOMAIN moved'[t] = {} /\ ~dirty'[t] /\ archMutex' # t /\ todo'[t] = <<>>
        /\ displaced'[t] = <<>> /\ Running'
    BY <1>1, <1>2 DEF ThreadInv, Phase, Running
  <2>2. TodoCells(t)' = {}
    BY <2>1 DEF TodoCells, ToSet
  <2>3. ViewInv(t)'
    BY <1>1, <1>2, <2>1 DEF ThreadInv, Phase, ViewInv, arch
  <2> QED BY <1>2, <2>1, <2>2, <2>3 DEF ThreadInv, Phase, MoveInv, Requests, WholeClusters,
                                       Collected
<1> QED BY <1>2, <1>3, <1>4, LocalStep

-----------------------------------------------------------------------------
(* The cells of the move are collected.                                    *)

LEMMA FailApart == ASSUME ApartInv, NEW t \in Thread, pc[t] = "adding", Fail(t) PROVE ApartInv'
<1>1. TypeInv /\ ThreadInv(t)
  BY DEF ApartInv
<1>2. /\ pc'[t] = "revert" /\ \A u \in Thread \ {t} : Same(u)
      /\ UNCHANGED <<main, parts, arch, archMutex, moved, view, dirty, todo, displaced>>
  BY <1>1 DEF Fail, TypeInv, Same, local, global
<1>3. TypeInv'
  BY <1>1 DEF TypeInv, Fail, global, arch, local, Running
<1>4. ~dirty[t]
  BY <1>1 DEF ThreadInv, Phase
<1>5. ThreadInv(t)'
  <2>1. Phase(t)' /\ Requests(t)' /\ WholeClusters(t)'
    BY <1>1, <1>2, <1>4 DEF ThreadInv, Phase, Requests, WholeClusters, Running
  <2>2. MoveInv(t)' /\ ViewInv(t)'
    BY <1>1, <1>2, <1>4 DEF ThreadInv, MoveInv, ViewInv, arch, InPartition
  <2> QED BY <2>1, <2>2 DEF ThreadInv
<1> QED BY <1>2, <1>3, <1>4, <1>5, LocalStep

(* What add_to_move does to the maps of the thread. *)
LEMMA AddEffect ==
    ASSUME TypeInv, NEW t \in Thread, NEW adds, AddToMove(t, adds)
    PROVE  \E dest : 
              /\ \A c \in Named(adds) : \E a \in ToSet(adds) : a.cell = c /\ dest[c] = a.bel
              /\ DOMAIN moved'[t] = Named(adds) \cup DOMAIN moved[t]
              /\ \A c \in DOMAIN moved'[t] : moved'[t][c] =
                    IF c \in Named(adds) THEN [old |-> cellBel[c], new |-> dest[c]]
                    ELSE moved[t][c]
              /\ DOMAIN view'[t] = Named(adds) \cup DOMAIN view[t]
              /\ \A c \in DOMAIN view'[t] :
                    view'[t][c] = IF c \in Named(adds) THEN dest[c] ELSE view[t][c]
              /\ DOMAIN moved' = Thread /\ DOMAIN view' = Thread
              /\ \A u \in Thread \ {t} : moved'[u] = moved[u] /\ view'[u] = view[u]
<1> DEFINE D == Named(adds)
           dest == [c \in D |-> (CHOOSE a \in ToSet(adds) : a.cell = c).bel]
           step == [c \in DOMAIN dest |-> [old |-> cellBel[c], new |-> dest[c]]]
<1>1. /\ moved' = [moved EXCEPT ![t] = Over(step, @)]
      /\ view' = [view EXCEPT ![t] = Over(dest, @)]
  BY DEF AddToMove, Named
<1>2. \A c \in D : \E a \in ToSet(adds) : a.cell = c /\ dest[c] = a.bel
  BY DEF Named
<1>3. DOMAIN dest = D /\ DOMAIN step = D
      /\ \A c \in D : step[c] = [old |-> cellBel[c], new |-> dest[c]]
  OBVIOUS
<1> HIDE DEF dest, step, D
<1>4. moved'[t] = Over(step, moved[t]) /\ view'[t] = Over(dest, view[t])
  BY <1>1 DEF TypeInv
<1>5. DOMAIN moved' = Thread /\ DOMAIN view' = Thread
      /\ \A u \in Thread \ {t} : moved'[u] = moved[u] /\ view'[u] = view[u]
  BY <1>1 DEF TypeInv
<1>6. /\ DOMAIN moved'[t] = D \cup DOMAIN moved[t]
      /\ \A c \in DOMAIN moved'[t] : moved'[t][c] =
            IF c \in D THEN [old |-> cellBel[c], new |-> dest[c]] ELSE moved[t][c]
  BY <1>3, <1>4 DEF Over
<1>7. /\ DOMAIN view'[t] = D \cup DOMAIN view[t]
      /\ \A c \in DOMAIN view'[t] : view'[t][c] = IF c \in D THEN dest[c] ELSE view[t][c]
  BY <1>3, <1>4 DEF Over
<1> QED BY <1>2, <1>5, <1>6, <1>7 DEF D

(* What of it a destination says, and that there is one.                   *)
Added(t, adds, dest) ==
    /\ \A c \in Named(adds) : \E a \in ToSet(adds) : a.cell = c /\ dest[c] = a.bel
    /\ DOMAIN moved'[t] = Named(adds) \cup DOMAIN moved[t]
    /\ \A c \in DOMAIN moved'[t] : moved'[t][c] =
          IF c \in Named(adds) THEN [old |-> cellBel[c], new |-> dest[c]] ELSE moved[t][c]
    /\ \A u \in Thread \ {t} : moved'[u] = moved[u] /\ view'[u] = view[u]
LEMMA AddDest ==
    ASSUME TypeInv, NEW t \in Thread, NEW adds, AddToMove(t, adds)
    PROVE  \E dest : Added(t, adds, dest)
<1> QED BY AddEffect DEF Added

(* A call of add_to_move, or two of them, that take the cell at the head   *)
(* of the list and perhaps a second one, of no cluster, to bels in the box *)
(* of the partition.                                                       *)
LEMMA AddStep ==
    ASSUME ApartInv, NEW t \in Thread, Adding(t), NEW adds, AddToMove(t, adds),
           UNCHANGED <<main, parts, yaxis, arch, archMutex, pc, chain, dirty>>,
           todo' = [todo EXCEPT ![t] = Tail(@)],
           NEW disp \in Seq([cluster : Cluster, root : Bels]),
           displaced' = [displaced EXCEPT ![t] = disp], chain[t] \/ disp = <<>>,
           \A i \in DOMAIN disp : /\ Reaches(t, disp[i].cluster)
                                  /\ MemberCells(disp[i].cluster) \cap Locked = {},
           Head(todo[t]).cell \in Named(adds),
           ~chain[t] => Named(adds) = {Head(todo[t]).cell},
           \A c \in Named(adds) : /\ c \in parts[t].cells \ Locked
                                  /\ c # Head(todo[t]).cell => ClusterOf[c] = NoCluster,
           \A a \in ToSet(adds) : a.bel \in BelsFor[a.cell] /\ InPartition(t, a.bel)
    PROVE  ApartInv'
<1> DEFINE D == Named(adds)  h == Head(todo[t]).cell
<1>1. TypeInv /\ MapsInverse /\ Phase(t) /\ MoveInv(t) /\ Requests(t) /\ WholeClusters(t)
      /\ ViewInv(t)
  BY DEF ApartInv, ThreadInv
<1>2. pc[t] = "adding" /\ ~dirty[t] /\ Running /\ todo[t] # <<>> /\ todo[t] \in Seq(ToType)
  BY <1>1 DEF Phase, Adding, TypeInv
<1>3. PICK dest :
        /\ \A c \in D : \E a \in ToSet(adds) : a.cell = c /\ dest[c] = a.bel
        /\ DOMAIN moved'[t] = D \cup DOMAIN moved[t]
        /\ \A c \in DOMAIN moved'[t] : moved'[t][c] =
              IF c \in D THEN [old |-> cellBel[c], new |-> dest[c]] ELSE moved[t][c]
        /\ DOMAIN view'[t] = D \cup DOMAIN view[t]
        /\ \A c \in DOMAIN view'[t] : view'[t][c] = IF c \in D THEN dest[c] ELSE view[t][c]
        /\ DOMAIN moved' = Thread /\ DOMAIN view' = Thread
        /\ \A u \in Thread \ {t} : moved'[u] = moved[u] /\ view'[u] = view[u]
  BY <1>1, AddEffect
<1>4. \A c \in D : dest[c] \in BelsFor[c] /\ InPartition(t, dest[c])
  BY <1>3
<1>5. /\ todo'[t] = Tail(todo[t]) /\ displaced'[t] = disp /\ chain'[t] = chain[t]
      /\ pc'[t] = "adding" /\ dirty'[t] = dirty[t]
      /\ \A u \in Thread \ {t} : Same(u)
  BY <1>1, <1>2, <1>3 DEF TypeInv, Same
<1>6. /\ Tail(todo[t]) \in Seq(ToType) /\ TodoCells(t) = {h} \cup TodoCells(t)'
      /\ h \notin TodoCells(t)'
      /\ \A i, j \in DOMAIN todo'[t] : todo'[t][i].cell = todo'[t][j].cell => i = j
  <2>1. /\ Tail(todo[t]) \in Seq(ToType) /\ ToSet(todo[t]) = {Head(todo[t])} \cup ToSet(Tail(todo[t]))
        /\ Len(Tail(todo[t])) = Len(todo[t]) - 1 /\ Len(todo[t]) \in Nat \ {0}
        /\ \A i \in 1 .. Len(todo[t]) - 1 : Tail(todo[t])[i] = todo[t][i + 1]
        /\ Head(todo[t]) = todo[t][1]
    BY <1>2, TakeHead
  <2>2. DOMAIN Tail(todo[t]) = 1 .. Len(todo[t]) - 1 /\ DOMAIN todo[t] = 1 .. Len(todo[t])
    BY <1>2, <2>1
  <2>3. \A i, j \in 1 .. Len(todo[t]) : todo[t][i].cell = todo[t][j].cell => i = j
    BY <1>1, <1>2, <2>2 DEF Requests
  <2>4. TodoCells(t) = {h} \cup TodoCells(t)'
    BY <1>5, <2>1 DEF TodoCells
  <2>5. h \notin TodoCells(t)'
    <3> SUFFICES ASSUME NEW i \in 1 .. Len(todo[t]) - 1, Tail(todo[t])[i].cell = h PROVE FALSE
      BY <1>5, <2>2, ZenonT(60) DEF TodoCells, ToSet
    <3>1. i + 1 \in 1 .. Len(todo[t]) /\ 1 \in 1 .. Len(todo[t]) /\ i + 1 # 1
      BY <2>1
    <3>2. todo[t][i + 1].cell = todo[t][1].cell
      BY <2>1
    <3> QED BY <2>3, <3>1, <3>2
  <2>6. ASSUME NEW i \in 1 .. Len(todo[t]) - 1, NEW j \in 1 .. Len(todo[t]) - 1,
               Tail(todo[t])[i].cell = Tail(todo[t])[j].cell
        PROVE  i = j
    <3>1. i + 1 \in 1 .. Len(todo[t]) /\ j + 1 \in 1 .. Len(todo[t])
      BY <2>1
    <3>2. todo[t][i + 1].cell = todo[t][j + 1].cell
      BY <2>1, <2>6
    <3>3. i + 1 = j + 1
      BY <2>3, <3>1, <3>2
    <3> QED BY <3>3
  <2>7. todo'[t] = Tail(todo[t]) /\ DOMAIN todo'[t] = 1 .. Len(todo[t]) - 1
    BY <1>5, <2>2
  <2>8. \A i, j \in DOMAIN todo'[t] : todo'[t][i].cell = todo'[t][j].cell => i = j
    BY <2>6, <2>7, ZenonT(60)
  <2> QED BY <2>1, <2>4, <2>5, <2>8
<1>7. TypeInv'
  BY <1>1, <1>3, <1>6 DEF TypeInv, arch, Running
<1>8. Phase(t)'
  BY <1>1, <1>2, <1>5 DEF Phase, Running
<1>9. MoveInv(t)'
  <2> SUFFICES ASSUME NEW c \in DOMAIN moved'[t]
               PROVE  /\ c \in parts[t].cells \ Locked
                      /\ moved'[t][c].old \in Bels /\ InPartition(t, moved'[t][c].old)
                      /\ moved'[t][c].new \in BelsFor[c] /\ InPartition(t, moved'[t][c].new)
                      /\ \A d \in DOMAIN moved'[t] : moved'[t][d].old = moved'[t][c].old => d = c
                      /\ cellBel[c] = moved'[t][c].old
    BY <1>2, <1>5 DEF MoveInv, arch, InPartition
  <2>1. ASSUME NEW d \in DOMAIN moved'[t]
        PROVE  /\ d \in parts[t].cells \ Locked
               /\ moved'[t][d].old = cellBel[d]
               /\ moved'[t][d].new \in BelsFor[d] /\ InPartition(t, moved'[t][d].new)
    <3>1. CASE d \in D
      <4>1. moved'[t][d] = [old |-> cellBel[d], new |-> dest[d]]
        BY <1>3, <3>1
      <4> QED BY <1>4, <3>1, <4>1
    <3>2. CASE d \notin D
      <4>1. d \in DOMAIN moved[t] /\ moved'[t][d] = moved[t][d]
        BY <1>3, <3>2
      <4> QED BY <1>1, <1>2, <4>1 DEF MoveInv
    <3> QED BY <3>1, <3>2
  <2>2. \A d \in DOMAIN moved'[t] : /\ cellBel[d] \in Bels /\ InPartition(t, cellBel[d])
                                    /\ belCell[cellBel[d]] = d
    BY <1>2, <2>1, PartBound
  <2> QED BY <2>1, <2>2
<1>10. Requests(t)'
  <2>1. parts'[t].cells # {} /\ TodoCells(t)' \cap Locked = {}
    BY <1>1, <1>2, <1>6 DEF Requests
  <2>2. ASSUME NEW c \in TodoCells(t)'
        PROVE  IF chain[t] THEN ClusterOf[c] # NoCluster /\ Reaches(t, ClusterOf[c])
               ELSE c \in parts[t].cells \ DOMAIN moved'[t]
    BY <1>1, <1>2, <1>3, <1>6 DEF Requests
  <2> QED BY <1>5, <1>6, <2>1, <2>2 DEF Requests, Reaches
<1>11. WholeClusters(t)'
  <2>1. Collected(t)' = Collected(t) \cup D
    BY <1>3, <1>6 DEF Collected
  <2>2. h \in Collected(t)
    BY <1>6 DEF Collected
  <2> QED BY <1>1, <1>2, <1>5, <2>1, <2>2 DEF WholeClusters
<1>12. ViewInv(t)'
  <2> SUFFICES ASSUME NEW c \in parts[t].cells \cap DOMAIN view'[t]
               PROVE  view'[t][c] = IF c \in DOMAIN moved'[t] THEN moved'[t][c].new
                                    ELSE cellBel[c]
    <3>1. parts' = parts /\ cellBel' = cellBel
      BY DEF arch
    <3> QED BY <3>1 DEF ViewInv
  <2>1. CASE c \in D
    <3>1. view'[t][c] = dest[c] /\ c \in DOMAIN moved'[t]
          /\ moved'[t][c] = [old |-> cellBel[c], new |-> dest[c]]
      BY <1>3, <2>1
    <3> QED BY <3>1
  <2>2. CASE c \notin D
    <3>1. view'[t][c] = view[t][c] /\ c \in DOMAIN view[t]
          /\ (c \in DOMAIN moved'[t] <=> c \in DOMAIN moved[t])
          /\ (c \in DOMAIN moved[t] => moved'[t][c] = moved[t][c])
      BY <1>3, <2>2
    <3> QED BY <1>1, <1>2, <3>1 DEF ViewInv
  <2> QED BY <2>1, <2>2
<1> QED BY <1>2, <1>5, <1>7, <1>8, <1>9, <1>10, <1>11, <1>12, LocalStep DEF ThreadInv

(* Taking the next cell into the move keeps the threads apart.             *)
LEMMA AddNextApart == ASSUME ApartInv, NEW t \in Thread, AddNext(t) PROVE ApartInv'
<1> DEFINE a == Head(todo[t])
<1>1. TypeInv /\ Phase(t) /\ Requests(t) /\ Adding(t) /\ ~chain[t] /\ pc[t] = "adding"
  BY DEF ApartInv, ThreadInv, AddNext, Adding
<1>2. CASE ~MayAdd(t, a.cell, cellBel[a.cell], a.bel)
  BY <1>1, <1>2, FailApart DEF AddNext
<1>3. CASE MayAdd(t, a.cell, cellBel[a.cell], a.bel)
  <2>1. /\ AddToMove(t, <<a>>) /\ todo' = [todo EXCEPT ![t] = Tail(@)]
        /\ UNCHANGED <<main, parts, yaxis, arch, archMutex, pc, chain, displaced, dirty>>
    BY <1>3 DEF AddNext, global
  <2>2. ToSet(<<a>>) = {a} /\ Named(<<a>>) = {a.cell}
    BY DEF ToSet, Named
  <2>3. displaced[t] \in Seq([cluster : Cluster, root : Bels])
        /\ displaced' = [displaced EXCEPT ![t] = displaced[t]]
    BY <1>1, <2>1 DEF TypeInv
  <2>4. a.cell \in TodoCells(t)
    <3>1. todo[t] \in Seq(ToType) /\ todo[t] # <<>>
      BY <1>1 DEF TypeInv, Adding
    <3>2. a \in ToSet(todo[t])
      BY <3>1, TakeHead
    <3> QED BY <3>2 DEF TodoCells
  <2>5. a.cell \in parts[t].cells \ Locked
    BY <1>1, <2>4 DEF Requests
  <2>6. a.bel \in BelsFor[a.cell] /\ InPartition(t, a.bel)
    BY <1>3 DEF MayAdd
  <2>7. /\ displaced[t] = <<>>
        /\ \A i \in DOMAIN displaced[t] : /\ Reaches(t, displaced[t][i].cluster)
                                          /\ MemberCells(displaced[t][i].cluster) \cap Locked = {}
    BY <1>1 DEF Requests
  <2> DEFINE adds == <<a>>  disp == displaced[t]
  <2>8. /\ AddToMove(t, adds) /\ Named(adds) = {Head(todo[t]).cell}
        /\ \A x \in ToSet(adds) : x.bel \in BelsFor[x.cell] /\ InPartition(t, x.bel)
        /\ disp \in Seq([cluster : Cluster, root : Bels])
        /\ displaced' = [displaced EXCEPT ![t] = disp] /\ disp = <<>>
        /\ \A i \in DOMAIN disp : /\ Reaches(t, disp[i].cluster)
                                  /\ MemberCells(disp[i].cluster) \cap Locked = {}
    BY <2>1, <2>2, <2>3, <2>6, <2>7
  <2>9. \A c \in Named(adds) : /\ c \in parts[t].cells \ Locked /\ c = Head(todo[t]).cell
    BY <2>5, <2>8
  <2> HIDE DEF adds, disp
  <2> QED BY <1>1, <2>1, <2>8, <2>9, AddStep
<1> QED BY <1>2, <1>3

(* Placing a displaced cluster keeps the threads apart.                    *)
LEMMA NextClusterApart == ASSUME ApartInv, NEW t \in Thread, NextCluster(t) PROVE ApartInv'
<1> DEFINE d == Head(displaced[t])
           k == d.cluster
           dest == ClusterPlacement(k, d.root)
<1>1. /\ TypeInv /\ Phase(t) /\ MoveInv(t) /\ Requests(t) /\ WholeClusters(t) /\ ViewInv(t)
      /\ pc[t] = "adding" /\ displaced[t] # <<>> /\ todo[t] = <<>>
  BY DEF ApartInv, ThreadInv, NextCluster
<1>2. CASE Fail(t)
  BY <1>1, <1>2, FailApart
<1>3. CASE /\ todo' = [todo EXCEPT ![t] = dest]
           /\ displaced' = [displaced EXCEPT ![t] = Tail(@)]
           /\ UNCHANGED <<global, arch, archMutex, pc, view, bounds, track, moved, chain,
                          used, dirty, tries>>
           /\ \A i \in DOMAIN dest : dest[i].bel \in BelsFor[dest[i].cell]
  <2>1. /\ Running /\ ~dirty[t] /\ displaced[t] \in Seq([cluster : Cluster, root : Bels])
    BY <1>1 DEF Phase, TypeInv
  <2>2. /\ k \in Cluster /\ Tail(displaced[t]) \in Seq([cluster : Cluster, root : Bels])
        /\ Len(displaced[t]) \in Nat \ {0} /\ Len(Tail(displaced[t])) = Len(displaced[t]) - 1
        /\ \A i \in 1 .. Len(displaced[t]) - 1 : Tail(displaced[t])[i] = displaced[t][i + 1]
        /\ d = displaced[t][1]
    <3> DEFINE S == [cluster : Cluster, root : Bels]
    <3>1. displaced[t] \in Seq(S)
      BY <2>1
    <3>2. \A x \in S : x.cluster \in Cluster
      OBVIOUS
    <3> HIDE DEF S
    <3>3. /\ d \in S /\ Tail(displaced[t]) \in Seq(S)
          /\ Len(displaced[t]) \in Nat \ {0} /\ Len(Tail(displaced[t])) = Len(displaced[t]) - 1
          /\ \A i \in 1 .. Len(displaced[t]) - 1 : Tail(displaced[t])[i] = displaced[t][i + 1]
          /\ d = displaced[t][1]
      BY <1>1, <3>1, TakeHead
    <3>4. k \in Cluster
      BY <3>2, <3>3
    <3> QED BY <3>3, <3>4 DEF S
  <2>3. Reaches(t, k) /\ MemberCells(k) \cap Locked = {}
    BY <1>1, <2>1, <2>2 DEF Requests
  <2>4. /\ Members[k] \in Seq(MemberType) /\ MemberCells(k) \subseteq Cells
        /\ \A i, j \in DOMAIN Members[k] : Members[k][i].cell = Members[k][j].cell => i = j
    BY <2>2, Clusters
  <2>5. /\ dest \in Seq(ToType) /\ DOMAIN dest = DOMAIN Members[k]
        /\ \A i \in DOMAIN dest : dest[i].cell = Members[k][i].cell
    <3>1. /\ DOMAIN dest = DOMAIN Members[k]
          /\ \A i \in DOMAIN dest : dest[i].cell = Members[k][i].cell
      BY DEF ClusterPlacement, To
    <3>2. \A i \in DOMAIN dest : dest[i] = [cell |-> dest[i].cell, bel |-> dest[i].bel]
      BY DEF ClusterPlacement, To
    <3>3. \A i \in DOMAIN Members[k] : Members[k][i].cell \in Cells
      BY <2>4 DEF MemberCells, ToSet
    <3>4. \A i \in DOMAIN dest : dest[i].bel \in Bels
      <4> HIDE DEF dest
      <4> QED BY <1>3, <3>1, <3>3, Grid
    <3>5. \A i \in DOMAIN dest : dest[i].bel \in [x : Int, y : Int, z : Int]
      BY <3>4, Grid
    <3>6. \A i \in DOMAIN dest : dest[i] \in ToType
      <4> HIDE DEF dest
      <4>1. ASSUME NEW i \in DOMAIN dest PROVE dest[i] \in ToType
        <5>1. dest[i].cell \in Cells /\ dest[i].bel \in [x : Int, y : Int, z : Int]
          BY <3>1, <3>3, <3>5
        <5>2. dest[i] = [cell |-> dest[i].cell, bel |-> dest[i].bel]
          BY <3>2
        <5> HIDE DEF k
        <5>3. \A a \in Cells, b \in [x : Int, y : Int, z : Int] :
                    [cell |-> a, bel |-> b] \in ToType
          BY DEF ToType
        <5> QED BY <5>1, <5>2, <5>3
      <4> QED BY <4>1
    <3>7. \E n \in Nat : DOMAIN dest = 1 .. n
      BY <2>4, <3>1
    <3>8. dest = [i \in DOMAIN dest |-> dest[i]]
      BY DEF ClusterPlacement
    <3> HIDE DEF dest
    <3> QED BY <3>1, <3>6, <3>7, <3>8
  <2> HIDE DEF dest
  <2>6. /\ todo'[t] = dest /\ displaced'[t] = Tail(displaced[t]) /\ pc' = pc
        /\ UNCHANGED <<main, parts, yaxis, arch, archMutex, moved, view, chain, dirty>>
        /\ \A u \in Thread \ {t} : Same(u)
    BY <1>1, <1>3 DEF TypeInv, Same, global
  <2>7. TypeInv'
    BY <1>1, <1>3, <2>2, <2>5, <2>6 DEF TypeInv, arch, Running
  <2>8. TodoCells(t)' = MemberCells(k)
    BY <2>5, <2>6 DEF TodoCells, MemberCells, ToSet
  <2>9. TodoCells(t) = {}
    BY <1>1 DEF TodoCells, ToSet
  <2>10. Phase(t)' /\ MoveInv(t)' /\ ViewInv(t)'
    <3>1. Phase(t)'
      BY <1>1, <2>1, <2>6 DEF Phase, Running
    <3>2. MoveInv(t)' /\ ViewInv(t)'
      BY <1>1, <2>6 DEF MoveInv, ViewInv, arch, InPartition
    <3> QED BY <3>1, <3>2
  <2>11. Requests(t)'
    <3>1. parts[t].cells # {} /\ TodoCells(t)' \cap Locked = {}
      BY <1>1, <2>3, <2>8 DEF Requests
    <3>2. \A i, j \in DOMAIN dest : dest[i].cell = dest[j].cell => i = j
      BY <2>4, <2>5
    <3>3. \A i \in DOMAIN Tail(displaced[t]) :
            /\ Reaches(t, Tail(displaced[t])[i].cluster)
            /\ MemberCells(Tail(displaced[t])[i].cluster) \cap Locked = {}
      <4>1. DOMAIN Tail(displaced[t]) = 1 .. Len(displaced[t]) - 1
            /\ DOMAIN displaced[t] = 1 .. Len(displaced[t])
        BY <2>1, <2>2
      <4>2. \A i \in 1 .. Len(displaced[t]) - 1 : i + 1 \in 1 .. Len(displaced[t])
        BY <2>2
      <4> QED BY <1>1, <2>2, <4>1, <4>2 DEF Requests
    <3>4. chain[t] /\ \A c \in MemberCells(k) : ClusterOf[c] = k /\ k # NoCluster
      <4>1. chain[t]
        BY <1>1 DEF Requests
      <4> QED BY <4>1, <2>2, <2>4, Clusters
    <3> QED BY <2>3, <2>6, <2>8, <3>1, <3>2, <3>3, <3>4 DEF Requests, Reaches
  <2>12. WholeClusters(t)'
    <3>1. Collected(t)' = Collected(t) \cup MemberCells(k)
      BY <2>6, <2>8, <2>9 DEF Collected
    <3>2. \A c \in MemberCells(k) : ClusterOf[c] = k
      BY <2>2, <2>4, Clusters
    <3> QED BY <1>1, <2>6, <3>1, <3>2 DEF WholeClusters
  <2> QED BY <2>1, <2>6, <2>7, <2>10, <2>11, <2>12, LocalStep DEF ThreadInv
<1> QED BY <1>2, <1>3 DEF NextCluster

(* Taking the next cell of a cluster into the move, with the cells it      *)
(* displaces, keeps the threads apart.                                     *)
LEMMA AddMemberApart == ASSUME ApartInv, NEW t \in Thread, AddMember(t) PROVE ApartInv'
<1> DEFINE a     == Head(todo[t])
           old   == cellBel[a.cell]
           bound == belCell[a.bel]
           DT    == [cluster : Cluster, root : Bels]
<1>1. /\ TypeInv /\ Phase(t) /\ Requests(t) /\ Adding(t) /\ pc[t] = "adding" /\ chain[t]
      /\ bound = belCell[a.bel]
  BY DEF ApartInv, ThreadInv, AddMember, Adding
<1>2. Running /\ ~dirty[t] /\ locked = Locked /\ parts[t].cells # {}
  BY <1>1 DEF Phase, TypeInv, Requests
<1>3. /\ a \in ToSet(todo[t]) /\ a.cell \in TodoCells(t)
  <2>1. todo[t] \in Seq(ToType) /\ todo[t] # <<>>
    BY <1>1 DEF TypeInv, Adding
  <2>2. a \in ToSet(todo[t])
    BY <2>1, TakeHead
  <2> QED BY <2>2 DEF TodoCells
<1>4. /\ displaced[t] \in Seq(DT) /\ displaced' = [displaced EXCEPT ![t] = displaced'[t]]
      /\ \A i \in DOMAIN displaced[t] :
            /\ Reaches(t, displaced[t][i].cluster)
            /\ MemberCells(displaced[t][i].cluster) \cap Locked = {}
  <2>1. displaced[t] \in Seq(DT)
    BY <1>1, ZenonT(60) DEF TypeInv
  <2>2. displaced' = [displaced EXCEPT ![t] = displaced'[t]]
    BY <1>1 DEF AddMember, Fail, local, TypeInv
  <2> QED BY <1>1, <2>1, <2>2 DEF Requests
<1> HIDE DEF a, old, bound, DT
<1>5. CASE Fail(t)
  BY <1>1, <1>5, FailApart
<1>6. CASE /\ a.cell \notin DOMAIN moved[t] /\ MayAdd(t, a.cell, old, a.bel)
           /\ todo' = [todo EXCEPT ![t] = Tail(@)]
           /\ UNCHANGED <<global, arch, archMutex, pc, bounds, chain, dirty, tries>>
           /\ \/ /\ AddToMove(t, <<a>>) /\ UNCHANGED displaced
              \/ /\ bound \notin locked /\ bound # NoCell /\ ClusterOf[bound] # NoCluster
                 /\ DisplacedRoot(old, bound) \in Bels
                 /\ AddToMove(t, <<a>>)
                 /\ displaced' = [displaced EXCEPT ![t] =
                        Append(@, [cluster |-> ClusterOf[bound],
                                   root |-> DisplacedRoot(old, bound)])]
              \/ /\ bound \notin locked /\ bound # NoCell /\ ClusterOf[bound] = NoCluster
                 /\ bound # a.cell
                 /\ MayAdd(t, bound, cellBel[bound], old)
                 /\ AddToMove(t, <<a, To(bound, old)>>) /\ UNCHANGED displaced
  <2>1. /\ ClusterOf[a.cell] \in Cluster /\ Reaches(t, ClusterOf[a.cell])
        /\ a.cell \in MemberCells(ClusterOf[a.cell]) /\ a.cell \in Cells \ Locked
    <3>1. /\ ClusterOf[a.cell] # NoCluster /\ Reaches(t, ClusterOf[a.cell])
          /\ a.cell \notin Locked
      BY <1>1, <1>3 DEF Requests
    <3>2. a.cell \in Cells
      <4>1. todo[t] \in Seq(ToType)
        BY <1>1 DEF TypeInv
      <4>2. a \in ToType
        BY <4>1, <1>3 DEF ToSet
      <4> QED BY <4>2 DEF ToType
    <3> QED BY <3>1, <3>2, Clusters
  <2>2. old \in Bels /\ InPartition(t, old) /\ InPartition(t, a.bel)
        /\ a.bel \in BelsFor[a.cell]
    BY <1>2, <1>6, <2>1, ClusterBound DEF MayAdd, old
  <2>3. a.cell \in parts[t].cells /\ a.bel \in Bels
    BY <1>2, <2>1, <2>2, InPart, Grid DEF old
  <2>4. bound # NoCell => bound \in parts[t].cells /\ bound \in Cells
    <3>1. bound # NoCell => bound \in parts[t].cells
      BY <1>1, <1>2, <2>2, <2>3, InPart
    <3> QED BY <1>2, <3>1, PartBound
  <2> DEFINE one == <<a>>  two == <<a, To(bound, old)>>
  <2>5. ToSet(one) = {a} /\ Named(one) = {a.cell}
    BY DEF ToSet, Named
  <2>6. ToSet(two) = {a, To(bound, old)} /\ Named(two) = {a.cell, bound}
    BY DEF ToSet, Named, To
  <2> HIDE DEF one, two
  <2>7. /\ UNCHANGED <<main, parts, yaxis, arch, archMutex, pc, chain, dirty>>
        /\ todo' = [todo EXCEPT ![t] = Tail(@)] /\ a = Head(todo[t])
    BY <1>6 DEF global, a
  <2>8. /\ \A x \in ToSet(one) : x.bel \in BelsFor[x.cell] /\ InPartition(t, x.bel)
        /\ \A c \in Named(one) : /\ c \in parts[t].cells \ Locked
                                 /\ c # a.cell => ClusterOf[c] = NoCluster
        /\ a.cell \in Named(one)
    BY <2>1, <2>2, <2>3, <2>5
  <2>9. CASE AddToMove(t, one) /\ UNCHANGED displaced
    <3>1. displaced' = [displaced EXCEPT ![t] = displaced[t]]
      BY <1>1, <2>9 DEF TypeInv
    <3> DEFINE disp == displaced[t]
    <3>2. /\ disp \in Seq(DT) /\ displaced' = [displaced EXCEPT ![t] = disp]
          /\ \A i \in DOMAIN disp : /\ Reaches(t, disp[i].cluster)
                                    /\ MemberCells(disp[i].cluster) \cap Locked = {}
      BY <1>4, <3>1
    <3> HIDE DEF disp
    <3> QED BY <1>1, <2>7, <2>8, <2>9, <3>2, AddStep DEF DT
  <2>10. CASE /\ bound \notin locked /\ bound # NoCell /\ ClusterOf[bound] # NoCluster
              /\ DisplacedRoot(old, bound) \in Bels
              /\ AddToMove(t, one)
              /\ displaced' = [displaced EXCEPT ![t] =
                     Append(@, [cluster |-> ClusterOf[bound],
                                root |-> DisplacedRoot(old, bound)])]
    <3> DEFINE k == ClusterOf[bound]
               e == [cluster |-> k, root |-> DisplacedRoot(old, bound)]
               disp == Append(displaced[t], e)
    <3>1. k \in Cluster /\ bound \in MemberCells(k)
      BY <2>4, <2>10, Clusters
    <3>2. Reaches(t, k) /\ MemberCells(k) \cap Locked = {}
      <4>1. Reaches(t, k)
        BY <2>4, <2>10, <3>1 DEF Reaches
      <4>2. bound \notin Locked
        BY <1>2, <2>10
      <4> HIDE DEF k
      <4> QED BY <3>1, <4>1, <4>2, Clusters
    <3>3. e \in DT /\ e.cluster = k
      BY <2>10, <3>1 DEF DT
    <3>4. displaced' = [displaced EXCEPT ![t] = disp]
      BY <2>10
    <3> HIDE DEF e, k
    <3>5. disp \in Seq(DT) /\ \A i \in DOMAIN disp : disp[i] = e \/
                                (i \in DOMAIN displaced[t] /\ disp[i] = displaced[t][i])
      BY <1>4, <3>3
    <3>6. \A i \in DOMAIN disp : /\ Reaches(t, disp[i].cluster)
                                 /\ MemberCells(disp[i].cluster) \cap Locked = {}
      BY <1>4, <3>2, <3>3, <3>5
    <3>7. AddToMove(t, one) /\ disp \in Seq([cluster : Cluster, root : Bels])
      BY <2>10, <3>5 DEF DT
    <3> HIDE DEF disp
    <3> QED BY <1>1, <2>7, <2>8, <3>4, <3>6, <3>7, AddStep
  <2>11. CASE /\ bound \notin locked /\ bound # NoCell /\ ClusterOf[bound] = NoCluster
              /\ bound # a.cell
              /\ MayAdd(t, bound, cellBel[bound], old)
              /\ AddToMove(t, two) /\ UNCHANGED displaced
    <3>1. displaced' = [displaced EXCEPT ![t] = displaced[t]]
      BY <1>1, <2>11 DEF TypeInv
    <3> DEFINE disp == displaced[t]
    <3>2. /\ disp \in Seq(DT) /\ displaced' = [displaced EXCEPT ![t] = disp]
          /\ \A i \in DOMAIN disp : /\ Reaches(t, disp[i].cluster)
                                    /\ MemberCells(disp[i].cluster) \cap Locked = {}
      BY <1>4, <3>1
    <3> HIDE DEF disp
    <3>3. old \in BelsFor[bound] /\ InPartition(t, old)
      BY <2>11 DEF MayAdd
    <3>4. /\ \A x \in ToSet(two) : x.bel \in BelsFor[x.cell] /\ InPartition(t, x.bel)
          /\ \A c \in Named(two) : /\ c \in parts[t].cells \ Locked
                                   /\ c # a.cell => ClusterOf[c] = NoCluster
          /\ a.cell \in Named(two)
      <4>1. To(bound, old).cell = bound /\ To(bound, old).bel = old
        BY DEF To
      <4> QED BY <1>2, <2>1, <2>2, <2>3, <2>4, <2>6, <2>11, <3>3, <4>1
    <3> QED BY <1>1, <2>7, <2>11, <3>2, <3>4, AddStep DEF DT
  <2> QED BY <1>6, <2>9, <2>10, <2>11 DEF one, two
<1> QED BY <1>5, <1>6 DEF AddMember, a, old, bound

-----------------------------------------------------------------------------
(* The cost of the move, and its acceptance.                               *)

LEMMA TotalApart == ASSUME ApartInv, NEW t \in Thread, ComputeTotalChange(t) PROVE ApartInv'
<1>1. TypeInv /\ ThreadInv(t)
  BY DEF ApartInv
<1>2. /\ pc'[t] = "decide" /\ pc[t] = "adding" /\ todo[t] = <<>> /\ displaced[t] = <<>>
      /\ UNCHANGED <<main, yaxis, parts, arch, archMutex, moved, view, dirty, todo, displaced, chain>>
      /\ \A u \in Thread \ {t} : Same(u)
  BY <1>1 DEF ComputeTotalChange, TypeInv, Same, global
<1>3. TypeInv'
  BY <1>1, <1>2 DEF TypeInv, ComputeTotalChange, arch, Running
<1>4. Phase(t)' /\ Requests(t)'
  BY <1>1, <1>2 DEF ThreadInv, Phase, Requests, Running
<1>5. MoveInv(t)' /\ ViewInv(t)'
  BY <1>1, <1>2 DEF ThreadInv, MoveInv, ViewInv, arch, InPartition, Phase
<1>6. WholeClusters(t)'
  BY <1>1, <1>2 DEF ThreadInv, WholeClusters, Collected, TodoCells
<1> QED BY <1>2, <1>3, <1>4, <1>5, <1>6, LocalStep DEF ThreadInv

(* The decision on the wirelength keeps the threads apart.                 *)
LEMMA AcceptApart == ASSUME ApartInv, NEW t \in Thread, AcceptMove(t) PROVE ApartInv'
<1>1. TypeInv /\ ThreadInv(t)
  BY DEF ApartInv
<1>2. /\ pc'[t] \in {"bind", "revert"} /\ pc[t] = "decide"
      /\ UNCHANGED <<main, yaxis, parts, arch, archMutex, moved, view, dirty, todo, displaced, chain>>
      /\ \A u \in Thread \ {t} : Same(u)
  BY <1>1 DEF AcceptMove, TypeInv, Same, global, local
<1>3. TypeInv'
  BY <1>1, <1>2 DEF TypeInv, AcceptMove, arch, Running
<1>4. Phase(t)' /\ Requests(t)'
  BY <1>1, <1>2 DEF ThreadInv, Phase, Requests, Running
<1>5. MoveInv(t)' /\ ViewInv(t)'
  BY <1>1, <1>2 DEF ThreadInv, MoveInv, ViewInv, arch, InPartition, Phase
<1>6. WholeClusters(t)'
  BY <1>1, <1>2 DEF ThreadInv, WholeClusters, Collected, TodoCells
<1> QED BY <1>2, <1>3, <1>4, <1>5, <1>6, LocalStep DEF ThreadInv

-----------------------------------------------------------------------------
(* The move in the context.                                                *)

LEMMA Unbound ==
    ASSUME TypeInv, MapsInverse, NEW C \in SUBSET (Cells \ Locked),
           \A c \in C : cellBel[c] # NoBel, Unbind(C)
    PROVE  /\ MapsInverse' /\ locked' = Locked
           /\ cellBel' \in [Cells -> Bels \cup {NoBel}] /\ belCell' \in [Bels -> Cells \cup {NoCell}]
           /\ \A c \in Cells : cellBel'[c] = IF c \in C THEN NoBel ELSE cellBel[c]
           /\ \A b \in Bels : belCell'[b] = IF belCell[b] \in C THEN NoCell ELSE belCell[b]
<1>1. /\ cellBel \in [Cells -> Bels \cup {NoBel}] /\ belCell \in [Bels -> Cells \cup {NoCell}]
      /\ locked = Locked
  BY DEF TypeInv
<1>2. /\ cellBel' \in [Cells -> Bels \cup {NoBel}] /\ locked' = Locked
      /\ \A c \in Cells : cellBel'[c] = IF c \in C THEN NoBel ELSE cellBel[c]
  BY <1>1 DEF Unbind
<1>3. \A b \in Bels : (\E c \in C : cellBel[c] = b) <=> belCell[b] \in C
  BY <1>1, Grid DEF MapsInverse
<1>4. /\ belCell' \in [Bels -> Cells \cup {NoCell}]
      /\ \A b \in Bels : belCell'[b] = IF belCell[b] \in C THEN NoCell ELSE belCell[b]
  BY <1>1, <1>3 DEF Unbind
<1>5. MapsInverse'
  <2>1. ASSUME NEW c \in Cells, cellBel'[c] # NoBel PROVE belCell'[cellBel'[c]] = c
    <3>1. c \notin C /\ cellBel'[c] = cellBel[c] /\ cellBel[c] \in Bels
      BY <1>1, <1>2, <2>1
    <3> QED BY <1>4, <2>1, <3>1 DEF MapsInverse
  <2>2. ASSUME NEW b \in Bels, belCell'[b] # NoCell PROVE cellBel'[belCell'[b]] = b
    <3>1. belCell'[b] = belCell[b] /\ belCell[b] \in Cells \ C
      BY <1>1, <1>4, <2>2
    <3> QED BY <1>2, <2>2, <3>1 DEF MapsInverse
  <2> QED BY <2>1, <2>2 DEF MapsInverse
<1> QED BY <1>2, <1>4, <1>5

(* Cells without a bel that are bound to free bels, each to its own, are   *)
(* on those bels; nothing else changes.                                    *)
LEMMA Bound ==
    ASSUME TypeInv, MapsInverse, NEW f, DOMAIN f \subseteq Cells \ Locked,
           \A c \in DOMAIN f : /\ f[c] \in Bels /\ cellBel[c] = NoBel /\ belCell[f[c]] = NoCell
                               /\ \A d \in DOMAIN f : f[d] = f[c] => d = c,
           Bind(f)
    PROVE  /\ MapsInverse' /\ locked' = Locked
           /\ cellBel' \in [Cells -> Bels \cup {NoBel}] /\ belCell' \in [Bels -> Cells \cup {NoCell}]
           /\ \A c \in Cells : cellBel'[c] = IF c \in DOMAIN f THEN f[c] ELSE cellBel[c]
           /\ \A b \in Bels : \/ belCell'[b] = belCell[b] /\ \A c \in DOMAIN f : f[c] # b
                              \/ belCell'[b] \in DOMAIN f /\ f[belCell'[b]] = b
<1>1. /\ cellBel \in [Cells -> Bels \cup {NoBel}] /\ belCell \in [Bels -> Cells \cup {NoCell}]
      /\ locked = Locked
  BY DEF TypeInv
<1>2. /\ cellBel' \in [Cells -> Bels \cup {NoBel}] /\ locked' = Locked
      /\ \A c \in Cells : cellBel'[c] = IF c \in DOMAIN f THEN f[c] ELSE cellBel[c]
  BY <1>1 DEF Bind
<1>3. \A b \in Bels : \/ belCell'[b] = belCell[b] /\ \A c \in DOMAIN f : f[c] # b
                      \/ belCell'[b] \in DOMAIN f /\ f[belCell'[b]] = b
  BY <1>1 DEF Bind, Range
<1>4. belCell' \in [Bels -> Cells \cup {NoCell}]
  <2>1. belCell' = [b \in Bels |-> belCell'[b]]
    BY DEF Bind
  <2>2. \A b \in Bels : belCell'[b] \in Cells \cup {NoCell}
    BY <1>1, <1>3
  <2> QED BY <2>1, <2>2
<1>5. MapsInverse'
  <2>1. ASSUME NEW c \in Cells, cellBel'[c] # NoBel PROVE belCell'[cellBel'[c]] = c
    <3>1. CASE c \in DOMAIN f
      BY <1>2, <1>3, <3>1
    <3>2. CASE c \notin DOMAIN f
      <4>1. cellBel'[c] = cellBel[c] /\ cellBel[c] \in Bels /\ belCell[cellBel[c]] = c
        BY <1>1, <1>2, <2>1, <3>2 DEF MapsInverse
      <4>2. \A d \in DOMAIN f : f[d] # cellBel[c]
        BY <4>1, Grid
      <4> QED BY <1>3, <4>1, <4>2
    <3> QED BY <3>1, <3>2
  <2>2. ASSUME NEW b \in Bels, belCell'[b] # NoCell PROVE cellBel'[belCell'[b]] = b
    <3>1. CASE belCell'[b] \in DOMAIN f /\ f[belCell'[b]] = b
      BY <1>2, <3>1
    <3>2. CASE belCell'[b] = belCell[b]
      <4>1. belCell[b] \in Cells /\ cellBel[belCell[b]] = b
        BY <1>1, <2>2, <3>2 DEF MapsInverse
      <4>2. belCell[b] \notin DOMAIN f
        BY <4>1, Grid
      <4> QED BY <1>2, <3>2, <4>1, <4>2
    <3> QED BY <1>3, <3>1, <3>2
  <2> QED BY <2>1, <2>2 DEF MapsInverse
<1> QED BY <1>2, <1>3, <1>4, <1>5

(* Unbinding the cells of the move, all inside the thread's box, keeps the *)
(* threads apart.                                                          *)
LEMMA BindBeginApart == ASSUME ApartInv, NEW t \in Thread, BindMoveBegin(t) PROVE ApartInv' /\ Within(t)
<1>1. /\ TypeInv /\ MapsInverse /\ Phase(t) /\ MoveInv(t) /\ WholeClusters(t) /\ ViewInv(t)
      /\ pc[t] = "bind" /\ archMutex = NoThread
  BY DEF ApartInv, ThreadInv, BindMoveBegin
<1>2. Running /\ ~dirty[t] /\ todo[t] = <<>> /\ displaced[t] = <<>>
  BY <1>1 DEF Phase
<1> DEFINE M == DOMAIN moved[t]
<1>3. \A c \in M : /\ c \in parts[t].cells \ Locked /\ c \in Cells /\ moved[t][c].old = cellBel[c]
                   /\ cellBel[c] \in Bels /\ InPartition(t, cellBel[c])
                   /\ belCell[cellBel[c]] = c
  BY <1>1, <1>2, PartBound DEF MoveInv
<1>4. Unbind(M)
  <2>1. \A c \in M : belCell[Old(t)[c]] = c
    BY <1>3 DEF Old
  <2>2. {belCell[Old(t)[c]] : c \in M} = M
    BY <2>1
  <2> QED BY <2>2 DEF BindMoveBegin
<1>5. M \in SUBSET (Cells \ Locked) /\ \A c \in M : cellBel[c] # NoBel
  BY <1>3, Grid
<1>6. /\ MapsInverse' /\ locked' = Locked
      /\ cellBel' \in [Cells -> Bels \cup {NoBel}] /\ belCell' \in [Bels -> Cells \cup {NoCell}]
      /\ \A c \in Cells : cellBel'[c] = IF c \in M THEN NoBel ELSE cellBel[c]
      /\ \A b \in Bels : belCell'[b] = IF belCell[b] \in M THEN NoCell ELSE belCell[b]
  <2> HIDE DEF M
  <2> QED BY <1>1, <1>4, <1>5, Unbound
<1>7. /\ pc'[t] = "binding" /\ dirty'[t] /\ archMutex' = t
      /\ UNCHANGED <<main, yaxis, parts, moved, view, todo, displaced, chain>>
      /\ \A u \in Thread \ {t} : Same(u) /\ (archMutex' = u <=> archMutex = u)
  BY <1>1, Grid DEF BindMoveBegin, TypeInv, Same, global, local
<1>8. TypeInv'
  BY <1>1, <1>6, <1>7 DEF TypeInv, BindMoveBegin, Running
<1>9. Phase(t)' /\ Requests(t)'
  BY <1>2, <1>7 DEF Phase, Requests, Running
<1>10. MoveInv(t)'
  BY <1>1, <1>3, <1>6, <1>7 DEF MoveInv, InPartition
<1>11. WholeClusters(t)' /\ ViewInv(t)'
  <2>1. WholeClusters(t)'
    BY <1>1, <1>7 DEF WholeClusters, Collected, TodoCells
  <2>2. \A c \in parts[t].cells : c \in Cells
    BY <1>2, PartBound
  <2>3. ViewInv(t)'
    BY <1>1, <1>6, <1>7, <2>2 DEF ViewInv
  <2> QED BY <2>1, <2>3
<1>12. \A b \in Bels : belCell'[b] # belCell[b] => M # {} /\ InPartition(t, b)
  <2> SUFFICES ASSUME NEW b \in Bels, belCell'[b] # belCell[b] PROVE M # {} /\ InPartition(t, b)
    OBVIOUS
  <2>1. belCell[b] \in M
    BY <1>6
  <2>2. cellBel[belCell[b]] = b
    <3>1. belCell[b] # NoCell
      BY <1>3, <2>1, Grid
    <3> QED BY <1>1, <3>1 DEF MapsInverse
  <2> QED BY <1>3, <2>1, <2>2
<1>13. /\ \A c \in Cells \ M : cellBel'[c] = cellBel[c]
       /\ \A c \in M : cellBel'[c] = NoBel /\ dirty'[t] /\ c \in DOMAIN moved'[t]
  BY <1>3, <1>6, <1>7
<1> QED BY <1>2, <1>6, <1>7, <1>8, <1>9, <1>10, <1>11, <1>12, <1>13, ContextStep DEF ThreadInv, Within

(* Binding a cell of the move, inside the thread's box, keeps the threads  *)
(* apart.                                                                  *)
LEMMA BindCellApart == ASSUME ApartInv, NEW t \in Thread, BindMoveCell(t) PROVE ApartInv' /\ Within(t)
<1>1. /\ TypeInv /\ MapsInverse /\ Phase(t) /\ MoveInv(t) /\ WholeClusters(t) /\ ViewInv(t)
      /\ pc[t] = "binding"
  BY DEF ApartInv, ThreadInv, BindMoveCell
<1>2. /\ Running /\ dirty[t] /\ archMutex = t /\ todo[t] = <<>> /\ displaced[t] = <<>>
  BY <1>1 DEF Phase
<1> DEFINE M == DOMAIN moved[t]
           new(c) == moved[t][c].new
<1>3. PICK c \in M :
        /\ cellBel[c] = NoBel
        /\ IF BelAvail(new(c))
           THEN /\ Bind([d \in {c} |-> new(c)])
                /\ IF \E d \in M \ {c} : cellBel[d] = NoBel
                   THEN UNCHANGED <<pc, archMutex>>
                   ELSE pc' = [pc EXCEPT ![t] = "check"] /\ archMutex' = NoThread
           ELSE /\ pc' = [pc EXCEPT ![t] = "revert"] /\ archMutex' = NoThread
                /\ UNCHANGED arch
  BY DEF BindMoveCell
<1>4. \A d \in M : /\ d \in parts[t].cells \ Locked /\ d \in Cells
                   /\ new(d) \in Bels /\ InPartition(t, new(d))
  <2>1. \A d \in M : /\ d \in parts[t].cells \ Locked
                     /\ new(d) \in BelsFor[d] /\ InPartition(t, new(d))
    BY <1>1 DEF MoveInv
  <2>2. \A d \in M : d \in Cells
    BY <1>1, <1>2, <2>1 DEF ApartInv, PartsApart, TypeInv, Thread
  <2> QED BY <2>1, <2>2, Grid
<1>5. /\ UNCHANGED <<main, yaxis, parts, moved, view, todo, displaced, chain, dirty>>
      /\ \A u \in Thread \ {t} : Same(u) /\ (archMutex' = u <=> archMutex = u)
      /\ pc'[t] \in {"binding", "check", "revert"}
      /\ pc' \in [Thread -> {"joined", "idle", "searching", "adding", "decide", "bind", "binding",
                             "check", "commit", "revert", "rebind"}]
      /\ archMutex' = t <=> pc'[t] = "binding"
      /\ archMutex' \in {t, NoThread}
    <2>1. UNCHANGED <<main, yaxis, parts, moved, view, todo, displaced, chain, dirty>>
      BY DEF BindMoveCell, global, local
    <2>2. /\ pc' = pc \/ pc' = [pc EXCEPT ![t] = "check"] \/ pc' = [pc EXCEPT ![t] = "revert"]
          /\ IF pc' = pc THEN archMutex' \in {t, NoThread} ELSE archMutex' = NoThread
      BY <1>2, <1>3
    <2>3. /\ pc'[t] \in {"binding", "check", "revert"} /\ (archMutex' = t <=> pc'[t] = "binding")
          /\ archMutex' \in {t, NoThread}
      BY <1>1, <1>2, <1>3, Grid DEF TypeInv
    <2>4. /\ \A u \in Thread \ {t} : pc'[u] = pc[u]
          /\ pc' \in [Thread -> {"joined", "idle", "searching", "adding", "decide", "bind", "binding",
                                 "check", "commit", "revert", "rebind"}]
      BY <1>1, <2>2 DEF TypeInv
    <2>5. \A u \in Thread \ {t} : archMutex' # u /\ archMutex # u
      BY <1>2, <2>3, Grid
    <2> QED BY <2>1, <2>3, <2>4, <2>5 DEF Same
<1>6. CASE BelAvail(new(c))
  <2> DEFINE f == [d \in {c} |-> new(c)]
  <2>1. /\ Bind(f) /\ DOMAIN f = {c} /\ f[c] = new(c)
        /\ DOMAIN f \subseteq Cells \ Locked
        /\ \A e \in DOMAIN f : /\ f[e] \in Bels /\ cellBel[e] = NoBel /\ belCell[f[e]] = NoCell
                               /\ \A d \in DOMAIN f : f[d] = f[e] => d = e
    BY <1>3, <1>4, <1>6 DEF BelAvail
  <2> HIDE DEF f
  <2>2. /\ MapsInverse' /\ locked' = Locked
        /\ cellBel' \in [Cells -> Bels \cup {NoBel}] /\ belCell' \in [Bels -> Cells \cup {NoCell}]
        /\ \A d \in Cells : cellBel'[d] = IF d \in DOMAIN f THEN f[d] ELSE cellBel[d]
        /\ \A b \in Bels : \/ belCell'[b] = belCell[b] /\ \A d \in DOMAIN f : f[d] # b
                           \/ belCell'[b] \in DOMAIN f /\ f[belCell'[b]] = b
    BY <1>1, <2>1, Bound
  <2>3. /\ \A d \in Cells : cellBel'[d] = IF d = c THEN new(c) ELSE cellBel[d]
        /\ \A b \in Bels : belCell'[b] = belCell[b] \/ (belCell'[b] = c /\ b = new(c))
    BY <2>1, <2>2
  <2>4. TypeInv'
    <3>1. archMutex' \in Thread \cup {NoThread}
      BY <1>5
    <3>2. UNCHANGED <<main, yaxis, parts, moved, view, todo, displaced, chain, dirty>>
      BY <1>5
    <3>3. pc' \in [Thread -> {"joined", "idle", "searching", "adding", "decide", "bind", "binding",
                              "check", "commit", "revert", "rebind"}]
      BY <1>5
    <3> QED BY <1>1, <2>2, <3>1, <3>2, <3>3 DEF TypeInv, Running
  <2>5. Phase(t)' /\ Requests(t)'
    BY <1>2, <1>5 DEF Phase, Requests, Running
  <2>6. MoveInv(t)'
    <3>1. pc'[t] \in {"check", "commit"} => \A d \in M \ {c} : cellBel[d] # NoBel
      BY <1>1, <1>3, <1>6
    <3>2. ASSUME NEW d \in M
          PROVE  /\ belCell'[moved[t][d].old] \in M \cup {NoCell}
                 /\ cellBel'[d] \in {NoBel, new(d)}
                 /\ pc'[t] \in {"check", "commit"} => cellBel'[d] # NoBel
      <4>1. /\ moved[t][d].old \in Bels /\ belCell[moved[t][d].old] \in M \cup {NoCell}
            /\ cellBel[d] \in {NoBel, new(d)} /\ d \in Cells
        BY <1>1, <1>2, <1>4 DEF MoveInv
      <4>2. belCell'[moved[t][d].old] \in M \cup {NoCell}
        BY <2>3, <4>1
      <4>3. cellBel'[d] = IF d = c THEN new(c) ELSE cellBel[d]
        BY <2>3, <4>1
      <4>4. new(c) # NoBel
        BY <1>4, Grid
      <4> QED BY <3>1, <4>1, <4>2, <4>3, <4>4
    <3> QED BY <1>1, <1>2, <1>5, <3>2 DEF MoveInv, InPartition
  <2>7. WholeClusters(t)' /\ ViewInv(t)'
    <3>1. WholeClusters(t)'
      BY <1>1, <1>5 DEF WholeClusters, Collected, TodoCells
    <3>2. \A d \in parts[t].cells : d \in Cells
      BY <1>1, <1>2 DEF ApartInv, PartsApart, TypeInv, Thread
    <3>3. ViewInv(t)'
      BY <1>1, <1>5, <2>3, <3>2 DEF ViewInv
    <3> QED BY <3>1, <3>3
  <2>8. /\ \A d \in Cells \ M : cellBel'[d] = cellBel[d]
        /\ \A d \in M : /\ cellBel'[d] = NoBel => dirty'[t] /\ d \in DOMAIN moved'[t]
                        /\ cellBel'[d] # NoBel => InPartition(t, cellBel'[d])
        /\ \A b \in Bels : belCell'[b] # belCell[b] => M # {} /\ InPartition(t, b)
    <3>1. \A d \in M : cellBel[d] \in {NoBel, new(d)}
      BY <1>1, <1>2 DEF MoveInv
    <3> QED BY <1>2, <1>4, <1>5, <2>3, <3>1
  <2> QED BY <1>2, <1>5, <2>2, <2>4, <2>5, <2>6, <2>7, <2>8, ContextStep DEF ThreadInv, Within
<1>7. CASE ~BelAvail(new(c))
  <2>1. UNCHANGED arch /\ pc'[t] = "revert"
    BY <1>1, <1>3, <1>7 DEF TypeInv
  <2>2. TypeInv' /\ MapsInverse'
    BY <1>1, <1>2, <1>5, <2>1, Grid DEF TypeInv, MapsInverse, Running, arch
  <2>3. Phase(t)' /\ Requests(t)'
    BY <1>2, <1>5, <2>1 DEF Phase, Requests, Running
  <2>4. MoveInv(t)'
    BY <1>1, <1>2, <1>5, <2>1 DEF MoveInv, InPartition, arch
  <2>5. WholeClusters(t)' /\ ViewInv(t)'
    BY <1>1, <1>5, <2>1 DEF WholeClusters, ViewInv, Collected, TodoCells, arch
  <2>6. \A d \in M : /\ cellBel'[d] = NoBel => dirty'[t] /\ d \in DOMAIN moved'[t]
                     /\ cellBel'[d] # NoBel => InPartition(t, cellBel'[d])
    <3>1. \A d \in M : cellBel[d] \in {NoBel, new(d)}
      BY <1>1, <1>2 DEF MoveInv
    <3> QED BY <1>2, <1>4, <1>5, <2>1, <3>1 DEF arch
  <2> QED BY <1>2, <1>5, <2>1, <2>2, <2>3, <2>4, <2>5, <2>6, ContextStep DEF ThreadInv, Within, arch
<1> QED BY <1>6, <1>7

(* The check of the tiles keeps the threads apart.                         *)
LEMMA CheckApart == ASSUME ApartInv, NEW t \in Thread, CheckValidity(t) PROVE ApartInv'
<1>1. TypeInv /\ ThreadInv(t) /\ pc[t] = "check"
  BY DEF ApartInv, CheckValidity
<1>2. /\ pc'[t] \in {"commit", "revert"}
      /\ UNCHANGED <<main, yaxis, parts, arch, archMutex, moved, view, dirty, todo, displaced, chain>>
      /\ \A u \in Thread \ {t} : Same(u)
  BY <1>1 DEF CheckValidity, TypeInv, Same, global, local
<1>3. TypeInv'
  BY <1>1, <1>2 DEF TypeInv, CheckValidity, arch, Running
<1>4. Phase(t)' /\ Requests(t)'
  BY <1>1, <1>2 DEF ThreadInv, Phase, Requests, Running
<1>5. MoveInv(t)' /\ ViewInv(t)'
  BY <1>1, <1>2 DEF ThreadInv, MoveInv, ViewInv, arch, InPartition, Phase
<1>6. WholeClusters(t)'
  BY <1>1, <1>2 DEF ThreadInv, WholeClusters, Collected, TodoCells, Phase
<1> QED BY <1>2, <1>3, <1>4, <1>5, <1>6, LocalStep DEF ThreadInv

(* What reset_move_state leaves behind. *)
LEMMA ResetEffect ==
    ASSUME TypeInv, NEW t \in Thread, NEW nb, ResetMoveState(t, nb),
           dirty' = [dirty EXCEPT ![t] = FALSE]
    PROVE  /\ pc'[t] = "idle" /\ moved'[t] = <<>> /\ todo'[t] = <<>> /\ displaced'[t] = <<>>
           /\ ~dirty'[t] /\ DOMAIN moved'[t] = {} /\ TodoCells(t)' = {} /\ Collected(t)' = {}
           /\ pc' \in [Thread -> {"joined", "idle", "searching", "adding", "decide", "bind", "binding",
                                  "check", "commit", "revert", "rebind"}]
           /\ dirty' \in [Thread -> BOOLEAN] /\ chain' \in [Thread -> BOOLEAN]
           /\ DOMAIN moved' = Thread /\ todo' \in [Thread -> Seq(ToType)]
           /\ displaced' \in [Thread -> Seq([cluster : Cluster, root : Bels])]
           /\ \A u \in Thread \ {t} :
                /\ pc'[u] = pc[u] /\ dirty'[u] = dirty[u] /\ moved'[u] = moved[u]
                /\ todo'[u] = todo[u] /\ displaced'[u] = displaced[u] /\ chain'[u] = chain[u]
<1>1. /\ pc'[t] = "idle" /\ moved'[t] = <<>> /\ todo'[t] = <<>> /\ displaced'[t] = <<>>
      /\ ~dirty'[t] /\ DOMAIN moved' = Thread
      /\ \A u \in Thread \ {t} :
            /\ pc'[u] = pc[u] /\ dirty'[u] = dirty[u] /\ moved'[u] = moved[u]
            /\ todo'[u] = todo[u] /\ displaced'[u] = displaced[u] /\ chain'[u] = chain[u]
  BY DEF ResetMoveState, TypeInv
<1>2. /\ pc' \in [Thread -> {"joined", "idle", "searching", "adding", "decide", "bind", "binding",
                             "check", "commit", "revert", "rebind"}]
      /\ dirty' \in [Thread -> BOOLEAN] /\ chain' \in [Thread -> BOOLEAN]
      /\ todo' \in [Thread -> Seq(ToType)]
      /\ displaced' \in [Thread -> Seq([cluster : Cluster, root : Bels])]
  <2>1. pc' \in [Thread -> {"joined", "idle", "searching", "adding", "decide", "bind", "binding",
                            "check", "commit", "revert", "rebind"}]
    BY DEF ResetMoveState, TypeInv
  <2>2. dirty' \in [Thread -> BOOLEAN] /\ chain' \in [Thread -> BOOLEAN]
    BY DEF ResetMoveState, TypeInv
  <2>3. todo' \in [Thread -> Seq(ToType)]
    BY DEF ResetMoveState, TypeInv
  <2>4. displaced' \in [Thread -> Seq([cluster : Cluster, root : Bels])]
    <3> DEFINE S == [cluster : Cluster, root : Bels]
    <3>1. displaced \in [Thread -> Seq(S)]
      BY DEF TypeInv
    <3> HIDE DEF S
    <3>2. displaced' \in [Thread -> Seq(S)]
      BY <3>1 DEF ResetMoveState
    <3> QED BY <3>2 DEF S
  <2> QED BY <2>1, <2>2, <2>3, <2>4
<1>3. DOMAIN moved'[t] = {} /\ TodoCells(t)' = {}
  BY <1>1 DEF TodoCells, ToSet
<1> QED BY <1>1, <1>2, <1>3 DEF Collected

(* A commit keeps the threads apart.                                       *)
LEMMA CommitApart == ASSUME ApartInv, NEW t \in Thread, CommitMove(t) PROVE ApartInv'
<1>1. /\ TypeInv /\ Phase(t) /\ MoveInv(t) /\ ViewInv(t) /\ pc[t] = "commit" /\ dirty[t]
      /\ Running
  BY DEF ApartInv, ThreadInv, CommitMove, Phase
<1>2. /\ pc'[t] = "idle" /\ moved'[t] = <<>> /\ todo'[t] = <<>> /\ displaced'[t] = <<>>
      /\ ~dirty'[t] /\ DOMAIN moved'[t] = {} /\ TodoCells(t)' = {} /\ Collected(t)' = {}
      /\ UNCHANGED <<main, yaxis, parts, arch, archMutex, view>>
      /\ \A u \in Thread \ {t} : Same(u)
  BY <1>1, ResetEffect DEF CommitMove, Same, global
<1>3. TypeInv'
  BY <1>1, <1>2, ResetEffect, ZenonT(60) DEF TypeInv, CommitMove, arch, Running
<1>4. \A c \in DOMAIN moved[t] : cellBel[c] = moved[t][c].new /\ cellBel[c] # NoBel
  BY <1>1 DEF MoveInv
<1>5. ThreadInv(t)'
  <2>1. Phase(t)' /\ MoveInv(t)' /\ Requests(t)' /\ WholeClusters(t)'
    BY <1>1, <1>2 DEF Phase, MoveInv, Requests, WholeClusters, Running
  <2>2. ViewInv(t)'
    BY <1>1, <1>2, <1>4 DEF ViewInv, arch
  <2> QED BY <2>1, <2>2 DEF ThreadInv
<1> QED BY <1>2, <1>3, <1>4, <1>5, LocalStep

(* The thread's map after revert_move. *)
LEMMA Forgotten ==
    ASSUME TypeInv, NEW t \in Thread, Forget(t)
    PROVE  /\ DOMAIN view' = Thread /\ \A u \in Thread \ {t} : Same(u)
           /\ \A c \in DOMAIN view'[t] : view'[t][c] =
                IF c \in DOMAIN moved[t] THEN moved[t][c].old ELSE view[t][c]
           /\ \A c \in DOMAIN view'[t] \ DOMAIN moved[t] : c \in DOMAIN view[t]
           /\ pc'[t] = "idle" /\ moved'[t] = <<>> /\ todo'[t] = <<>> /\ displaced'[t] = <<>>
           /\ ~dirty'[t] /\ DOMAIN moved'[t] = {} /\ TodoCells(t)' = {} /\ Collected(t)' = {}
           /\ UNCHANGED <<main, yaxis, parts>>
<1>1. /\ view' = [view EXCEPT ![t] = Over(Old(t), @)] /\ ResetMoveState(t, bounds[t])
      /\ dirty' = [dirty EXCEPT ![t] = FALSE] /\ UNCHANGED <<main, yaxis, parts>>
  BY DEF Forget, global
<1>2. /\ DOMAIN view' = Thread /\ \A u \in Thread \ {t} : view'[u] = view[u]
      /\ view'[t] = Over(Old(t), view[t])
  BY <1>1 DEF TypeInv
<1>3. /\ \A c \in DOMAIN view'[t] : view'[t][c] =
            IF c \in DOMAIN moved[t] THEN moved[t][c].old ELSE view[t][c]
      /\ \A c \in DOMAIN view'[t] \ DOMAIN moved[t] : c \in DOMAIN view[t]
  BY <1>2 DEF Over, Old
<1>4. \A u \in Thread \ {t} :
        /\ pc'[u] = pc[u] /\ dirty'[u] = dirty[u] /\ moved'[u] = moved[u]
        /\ todo'[u] = todo[u] /\ displaced'[u] = displaced[u] /\ chain'[u] = chain[u]
  BY <1>1, ResetEffect
<1>5. /\ pc'[t] = "idle" /\ moved'[t] = <<>> /\ todo'[t] = <<>> /\ displaced'[t] = <<>>
      /\ ~dirty'[t] /\ DOMAIN moved'[t] = {} /\ TodoCells(t)' = {} /\ Collected(t)' = {}
  BY <1>1, ResetEffect
<1>6. \A u \in Thread \ {t} : Same(u)
  BY <1>2, <1>4 DEF Same
<1> QED BY <1>1, <1>2, <1>3, <1>5, <1>6

(* Dropping a move that was not bound keeps the threads apart.             *)
LEMMA CleanApart == ASSUME ApartInv, NEW t \in Thread, RevertClean(t) PROVE ApartInv'
<1>1. /\ TypeInv /\ Phase(t) /\ MoveInv(t) /\ ViewInv(t) /\ pc[t] = "revert" /\ ~dirty[t]
      /\ Running /\ Forget(t) /\ UNCHANGED <<arch, archMutex>>
  BY DEF ApartInv, ThreadInv, RevertClean, Phase
<1>2. ResetMoveState(t, bounds[t]) /\ dirty' = [dirty EXCEPT ![t] = FALSE]
  BY <1>1 DEF Forget
<1>3. TypeInv'
  BY <1>1, <1>2, ResetEffect, Forgotten DEF TypeInv, arch, Running
<1>4. ThreadInv(t)'
  <2>1. Phase(t)' /\ MoveInv(t)' /\ Requests(t)' /\ WholeClusters(t)'
    BY <1>1, Forgotten DEF Phase, MoveInv, Requests, WholeClusters, Running
  <2>2. ViewInv(t)'
    <3> SUFFICES ASSUME NEW c \in parts[t].cells \cap DOMAIN view'[t]
                 PROVE  view'[t][c] = cellBel[c]
      <4>1. parts' = parts /\ cellBel' = cellBel /\ DOMAIN moved'[t] = {}
        BY <1>1, Forgotten DEF arch
      <4> QED BY <4>1 DEF ViewInv
    <3>1. CASE c \in DOMAIN moved[t]
      <4>1. view'[t][c] = moved[t][c].old
        BY <1>1, <3>1, Forgotten
      <4> QED BY <1>1, <3>1, <4>1 DEF MoveInv
    <3>2. CASE c \notin DOMAIN moved[t]
      <4>1. view'[t][c] = view[t][c] /\ c \in DOMAIN view[t]
        BY <1>1, <3>2, Forgotten
      <4> QED BY <1>1, <3>2, <4>1 DEF ViewInv
    <3> QED BY <3>1, <3>2
  <2> QED BY <2>1, <2>2 DEF ThreadInv
<1>5. UNCHANGED <<main, parts>> /\ \A u \in Thread \ {t} : Same(u)
  BY <1>1, Forgotten
<1> QED BY <1>1, <1>3, <1>4, <1>5, LocalStep

(* Unbinding the cells of a move that is taken back, inside the thread's   *)
(* box, keeps the threads apart.                                           *)
LEMMA UnbindApart == ASSUME ApartInv, NEW t \in Thread, RevertUnbind(t) PROVE ApartInv' /\ Within(t)
<1>1. /\ TypeInv /\ MapsInverse /\ Phase(t) /\ MoveInv(t) /\ WholeClusters(t) /\ ViewInv(t)
      /\ pc[t] = "revert" /\ dirty[t] /\ archMutex = NoThread
  BY DEF ApartInv, ThreadInv, RevertUnbind
<1>2. Running /\ todo[t] = <<>> /\ displaced[t] = <<>>
  BY <1>1 DEF Phase
<1> DEFINE M == DOMAIN moved[t]
           C == {c \in M : cellBel[c] # NoBel}
<1>3. \A c \in parts[t].cells : c \in Cells
  BY <1>1, <1>2 DEF ApartInv, PartsApart, TypeInv, Thread
<1>4. \A c \in M : /\ c \in parts[t].cells \ Locked /\ c \in Cells
                   /\ moved[t][c].old \in Bels /\ InPartition(t, moved[t][c].old)
                   /\ moved[t][c].new \in Bels /\ InPartition(t, moved[t][c].new)
                   /\ cellBel[c] \in {NoBel, moved[t][c].new}
                   /\ belCell[moved[t][c].old] \in M \cup {NoCell}
  <2>1. \A c \in M : /\ c \in parts[t].cells \ Locked
                     /\ moved[t][c].old \in Bels /\ InPartition(t, moved[t][c].old)
                     /\ moved[t][c].new \in BelsFor[c] /\ InPartition(t, moved[t][c].new)
                     /\ cellBel[c] \in {NoBel, moved[t][c].new}
                     /\ belCell[moved[t][c].old] \in M \cup {NoCell}
    BY <1>1 DEF MoveInv
  <2> QED BY <2>1, <1>3, Grid
<1>5. Unbind(C) /\ C \in SUBSET (Cells \ Locked) /\ \A c \in C : cellBel[c] # NoBel
  BY <1>4 DEF RevertUnbind
<1>6. /\ MapsInverse' /\ locked' = Locked
      /\ cellBel' \in [Cells -> Bels \cup {NoBel}] /\ belCell' \in [Bels -> Cells \cup {NoCell}]
      /\ \A c \in Cells : cellBel'[c] = IF c \in C THEN NoBel ELSE cellBel[c]
      /\ \A b \in Bels : belCell'[b] = IF belCell[b] \in C THEN NoCell ELSE belCell[b]
  <2> HIDE DEF C
  <2> QED BY <1>1, <1>5, Unbound
<1>7. /\ pc'[t] = "rebind" /\ dirty'[t] /\ archMutex' = t
      /\ UNCHANGED <<main, yaxis, parts, moved, view, todo, displaced, chain, dirty>>
      /\ \A u \in Thread \ {t} : Same(u) /\ (archMutex' = u <=> archMutex = u)
  BY <1>1, Grid DEF RevertUnbind, TypeInv, Same, global, local
<1>8. TypeInv'
  BY <1>1, <1>6, <1>7 DEF TypeInv, RevertUnbind, Running
<1>9. Phase(t)' /\ Requests(t)'
  BY <1>2, <1>7 DEF Phase, Requests, Running
<1>10. \A c \in M : cellBel'[c] = NoBel
  BY <1>4, <1>6
<1>11. MoveInv(t)'
  <2>1. \A c \in M : belCell'[moved[t][c].old] \in M \cup {NoCell}
    BY <1>4, <1>6
  <2> QED BY <1>1, <1>7, <1>10, <2>1 DEF MoveInv, InPartition
<1>12. WholeClusters(t)' /\ ViewInv(t)'
  <2>1. WholeClusters(t)'
    BY <1>1, <1>7 DEF WholeClusters, Collected, TodoCells
  <2>2. ViewInv(t)'
    BY <1>1, <1>3, <1>6, <1>7 DEF ViewInv
  <2> QED BY <2>1, <2>2
<1>13. \A b \in Bels : belCell'[b] # belCell[b] => M # {} /\ InPartition(t, b)
  <2> SUFFICES ASSUME NEW b \in Bels, belCell'[b] # belCell[b] PROVE M # {} /\ InPartition(t, b)
    OBVIOUS
  <2>1. belCell[b] \in C
    BY <1>6
  <2>2. cellBel[belCell[b]] = b
    <3>1. belCell[b] # NoCell
      BY <1>4, <2>1, Grid
    <3> QED BY <1>1, <3>1 DEF MapsInverse
  <2> QED BY <1>4, <2>1, <2>2
<1>14. /\ \A c \in Cells \ M : cellBel'[c] = cellBel[c]
       /\ \A c \in M : cellBel'[c] = NoBel /\ dirty'[t] /\ c \in DOMAIN moved'[t]
  BY <1>6, <1>7, <1>10
<1> QED BY <1>2, <1>6, <1>7, <1>8, <1>9, <1>11, <1>12, <1>13, <1>14, ContextStep DEF ThreadInv, Within

(* Before the cells of a move go back, their old bels are free.            *)
LEMMA OldFree ==
    ASSUME ApartInv, NEW t \in Thread, pc[t] = "rebind", NEW c \in DOMAIN moved[t]
    PROVE  /\ c \in Cells \ Locked /\ cellBel[c] = NoBel
           /\ moved[t][c].old \in Bels /\ InPartition(t, moved[t][c].old)
           /\ belCell[moved[t][c].old] = NoCell
           /\ \A d \in DOMAIN moved[t] : moved[t][d].old = moved[t][c].old => d = c
<1>1. TypeInv /\ MapsInverse /\ PartsApart /\ Phase(t) /\ MoveInv(t)
  BY DEF ApartInv, ThreadInv
<1>2. dirty[t] /\ Running
  BY <1>1 DEF Phase
<1>3. /\ c \in parts[t].cells \ Locked /\ moved[t][c].old \in Bels
      /\ InPartition(t, moved[t][c].old)
      /\ belCell[moved[t][c].old] \in DOMAIN moved[t] \cup {NoCell}
      /\ \A d \in DOMAIN moved[t] : /\ cellBel[d] = NoBel
                                    /\ moved[t][d].old = moved[t][c].old => d = c
  BY <1>1, <1>2 DEF MoveInv
<1>4. c \in Cells
  BY <1>1, <1>2, <1>3 DEF PartsApart, TypeInv, Thread
<1>5. belCell[moved[t][c].old] = NoCell
  BY <1>1, <1>3, Grid DEF MapsInverse
<1> QED BY <1>3, <1>4, <1>5

(* Binding the cells of a move that is taken back to where they were keeps *)
(* the threads apart.                                                      *)
LEMMA RebindApart == ASSUME ApartInv, NEW t \in Thread, RevertRebind(t) PROVE ApartInv' /\ Within(t)
<1>1. /\ TypeInv /\ MapsInverse /\ Phase(t) /\ MoveInv(t) /\ ViewInv(t) /\ pc[t] = "rebind"
      /\ Bind(Old(t)) /\ Forget(t) /\ archMutex' = NoThread
  BY DEF ApartInv, ThreadInv, RevertRebind
<1>2. Running /\ archMutex = t /\ dirty[t]
  BY <1>1 DEF Phase
<1> DEFINE M == DOMAIN moved[t]
           f == Old(t)
<1>3. DOMAIN f = M /\ \A c \in M : f[c] = moved[t][c].old
  BY DEF Old
<1> HIDE DEF f
<1>4. /\ DOMAIN f \subseteq Cells \ Locked
      /\ \A c \in DOMAIN f : /\ f[c] \in Bels /\ cellBel[c] = NoBel /\ belCell[f[c]] = NoCell
                             /\ \A d \in DOMAIN f : f[d] = f[c] => d = c
  BY <1>1, <1>3, OldFree
<1>5. /\ MapsInverse' /\ locked' = Locked
      /\ cellBel' \in [Cells -> Bels \cup {NoBel}] /\ belCell' \in [Bels -> Cells \cup {NoCell}]
      /\ \A c \in Cells : cellBel'[c] = IF c \in DOMAIN f THEN f[c] ELSE cellBel[c]
      /\ \A b \in Bels : \/ belCell'[b] = belCell[b] /\ \A c \in DOMAIN f : f[c] # b
                         \/ belCell'[b] \in DOMAIN f /\ f[belCell'[b]] = b
  <2>1. Bind(f)
    BY <1>1 DEF f
  <2> QED BY <1>1, <1>4, <2>1, Bound
<1>6. ResetMoveState(t, bounds[t]) /\ dirty' = [dirty EXCEPT ![t] = FALSE]
  BY <1>1 DEF Forget
<1>7. TypeInv'
  BY <1>1, <1>5, <1>6, ResetEffect, Forgotten DEF TypeInv, Running
<1>8. /\ UNCHANGED <<main, parts>> /\ \A u \in Thread \ {t} : Same(u)
      /\ \A u \in Thread \ {t} : archMutex' = u <=> archMutex = u
  BY <1>1, <1>2, Forgotten, Grid
<1>9. ThreadInv(t)'
  <2>1. archMutex' # t
    BY <1>1, Grid
  <2>2. Phase(t)' /\ MoveInv(t)' /\ Requests(t)' /\ WholeClusters(t)'
    BY <1>1, <1>2, <2>1, Forgotten DEF Phase, MoveInv, Requests, WholeClusters, Running
  <2>3. ViewInv(t)'
    <3> SUFFICES ASSUME NEW c \in parts[t].cells \cap DOMAIN view'[t]
                 PROVE  view'[t][c] = cellBel'[c]
      BY <1>1, Forgotten DEF ViewInv
    <3>1. c \in Cells
      BY <1>1, <1>2 DEF ApartInv, PartsApart, TypeInv, Thread
    <3>2. CASE c \in M
      <4>1. view'[t][c] = moved[t][c].old
        BY <1>1, <3>2, Forgotten
      <4> QED BY <1>3, <1>5, <3>1, <3>2, <4>1
    <3>3. CASE c \notin M
      <4>1. view'[t][c] = view[t][c] /\ c \in DOMAIN view[t]
        BY <1>1, <3>3, Forgotten
      <4>2. view[t][c] = cellBel[c]
        BY <1>1, <3>3, <4>1 DEF ViewInv
      <4> QED BY <1>3, <1>5, <3>1, <3>3, <4>1, <4>2
    <3> QED BY <3>2, <3>3
  <2> QED BY <2>2, <2>3 DEF ThreadInv
<1>10. /\ \A c \in Cells \ M : cellBel'[c] = cellBel[c]
       /\ \A c \in M : cellBel'[c] # NoBel /\ InPartition(t, cellBel'[c])
       /\ \A b \in Bels : belCell'[b] # belCell[b] => M # {} /\ InPartition(t, b)
  <2>1. \A c \in M : /\ c \in Cells /\ moved[t][c].old \in Bels
                     /\ InPartition(t, moved[t][c].old)
    BY <1>1, OldFree
  <2> QED BY <1>3, <1>5, <2>1, Grid
<1> QED BY <1>2, <1>5, <1>7, <1>8, <1>9, <1>10, ContextStep DEF Within

-----------------------------------------------------------------------------
(* The invariant and what it says of the run.                              *)

LEMMA NextApart == ApartInv /\ [Next]_vars => ApartInv'
<1> SUFFICES ASSUME ApartInv, [Next]_vars PROVE ApartInv'
  OBVIOUS
<1>1. CASE MainNext
  BY <1>1, SplitApart, StartApart, EndApart DEF MainNext
<1>2. ASSUME NEW t \in Thread, ThreadNext(t), ~SearchOn(t) PROVE ApartInv'
  <2>1. CASE SingleCellSwap(t) \/ ChainSwap(t) \/ TileSwap(t) \/ Finish(t) \/ SearchInVain(t)
    BY <2>1, SingleApart, ChainApart, TileApart, FinishApart, SearchApart
  <2>2. CASE AddNext(t) \/ NextCluster(t) \/ AddMember(t)
    BY <2>2, AddNextApart, NextClusterApart, AddMemberApart
  <2>3. CASE ComputeTotalChange(t) \/ AcceptMove(t) \/ CheckValidity(t)
    BY <2>3, TotalApart, AcceptApart, CheckApart
  <2>4. CASE BindMoveBegin(t) \/ BindMoveCell(t) \/ CommitMove(t)
    BY <2>4, BindBeginApart, BindCellApart, CommitApart
  <2>5. CASE RevertClean(t) \/ RevertUnbind(t) \/ RevertRebind(t)
    BY <2>5, CleanApart, UnbindApart, RebindApart
  <2> QED BY <1>2, <2>1, <2>2, <2>3, <2>4, <2>5 DEF ThreadNext
<1>3. CASE UNCHANGED vars
  <2>1. \A t \in Thread : Same(t)
    BY <1>3 DEF vars, local, Same
  <2>2. UNCHANGED <<main, yaxis, parts, archMutex, cellBel, belCell, locked>>
    BY <1>3 DEF vars, global, arch
  <2>3. ASSUME NEW t \in Thread PROVE ThreadInv(t)'
    BY <2>1, <2>2, Undisturbed DEF ApartInv
  <2>4. TypeInv'
    BY <1>3 DEF ApartInv, TypeInv, vars, global, arch, local, Running
  <2>5. MapsInverse' /\ PartsApart' /\ OnlyInFlight'
    BY <2>1, <2>2 DEF ApartInv, MapsInverse, PartsApart, OnlyInFlight, Same
  <2> QED BY <2>3, <2>4, <2>5 DEF ApartInv
<1> QED BY <1>1, <1>2, <1>3 DEF Next, Done, SearchOn

(* The partitions keep the threads apart, and each thread knows where the  *)
(* cells of its move are and may go: the invariant all the others follow   *)
(* from (split, bounds_check, add_to_move, bind_move, revert_move).        *)
THEOREM ApartInvariant == Spec => []ApartInv
<1>1. Init => ApartInv
  BY InitApart
<1>2. ApartInv /\ [Next]_vars => ApartInv'
  BY NextApart
<1> QED BY <1>1, <1>2, PTL DEF Spec

(* No cell is of two threads, what lies in the box of a thread is a cell   *)
(* of its partition, and no tile is part of the moves of two threads: the  *)
(* reads of the context without the mutex see what no other thread writes. *)
LEMMA ApartMeansThreadsApart == ApartInv => ThreadsApart
<1> SUFFICES ASSUME ApartInv, Running PROVE ThreadsApart
  BY DEF ThreadsApart
<1>1. \A t \in Thread : MoveInv(t)
  BY DEF ApartInv, ThreadInv
<1>2. ASSUME NEW t \in Thread, NEW c \in Cells, c \in parts[t].cells, NEW u \in Thread \ {t}
      PROVE  c \notin parts[u].cells \cup DOMAIN moved[u]
  BY <1>1, <1>2, Apart DEF MoveInv
<1>3. ASSUME NEW t \in Thread, NEW c \in Cells, cellBel[c] # NoBel,
             InPartition(t, cellBel[c]), parts[t].cells # {}
      PROVE  c \in parts[t].cells
  <2>1. cellBel[c] \in Bels
    BY <1>3 DEF ApartInv, TypeInv
  <2> QED BY <1>3, <2>1, InPart
<1>4. ASSUME NEW t \in Thread, NEW u \in Thread, t # u
      PROVE  FlightTiles(t) \cap FlightTiles(u) = {}
  <2>1. ASSUME NEW v \in Thread, NEW w \in FlightTiles(v)
        PROVE  \E b \in Bels : w = <<b.x, b.y>> /\ InPartition(v, b) /\ parts[v].cells # {}
    <3>1. PICK c \in DOMAIN moved[v] : \/ w = <<moved[v][c].old.x, moved[v][c].old.y>>
                                       \/ w = <<moved[v][c].new.x, moved[v][c].new.y>>
      BY <2>1 DEF FlightTiles
    <3>2. /\ c \in parts[v].cells
          /\ moved[v][c].old \in Bels /\ InPartition(v, moved[v][c].old)
          /\ moved[v][c].new \in BelsFor[c] /\ InPartition(v, moved[v][c].new)
      BY <1>1 DEF MoveInv
    <3>3. moved[v][c].new \in Bels
      <4>1. c \in Cells
        BY <3>2 DEF ApartInv, PartsApart, TypeInv, Thread
      <4> QED BY <3>2, <4>1, Grid
    <3> QED BY <3>1, <3>2, <3>3
  <2> SUFFICES ASSUME NEW w \in FlightTiles(t), w \in FlightTiles(u) PROVE FALSE
    OBVIOUS
  <2>2. PICK b \in Bels : w = <<b.x, b.y>> /\ InPartition(t, b) /\ parts[t].cells # {}
    BY <2>1
  <2>3. PICK g \in Bels : w = <<g.x, g.y>> /\ InPartition(u, g) /\ parts[u].cells # {}
    BY <2>1
  <2>4. InPartition(u, b)
    BY <2>2, <2>3 DEF InPartition, InBox
  <2> QED BY <1>4, <2>2, <2>3, <2>4, Apart
<1> QED BY <1>2, <1>3, <1>4 DEF ThreadsApart

(* The partitions keep the threads apart (split, bounds_check).            *)
THEOREM ThreadsStayApart == Spec => []ThreadsApart
<1> QED BY ApartInvariant, ApartMeansThreadsApart, PTL

(* None of the assertions of bindBel, unbindBel and add_to_move fails, and *)
(* no thread asks for the bounds of a net that is not one of its own.      *)
LEMMA ApartMeansNoAbort == ApartInv => NoAbort
<1> SUFFICES ASSUME ApartInv, NEW t \in Thread
             PROVE  /\ Running => DOMAIN moved[t] \subseteq parts[t].cells
                    /\ Adding(t) /\ ~chain[t] => Head(todo[t]).cell \notin DOMAIN moved[t]
                    /\ pc[t] = "bind" =>
                        /\ IsInjective(Old(t))
                        /\ \A c \in DOMAIN moved[t] : belCell[Old(t)[c]] = c
                    /\ pc[t] = "rebind" =>
                        /\ IsInjective(Old(t))
                        /\ \A c \in DOMAIN moved[t] : belCell[Old(t)[c]] = NoCell
  BY DEF NoAbort
<1>1. TypeInv /\ Phase(t) /\ MoveInv(t) /\ Requests(t)
  BY DEF ApartInv, ThreadInv
<1>2. DOMAIN moved[t] \subseteq parts[t].cells
  BY <1>1 DEF MoveInv
<1>3. Adding(t) /\ ~chain[t] => Head(todo[t]).cell \notin DOMAIN moved[t]
  <2> SUFFICES ASSUME Adding(t), ~chain[t] PROVE Head(todo[t]).cell \notin DOMAIN moved[t]
    OBVIOUS
  <2>1. todo[t] \in Seq(ToType) /\ todo[t] # <<>> /\ pc[t] = "adding"
    BY <1>1 DEF TypeInv, Adding
  <2>2. Head(todo[t]) \in ToSet(todo[t])
    BY <2>1, TakeHead
  <2>3. Head(todo[t]).cell \in TodoCells(t)
    BY <2>2 DEF TodoCells
  <2> QED BY <1>1, <2>1, <2>3 DEF Requests
<1>4. IsInjective(Old(t))
  BY <1>1 DEF MoveInv, Old, IsInjective
<1>5. pc[t] = "bind" => \A c \in DOMAIN moved[t] : belCell[Old(t)[c]] = c
  <2> SUFFICES ASSUME pc[t] = "bind", NEW c \in DOMAIN moved[t] PROVE belCell[Old(t)[c]] = c
    OBVIOUS
  <2>1. ~dirty[t] /\ Running
    BY <1>1 DEF Phase
  <2>2. cellBel[c] = Old(t)[c] /\ c \in parts[t].cells
    BY <1>1, <2>1 DEF MoveInv, Old
  <2> QED BY <2>1, <2>2, PartBound
<1>6. pc[t] = "rebind" => \A c \in DOMAIN moved[t] : belCell[Old(t)[c]] = NoCell
  BY OldFree DEF Old
<1> QED BY <1>2, <1>3, <1>4, <1>5, <1>6

(* No assertion of bindBel, unbindBel or add_to_move fails.                *)
THEOREM AssertionsHold == Spec => []NoAbort
<1> QED BY ApartInvariant, ApartMeansNoAbort, PTL

(* Between two moves a thread has its cells where the context has them,    *)
(* the two sides of bindBel agree, and a cell is without a bel only while  *)
(* a move has it in flight.                                                *)
LEMMA ApartMeansViewCurrent == ApartInv => ViewCurrent
<1> SUFFICES ASSUME ApartInv PROVE ViewCurrent
  OBVIOUS
<1>1. ASSUME NEW t \in Thread, pc[t] = "idle", NEW c \in parts[t].cells \cap DOMAIN view[t]
      PROVE  view[t][c] = cellBel[c]
  <2>1. ViewInv(t) /\ Phase(t)
    BY DEF ApartInv, ThreadInv
  <2>2. DOMAIN moved[t] = {}
    BY <1>1, <2>1 DEF Phase
  <2> QED BY <1>1, <2>1, <2>2 DEF ViewInv
<1>2. \A c \in Cells : cellBel[c] # NoBel => belCell[cellBel[c]] = c
  BY DEF ApartInv, MapsInverse
<1>3. ASSUME NEW c \in Cells, cellBel[c] = NoBel
      PROVE  \E t \in Thread : InFlight(t) /\ c \in DOMAIN moved[t]
  <2>1. PICK t \in Thread : dirty[t] /\ c \in DOMAIN moved[t]
    BY <1>3 DEF ApartInv, OnlyInFlight
  <2>2. Phase(t)
    BY DEF ApartInv, ThreadInv
  <2> QED BY <2>1, <2>2 DEF Phase, InFlight
<1> QED BY <1>1, <1>2, <1>3 DEF ViewCurrent

(* A thread without a move in hand knows where the cells of its partition  *)
(* are, and the context is consistent (local_cell2bel, bindBel, unbindBel). *)
THEOREM ViewsCurrent == Spec => []ViewCurrent
<1> QED BY ApartInvariant, ApartMeansViewCurrent, PTL
-----------------------------------------------------------------------------
(* The placement that the others may count on.                             *)

PlacedFacts ==
    /\ Placed \in [Cells -> Bels] /\ IsInjective(Placed)
    /\ \A t \in Thread : \A c \in DOMAIN moved[t] : Placed[c] = moved[t][c].old
    /\ \A c \in Cells : (\A t \in Thread : c \notin DOMAIN moved[t]) => Placed[c] = cellBel[c]
    /\ Running => \A t \in Thread : \A c \in parts[t].cells : InPartition(t, Placed[c])

(* A cell is in the move of one thread at most.                            *)
LEMMA OneMove ==
    ASSUME ApartInv, NEW t \in Thread, NEW u \in Thread, NEW c \in DOMAIN moved[t],
           c \in DOMAIN moved[u]
    PROVE  t = u
<1>1. Phase(t) /\ MoveInv(t) /\ MoveInv(u)
  BY DEF ApartInv, ThreadInv
<1>2. Running
  BY <1>1 DEF Phase
<1>3. c \in parts[t].cells \cap parts[u].cells
  BY <1>1 DEF MoveInv
<1> QED BY <1>2, <1>3, Apart

(* What the abstract placement is: a cell of a move in flight is where it  *)
(* was before, each cell has a bel, and no two the same.                   *)
LEMMA PlacedIs == ApartInv => PlacedFacts
<1> SUFFICES ASSUME ApartInv PROVE PlacedFacts
  OBVIOUS
<1>1. /\ TypeInv /\ MapsInverse /\ PartsApart /\ OnlyInFlight
      /\ \A t \in Thread : Phase(t) /\ MoveInv(t)
  BY DEF ApartInv, ThreadInv
<1>2. \A t \in Thread : FlightCells(t) = IF dirty[t] THEN DOMAIN moved[t] ELSE {}
  BY <1>1 DEF FlightCells, InFlight, Phase
<1>3. ASSUME NEW t \in Thread, NEW c \in DOMAIN moved[t]
      PROVE  /\ c \in Cells /\ Running /\ c \in parts[t].cells
             /\ moved[t][c].old \in Bels /\ InPartition(t, moved[t][c].old)
             /\ dirty[t] => belCell[moved[t][c].old] \in DOMAIN moved[t] \cup {NoCell}
             /\ ~dirty[t] => cellBel[c] = moved[t][c].old
             /\ \A d \in DOMAIN moved[t] : moved[t][d].old = moved[t][c].old => d = c
  <2>1. Running /\ c \in parts[t].cells
    BY <1>1 DEF Phase, MoveInv
  <2>2. c \in Cells
    BY <1>1, <2>1 DEF PartsApart, TypeInv, Thread
  <2> QED BY <1>1, <2>1, <2>2 DEF MoveInv
<1>4. ASSUME NEW t \in Thread, NEW c \in DOMAIN moved[t]
      PROVE  Placed[c] = moved[t][c].old
  <2>1. CASE dirty[t]
    <3>1. c \in FlightCells(t)
      BY <1>2, <2>1
    <3> DEFINE u == CHOOSE v \in Thread : c \in FlightCells(v)
    <3>2. u \in Thread /\ c \in FlightCells(u)
      BY <3>1
    <3>3. c \in DOMAIN moved[u]
      BY <1>2, <3>2
    <3>4. u = t
      BY <3>2, <3>3, OneMove
    <3>5. Placed[c] = moved[u][c].old
      BY <1>3, <3>1 DEF Placed
    <3> QED BY <3>4, <3>5
  <2>2. CASE ~dirty[t]
    <3>1. \A u \in Thread : c \notin FlightCells(u)
      BY <1>2, <2>2, OneMove
    <3> QED BY <1>3, <2>2, <3>1 DEF Placed
  <2> QED BY <2>1, <2>2
<1>5. ASSUME NEW c \in Cells, \A t \in Thread : c \notin DOMAIN moved[t]
      PROVE  Placed[c] = cellBel[c] /\ cellBel[c] \in Bels
  <2>1. \A u \in Thread : c \notin FlightCells(u)
    BY <1>2, <1>5
  <2>2. cellBel[c] # NoBel
    BY <1>1, <1>5 DEF OnlyInFlight
  <2> QED BY <1>1, <2>1, <2>2 DEF Placed, TypeInv
<1>6. Placed \in [Cells -> Bels]
  <2>1. \A c \in Cells : Placed[c] \in Bels
    BY <1>3, <1>4, <1>5
  <2>2. \E f \in {Placed} : DOMAIN f = Cells /\ f = [c \in Cells |-> f[c]]
    BY DEF Placed
  <2> QED BY <2>1, <2>2
<1>7. ASSUME Running, NEW t \in Thread, NEW c \in parts[t].cells PROVE InPartition(t, Placed[c])
  <2>1. CASE \E u \in Thread : c \in DOMAIN moved[u]
    <3>1. PICK u \in Thread : c \in DOMAIN moved[u]
      BY <2>1
    <3>2. u = t
      BY <1>3, <1>7, <3>1, Apart
    <3> QED BY <1>3, <1>4, <3>1, <3>2
  <2>2. CASE \A u \in Thread : c \notin DOMAIN moved[u]
    <3>1. DOMAIN parts = Thread /\ c \in Cells
      BY <1>1, <1>7 DEF TypeInv, Thread, PartsApart
    <3>2. Placed[c] = cellBel[c] /\ cellBel[c] \in Bels
      BY <1>5, <2>2, <3>1
    <3> QED BY <1>1, <1>7, <3>1, <3>2, Grid DEF PartsApart, InPartition
  <2> QED BY <2>1, <2>2
<1>8. ASSUME NEW c \in Cells, NEW d \in Cells, Placed[c] = Placed[d] PROVE c = d
  <2>1. ASSUME NEW t \in Thread, NEW e \in DOMAIN moved[t], NEW g \in Cells,
               \A u \in Thread : g \notin DOMAIN moved[u]
        PROVE  Placed[e] # Placed[g]
    <3> SUFFICES ASSUME Placed[e] = Placed[g] PROVE FALSE
      OBVIOUS
    <3>1. moved[t][e].old = cellBel[g] /\ cellBel[g] \in Bels /\ belCell[cellBel[g]] = g
      BY <1>1, <1>4, <1>5, <2>1, Grid DEF MapsInverse
    <3>2. CASE dirty[t]
      <4>1. belCell[cellBel[g]] \in DOMAIN moved[t] \cup {NoCell}
        BY <1>3, <3>1, <3>2
      <4> QED BY <2>1, <3>1, <4>1, Grid
    <3>3. CASE ~dirty[t]
      <4>1. cellBel[e] = cellBel[g] /\ e \in Cells /\ cellBel[e] # NoBel
        BY <1>3, <3>1, <3>3, Grid
      <4>2. e = g
        BY <1>1, <3>1, <4>1 DEF MapsInverse
      <4> QED BY <2>1, <4>2
    <3> QED BY <3>2, <3>3
  <2>2. CASE \E t \in Thread : c \in DOMAIN moved[t]
    <3>1. PICK t \in Thread : c \in DOMAIN moved[t]
      BY <2>2
    <3>2. PICK u \in Thread : d \in DOMAIN moved[u]
      BY <1>8, <2>1, <3>1
    <3>3. /\ moved[t][c].old = moved[u][d].old /\ Running
          /\ moved[t][c].old \in Bels /\ InPartition(t, moved[t][c].old)
          /\ InPartition(u, moved[u][d].old)
          /\ c \in parts[t].cells /\ d \in parts[u].cells
      BY <1>3, <1>4, <1>8, <3>1, <3>2
    <3>4. t = u
      BY <3>3, Apart
    <3> QED BY <1>3, <3>1, <3>2, <3>3, <3>4
  <2>3. CASE \A t \in Thread : c \notin DOMAIN moved[t]
    <3>1. \A t \in Thread : d \notin DOMAIN moved[t]
      BY <1>8, <2>1, <2>3
    <3>2. cellBel[c] = cellBel[d] /\ cellBel[c] # NoBel
      BY <1>5, <1>8, <2>3, <3>1, Grid
    <3> QED BY <1>1, <3>2 DEF MapsInverse
  <2> QED BY <2>2, <2>3
<1>9. IsInjective(Placed)
  BY <1>6, <1>8 DEF IsInjective
<1> QED BY <1>4, <1>5, <1>6, <1>7, <1>9 DEF PlacedFacts

(* The same of the next state.                                             *)
LEMMA PlacedIsNext == ApartInv' => PlacedFacts'
BY PlacedIs, PTL

(* A step that moves no cell of the placement: a cell leaves a move where  *)
(* it was before the move.                                                 *)
LEMMA Stays ==
    ASSUME ApartInv, ApartInv', NEW t \in Thread,
           \A u \in Thread \ {t} : moved'[u] = moved[u],
           \A c \in Cells \ DOMAIN moved[t] : cellBel'[c] = cellBel[c],
           \A c \in DOMAIN moved[t] \cap DOMAIN moved'[t] : moved'[t][c].old = moved[t][c].old,
           \A c \in DOMAIN moved[t] \ DOMAIN moved'[t] : cellBel'[c] = moved[t][c].old,
           \A c \in DOMAIN moved'[t] \ DOMAIN moved[t] : moved'[t][c].old = cellBel[c]
    PROVE  Placed' = Placed
<1>1. PlacedFacts /\ PlacedFacts'
  BY PlacedIs, PlacedIsNext
<1>2. \A u, v \in Thread : \A c \in DOMAIN moved[u] : c \in DOMAIN moved[v] => u = v
  BY OneMove
<1>3. ASSUME NEW c \in Cells PROVE Placed'[c] = Placed[c]
  <2>1. CASE \E u \in Thread \ {t} : c \in DOMAIN moved[u]
    <3>1. PICK u \in Thread \ {t} : c \in DOMAIN moved[u]
      BY <2>1
    <3>2. c \in DOMAIN moved'[u] /\ moved'[u][c] = moved[u][c]
      BY <3>1
    <3> QED BY <1>1, <3>1, <3>2 DEF PlacedFacts
  <2>2. CASE \A u \in Thread \ {t} : c \notin DOMAIN moved[u]
    <3>1. CASE c \in DOMAIN moved[t]
      <4>1. Placed[c] = moved[t][c].old
        BY <1>1, <3>1 DEF PlacedFacts
      <4>2. CASE c \in DOMAIN moved'[t]
        BY <1>1, <3>1, <4>1, <4>2 DEF PlacedFacts
      <4>3. CASE c \notin DOMAIN moved'[t]
        <5>1. \A u \in Thread : c \notin DOMAIN moved'[u]
          BY <2>2, <4>3
        <5> QED BY <1>1, <3>1, <4>1, <4>3, <5>1 DEF PlacedFacts
      <4> QED BY <4>2, <4>3
    <3>2. CASE c \notin DOMAIN moved[t]
      <4>1. Placed[c] = cellBel[c] /\ cellBel'[c] = cellBel[c]
        BY <1>1, <2>2, <3>2 DEF PlacedFacts
      <4>2. CASE c \in DOMAIN moved'[t]
        BY <1>1, <3>2, <4>1, <4>2 DEF PlacedFacts
      <4>3. CASE c \notin DOMAIN moved'[t]
        <5>1. \A u \in Thread : c \notin DOMAIN moved'[u]
          BY <2>2, <4>3
        <5> QED BY <1>1, <4>1, <5>1 DEF PlacedFacts
      <4> QED BY <4>2, <4>3
    <3> QED BY <3>1, <3>2
  <2> QED BY <2>1, <2>2
<1>4. Placed \in [Cells -> Bels] /\ Placed' \in [Cells -> Bels]
  BY <1>1 DEF PlacedFacts
<1> QED BY <1>3, <1>4

-----------------------------------------------------------------------------
(* Clusters.                                                               *)

(* A cluster is in shape if each member is where its offsets from the root *)
(* say (getClusterPlacement).                                              *)
Place(k, b, i) == IF i = 1 THEN MemberLoc(b, Members[k][1])
                  ELSE MemberLoc(MemberLoc(b, Members[k][1]), Members[k][i])

(* A cluster is in shape when each member is where the root and its offset *)
(* say; that is where the placer sends them.                               *)
LEMMA ShapeMeans ==
    ASSUME NEW k \in Cluster, NEW p
    PROVE  /\ InShape(p, k) <=> \A i \in DOMAIN Members[k] :
                p[Members[k][i].cell] = Place(k, p[Members[k][1].cell], i)
           /\ \A b : /\ DOMAIN ClusterPlacement(k, b) = DOMAIN Members[k]
                     /\ \A i \in DOMAIN Members[k] :
                            ClusterPlacement(k, b)[i] = To(Members[k][i].cell, Place(k, b, i))
<1>1. \A b : /\ DOMAIN ClusterPlacement(k, b) = DOMAIN Members[k]
             /\ \A i \in DOMAIN Members[k] :
                    ClusterPlacement(k, b)[i] = To(Members[k][i].cell, Place(k, b, i))
  BY DEF ClusterPlacement, Place
<1>2. \A b : \A i \in DOMAIN Members[k] : ClusterPlacement(k, b)[i].bel = Place(k, b, i)
  <2>1. \A c, x : To(c, x).bel = x
    BY DEF To
  <2> QED BY <1>1, <2>1
<1>3. InShape(p, k) <=> \A i \in DOMAIN Members[k] :
        p[Members[k][i].cell] = ClusterPlacement(k, p[Members[k][1].cell])[i].bel
  BY DEF InShape
<1> QED BY <1>1, <1>2, <1>3

(* What is listed for a cluster, the first one included, is a member of    *)
(* it.                                                                     *)
LEMMA MemberOf ==
    ASSUME NEW k \in Cluster, NEW i \in DOMAIN Members[k]
    PROVE  /\ Members[k][i] \in MemberType /\ Members[k][i].cell \in MemberCells(k)
           /\ 1 \in DOMAIN Members[k] /\ Members[k][1] \in MemberType
           /\ Members[k][1].cell \in MemberCells(k)
<1>1. Members[k] \in Seq(MemberType) /\ Members[k] # <<>>
  BY Clusters
<1>2. Members[k][i] \in MemberType /\ Members[k][1] \in MemberType /\ 1 \in DOMAIN Members[k]
  BY <1>1
<1>3. Members[k][i] \in ToSet(Members[k]) /\ Members[k][1] \in ToSet(Members[k])
  BY <1>2 DEF ToSet
<1> QED BY <1>2, <1>3 DEF MemberCells

(* Whether a cluster is in shape depends on its members alone.             *)
LEMMA ShapeDepends ==
    ASSUME NEW k \in Cluster, NEW p, NEW q, \A c \in MemberCells(k) : p[c] = q[c], InShape(p, k)
    PROVE  InShape(q, k)
<1>1. \A i \in DOMAIN Members[k] :
        p[Members[k][i].cell] = q[Members[k][i].cell] /\ p[Members[k][1].cell] = q[Members[k][1].cell]
  BY MemberOf
<1> QED BY <1>1, ShapeMeans

(* A coordinate that an offset leaves where it is.                         *)
LEMMA NoShift ==
    ASSUME NEW a \in Int, NEW b \in Int, a = a + b
    PROVE  b = 0
<1> QED OBVIOUS

(* The offsets of the root of a cluster in shape move nothing.             *)
LEMMA RootOffset ==
    ASSUME NEW k \in Cluster, NEW p, \A c \in MemberCells(k) : p[c] \in Bels, InShape(p, k)
    PROVE  /\ Members[k][1].x = 0 /\ Members[k][1].y = 0
           /\ Members[k][1].abs_z \/ Members[k][1].z = 0
           /\ p[Members[k][1].cell] = MemberLoc(p[Members[k][1].cell], Members[k][1])
<1> DEFINE m == Members[k][1]  r == p[m.cell]
<1>1. m \in MemberType /\ m.cell \in MemberCells(k) /\ 1 \in DOMAIN Members[k]
  BY Clusters, MemberOf
<1>2. r \in Bels /\ r = MemberLoc(r, m)
  BY <1>1, ShapeMeans DEF Place
<1> HIDE DEF r, m
<1>3. r.x \in Nat /\ r.y \in Nat /\ r.z \in Nat
  BY <1>2, Grid
<1>4. m.x \in Int /\ m.y \in Int /\ m.z \in Int /\ m.abs_z \in BOOLEAN
  BY <1>1 DEF MemberType
<1>5. r.x = r.x + m.x /\ r.y = r.y + m.y /\ r.z = IF m.abs_z THEN m.z ELSE r.z + m.z
  BY <1>2 DEF MemberLoc
<1>6. m.x = 0 /\ m.y = 0 /\ (m.abs_z \/ m.z = 0)
  <2>1. ~m.abs_z => r.z = r.z + m.z
    BY <1>5
  <2>2. r.x = r.x + m.x /\ r.y = r.y + m.y
    BY <1>5
  <2> DEFINE a == r.x  b == m.x  e == r.y  f == m.y  g == r.z  h == m.z
  <2>3. m.x = 0
    <3>1. a \in Int /\ b \in Int /\ a = a + b
      BY <1>3, <1>4, <2>2
    <3> HIDE DEF a, b
    <3>2. b = 0
      BY <3>1
    <3> QED BY <3>2 DEF b
  <2>4. m.y = 0
    <3>1. e \in Int /\ f \in Int /\ e = e + f
      BY <1>3, <1>4, <2>2
    <3> HIDE DEF e, f
    <3>2. f = 0
      BY <3>1
    <3> QED BY <3>2 DEF f
  <2>5. r.z = r.z + m.z => m.z = 0
    <3>1. g \in Int /\ h \in Int
      BY <1>3, <1>4
    <3> HIDE DEF g, h
    <3>2. g = g + h => h = 0
      BY <3>1
    <3> QED BY <3>2 DEF g, h
  <2> QED BY <2>1, <2>3, <2>4, <2>5
<1> QED BY <1>2, <1>6 DEF r, m

(* A cluster placed at a new root is in shape (chain_swap).                *)
LEMMA ShapeAtRoot ==
    ASSUME NEW k \in Cluster, NEW p, \A c \in MemberCells(k) : p[c] \in Bels, InShape(p, k),
           NEW b \in [x : Int, y : Int, z : Int], NEW q,
           \A i \in DOMAIN Members[k] : q[Members[k][i].cell] = Place(k, b, i)
    PROVE  InShape(q, k)
<1> DEFINE m == Members[k][1]  r == MemberLoc(b, m)
<1>1. /\ m \in MemberType /\ 1 \in DOMAIN Members[k]
      /\ m.x = 0 /\ m.y = 0 /\ (m.abs_z \/ m.z = 0)
  BY Clusters, MemberOf, RootOffset
<1>2. MemberLoc(r, m) = r
  <2>1. r.x = b.x + m.x /\ r.y = b.y + m.y /\ r.z = (IF m.abs_z THEN m.z ELSE b.z + m.z)
    BY DEF MemberLoc
  <2>2. MemberLoc(r, m) = [x |-> r.x + m.x, y |-> r.y + m.y,
                           z |-> IF m.abs_z THEN m.z ELSE r.z + m.z]
    BY DEF MemberLoc
  <2>3. r = [x |-> b.x + m.x, y |-> b.y + m.y, z |-> IF m.abs_z THEN m.z ELSE b.z + m.z]
    BY DEF MemberLoc
  <2>4. m.x = 0 /\ m.y = 0 /\ (m.abs_z \/ m.z = 0) /\ b.x \in Int /\ b.y \in Int /\ b.z \in Int
        /\ m.abs_z \in BOOLEAN
    BY <1>1 DEF MemberType
  <2> HIDE DEF r, m
  <2>5. r.x + m.x = r.x /\ r.y + m.y = r.y
        /\ (IF m.abs_z THEN m.z ELSE r.z + m.z) = r.z
    BY <2>1, <2>4
  <2>6. r = [x |-> r.x, y |-> r.y, z |-> r.z]
    BY <2>1, <2>3
  <2> QED BY <2>2, <2>5, <2>6
<1>3. q[m.cell] = r
  BY <1>1 DEF Place
<1>4. \A i \in DOMAIN Members[k] : Place(k, r, i) = Place(k, b, i)
  BY <1>2 DEF Place
<1> QED BY <1>3, <1>4, ShapeMeans

(* So is a cluster inside a tile that is moved to another (do_tile_swap).  *)
LEMMA ShapeInTile ==
    ASSUME NEW k \in Cluster, NEW p, \A c \in MemberCells(k) : p[c] \in Bels, InShape(p, k),
           NEW u \in Bels, NEW v,
           \A c \in MemberCells(k) : p[c].x = v.x /\ p[c].y = v.y,
           NEW q, \A c \in MemberCells(k) : q[c] = InTile(p[c], u)
    PROVE  InShape(q, k)
<1> DEFINE m(i) == Members[k][i]  r == p[m(1).cell]
<1>1. /\ m(1).x = 0 /\ m(1).y = 0 /\ (m(1).abs_z \/ m(1).z = 0) /\ r = MemberLoc(r, m(1))
      /\ m(1) \in MemberType /\ 1 \in DOMAIN Members[k] /\ m(1).cell \in MemberCells(k)
  BY Clusters, MemberOf, RootOffset
<1>2. /\ r \in Bels /\ r.x = v.x /\ r.y = v.y /\ r.x \in Nat /\ r.y \in Nat /\ r.z \in Nat
      /\ u.x \in Nat /\ u.y \in Nat
      /\ q[m(1).cell] = InTile(r, u)
  BY <1>1, Grid
<1>3. InTile(r, u).x = u.x /\ InTile(r, u).y = u.y /\ InTile(r, u).z = r.z
  BY DEF InTile
<1>4. r.z = IF m(1).abs_z THEN m(1).z ELSE r.z + m(1).z
  BY <1>1 DEF MemberLoc
<1>5. MemberLoc(InTile(r, u), m(1)) = InTile(r, u)
  <2>1. u.x + m(1).x = u.x /\ u.y + m(1).y = u.y
    BY <1>1, <1>2
  <2> QED BY <1>3, <1>4, <2>1 DEF MemberLoc, InTile
<1>6. ASSUME NEW i \in DOMAIN Members[k], i # 1
      PROVE  q[m(i).cell] = MemberLoc(InTile(r, u), m(i))
  <2>1. m(i) \in MemberType /\ m(i).cell \in MemberCells(k)
    BY <1>6, MemberOf
  <2>2. p[m(i).cell] = MemberLoc(r, m(i))
    <3>1. p[m(i).cell] = Place(k, r, i)
      BY <1>6, ShapeMeans
    <3> QED BY <1>1, <1>6, <3>1 DEF Place
  <2>3. q[m(i).cell] = InTile(p[m(i).cell], u) /\ p[m(i).cell].x = v.x /\ p[m(i).cell].y = v.y
    BY <2>1
  <2>4. /\ p[m(i).cell].x = r.x + m(i).x /\ p[m(i).cell].y = r.y + m(i).y
        /\ p[m(i).cell].z = (IF m(i).abs_z THEN m(i).z ELSE r.z + m(i).z)
    BY <2>2 DEF MemberLoc
  <2>5. m(i).x \in Int /\ m(i).y \in Int
    BY <2>1 DEF MemberType
  <2>6. m(i).x = 0 /\ m(i).y = 0
    <3>1. r.x = r.x + m(i).x /\ r.y = r.y + m(i).y
      BY <1>2, <2>3, <2>4
    <3>2. r.x \in Int /\ r.y \in Int
      BY <1>2
    <3> HIDE DEF r, m
    <3>3. m(i).x = 0
      BY <2>5, <3>1, <3>2, NoShift
    <3>4. m(i).y = 0
      BY <2>5, <3>1, <3>2, NoShift
    <3> QED BY <3>3, <3>4
  <2>7. u.x + m(i).x = u.x /\ u.y + m(i).y = u.y
    BY <1>2, <2>6
  <2> QED BY <1>3, <2>3, <2>4, <2>7 DEF MemberLoc, InTile
<1> HIDE DEF r, m
<1>7. \A i \in DOMAIN Members[k] : q[m(i).cell] = Place(k, q[m(1).cell], i)
  BY <1>2, <1>5, <1>6 DEF Place, m
<1> QED BY <1>7, ShapeMeans DEF m

-----------------------------------------------------------------------------
(* Where the cells of a move are to go.                                    *)

GoalOf(m, s) == [c \in DOMAIN m \cup Named(s) |->
    IF c \in Named(s) THEN (CHOOSE a \in ToSet(s) : a.cell = c).bel ELSE m[c].new]

(* Where a move is going depends on the cells taken and the list that is   *)
(* left.                                                                   *)
LEMMA GoalIs ==
    ASSUME NEW t \in Thread
    PROVE  /\ Goal(t) = GoalOf(moved[t], todo[t]) /\ Goal(t)' = GoalOf(moved'[t], todo'[t])
           /\ Collected(t) = DOMAIN moved[t] \cup Named(todo[t])
           /\ Collected(t)' = DOMAIN moved'[t] \cup Named(todo'[t])
           /\ TodoCells(t) = Named(todo[t]) /\ TodoCells(t)' = Named(todo'[t])
BY DEF Goal, GoalOf, Collected, TodoCells, Named

(* A listed cell goes where the list says, any other where the move says.  *)
LEMMA GoalFacts ==
    ASSUME NEW m, NEW s \in Seq(ToType),
           \A i, j \in DOMAIN s : s[i].cell = s[j].cell => i = j
    PROVE  /\ \A a \in ToSet(s) : a.cell \in Named(s) /\ GoalOf(m, s)[a.cell] = a.bel
           /\ \A c \in DOMAIN m \ Named(s) : GoalOf(m, s)[c] = m[c].new
<1>1. ASSUME NEW a \in ToSet(s) PROVE a.cell \in Named(s) /\ GoalOf(m, s)[a.cell] = a.bel
  <2>1. a.cell \in Named(s)
    BY DEF Named
  <2>2. \A d \in ToSet(s) : d.cell = a.cell => d = a
    BY DEF ToSet
  <2>3. (CHOOSE d \in ToSet(s) : d.cell = a.cell) = a
    BY <2>2
  <2> QED BY <2>1, <2>3 DEF GoalOf
<1>2. \A c \in DOMAIN m \ Named(s) : GoalOf(m, s)[c] = m[c].new
  BY DEF GoalOf
<1> QED BY <1>1, <1>2

(* A move with a cell of a cluster has all of the cluster.                 *)
LEMMA WholeMove ==
    ASSUME ApartInv, NEW t \in Thread, pc[t] # "revert" \/ dirty[t], NEW k \in Cluster,
           MemberCells(k) \cap Collected(t) # {}
    PROVE  MemberCells(k) \subseteq Collected(t)
<1>1. WholeClusters(t)
  BY DEF ApartInv, ThreadInv
<1>2. PICK c \in MemberCells(k) : c \in Collected(t)
  OBVIOUS
<1>3. ClusterOf[c] = k /\ k # NoCluster
  BY Clusters
<1> QED BY <1>1, <1>2, <1>3 DEF WholeClusters

(* A step that adds no cell of a cluster, and gives none another goal.     *)
LEMMA KeepShapes ==
    ASSUME ApartInv, NEW t \in Thread, ShapesKept(t), WholeClusters(t)',
           pc'[t] # "revert" \/ dirty'[t] => pc[t] # "revert" \/ dirty[t],
           \A c \in Collected(t)' : ClusterOf[c] # NoCluster =>
                c \in Collected(t) /\ Goal(t)'[c] = Goal(t)[c]
    PROVE  ShapesKept(t)'
<1> DEFINE G == Goal(t)  H == Goal(t)'
<1>1. ASSUME pc'[t] # "revert" \/ dirty'[t], NEW k \in Cluster,
             MemberCells(k) \cap Collected(t)' # {}
      PROVE  InShape(H, k)
  <2>1. \A c \in MemberCells(k) : ClusterOf[c] = k /\ k # NoCluster
    BY Clusters
  <2>2. PICK c \in MemberCells(k) : c \in Collected(t)'
    BY <1>1
  <2>3. c \in Collected(t)
    BY <2>1, <2>2
  <2>4. InShape(G, k)
    BY <1>1, <2>2, <2>3 DEF ShapesKept
  <2>5. MemberCells(k) \subseteq Collected(t)'
    BY <1>1, <2>1, <2>2 DEF WholeClusters
  <2>6. \A d \in MemberCells(k) : G[d] = H[d]
    BY <2>1, <2>5
  <2> HIDE DEF G, H
  <2> QED BY <2>4, <2>6, ShapeDepends
<1> QED BY <1>1 DEF ShapesKept

(* The threads whose move is not touched.                                  *)
LEMMA SameShapes ==
    ASSUME NEW u \in Thread, ShapesKept(u), pc'[u] = pc[u], dirty'[u] = dirty[u],
           moved'[u] = moved[u], todo'[u] = todo[u]
    PROVE  ShapesKept(u)'
BY DEF ShapesKept, Goal, Collected, TodoCells

(* Tiles that a thread has checked still hold what they held after a step  *)
(* of another thread.                                                      *)
LEMMA SameTiles ==
    ASSUME ApartInv, TypeInv', NEW t \in Thread, NEW u \in Thread \ {t}, TilesChecked(u),
           pc'[u] = pc[u], moved'[u] = moved[u], UNCHANGED <<main, parts>>,
           \A b \in Bels : belCell'[b] # belCell[b] => DOMAIN moved[t] # {} /\ InPartition(t, b)
    PROVE  TilesChecked(u)'
<1>1. /\ TypeInv /\ PartsApart /\ MoveInv(t) /\ MoveInv(u) /\ Phase(t)
  BY DEF ApartInv, ThreadInv
<1>2. BelsToCheck(u)' = BelsToCheck(u)
  BY DEF BelsToCheck
<1>3. ASSUME NEW b \in BelsToCheck(u) PROVE TileAt(belCell', b) = TileAt(belCell, b)
  <2>1. PICK c \in DOMAIN moved[u] : b = moved[u][c].old \/ b = moved[u][c].new
    BY DEF BelsToCheck
  <2>2. InPartition(u, b) /\ parts[u].cells # {}
    BY <1>1, <2>1 DEF MoveInv
  <2>3. ASSUME NEW d \in Bels, d.x = b.x, d.y = b.y PROVE belCell'[d] = belCell[d]
    <3> SUFFICES ASSUME belCell'[d] # belCell[d] PROVE FALSE
      OBVIOUS
    <3>1. DOMAIN moved[t] # {} /\ InPartition(t, d)
      OBVIOUS
    <3>2. Running /\ parts[t].cells # {}
      BY <1>1, <3>1 DEF MoveInv, Phase
    <3>3. InPartition(u, d)
      BY <2>2, <2>3 DEF InPartition, InBox
    <3> QED BY <2>2, <3>1, <3>2, <3>3, Apart
  <2> QED BY <2>3 DEF TileAt, Restrict
<1> QED BY <1>2, <1>3 DEF TilesChecked

-----------------------------------------------------------------------------
(* Steps that commit nothing leave the placement alone.                    *)

Others(t) == \A u \in Thread \ {t} : /\ pc'[u] = pc[u] /\ dirty'[u] = dirty[u]
                                     /\ moved'[u] = moved[u] /\ todo'[u] = todo[u]

(* A step that is no commit leaves the placement as it was: cells leave a  *)
(* move only when they are back, and enter it where they are.              *)
LEMMA Uncommitted ==
    ASSUME ApartInv, ApartInv', LegalInv, NEW t \in Thread, Others(t), UNCHANGED <<main, parts>>,
           Within(t), ShapesKept(t)', TilesChecked(t)',
           \A c \in DOMAIN moved[t] \cap DOMAIN moved'[t] : moved'[t][c].old = moved[t][c].old,
           \A c \in DOMAIN moved[t] \ DOMAIN moved'[t] : cellBel'[c] = moved[t][c].old,
           \A c \in DOMAIN moved'[t] \ DOMAIN moved[t] : moved'[t][c].old = cellBel[c]
    PROVE  LegalInv' /\ Placed' = Placed
<1>1. TypeInv'
  BY DEF ApartInv
<1>2. Placed' = Placed
  BY Stays DEF Within, Others
<1>3. Legal(Placed')
  BY <1>2 DEF LegalInv
<1>4. ASSUME NEW u \in Thread \ {t} PROVE ShapesKept(u)' /\ TilesChecked(u)'
  <2>1. ShapesKept(u) /\ TilesChecked(u)
    BY DEF LegalInv
  <2>2. /\ pc'[u] = pc[u] /\ dirty'[u] = dirty[u] /\ moved'[u] = moved[u] /\ todo'[u] = todo[u]
    BY DEF Others
  <2>3. ShapesKept(u)'
    BY <2>1, <2>2, SameShapes
  <2>4. \A b \in Bels : belCell'[b] # belCell[b] => DOMAIN moved[t] # {} /\ InPartition(t, b)
    BY DEF Within
  <2>5. TilesChecked(u)'
    BY <1>1, <2>1, <2>2, <2>4, SameTiles
  <2> QED BY <2>3, <2>5
<1> QED BY <1>2, <1>3, <1>4 DEF LegalInv

(* Steps of a thread that only change its plans. *)
LEMMA QuietStep ==
    ASSUME ApartInv, ApartInv', LegalInv, NEW t \in Thread, Others(t),
           UNCHANGED <<main, parts, cellBel, belCell>>, moved'[t] = moved[t],
           pc'[t] # "commit", ShapesKept(t)'
    PROVE  LegalInv' /\ Placed' = Placed
<1>1. TilesChecked(t)'
  BY DEF TilesChecked
<1>2. Within(t)
  BY DEF Within
<1> QED BY <1>1, <1>2, Uncommitted

(* Giving up a move while it is put together leaves the placement, and its *)
(* legality, as it was.                                                    *)
LEMMA FailLegal ==
    ASSUME ApartInv, ApartInv', LegalInv, NEW t \in Thread, pc[t] = "adding", Fail(t)
    PROVE  LegalInv' /\ Placed' = Placed
<1>1. TypeInv /\ Phase(t)
  BY DEF ApartInv, ThreadInv
<1>2. /\ pc'[t] = "revert" /\ ~dirty'[t]
      /\ UNCHANGED <<main, parts, cellBel, belCell, moved, todo, dirty>>
      /\ \A u \in Thread \ {t} : pc'[u] = pc[u]
  BY <1>1 DEF Fail, TypeInv, Phase, global, arch, local
<1>3. ShapesKept(t)'
  BY <1>2 DEF ShapesKept
<1> QED BY <1>2, <1>3, QuietStep DEF Others

(* A move begins with cells of no cluster, with none, or with the cells of *)
(* two tiles.                                                              *)
LEMMA BeginLegal ==
    ASSUME ApartInv, ApartInv', LegalInv, NEW t \in Thread, NEW ch, NEW cells, NEW disp,
           Begin(t, ch, cells, disp), pc[t] = "idle",
           \A k \in Cluster : MemberCells(k) \cap Named(cells) # {} =>
                InShape(GoalOf(<<>>, cells), k)
    PROVE  LegalInv' /\ Placed' = Placed
<1>1. TypeInv /\ Phase(t)
  BY DEF ApartInv, ThreadInv
<1>2. /\ pc'[t] = "adding" /\ todo'[t] = cells
      /\ UNCHANGED <<main, parts, cellBel, belCell, moved, dirty>>
      /\ \A u \in Thread \ {t} : pc'[u] = pc[u] /\ todo'[u] = todo[u]
  BY <1>1 DEF Begin, TypeInv, global, arch
<1>3. DOMAIN moved'[t] = {}
  BY <1>1, <1>2 DEF Phase
<1>4. Collected(t)' = Named(cells) /\ Goal(t)' = GoalOf(moved'[t], cells)
  BY <1>2, <1>3, GoalIs
<1>5. \A c \in Named(cells) : GoalOf(moved'[t], cells)[c] = GoalOf(<<>>, cells)[c]
  BY DEF GoalOf
<1>6. WholeClusters(t)'
  BY DEF ApartInv, ThreadInv
<1>7. ASSUME NEW k \in Cluster, MemberCells(k) \cap Collected(t)' # {}
      PROVE  InShape(Goal(t)', k)
  <2>1. InShape(GoalOf(<<>>, cells), k)
    BY <1>4, <1>7
  <2>2. PICK c \in MemberCells(k) : c \in Collected(t)'
    BY <1>7
  <2>3. ClusterOf[c] = k /\ k # NoCluster
    BY Clusters
  <2>4. MemberCells(k) \subseteq Named(cells)
    BY <1>2, <1>4, <1>6, <2>2, <2>3 DEF WholeClusters
  <2>5. \A d \in MemberCells(k) : GoalOf(<<>>, cells)[d] = Goal(t)'[d]
    BY <1>4, <1>5, <2>4
  <2> QED BY <2>1, <2>5, ShapeDepends
<1>8. ShapesKept(t)'
  BY <1>7 DEF ShapesKept
<1> QED BY <1>2, <1>8, QuietStep DEF Others

(* The choice of a swap of single cells leaves the placement, and its      *)
(* legality, as it was.                                                    *)
LEMMA SingleLegal ==
    ASSUME ApartInv, ApartInv', LegalInv, NEW t \in Thread, SingleCellSwap(t)
    PROVE  LegalInv' /\ Placed' = Placed
<1> DEFINE cells(c, b) == IF belCell[b] = NoCell THEN <<To(c, b)>>
                          ELSE <<To(c, b), To(belCell[b], cellBel[c])>>
           Swaps(c, b) ==
             /\ ClusterOf[c] = NoCluster
             /\ belCell[b] # NoCell => belCell[b] \notin locked /\ ClusterOf[belCell[b]] = NoCluster
             /\ Begin(t, FALSE, cells(c, b), <<>>)
<1>1. PICK c \in parts[t].cells \ locked : \E b \in Candidates(t, c) : Swaps(c, b)
  BY DEF SingleCellSwap
<1>2. PICK b \in Candidates(t, c) : Swaps(c, b)
  BY <1>1
<1>3. pc[t] = "idle"
  BY DEF SingleCellSwap
<1> DEFINE q == cells(c, b)
<1>4. \A x \in Named(q) : ClusterOf[x] = NoCluster
  <2>1. CASE belCell[b] = NoCell
    <3>1. Named(q) = {c}
      BY <2>1 DEF Named, ToSet, To
    <3> QED BY <1>2, <3>1
  <2>2. CASE belCell[b] # NoCell
    <3>1. Named(q) = {c, belCell[b]}
      BY <2>2 DEF Named, ToSet, To
    <3> QED BY <1>2, <2>2, <3>1
  <2> QED BY <2>1, <2>2
<1>5. Begin(t, FALSE, q, <<>>)
  BY <1>2
<1> HIDE DEF q
<1>6. \A k \in Cluster : MemberCells(k) \cap Named(q) = {}
  BY <1>4, Clusters
<1> QED BY <1>3, <1>5, <1>6, BeginLegal

(* The choice of a cluster leaves the placement, and its legality, as it   *)
(* was.                                                                    *)
LEMMA ChainLegal ==
    ASSUME ApartInv, ApartInv', LegalInv, NEW t \in Thread, ChainSwap(t)
    PROVE  LegalInv' /\ Placed' = Placed
<1>1. PICK disp : Begin(t, TRUE, <<>>, disp)
  BY DEF ChainSwap
<1>2. pc[t] = "idle" /\ Named(<<>>) = {}
  BY DEF ChainSwap, Named, ToSet
<1> QED BY <1>1, <1>2, BeginLegal

(* A thread that is done, or looks for a bel in vain, leaves the           *)
(* placement, and its legality, as it was.                                 *)
LEMMA FinishLegal ==
    ASSUME ApartInv, ApartInv', LegalInv, NEW t \in Thread, Finish(t) \/ SearchInVain(t)
    PROVE  LegalInv' /\ Placed' = Placed
<1>1. TypeInv /\ pc[t] = "idle" /\ ShapesKept(t)
  BY DEF ApartInv, Finish, SearchInVain, LegalInv
<1>2. /\ pc'[t] \in {"joined", "searching"}
      /\ UNCHANGED <<main, parts, cellBel, belCell, moved, todo, dirty>>
      /\ \A u \in Thread \ {t} : pc'[u] = pc[u]
  BY <1>1 DEF Finish, SearchInVain, TypeInv, global, arch, local
<1>3. ShapesKept(t)'
  BY <1>1, <1>2 DEF ShapesKept, Goal, Collected, TodoCells
<1> QED BY <1>2, <1>3, QuietStep DEF Others

(* The decision on the wirelength leaves the placement, and its legality,  *)
(* as it was.                                                              *)
LEMMA DecideLegal ==
    ASSUME ApartInv, ApartInv', LegalInv, NEW t \in Thread,
           ComputeTotalChange(t) \/ AcceptMove(t)
    PROVE  LegalInv' /\ Placed' = Placed
<1>1. TypeInv /\ Phase(t) /\ ShapesKept(t) /\ pc[t] \in {"adding", "decide"}
  BY DEF ApartInv, ThreadInv, ComputeTotalChange, AcceptMove, LegalInv
<1>2. /\ pc'[t] \in {"decide", "bind", "revert"}
      /\ UNCHANGED <<main, parts, cellBel, belCell, moved, todo, dirty>>
      /\ \A u \in Thread \ {t} : pc'[u] = pc[u]
  BY <1>1 DEF ComputeTotalChange, AcceptMove, TypeInv, global, arch, local
<1>3. ShapesKept(t)'
  BY <1>1, <1>2 DEF ShapesKept, Goal, Collected, TodoCells
<1> QED BY <1>2, <1>3, QuietStep DEF Others

(* The choice of a swap of tiles leaves the placement, and its legality,   *)
(* as it was.                                                              *)
LEMMA TileSwapLegal ==
    ASSUME ApartInv, ApartInv', LegalInv, NEW t \in Thread, TileSwap(t)
    PROVE  LegalInv' /\ Placed' = Placed
<1> DEFINE Plan(h, th, u, v, q) ==
              /\ Begin(t, FALSE, q, <<>>) /\ parts[t].cells # {}
              /\ ToSet(q) = ToTile(h, u) \cup ToTile(th, v) /\ Named(q) = h \cup th
              /\ \A i, j \in DOMAIN q : q[i].cell = q[j].cell => i = j
              /\ MayLeave(h) /\ \A d \in h : cellBel[d].x = v.x /\ cellBel[d].y = v.y
              /\ MayLeave(th) /\ \A d \in th : cellBel[d].x = u.x /\ cellBel[d].y = u.y
<1>1. PICK h \in SUBSET parts[t].cells, th \in SUBSET parts[t].cells :
            \E u, v \in Bels : \E q \in Seq(ToType) : Plan(h, th, u, v, q)
  BY TilePlan
<1>2. PICK u \in Bels, v \in Bels : \E q \in Seq(ToType) : Plan(h, th, u, v, q)
  BY <1>1
<1>3. PICK q \in Seq(ToType) : Plan(h, th, u, v, q)
  BY <1>2
<1>4. /\ TypeInv /\ Phase(t) /\ pc[t] = "idle" /\ PlacedFacts /\ Legal(Placed)
      /\ \A w \in Thread : MoveInv(w)
  BY PlacedIs DEF ApartInv, ThreadInv, TileSwap, LegalInv
<1>5. Running /\ DOMAIN moved[t] = {} /\ ~dirty[t]
  BY <1>4 DEF Phase
<1>6. \A d \in parts[t].cells : /\ d \in Cells /\ Placed[d] = cellBel[d] /\ cellBel[d] \in Bels
  <2> SUFFICES ASSUME NEW d \in parts[t].cells
               PROVE  d \in Cells /\ Placed[d] = cellBel[d] /\ cellBel[d] \in Bels
    OBVIOUS
  <2>1. d \in Cells /\ cellBel[d] \in Bels
    BY <1>5, PartBound
  <2>2. \A w \in Thread : d \notin DOMAIN moved[w]
    BY <1>4, <1>5, Apart DEF MoveInv
  <2> QED BY <1>4, <2>1, <2>2 DEF PlacedFacts
<1> DEFINE G == GoalOf(<<>>, q)
<1>7. \A a \in ToSet(q) : G[a.cell] = a.bel
  BY <1>3, GoalFacts
<1> HIDE DEF G
<1>8. \A d \in h : G[d] = InTile(cellBel[d], u)
  <2> SUFFICES ASSUME NEW d \in h PROVE G[d] = InTile(cellBel[d], u)
    OBVIOUS
  <2>1. To(d, InTile(cellBel[d], u)) \in ToSet(q)
    BY <1>3 DEF ToTile
  <2>2. To(d, InTile(cellBel[d], u)).cell = d /\ To(d, InTile(cellBel[d], u)).bel = InTile(cellBel[d], u)
    BY DEF To
  <2> QED BY <1>7, <2>1, <2>2
<1>9. \A d \in th : G[d] = InTile(cellBel[d], v)
  <2> SUFFICES ASSUME NEW d \in th PROVE G[d] = InTile(cellBel[d], v)
    OBVIOUS
  <2>1. To(d, InTile(cellBel[d], v)) \in ToSet(q)
    BY <1>3 DEF ToTile
  <2>2. To(d, InTile(cellBel[d], v)).cell = d /\ To(d, InTile(cellBel[d], v)).bel = InTile(cellBel[d], v)
    BY DEF To
  <2> QED BY <1>7, <2>1, <2>2
<1>10. ASSUME NEW k \in Cluster, MemberCells(k) \cap Named(q) # {} PROVE InShape(G, k)
  <2>1. \A d \in MemberCells(k) : ClusterOf[d] = k /\ k # NoCluster
    BY Clusters
  <2>2. InShape(Placed, k)
    BY <1>4 DEF Legal
  <2>3. CASE MemberCells(k) \cap h # {}
    <3>1. MemberCells(k) \subseteq h
      BY <1>3, <2>1, <2>3 DEF MayLeave
    <3>2. \A d \in MemberCells(k) : /\ Placed[d] \in Bels /\ Placed[d].x = v.x /\ Placed[d].y = v.y
                                    /\ G[d] = InTile(Placed[d], u)
      BY <1>3, <1>6, <1>8, <3>1
    <3> QED BY <2>2, <3>2, ShapeInTile
  <2>4. CASE MemberCells(k) \cap th # {}
    <3>1. MemberCells(k) \subseteq th
      BY <1>3, <2>1, <2>4 DEF MayLeave
    <3>2. \A d \in MemberCells(k) : /\ Placed[d] \in Bels /\ Placed[d].x = u.x /\ Placed[d].y = u.y
                                    /\ G[d] = InTile(Placed[d], v)
      BY <1>3, <1>6, <1>9, <3>1
    <3> QED BY <2>2, <3>2, ShapeInTile
  <2> QED BY <1>3, <1>10, <2>3, <2>4
<1> QED BY <1>3, <1>4, <1>10, BeginLegal DEF G

(* The members of the next cluster are asked to their places around the    *)
(* root; other clusters keep the places they were given.                   *)
LEMMA NextClusterLegal ==
    ASSUME ApartInv, ApartInv', LegalInv, NEW t \in Thread, NextCluster(t)
    PROVE  LegalInv' /\ Placed' = Placed
<1> DEFINE d == Head(displaced[t])
           k == d.cluster
           dest == ClusterPlacement(k, d.root)
<1>1. /\ TypeInv /\ Phase(t) /\ ShapesKept(t) /\ PlacedFacts /\ Legal(Placed)
      /\ pc[t] = "adding" /\ displaced[t] # <<>> /\ todo[t] = <<>>
      /\ ThreadInv(t)' /\ TypeInv'
  BY PlacedIs DEF ApartInv, ThreadInv, NextCluster, LegalInv
<1>2. CASE Fail(t)
  BY <1>1, <1>2, FailLegal
<1>3. CASE /\ todo' = [todo EXCEPT ![t] = dest]
           /\ UNCHANGED <<global, arch, archMutex, pc, view, bounds, track, moved, chain,
                          used, dirty, tries>>
  <2>1. k \in Cluster /\ d.root \in Bels
    <3> DEFINE S == [cluster : Cluster, root : Bels]
    <3>1. displaced[t] \in Seq(S)
      BY <1>1 DEF TypeInv
    <3>2. \A x \in S : x.cluster \in Cluster /\ x.root \in Bels
      OBVIOUS
    <3> HIDE DEF S
    <3>3. d \in S
      BY <1>1, <3>1, TakeHead
    <3> QED BY <3>2, <3>3
  <2> HIDE DEF d
  <2>2. /\ todo'[t] = dest /\ UNCHANGED <<main, parts, cellBel, belCell, moved, pc, dirty>>
        /\ \A u \in Thread \ {t} : todo'[u] = todo[u]
    BY <1>1, <1>3 DEF TypeInv, global, arch
  <2>3. /\ DOMAIN dest = DOMAIN Members[k]
        /\ \A i \in DOMAIN Members[k] : dest[i] = To(Members[k][i].cell, Place(k, d.root, i))
    BY <2>1, ShapeMeans
  <2> HIDE DEF dest
  <2>4. /\ todo'[t] \in Seq(ToType)
        /\ \A i, j \in DOMAIN todo'[t] : todo'[t][i].cell = todo'[t][j].cell => i = j
    <3>1. Requests(t)' /\ pc'[t] = "adding"
      BY <1>1, <2>2 DEF ThreadInv
    <3> QED BY <1>1, <3>1 DEF Requests, TypeInv
  <2> DEFINE H == Goal(t)'
  <2>5. /\ H = GoalOf(moved[t], dest) /\ Collected(t)' = DOMAIN moved[t] \cup Named(dest)
        /\ Goal(t) = GoalOf(moved[t], <<>>) /\ Collected(t) = DOMAIN moved[t] \cup Named(<<>>)
        /\ Named(<<>>) = {}
    <3>1. Named(<<>>) = {}
      BY DEF Named, ToSet
    <3> QED BY <1>1, <2>2, <3>1, GoalIs
  <2>6. /\ \A a \in ToSet(dest) : H[a.cell] = a.bel
        /\ \A c \in DOMAIN moved[t] \ Named(dest) : H[c] = moved[t][c].new
        /\ \A c \in DOMAIN moved[t] : Goal(t)[c] = moved[t][c].new
    <3>1. dest \in Seq(ToType) /\ \A i, j \in DOMAIN dest : dest[i].cell = dest[j].cell => i = j
      BY <2>2, <2>4
    <3>2. /\ \A a \in ToSet(dest) : H[a.cell] = a.bel
          /\ \A c \in DOMAIN moved[t] \ Named(dest) : H[c] = moved[t][c].new
      BY <2>5, <3>1, GoalFacts
    <3>3. \A c \in DOMAIN moved[t] : GoalOf(moved[t], <<>>)[c] = moved[t][c].new
      BY <2>5 DEF GoalOf
    <3> QED BY <2>5, <3>2, <3>3
  <2>7. \A i \in DOMAIN Members[k] : H[Members[k][i].cell] = Place(k, d.root, i)
    <3> SUFFICES ASSUME NEW i \in DOMAIN Members[k]
                 PROVE  H[Members[k][i].cell] = Place(k, d.root, i)
      OBVIOUS
    <3>1. dest[i] \in ToSet(dest)
      BY <2>3 DEF ToSet
    <3>2. dest[i].cell = Members[k][i].cell /\ dest[i].bel = Place(k, d.root, i)
      <4>1. \A c, b : To(c, b).cell = c /\ To(c, b).bel = b
        BY DEF To
      <4> QED BY <2>3, <4>1
    <3> QED BY <2>6, <3>1, <3>2
  <2>8. Named(dest) \subseteq MemberCells(k)
    <3> SUFFICES ASSUME NEW a \in ToSet(dest) PROVE a.cell \in MemberCells(k)
      BY DEF Named
    <3>1. PICK i \in DOMAIN Members[k] : a = dest[i]
      BY <2>3 DEF ToSet
    <3>2. a.cell = Members[k][i].cell
      <4>1. \A c, b : To(c, b).cell = c
        BY DEF To
      <4> QED BY <2>3, <3>1, <4>1
    <3> QED BY <2>1, <3>2, MemberOf
  <2> HIDE DEF H
  <2>9. ASSUME NEW j \in Cluster, MemberCells(j) \cap Collected(t)' # {} PROVE InShape(H, j)
    <3>1. \A c \in MemberCells(j) : c \in Cells /\ Placed[c] \in Bels
      BY <1>1, Clusters DEF PlacedFacts
    <3>2. CASE j = k
      <4>1. InShape(Placed, k)
        BY <1>1, <2>1 DEF Legal
      <4>2. d.root \in [x : Int, y : Int, z : Int]
        BY <2>1, Grid
      <4> QED BY <2>1, <2>7, <3>1, <3>2, <4>1, <4>2, ShapeAtRoot
    <3>3. CASE j # k
      <4>1. MemberCells(j) \cap Named(dest) = {}
        BY <2>1, <2>8, <3>3, Clusters
      <4>2. MemberCells(j) \cap Collected(t) # {}
        BY <2>5, <2>9, <4>1
      <4>3. InShape(Goal(t), j) /\ MemberCells(j) \subseteq Collected(t)
        BY <1>1, <4>2, WholeMove DEF ShapesKept
      <4>4. \A c \in MemberCells(j) : Goal(t)[c] = H[c]
        BY <2>5, <2>6, <4>1, <4>3
      <4> QED BY <4>3, <4>4, ShapeDepends
    <3> QED BY <3>2, <3>3
  <2>10. ShapesKept(t)'
    BY <2>9 DEF ShapesKept, H
  <2> QED BY <1>1, <2>2, <2>10, QuietStep DEF Others
<1> QED BY <1>2, <1>3 DEF NextCluster

(* Taking the head of the list into the move gives no cell of a cluster    *)
(* another goal.                                                           *)
LEMMA AddLegal ==
    ASSUME ApartInv, ApartInv', LegalInv, NEW t \in Thread, Adding(t), NEW adds,
           AddToMove(t, adds), UNCHANGED <<main, parts, arch, pc, dirty>>,
           todo' = [todo EXCEPT ![t] = Tail(@)],
           Head(todo[t]).cell \in Named(adds),
           \A a \in ToSet(adds) : IF a.cell = Head(todo[t]).cell THEN a = Head(todo[t])
                                  ELSE ClusterOf[a.cell] = NoCluster
    PROVE  LegalInv' /\ Placed' = Placed
<1> DEFINE D == Named(adds)  a == Head(todo[t])  h == a.cell  s == todo[t]
<1>1. /\ TypeInv /\ Phase(t) /\ MoveInv(t) /\ Requests(t) /\ ShapesKept(t)
      /\ WholeClusters(t)' /\ Requests(t)'
  BY DEF ApartInv, ThreadInv, LegalInv
<1>2. /\ pc[t] = "adding" /\ ~dirty[t] /\ s # <<>> /\ s \in Seq(ToType)
      /\ \A i, j \in DOMAIN s : s[i].cell = s[j].cell => i = j
  BY <1>1 DEF Phase, Adding, TypeInv, Requests
<1>3. PICK dest :
        /\ \A c \in D : \E x \in ToSet(adds) : x.cell = c /\ dest[c] = x.bel
        /\ DOMAIN moved'[t] = D \cup DOMAIN moved[t]
        /\ \A c \in DOMAIN moved'[t] : moved'[t][c] =
              IF c \in D THEN [old |-> cellBel[c], new |-> dest[c]] ELSE moved[t][c]
        /\ \A u \in Thread \ {t} : moved'[u] = moved[u] /\ view'[u] = view[u]
  <2>1. \E dest : Added(t, adds, dest)
    BY <1>1, AddDest
  <2> QED BY <2>1 DEF Added
<1>4. /\ todo'[t] = Tail(s) /\ \A u \in Thread \ {t} : todo'[u] = todo[u]
      /\ UNCHANGED <<main, parts, cellBel, belCell, pc, dirty>>
  BY <1>1 DEF TypeInv, arch
<1>5. /\ Tail(s) \in Seq(ToType)
      /\ ToSet(s) = {a} \cup ToSet(Tail(s))
      /\ \A i, j \in DOMAIN Tail(s) : Tail(s)[i].cell = Tail(s)[j].cell => i = j
      /\ h \notin Named(Tail(s))
  <2>1. Tail(s) \in Seq(ToType) /\ ToSet(s) = {a} \cup ToSet(Tail(s))
    BY <1>2, TakeHead
  <2>2. /\ Len(Tail(s)) = Len(s) - 1 /\ Len(s) \in Nat \ {0} /\ a = s[1]
        /\ \A i \in 1 .. Len(s) - 1 : Tail(s)[i] = s[i + 1]
    BY <1>2, TakeHead
  <2> HIDE DEF s, a
  <2>3. \A i \in 1 .. Len(s) - 1 : s[i + 1].cell # a.cell
    <3> SUFFICES ASSUME NEW i \in 1 .. Len(s) - 1, s[i + 1].cell = a.cell PROVE FALSE
      OBVIOUS
    <3>1. i + 1 \in DOMAIN s /\ 1 \in DOMAIN s /\ i + 1 # 1
      BY <1>2, <2>2
    <3> QED BY <1>2, <2>2, <3>1
  <2>4. h \notin Named(Tail(s))
    <3> SUFFICES ASSUME NEW x \in ToSet(Tail(s)), x.cell = h PROVE FALSE
      BY DEF Named
    <3>1. PICK i \in 1 .. Len(s) - 1 : x = Tail(s)[i]
      BY <2>1, <2>2 DEF ToSet
    <3> QED BY <2>2, <2>3, <3>1
  <2>5. ASSUME NEW i \in DOMAIN Tail(s), NEW j \in DOMAIN Tail(s), Tail(s)[i].cell = Tail(s)[j].cell
        PROVE  i = j
    <3>1. i \in 1 .. Len(s) - 1 /\ j \in 1 .. Len(s) - 1
      BY <2>1, <2>2
    <3>2. i + 1 \in DOMAIN s /\ j + 1 \in DOMAIN s /\ s[i + 1].cell = s[j + 1].cell
      BY <1>2, <2>2, <2>5, <3>1
    <3>3. i + 1 = j + 1
      BY <1>2, <3>2
    <3> QED BY <3>1, <3>3
  <2> QED BY <2>1, <2>4, <2>5
<1>6. /\ Goal(t) = GoalOf(moved[t], s) /\ Goal(t)' = GoalOf(moved'[t], Tail(s))
      /\ Collected(t) = DOMAIN moved[t] \cup Named(s)
      /\ Collected(t)' = DOMAIN moved'[t] \cup Named(Tail(s))
  BY <1>4, GoalIs
<1>7. /\ \A x \in ToSet(s) : x.cell \in Named(s) /\ Goal(t)[x.cell] = x.bel
      /\ \A c \in DOMAIN moved[t] \ Named(s) : Goal(t)[c] = moved[t][c].new
  BY <1>2, <1>6, GoalFacts
<1>8. /\ \A x \in ToSet(Tail(s)) : x.cell \in Named(Tail(s)) /\ Goal(t)'[x.cell] = x.bel
      /\ \A c \in DOMAIN moved'[t] \ Named(Tail(s)) : Goal(t)'[c] = moved'[t][c].new
  <2> DEFINE m == moved'[t]  r == Tail(s)
  <2>1. r \in Seq(ToType) /\ \A i, j \in DOMAIN r : r[i].cell = r[j].cell => i = j
    BY <1>5
  <2>2. Goal(t)' = GoalOf(m, r)
    BY <1>6
  <2> HIDE DEF m, r
  <2>3. /\ \A x \in ToSet(r) : x.cell \in Named(r) /\ GoalOf(m, r)[x.cell] = x.bel
        /\ \A c \in DOMAIN m \ Named(r) : GoalOf(m, r)[c] = m[c].new
    BY <2>1, GoalFacts
  <2> QED BY <2>2, <2>3 DEF m, r
<1>9. Named(s) = {h} \cup Named(Tail(s))
  BY <1>5 DEF Named
<1>10. \A c \in D : ClusterOf[c] # NoCluster => c = h /\ dest[c] = a.bel
  BY <1>3
<1> HIDE DEF s, a, D
<1>11. ASSUME NEW c \in Collected(t)', ClusterOf[c] # NoCluster
       PROVE  c \in Collected(t) /\ Goal(t)'[c] = Goal(t)[c]
  <2>1. CASE c \in Named(Tail(s))
    <3>1. PICK x \in ToSet(Tail(s)) : x.cell = c
      BY <2>1 DEF Named
    <3> QED BY <1>5, <1>6, <1>7, <1>8, <1>9, <2>1, <3>1
  <2>2. CASE c \in D /\ c \notin Named(Tail(s))
    <3>1. c = h /\ dest[c] = a.bel
      BY <1>10, <1>11, <2>2
    <3>2. c \in DOMAIN moved'[t] /\ moved'[t][c] = [old |-> cellBel[c], new |-> dest[c]]
      BY <1>3, <2>2 DEF D
    <3>3. moved'[t][c].new = a.bel
      BY <3>1, <3>2
    <3>4. Goal(t)'[c] = a.bel
      BY <1>8, <2>2, <3>2, <3>3
    <3>5. Goal(t)[c] = a.bel /\ c \in Named(s)
      BY <1>5, <1>7, <3>1
    <3> QED BY <1>6, <3>4, <3>5
  <2>3. CASE c \in DOMAIN moved[t] /\ c \notin D /\ c \notin Named(Tail(s))
    <3>1. c # h
      BY <2>3 DEF D, a
    <3>2. c \notin Named(s)
      BY <1>9, <2>3, <3>1
    <3>3. c \in DOMAIN moved'[t] /\ moved'[t][c] = moved[t][c]
      BY <1>3, <2>3 DEF D
    <3> QED BY <1>6, <1>7, <1>8, <2>3, <3>2, <3>3
  <2> QED BY <1>3, <1>6, <1>11, <2>1, <2>2, <2>3 DEF D
<1>12. ShapesKept(t)'
  BY <1>1, <1>4, <1>11, KeepShapes
<1>13. TilesChecked(t)'
  BY <1>2, <1>4 DEF TilesChecked
<1>14. Within(t)
  BY <1>4 DEF Within
<1>15. \A c \in DOMAIN moved'[t] : /\ c \in DOMAIN moved[t] => moved'[t][c].old = moved[t][c].old
                                   /\ c \notin DOMAIN moved[t] => moved'[t][c].old = cellBel[c]
  <2>1. \A c \in DOMAIN moved[t] : moved[t][c].old = cellBel[c]
    BY <1>1, <1>2 DEF MoveInv
  <2>2. ASSUME NEW c \in DOMAIN moved'[t], c \in D PROVE moved'[t][c].old = cellBel[c]
    <3>1. moved'[t][c] = [old |-> cellBel[c], new |-> dest[c]]
      BY <1>3, <2>2 DEF D
    <3> QED BY <3>1
  <2>3. \A c \in DOMAIN moved'[t] : c \notin D => moved'[t][c] = moved[t][c] /\ c \in DOMAIN moved[t]
    BY <1>3 DEF D
  <2> QED BY <2>1, <2>2, <2>3
<1>16. Others(t)
  BY <1>3, <1>4 DEF Others
<1>17. DOMAIN moved[t] \subseteq DOMAIN moved'[t]
  BY <1>3
<1> QED BY <1>4, <1>12, <1>13, <1>14, <1>15, <1>16, <1>17, Uncommitted

(* Taking the next cell into the move leaves the placement, and its        *)
(* legality, as it was.                                                    *)
LEMMA AddNextLegal ==
    ASSUME ApartInv, ApartInv', LegalInv, NEW t \in Thread, AddNext(t)
    PROVE  LegalInv' /\ Placed' = Placed
<1> DEFINE a == Head(todo[t])
<1>1. Adding(t) /\ pc[t] = "adding"
  BY DEF AddNext, Adding
<1>2. CASE Fail(t)
  BY <1>1, <1>2, FailLegal
<1>3. CASE /\ AddToMove(t, <<a>>) /\ todo' = [todo EXCEPT ![t] = Tail(@)]
           /\ UNCHANGED <<global, arch, archMutex, pc, bounds, chain, displaced,
                          used, dirty, tries>>
  <2>1. ToSet(<<a>>) = {a} /\ Named(<<a>>) = {a.cell}
    BY DEF ToSet, Named
  <2> DEFINE adds == <<a>>
  <2>2. AddToMove(t, adds) /\ todo' = [todo EXCEPT ![t] = Tail(@)]
        /\ UNCHANGED <<main, parts, arch, pc, dirty>>
    BY <1>3 DEF global
  <2>3. Head(todo[t]).cell \in Named(adds) /\ \A x \in ToSet(adds) : x = Head(todo[t])
    BY <2>1
  <2> HIDE DEF adds
  <2> QED BY <1>1, <2>2, <2>3, AddLegal
<1> QED BY <1>2, <1>3 DEF AddNext

(* Taking the next cell of a cluster into the move leaves the placement,   *)
(* and its legality, as it was.                                            *)
LEMMA AddMemberLegal ==
    ASSUME ApartInv, ApartInv', LegalInv, NEW t \in Thread, AddMember(t)
    PROVE  LegalInv' /\ Placed' = Placed
<1> DEFINE a == Head(todo[t])  old == cellBel[a.cell]  bound == belCell[a.bel]
<1>1. Adding(t) /\ pc[t] = "adding"
  BY DEF AddMember, Adding
<1> HIDE DEF a, old, bound
<1>2. CASE Fail(t)
  BY <1>1, <1>2, FailLegal
<1>3. CASE /\ todo' = [todo EXCEPT ![t] = Tail(@)]
           /\ UNCHANGED <<global, arch, archMutex, pc, bounds, chain, dirty, tries>>
           /\ \/ AddToMove(t, <<a>>)
              \/ /\ bound # a.cell /\ ClusterOf[bound] = NoCluster
                 /\ AddToMove(t, <<a, To(bound, old)>>)
  <2>1. ToSet(<<a>>) = {a} /\ Named(<<a>>) = {a.cell}
    BY DEF ToSet, Named
  <2>2. ToSet(<<a, To(bound, old)>>) = {a, To(bound, old)}
        /\ Named(<<a, To(bound, old)>>) = {a.cell, bound} /\ To(bound, old).cell = bound
    BY DEF ToSet, Named, To
  <2> DEFINE one == <<a>>  two == <<a, To(bound, old)>>
  <2>3. todo' = [todo EXCEPT ![t] = Tail(@)] /\ UNCHANGED <<main, parts, arch, pc, dirty>>
    BY <1>3 DEF global
  <2>4. a.cell \in Named(one) /\ \A x \in ToSet(one) : x = a
    BY <2>1
  <2>5. a.cell \in Named(two)
        /\ \A x \in ToSet(two) : x = a \/ (x.cell = bound)
    BY <2>2
  <2>6. AddToMove(t, one) \/ (bound # a.cell /\ ClusterOf[bound] = NoCluster /\ AddToMove(t, two))
    BY <1>3
  <2> HIDE DEF one, two
  <2>7. CASE AddToMove(t, one)
    BY <1>1, <2>3, <2>4, <2>7, AddLegal DEF a
  <2>8. CASE bound # a.cell /\ ClusterOf[bound] = NoCluster /\ AddToMove(t, two)
    <3>1. \A x \in ToSet(two) : IF x.cell = a.cell THEN x = a ELSE ClusterOf[x.cell] = NoCluster
      BY <2>5, <2>8
    <3> QED BY <1>1, <2>3, <2>5, <2>8, <3>1, AddLegal DEF a
  <2> QED BY <2>6, <2>7, <2>8
<1> QED BY <1>2, <1>3 DEF AddMember, a, old, bound

-----------------------------------------------------------------------------
(* The move in the context.                                                *)

LEMMA ContextLegal ==
    ASSUME ApartInv, ApartInv', LegalInv, NEW t \in Thread, Within(t),
           UNCHANGED <<main, parts, moved, todo>>, pc[t] # "revert" \/ dirty[t],
           \A u \in Thread \ {t} : pc'[u] = pc[u] /\ dirty'[u] = dirty[u], TilesChecked(t)'
    PROVE  LegalInv' /\ Placed' = Placed
<1>1. ShapesKept(t)'
  BY DEF LegalInv, ShapesKept, Goal, Collected, TodoCells
<1> QED BY <1>1, Uncommitted DEF Others

(* The check of the tiles, from which a move goes on only if they are      *)
(* legal, leaves the placement, and its legality, as it was.               *)
LEMMA CheckLegal ==
    ASSUME ApartInv, ApartInv', LegalInv, NEW t \in Thread, CheckValidity(t)
    PROVE  LegalInv' /\ Placed' = Placed
<1> DEFINE valid == \A b \in BelsToCheck(t) : TileLegal(TileAt(belCell, b))
<1>1. TypeInv /\ pc[t] = "check"
  BY DEF ApartInv, CheckValidity
<1>2. /\ pc' = [pc EXCEPT ![t] = IF valid THEN "commit" ELSE "revert"]
      /\ UNCHANGED <<main, parts, moved, todo, dirty, cellBel, belCell>>
  BY DEF CheckValidity, global, arch, local
<1>3. \A u \in Thread \ {t} : pc'[u] = pc[u]
  BY <1>1, <1>2 DEF TypeInv
<1>4. pc'[t] = IF valid THEN "commit" ELSE "revert"
  BY <1>1, <1>2 DEF TypeInv
<1>5. TilesChecked(t)'
  <2>1. pc'[t] = "commit" => valid
    BY <1>4
  <2>2. BelsToCheck(t)' = BelsToCheck(t) /\ belCell' = belCell
    BY <1>2 DEF BelsToCheck
  <2> QED BY <2>1, <2>2 DEF TilesChecked
<1>6. Within(t)
  BY <1>2 DEF Within
<1> QED BY <1>1, <1>2, <1>3, <1>5, <1>6, ContextLegal

(* Unbinding and binding the cells of a move leaves the placement, and its *)
(* legality, as it was.                                                    *)
LEMMA BindLegal ==
    ASSUME ApartInv, ApartInv', LegalInv, NEW t \in Thread,
           BindMoveBegin(t) \/ BindMoveCell(t) \/ RevertUnbind(t)
    PROVE  LegalInv' /\ Placed' = Placed
<1>1. TypeInv /\ Phase(t)
  BY DEF ApartInv, ThreadInv
<1>2. Within(t)
  BY BindBeginApart, BindCellApart, UnbindApart
<1>3. pc[t] # "revert" \/ dirty[t]
  BY <1>1 DEF BindMoveBegin, BindMoveCell, RevertUnbind
<1>4. UNCHANGED <<main, parts, moved, todo>>
  BY DEF BindMoveBegin, BindMoveCell, RevertUnbind, global, local
<1>5. /\ \A u \in Thread \ {t} : pc'[u] = pc[u] /\ dirty'[u] = dirty[u]
      /\ pc'[t] # "commit"
  <2>1. CASE BindMoveBegin(t)
    BY <1>1, <2>1 DEF BindMoveBegin, TypeInv
  <2>2. CASE BindMoveCell(t)
    BY <1>1, <2>2 DEF BindMoveCell, TypeInv
  <2>3. CASE RevertUnbind(t)
    BY <1>1, <2>3 DEF RevertUnbind, TypeInv
  <2> QED BY <2>1, <2>2, <2>3
<1>6. TilesChecked(t)'
  BY <1>5 DEF TilesChecked
<1> QED BY <1>2, <1>3, <1>4, <1>5, <1>6, ContextLegal

(* The move is forgotten and its cells are back at their old bels.         *)
LEMMA RevertLegal ==
    ASSUME ApartInv, ApartInv', LegalInv, NEW t \in Thread, RevertClean(t) \/ RevertRebind(t)
    PROVE  LegalInv' /\ Placed' = Placed
<1>1. TypeInv /\ MoveInv(t) /\ Forget(t)
  BY DEF ApartInv, ThreadInv, RevertClean, RevertRebind
<1>2. /\ \A u \in Thread \ {t} : Same(u)
      /\ pc'[t] = "idle" /\ DOMAIN moved'[t] = {} /\ Collected(t)' = {}
      /\ UNCHANGED <<main, parts>>
  BY <1>1, Forgotten
<1>3. Others(t)
  BY <1>2 DEF Others, Same
<1>4. ShapesKept(t)' /\ TilesChecked(t)'
  BY <1>2 DEF ShapesKept, TilesChecked
<1>5. Within(t)
  <2>1. CASE RevertClean(t)
    BY <2>1 DEF RevertClean, Within, arch
  <2>2. CASE RevertRebind(t)
    BY <2>2, RebindApart
  <2> QED BY <2>1, <2>2
<1>6. \A c \in DOMAIN moved[t] : cellBel'[c] = moved[t][c].old
  <2>1. CASE RevertClean(t)
    BY <1>1, <2>1 DEF RevertClean, MoveInv, arch
  <2>2. CASE RevertRebind(t)
    <3>1. DOMAIN moved[t] \subseteq Cells
      BY <1>1, <2>2 DEF ApartInv, ThreadInv, Phase, MoveInv, PartsApart, RevertRebind, TypeInv, Thread
    <3>2. cellBel' = [c \in Cells |-> IF c \in DOMAIN Old(t) THEN Old(t)[c] ELSE cellBel[c]]
      BY <2>2 DEF RevertRebind, Bind
    <3> QED BY <3>1, <3>2 DEF Old
  <2> QED BY <2>1, <2>2
<1> QED BY <1>2, <1>3, <1>4, <1>5, <1>6, Uncommitted

-----------------------------------------------------------------------------
(* A commit.                                                               *)

Holder(p) == [b \in Bels |-> IF \E c \in Cells : p[c] = b
                             THEN CHOOSE c \in Cells : p[c] = b ELSE NoCell]

(* Legality of a placement, tile by tile, through the cell that a bel      *)
(* holds.                                                                  *)
LEMMA LegalIs ==
    ASSUME NEW p
    PROVE  Legal(p) <=> /\ \A c \in Cells : p[c] \in BelsFor[c]
                        /\ \A k \in Cluster : InShape(p, k)
                        /\ \A b \in Bels : TileLegal(TileAt(Holder(p), b))
BY DEF Legal, Holder

(* In a placement without overlap a bel holds the cell that is placed on   *)
(* it.                                                                     *)
LEMMA Holds ==
    ASSUME NEW p \in [Cells -> Bels], IsInjective(p), NEW b \in Bels
    PROVE  /\ \A c \in Cells : p[c] = b => Holder(p)[b] = c
           /\ Holder(p)[b] # NoCell => Holder(p)[b] \in Cells /\ p[Holder(p)[b]] = b
<1>1. \A c \in Cells : p[c] = b => \A d \in Cells : p[d] = b => d = c
  BY DEF IsInjective
<1> QED BY <1>1 DEF Holder

(* What a commit makes of the placement. *)
LEMMA CommitEffect ==
    ASSUME ApartInv, ApartInv', NEW t \in Thread, CommitMove(t)
    PROVE  /\ UNCHANGED <<main, parts, cellBel, belCell>> /\ Others(t) /\ pc'[t] = "idle"
           /\ Running /\ DOMAIN moved'[t] = {} /\ Collected(t)' = {}
           /\ DOMAIN moved[t] \subseteq parts[t].cells \ Locked /\ parts[t].cells \subseteq Cells
           /\ \A c \in DOMAIN moved[t] : Placed'[c] = moved[t][c].new /\ Placed[c] = moved[t][c].old
           /\ \A c \in Cells \ DOMAIN moved[t] : Placed'[c] = Placed[c]
           /\ \A c \in parts[t].cells : Placed'[c] = cellBel[c]
<1>1. /\ TypeInv /\ Phase(t) /\ MoveInv(t) /\ PartsApart /\ pc[t] = "commit"
      /\ PlacedFacts /\ PlacedFacts' /\ \A u \in Thread : MoveInv(u)
  BY PlacedIs, PlacedIsNext DEF ApartInv, ThreadInv, CommitMove
<1>2. Running /\ dirty[t] /\ DOMAIN parts = Thread
  BY <1>1 DEF Phase, TypeInv, Thread
<1>3. /\ UNCHANGED <<main, parts, cellBel, belCell>> /\ Others(t) /\ pc'[t] = "idle"
      /\ DOMAIN moved'[t] = {} /\ Collected(t)' = {}
  BY <1>1, ResetEffect DEF CommitMove, global, arch, Others
<1>4. DOMAIN moved[t] \subseteq parts[t].cells \ Locked /\ parts[t].cells \subseteq Cells
  BY <1>1, <1>2 DEF MoveInv, PartsApart
<1>5. ASSUME NEW c \in parts[t].cells PROVE Placed'[c] = cellBel[c]
  <2>1. \A u \in Thread \ {t} : c \notin DOMAIN moved[u]
    BY <1>1, <1>2, <1>5, Apart DEF MoveInv
  <2>2. \A u \in Thread : c \notin DOMAIN moved'[u]
    BY <1>3, <2>1 DEF Others
  <2> QED BY <1>1, <1>3, <1>4, <2>2 DEF PlacedFacts
<1>6. ASSUME NEW c \in DOMAIN moved[t]
      PROVE  Placed'[c] = moved[t][c].new /\ Placed[c] = moved[t][c].old
  <2>1. cellBel[c] = moved[t][c].new
    BY <1>1, <1>2 DEF MoveInv
  <2> QED BY <1>1, <1>4, <1>5, <2>1 DEF PlacedFacts
<1>7. ASSUME NEW c \in Cells \ DOMAIN moved[t] PROVE Placed'[c] = Placed[c]
  <2>1. CASE \E u \in Thread \ {t} : c \in DOMAIN moved[u]
    <3>1. PICK u \in Thread \ {t} : c \in DOMAIN moved[u]
      BY <2>1
    <3>2. moved'[u] = moved[u]
      BY <1>3 DEF Others
    <3>3. Placed[c] = moved[u][c].old
      BY <1>1, <3>1 DEF PlacedFacts
    <3>4. Placed'[c] = moved'[u][c].old
      BY <1>1, <3>1, <3>2 DEF PlacedFacts
    <3> QED BY <3>2, <3>3, <3>4
  <2>2. CASE \A u \in Thread \ {t} : c \notin DOMAIN moved[u]
    <3>1. (\A u \in Thread : c \notin DOMAIN moved[u]) /\ \A u \in Thread : c \notin DOMAIN moved'[u]
      BY <1>3, <2>2 DEF Others
    <3> QED BY <1>1, <1>3, <3>1 DEF PlacedFacts
  <2> QED BY <2>1, <2>2
<1> QED BY <1>2, <1>3, <1>4, <1>5, <1>6, <1>7

(* Every commit makes a legal placement of a legal one: clusters moved as  *)
(* a whole keep their shape, the tiles of the move were checked, and the   *)
(* other tiles hold what they held.                                        *)
LEMMA CommitLegal ==
    ASSUME ApartInv, ApartInv', LegalInv, NEW t \in Thread, CommitMove(t)
    PROVE  LegalInv' /\ \A c \in Locked : Placed'[c] = Placed[c]
<1>1. /\ TypeInv /\ TypeInv' /\ MoveInv(t) /\ MapsInverse /\ WholeClusters(t) /\ Phase(t)
      /\ ShapesKept(t) /\ TilesChecked(t) /\ Legal(Placed)
      /\ PlacedFacts /\ PlacedFacts' /\ pc[t] = "commit"
  BY PlacedIs, PlacedIsNext DEF ApartInv, ThreadInv, LegalInv, CommitMove
<1> DEFINE M == DOMAIN moved[t]  p == Placed  q == Placed'
<1>2. /\ UNCHANGED <<main, parts, cellBel, belCell>> /\ Others(t) /\ pc'[t] = "idle"
      /\ Running /\ Collected(t)' = {}
      /\ M \subseteq parts[t].cells \ Locked /\ parts[t].cells \subseteq Cells
      /\ \A c \in M : q[c] = moved[t][c].new /\ p[c] = moved[t][c].old
      /\ \A c \in Cells \ M : q[c] = p[c]
      /\ \A c \in parts[t].cells : q[c] = cellBel[c]
  BY CommitEffect
<1>3. /\ p \in [Cells -> Bels] /\ q \in [Cells -> Bels] /\ IsInjective(p) /\ IsInjective(q)
      /\ \A u \in Thread : \A c \in parts[u].cells : InPartition(u, q[c])
  BY <1>1, <1>2 DEF PlacedFacts, InPartition, Running
<1>4. todo[t] = <<>> /\ TodoCells(t) = {} /\ Collected(t) = M
  <2>1. todo[t] = <<>>
    BY <1>1 DEF Phase
  <2> QED BY <2>1 DEF TodoCells, ToSet, Collected
<1>5. \A c \in Cells : q[c] \in BelsFor[c]
  BY <1>1, <1>2 DEF MoveInv, Legal
<1>6. ASSUME NEW k \in Cluster PROVE InShape(q, k)
  <2>1. \A c \in MemberCells(k) : c \in Cells
    BY Clusters
  <2>2. CASE MemberCells(k) \cap M = {}
    <3>1. \A c \in MemberCells(k) : p[c] = q[c]
      BY <1>2, <2>1, <2>2
    <3>2. InShape(p, k)
      BY <1>1 DEF Legal
    <3> HIDE DEF p, q
    <3> QED BY <3>1, <3>2, ShapeDepends
  <2>3. CASE MemberCells(k) \cap M # {}
    <3>1. MemberCells(k) \subseteq M
      BY <1>1, <1>4, <2>3, WholeMove
    <3>2. InShape(Goal(t), k)
      BY <1>1, <1>4, <2>3 DEF ShapesKept
    <3>3. \A c \in MemberCells(k) : Goal(t)[c] = q[c]
      BY <1>2, <1>4, <3>1 DEF Goal
    <3> HIDE DEF p, q
    <3> QED BY <3>2, <3>3, ShapeDepends
  <2> QED BY <2>2, <2>3
<1> HIDE DEF p, q
<1>7. ASSUME NEW d \in Bels, InPartition(t, d), M # {} PROVE Holder(q)[d] = belCell[d]
  <2>1. parts[t].cells # {}
    BY <1>2, <1>7
  <2>2. ASSUME NEW c \in Cells, q[c] = d PROVE belCell[d] = c
    <3>1. PICK i \in DOMAIN parts : c \in parts[i].cells
      BY DEF ApartInv, PartsApart
    <3>2. i \in Thread
      BY <1>1, <1>2, <3>1 DEF TypeInv, Thread
    <3>3. InPartition(i, d)
      BY <1>3, <2>2, <3>1, <3>2
    <3>4. i = t
      BY <1>2, <1>7, <2>1, <3>1, <3>2, <3>3, Apart
    <3>5. cellBel[c] = d
      BY <1>2, <2>2, <3>1, <3>4
    <3> QED BY <1>1, <3>5, Grid DEF MapsInverse
  <2>3. ASSUME belCell[d] # NoCell PROVE belCell[d] \in Cells /\ q[belCell[d]] = d
    <3>1. belCell[d] \in parts[t].cells /\ cellBel[belCell[d]] = d
      BY <1>2, <1>7, <2>1, <2>3, InPart
    <3> QED BY <1>2, <3>1
  <2> QED BY <1>3, <2>2, <2>3, Holds
<1>8. ASSUME NEW d \in Bels, \A c \in M : d # moved[t][c].old /\ d # moved[t][c].new
      PROVE  Holder(q)[d] = Holder(p)[d]
  <2>1. \A c \in Cells : p[c] = d <=> q[c] = d
    BY <1>2, <1>8
  <2> QED BY <1>3, <2>1, Holds
<1>9. ASSUME NEW b \in Bels PROVE TileLegal(TileAt(Holder(q), b))
  <2>1. CASE \E e \in BelsToCheck(t) : e.x = b.x /\ e.y = b.y
    <3>1. PICK e \in BelsToCheck(t) : e.x = b.x /\ e.y = b.y
      BY <2>1
    <3>2. InPartition(t, e) /\ M # {}
      BY <1>1, <3>1 DEF BelsToCheck, MoveInv
    <3>3. \A d \in Bels : d.x = b.x /\ d.y = b.y => Holder(q)[d] = belCell[d]
      BY <1>7, <3>1, <3>2 DEF InPartition, InBox
    <3>4. TileAt(Holder(q), b) = TileAt(belCell, e)
      BY <3>1, <3>3 DEF TileAt, Restrict
    <3>5. TileLegal(TileAt(belCell, e))
      BY <1>1, <3>1 DEF TilesChecked
    <3> QED BY <3>4, <3>5
  <2>2. CASE \A e \in BelsToCheck(t) : ~(e.x = b.x /\ e.y = b.y)
    <3>1. \A d \in Bels : d.x = b.x /\ d.y = b.y => d \notin BelsToCheck(t)
      BY <2>2
    <3>2. \A d \in Bels : d.x = b.x /\ d.y = b.y => Holder(q)[d] = Holder(p)[d]
      BY <1>8, <3>1 DEF BelsToCheck
    <3>3. TileAt(Holder(q), b) = TileAt(Holder(p), b)
      BY <3>2 DEF TileAt, Restrict
    <3>4. TileLegal(TileAt(Holder(p), b))
      BY <1>1, LegalIs DEF p
    <3> QED BY <3>3, <3>4
  <2> QED BY <2>1, <2>2
<1>10. Legal(q)
  BY <1>5, <1>6, <1>9, LegalIs
<1>11. ASSUME NEW u \in Thread PROVE ShapesKept(u)' /\ TilesChecked(u)'
  <2>1. CASE u = t
    BY <1>2, <2>1 DEF ShapesKept, TilesChecked
  <2>2. CASE u # t
    <3>1. /\ pc'[u] = pc[u] /\ dirty'[u] = dirty[u] /\ moved'[u] = moved[u] /\ todo'[u] = todo[u]
      BY <1>2, <2>2 DEF Others
    <3>2. ShapesKept(u) /\ TilesChecked(u)
      BY DEF LegalInv
    <3>3. ShapesKept(u)'
      BY <3>1, <3>2, SameShapes
    <3>4. \A b \in Bels : belCell'[b] # belCell[b] => DOMAIN moved[t] # {} /\ InPartition(t, b)
      BY <1>2
    <3>5. TilesChecked(u)'
      BY <1>1, <1>2, <2>2, <3>1, <3>2, <3>4, SameTiles
    <3> QED BY <3>3, <3>5
  <2> QED BY <2>1, <2>2
<1>12. \A c \in Locked : q[c] = p[c]
  BY <1>2, Grid
<1> QED BY <1>10, <1>11, <1>12 DEF LegalInv, p, q

-----------------------------------------------------------------------------
(* The main thread moves nothing. *)

LEMMA MainLegal ==
    ASSUME ApartInv, ApartInv', LegalInv, MainNext
    PROVE  LegalInv' /\ Placed' = Placed
<1>1. UNCHANGED <<cellBel, belCell, moved, todo, dirty>>
      /\ \A t \in Thread : pc'[t] = pc[t] \/ (pc'[t] = "idle" /\ pc[t] = "joined")
  <2>1. CASE Split \/ EndIteration
    BY <2>1 DEF Split, EndIteration, arch, local
  <2>2. CASE StartThreads
    <3>1. \A t \in Thread : pc[t] = "joined"
      BY <2>2 DEF StartThreads, ApartInv, ThreadInv, Phase, Running
    <3> QED BY <2>2, <3>1 DEF StartThreads, arch
  <2> QED BY <2>1, <2>2 DEF MainNext
<1>2. Placed' = Placed
  <2>1. 1 \in Thread
    BY Grid DEF Thread
  <2> QED BY <1>1, <2>1, Stays
<1>3. ASSUME NEW t \in Thread PROVE ShapesKept(t)' /\ TilesChecked(t)'
  <2>1. ShapesKept(t) /\ TilesChecked(t)
    BY DEF LegalInv
  <2> QED BY <1>1, <2>1 DEF ShapesKept, Goal, Collected, TodoCells, TilesChecked, BelsToCheck
<1>4. Legal(Placed')
  BY <1>2 DEF LegalInv
<1> QED BY <1>2, <1>3, <1>4 DEF LegalInv

-----------------------------------------------------------------------------
(* Legality and its preservation.                                          *)

Moves == /\ Placed' \in [Cells -> Bels] /\ IsInjective(Placed') /\ Legal(Placed')
         /\ \A c \in Locked : Placed'[c] = Placed[c]

(* Every step keeps the placement as it was or makes a legal one of a      *)
(* legal one, without touching a locked cell.                              *)
LEMMA NextLegal ==
    ApartInv /\ ApartInv' /\ LegalInv /\ [Next]_vars => LegalInv' /\ (Placed' = Placed \/ Moves)
<1> SUFFICES ASSUME ApartInv, ApartInv', LegalInv, [Next]_vars
             PROVE  LegalInv' /\ (Placed' = Placed \/ Moves)
  OBVIOUS
<1>1. CASE MainNext
  BY <1>1, MainLegal
<1>2. ASSUME NEW t \in Thread, ThreadNext(t), ~CommitMove(t), ~SearchOn(t)
      PROVE  LegalInv' /\ Placed' = Placed
  <2>1. CASE SingleCellSwap(t) \/ ChainSwap(t) \/ TileSwap(t) \/ Finish(t) \/ SearchInVain(t)
    BY <2>1, SingleLegal, ChainLegal, TileSwapLegal, FinishLegal
  <2>2. CASE AddNext(t) \/ NextCluster(t) \/ AddMember(t)
    BY <2>2, AddNextLegal, NextClusterLegal, AddMemberLegal
  <2>3. CASE ComputeTotalChange(t) \/ AcceptMove(t) \/ CheckValidity(t)
    BY <2>3, DecideLegal, CheckLegal
  <2>4. CASE BindMoveBegin(t) \/ BindMoveCell(t) \/ RevertUnbind(t)
    BY <2>4, BindLegal
  <2>5. CASE RevertClean(t) \/ RevertRebind(t)
    BY <2>5, RevertLegal
  <2> QED BY <1>2, <2>1, <2>2, <2>3, <2>4, <2>5 DEF ThreadNext
<1>3. ASSUME NEW t \in Thread, CommitMove(t) PROVE LegalInv' /\ Moves
  <2>1. LegalInv' /\ \A c \in Locked : Placed'[c] = Placed[c]
    BY <1>3, CommitLegal
  <2>2. Placed' \in [Cells -> Bels] /\ IsInjective(Placed')
    BY PlacedIsNext DEF PlacedFacts
  <2>3. Legal(Placed')
    BY <2>1 DEF LegalInv
  <2> QED BY <2>1, <2>2, <2>3 DEF Moves
<1>4. CASE UNCHANGED vars
  <2>1. UNCHANGED <<cellBel, belCell, moved, todo, dirty, pc>>
    BY <1>4 DEF vars, local, arch
  <2>2. 1 \in Thread
    BY Grid DEF Thread
  <2>3. Placed' = Placed
    BY <2>1, <2>2, Stays
  <2>4. ASSUME NEW t \in Thread PROVE ShapesKept(t)' /\ TilesChecked(t)'
    <3>1. ShapesKept(t) /\ TilesChecked(t)
      BY DEF LegalInv
    <3> QED BY <2>1, <3>1 DEF ShapesKept, Goal, Collected, TodoCells, TilesChecked, BelsToCheck
  <2>5. Legal(Placed')
    BY <2>3 DEF LegalInv
  <2> QED BY <2>3, <2>4, <2>5 DEF LegalInv
<1> QED BY <1>1, <1>2, <1>3, <1>4 DEF Next, Done, SearchOn

(* The start is legal, with no move in flight.                             *)
LEMMA InitLegal == LegalStart /\ Init => LegalInv
<1> SUFFICES ASSUME LegalStart, Init PROVE LegalInv
  OBVIOUS
<1>1. ApartInv /\ PlacedFacts
  BY InitApart, PlacedIs
<1>2. \A t \in Thread : /\ moved[t] = <<>> /\ todo[t] = <<>> /\ pc[t] = "joined"
                        /\ DOMAIN moved[t] = {} /\ Collected(t) = {}
  <2>1. \A t \in Thread : moved[t] = <<>> /\ todo[t] = <<>> /\ pc[t] = "joined"
    BY DEF Init
  <2> QED BY <2>1 DEF Collected, TodoCells, ToSet
<1>3. cellBel \in [Cells -> Bels]
  BY DetailPlaceAssumption DEF Init
<1>4. Placed = cellBel
  BY <1>1, <1>2, <1>3 DEF PlacedFacts
<1>5. Legal(cellBel)
  BY DEF LegalStart, Init
<1> QED BY <1>2, <1>4, <1>5 DEF LegalInv, ShapesKept, TilesChecked

(* From a legal placement on, the placement that the others may count on   *)
(* is legal: each cell on a bel of its type, each cluster in shape, each   *)
(* tile valid.  A cluster of a move keeps its shape on the way, and a tile *)
(* that was checked holds what it held until the commit (check_validity).  *)
THEOREM LegalInvariant ==
    ASSUME LegalStart PROVE Spec => []LegalInv
<1>1. Init => LegalInv
  BY InitLegal
<1>2. ApartInv /\ ApartInv' /\ LegalInv /\ [Next]_vars => LegalInv'
  BY NextLegal
<1> QED BY <1>1, <1>2, ApartInvariant, PTL DEF Spec

(* The refinement is one of Placement: whatever the threads interleave,    *)
(* the placement changes only by commits, each from a legal placement to   *)
(* a legal one, no two cells share a bel, and locked cells stay            *)
(* (bind_move, check_validity, commit_move, revert_move).                  *)
THEOREM AtomicMoves ==
    ASSUME LegalStart PROVE Spec => MovesAreAtomic
<1>1. Init => P!Init
  <2> SUFFICES ASSUME Init PROVE P!Init
    OBVIOUS
  <2>1. PlacedFacts /\ Legal(Placed)
    BY InitApart, InitLegal, PlacedIs DEF LegalInv
  <2> QED BY <2>1 DEF P!Init, P!Placements, P!NoOverlap, PlacedFacts, IsInjective
<1>2. ApartInv /\ ApartInv' /\ LegalInv /\ [Next]_vars => [P!Move]_Placed
  <2> SUFFICES ASSUME ApartInv, ApartInv', LegalInv, [Next]_vars, Placed' # Placed PROVE P!Move
    OBVIOUS
  <2>1. Moves
    BY NextLegal
  <2> QED BY <2>1 DEF P!Move, P!Placements, P!NoOverlap, Moves, IsInjective
<1> QED BY <1>1, <1>2, ApartInvariant, LegalInvariant, PTL DEF Spec, MovesAreAtomic, P!Spec

-----------------------------------------------------------------------------
(* The boxes of the nets: what a box is.                                   *)

LEMMA NetsAre ==
    /\ IsFiniteSet(Nets) /\ SkipNet \subseteq Nets /\ MaxTries \in Nat
    /\ \A n \in Nets \ SkipNet :
        /\ Pins[n] \in Seq(Cells) /\ Pins[n] # <<>> /\ Len(Pins[n]) \in Nat \ {0}
        /\ DOMAIN Pins[n] = 1 .. Len(Pins[n]) /\ ToSet(Pins[n]) \subseteq Cells
        /\ IsFiniteSet(DOMAIN Pins[n])
<1>1. /\ IsFiniteSet(Nets) /\ SkipNet \subseteq Nets /\ MaxTries \in Nat
      /\ Pins \in [Nets -> Seq(Cells)] /\ \A n \in Nets \ SkipNet : Pins[n] # <<>>
    BY DetailPlaceAssumption
<1>2. ASSUME NEW n \in Nets \ SkipNet
      PROVE  /\ Pins[n] \in Seq(Cells) /\ Pins[n] # <<>> /\ Len(Pins[n]) \in Nat \ {0}
             /\ DOMAIN Pins[n] = 1 .. Len(Pins[n]) /\ ToSet(Pins[n]) \subseteq Cells
             /\ IsFiniteSet(DOMAIN Pins[n])
  <2>1. /\ Pins[n] \in Seq(Cells) /\ Pins[n] # <<>> /\ Len(Pins[n]) \in Nat \ {0}
        /\ DOMAIN Pins[n] = 1 .. Len(Pins[n])
      BY <1>1
  <2>2. ToSet(Pins[n]) \subseteq Cells
      BY <2>1 DEF ToSet
  <2>3. IsFiniteSet(DOMAIN Pins[n])
    <3>1. IsFiniteSet(1 .. Len(Pins[n]))
        BY <2>1, FS_Interval
    <3> QED BY <2>1, <3>1
  <2> QED BY <2>1, <2>2, <2>3
<1> QED BY <1>1, <1>2

(* The coordinates of the pins are a sequence, and depend on the cells of  *)
(* the net only.                                                           *)
LEMMA NetPositions ==
    ASSUME NEW n \in Nets \ SkipNet, NEW ax \in Axis, NEW place,
           \A c \in ToSet(Pins[n]) : place[c] \in Bels
    PROVE  /\ Positions(n, place, ax) \in Seq(Int) /\ Positions(n, place, ax) # <<>>
           /\ DOMAIN Positions(n, place, ax) = DOMAIN Pins[n]
           /\ Positions(n, place, ax) \in [DOMAIN Pins[n] -> Int]
           /\ \A i \in DOMAIN Pins[n] : /\ Pins[n][i] \in ToSet(Pins[n])
                                        /\ Positions(n, place, ax)[i] = Coord(place[Pins[n][i]], ax)
<1> DEFINE pos == Positions(n, place, ax)
<1>1. /\ Len(Pins[n]) \in Nat \ {0} /\ DOMAIN Pins[n] = 1 .. Len(Pins[n])
    BY NetsAre
<1>2. \A i \in DOMAIN Pins[n] : Pins[n][i] \in ToSet(Pins[n])
    BY DEF ToSet
<1>3. \A i \in DOMAIN Pins[n] : Coord(place[Pins[n][i]], ax) \in Int
    BY <1>2, CoordIsNat
<1>4. pos = [i \in 1 .. Len(Pins[n]) |-> Coord(place[Pins[n][i]], ax)]
    BY <1>1 DEF Positions
<1> HIDE DEF pos
<1>5. pos \in Seq(Int) /\ pos # <<>> /\ DOMAIN pos = DOMAIN Pins[n] /\ Len(pos) = Len(Pins[n])
    BY <1>1, <1>3, <1>4
<1>6. pos \in [DOMAIN Pins[n] -> Int]
    BY <1>1, <1>3, <1>4
<1>7. \A i \in DOMAIN Pins[n] : pos[i] = Coord(place[Pins[n][i]], ax)
    BY <1>1, <1>4
<1> QED BY <1>2, <1>5, <1>6, <1>7 DEF pos

(* The positions of the pins of a net depend on the cells of the net only. *)
LEMMA SamePositions ==
    ASSUME NEW n \in Nets \ SkipNet, NEW ax \in Axis, NEW p, NEW q,
           \A c \in ToSet(Pins[n]) : p[c] = q[c]
    PROVE  Positions(n, p, ax) = Positions(n, q, ax)
<1>1. \A i \in DOMAIN Pins[n] : Pins[n][i] \in ToSet(Pins[n])
    BY DEF ToSet
<1>2. \A i \in DOMAIN Pins[n] : p[Pins[n][i]] = q[Pins[n][i]]
    BY <1>1
<1> QED BY <1>2 DEF Positions

(* A box that follows its pins and asks for no scan is the one of its      *)
(* pins.                                                                   *)
LEMMA FollowedExact ==
    ASSUME NEW pos \in Seq(Int), pos # <<>>, NEW k \in TrackedBox,
           LowerFollows(k, pos), UpperFollows(k, pos), k.change # "FULL_RECOMPUTE"
    PROVE  Untracked(k) = ExactAxis(pos)
<1> DEFINE at(q) == Cardinality({i \in DOMAIN pos : pos[i] = q})
<1>1. /\ \A i \in DOMAIN pos : k.lo <= pos[i] /\ pos[i] <= k.hi
      /\ k.nlo = at(k.lo) /\ k.nlo >= 1 /\ k.nhi = at(k.hi) /\ k.nhi >= 1
      /\ k.lo \in Int /\ k.hi \in Int
    BY DEF LowerFollows, UpperFollows, PinsAt, TrackedBox
<1>2. IsFiniteSet(DOMAIN pos) /\ pos \in [DOMAIN pos -> Int]
  <2>1. DOMAIN pos = 1 .. Len(pos) /\ Len(pos) \in Nat
      OBVIOUS
  <2>2. IsFiniteSet(1 .. Len(pos))
      BY <2>1, FS_Interval
  <2> QED BY <2>1, <2>2
<1>3. \A q \in Int : at(q) >= 1 => \E j \in DOMAIN pos : pos[j] = q
    BY <1>2, PinCount DEF PinsAt
<1>4. k.lo \in ToSet(pos) /\ k.hi \in ToSet(pos)
    BY <1>1, <1>3 DEF ToSet
<1>5. \A q \in ToSet(pos) : q \in Int /\ k.lo <= q /\ q <= k.hi
    BY <1>1, <1>2 DEF ToSet
<1>6. Min(ToSet(pos)) = k.lo
  <2>1. \A x \in ToSet(pos) : (\A y \in ToSet(pos) : x <= y) => x = k.lo
      BY <1>4, <1>5
  <2> QED BY <2>1, <1>4, <1>5 DEF Min
<1>7. Max(ToSet(pos)) = k.hi
  <2>1. \A x \in ToSet(pos) : (\A y \in ToSet(pos) : x >= y) => x = k.hi
      BY <1>4, <1>5
  <2> QED BY <2>1, <1>4, <1>5 DEF Max
<1> QED BY <1>1, <1>6, <1>7 DEF ExactAxis, Untracked

(* What NetBB::compute finds is the box of the pins.                       *)
LEMMA ScanIsExact ==
    ASSUME NEW pos \in Seq(Int), pos # <<>>
    PROVE  /\ Scan(pos) = ExactAxis(pos)
           /\ \A what \in BoundChange : /\ Untracked(WithChange(Scan(pos), what)) = ExactAxis(pos)
                                        /\ WithChange(Scan(pos), what) \in TrackedType
           /\ ExactAxis(pos) \in BoxType /\ ExactAxis(pos).lo <= ExactAxis(pos).hi
           /\ ExactAxis(pos).nlo >= 1 /\ ExactAxis(pos).nhi >= 1
<1> DEFINE b == Scan(pos)
           k == WithChange(b, "NO_CHANGE")
<1>1. /\ b \in [lo : Int, nlo : Int, hi : Int, nhi : Int]
      /\ k \in TrackedBox /\ LowerFollows(k, pos) /\ UpperFollows(k, pos)
      /\ \A what \in BoundChange : WithChange(b, what) \in TrackedBox
  <2>1. "NO_CHANGE" \in BoundChange
      BY DEF BoundChange
  <2> QED BY <2>1, ScanFollows
<1> HIDE DEF b
<1>2. /\ k.change = "NO_CHANGE"
      /\ k.lo = b.lo /\ k.nlo = b.nlo /\ k.hi = b.hi /\ k.nhi = b.nhi
    BY DEF WithChange
<1>3. Untracked(k) = ExactAxis(pos)
  <2> HIDE DEF k
  <2> QED BY <1>1, <1>2, FollowedExact
<1>4. b = [lo |-> b.lo, nlo |-> b.nlo, hi |-> b.hi, nhi |-> b.nhi]
    BY <1>1
<1>5. b = ExactAxis(pos)
    BY <1>2, <1>3, <1>4 DEF Untracked
<1>6. \A what : Untracked(WithChange(b, what)) = [lo |-> b.lo, nlo |-> b.nlo, hi |-> b.hi, nhi |-> b.nhi]
    BY DEF Untracked, WithChange
<1>7. /\ \A i \in DOMAIN pos : k.lo <= pos[i] /\ pos[i] <= k.hi
      /\ k.nlo >= 1 /\ k.nhi >= 1
    BY <1>1, <1>2 DEF LowerFollows, UpperFollows
<1>8. 1 \in DOMAIN pos /\ pos[1] \in Int
    OBVIOUS
<1>9. b.lo <= b.hi /\ b.nlo >= 1 /\ b.nhi >= 1 /\ b \in BoxType
  <2>1. b.lo \in Int /\ b.nlo \in Int /\ b.hi \in Int /\ b.nhi \in Int
      BY <1>1
  <2>2. b.lo <= b.hi /\ b.nlo >= 1 /\ b.nhi >= 1
      BY <2>1, <1>2, <1>7, <1>8
  <2> QED BY <2>1, <2>2, <1>4 DEF BoxType
<1> QED BY <1>1, <1>4, <1>5, <1>6, <1>9 DEF b, TrackedType, TrackedBox

(* So Follows is what the lemmas on one edge say.                          *)
LEMMA FollowsIs ==
    ASSUME NEW pos \in Seq(Int), pos # <<>>, NEW k \in TrackedType
    PROVE  Follows(k, pos) <=> LowerFollows(k, pos) /\ UpperFollows(k, pos)
<1>0. k \in TrackedBox
    BY DEF TrackedBox, TrackedType
<1>1. ASSUME LowerFollows(k, pos), UpperFollows(k, pos) PROVE Follows(k, pos)
    BY <1>0, <1>1, FollowedExact DEF Follows
<1>2. ASSUME Follows(k, pos), k.change # "FULL_RECOMPUTE"
      PROVE  LowerFollows(k, pos) /\ UpperFollows(k, pos)
  <2> DEFINE c == WithChange(Scan(pos), "NO_CHANGE")
  <2>1. /\ Untracked(c) = ExactAxis(pos) /\ LowerFollows(c, pos) /\ UpperFollows(c, pos)
        /\ c.change = "NO_CHANGE"
    <3>1. "NO_CHANGE" \in BoundChange
        BY DEF BoundChange
    <3>2. c.change = "NO_CHANGE"
        BY DEF WithChange
    <3> QED BY <3>1, <3>2, ScanIsExact, ScanFollows
  <2>2. Untracked(k) = Untracked(c)
      BY <1>2, <2>1 DEF Follows
  <2> HIDE DEF c
  <2>3. k.lo = c.lo /\ k.nlo = c.nlo /\ k.hi = c.hi /\ k.nhi = c.nhi
      BY <2>2 DEF Untracked
  <2> QED BY <2>1, <2>3 DEF LowerFollows, UpperFollows
<1>3. k.change = "FULL_RECOMPUTE" => LowerFollows(k, pos) /\ UpperFollows(k, pos)
    BY DEF LowerFollows, UpperFollows
<1> QED BY <1>1, <1>2, <1>3

(* The box of a net follows a cell to another bel (the loop of             *)
(* compute_changes_for_cell over the ports of the cell).                   *)
CellGoes(n, p, q, c, old, new) ==
    \A d \in ToSet(Pins[n]) : /\ p[d] \in Bels /\ q[d] = IF d = c THEN new ELSE p[d]
                              /\ d = c => p[d] = old
(* The positions of the pins of a net when one cell moves.                 *)
LEMMA CellMoves ==
    ASSUME NEW n \in Nets \ SkipNet, NEW ax \in Axis, NEW p, NEW q,
           NEW c \in Cells, NEW old \in Bels, NEW new \in Bels,
           CellGoes(n, p, q, c, old, new),
           NEW k \in TrackedType, Follows(k, Positions(n, p, ax))
    PROVE  LET b == MovePins(k, Ports[n][c], Coord(old, ax), Coord(new, ax))
           IN  /\ b \in TrackedType /\ Follows(b, Positions(n, q, ax))
               /\ b.change = "NO_CHANGE" => b = k
<1> DEFINE pos == Positions(n, p, ax)
           qos == Positions(n, q, ax)
           C   == {i \in DOMAIN Pins[n] : Pins[n][i] = c}
           b   == MovePins(k, Ports[n][c], Coord(old, ax), Coord(new, ax))
<1>0. \A d \in ToSet(Pins[n]) : /\ p[d] \in Bels /\ q[d] = IF d = c THEN new ELSE p[d]
                                /\ d = c => p[d] = old
    BY DEF CellGoes
<1>1. /\ pos \in Seq(Int) /\ pos # <<>> /\ pos \in [DOMAIN Pins[n] -> Int]
      /\ DOMAIN pos = DOMAIN Pins[n]
      /\ \A i \in DOMAIN Pins[n] : Pins[n][i] \in ToSet(Pins[n]) /\ pos[i] = Coord(p[Pins[n][i]], ax)
    BY <1>0, NetPositions
<1>2. /\ qos \in Seq(Int) /\ qos # <<>> /\ qos \in [DOMAIN Pins[n] -> Int]
      /\ \A i \in DOMAIN Pins[n] : qos[i] = Coord(q[Pins[n][i]], ax)
  <2>1. \A d \in ToSet(Pins[n]) : q[d] \in Bels
      BY <1>0
  <2> QED BY <2>1, NetPositions
<1>3. Ports[n][c] = Cardinality(C)
    BY NetsAre DEF Ports
<1>4. Coord(old, ax) \in Int /\ Coord(new, ax) \in Int
    BY CoordIsNat
<1> HIDE DEF pos, qos
<1>5. \A i \in C : pos[i] = Coord(old, ax)
    BY <1>0, <1>1
<1>6. qos = MovedTo(pos, C, Coord(new, ax))
  <2>1. \A i \in DOMAIN Pins[n] : qos[i] = IF i \in C THEN Coord(new, ax) ELSE pos[i]
      BY <1>0, <1>1, <1>2, ZenonT(60)
  <2> HIDE DEF C
  <2> QED BY <1>1, <1>2, <2>1 DEF MovedTo
<1>7. IsFiniteSet(DOMAIN Pins[n]) /\ C \in SUBSET DOMAIN Pins[n]
    BY NetsAre
<1>8. k \in TrackedBox /\ LowerFollows(k, pos) /\ UpperFollows(k, pos)
    BY <1>1, FollowsIs DEF pos, TrackedBox, TrackedType
<1>9. /\ b \in TrackedBox /\ LowerFollows(b, qos) /\ UpperFollows(b, qos)
      /\ b.change = "NO_CHANGE" => b = k
  <2> HIDE DEF C
  <2> QED BY <1>1, <1>3, <1>4, <1>5, <1>6, <1>7, <1>8, CellFollowed
<1>10. b \in TrackedType
    BY <1>9 DEF TrackedBox, TrackedType
<1> HIDE DEF b
<1>11. Follows(b, qos)
    BY <1>2, <1>9, <1>10, FollowsIs
<1> QED BY <1>9, <1>10, <1>11 DEF b, qos

(* The tracked boxes tr of the nets N follow their cells, with the bounds  *)
(* b where no change is noted.                                             *)
TracksBoxes(tr, b, N, place) ==
    /\ DOMAIN tr = N
    /\ \A n \in N : /\ \A c \in ToSet(Pins[n]) : place[c] \in Bels
                    /\ \A ax \in Axis : /\ tr[n][ax] \in TrackedType
                                        /\ Follows(tr[n][ax], Positions(n, place, ax))
                    /\ Unnoted(tr[n]) => tr[n] = TrackedNet(b[n])

OneGoes(N, p, q, c, old, new) ==
    \A d \in NetCells(N) : q[d] = (IF d = c THEN new ELSE p[d]) /\ (d = c => p[d] = old)
(* A tracked box follows a cell that moves (compute_changes_for_cell).     *)
LEMMA CellTracked ==
    ASSUME NEW N \in SUBSET (Nets \ SkipNet), NEW tr, NEW b, NEW p, NEW q, TracksBoxes(tr, b, N, p),
           NEW c \in Cells, NEW old \in Bels, NEW new \in Bels, OneGoes(N, p, q, c, old, new)
    PROVE  TracksBoxes(FollowCell(tr, c, old, new), b, N, q)
<1> DEFINE tq == FollowCell(tr, c, old, new)
<1>1. DOMAIN tq = N
    BY DEF FollowCell, TracksBoxes
<1>2. ASSUME NEW n \in N
      PROVE  /\ \A d \in ToSet(Pins[n]) : q[d] \in Bels
             /\ \A ax \in Axis : /\ tq[n][ax] \in TrackedType
                                 /\ Follows(tq[n][ax], Positions(n, q, ax))
             /\ Unnoted(tq[n]) => tq[n] = TrackedNet(b[n])
  <2>1. \A d \in ToSet(Pins[n]) : d \in NetCells(N) /\ p[d] \in Bels
      BY DEF NetCells, TracksBoxes
  <2>2. tq[n] = [ax \in Axis |-> MovePins(tr[n][ax], Ports[n][c], Coord(old, ax), Coord(new, ax))]
      BY DEF FollowCell, TracksBoxes
  <2>3. ASSUME NEW ax \in Axis
        PROVE  /\ tq[n][ax] \in TrackedType /\ Follows(tq[n][ax], Positions(n, q, ax))
               /\ tq[n][ax].change = "NO_CHANGE" => tq[n][ax] = tr[n][ax]
    <3>1. tr[n][ax] \in TrackedType /\ Follows(tr[n][ax], Positions(n, p, ax))
        BY DEF TracksBoxes
    <3>2. CellGoes(n, p, q, c, old, new)
        BY <2>1 DEF CellGoes, OneGoes
    <3> DEFINE k == MovePins(tr[n][ax], Ports[n][c], Coord(old, ax), Coord(new, ax))
    <3>3. /\ k \in TrackedType /\ Follows(k, Positions(n, q, ax))
          /\ k.change = "NO_CHANGE" => k = tr[n][ax]
        <4>1. n \in Nets \ SkipNet
            OBVIOUS
        <4> HIDE DEF tq
        <4> QED BY <3>1, <3>2, <4>1, CellMoves
    <3>4. tq[n][ax] = k
      <4> HIDE DEF tq
      <4> QED BY <2>2
    <3> HIDE DEF tq, k
    <3> QED BY <3>3, <3>4
  <2> HIDE DEF tq
  <2>4. ASSUME Unnoted(tq[n]) PROVE tq[n] = TrackedNet(b[n])
    <3>1. \A ax \in Axis : tq[n][ax] = tr[n][ax] /\ tr[n][ax].change = "NO_CHANGE"
        BY <2>3, <2>4 DEF Unnoted
    <3>2. tr[n] = TrackedNet(b[n])
        BY <3>1 DEF TracksBoxes, Unnoted
    <3>3. tq[n] = [ax \in Axis |-> tq[n][ax]]
        BY <2>2
    <3>4. tr[n] = [ax \in Axis |-> tr[n][ax]]
        BY <3>2 DEF TrackedNet
    <3> QED BY <3>1, <3>2, <3>3, <3>4
  <2> QED BY <2>1, <2>3, <2>4 DEF OneGoes
<1> QED BY <1>1, <1>2 DEF TracksBoxes

(* The tracked boxes of a thread after add_to_move, for one cell or two.   *)
FollowAdd(tr, a) == FollowCell(tr, a.cell, cellBel[a.cell], a.bel)

(* add_to_move for one cell, and for two: the fold unrolled.               *)
LEMMA FollowOne ==
    ASSUME NEW t \in Thread, DOMAIN track = Thread, NEW a, AddToMove(t, <<a>>)
    PROVE  track'[t] = FollowAdd(track[t], a)
<1> DEFINE tr == track[t]
           S  == {1}
           F  == [s \in SUBSET S |-> IF s = {} THEN tr ELSE FollowAdd(tr, a)]
           IsIter(G) == G = [s \in SUBSET S |-> IF s = {} THEN tr
                                ELSE FollowAdd(G[s \ {Max(s)}], <<a>>[Max(s)])]
           H  == CHOOSE G : IsIter(G)
<1>1. DOMAIN <<a>> = S
    OBVIOUS
<1>2. Max({1}) = 1
    BY DEF Max
<1>3. IsIter(F)
  <2>1. \A s \in SUBSET S : s # {} => s = {1} /\ s \ {Max(s)} = {} /\ <<a>>[Max(s)] = a
    <3>1. \A s \in SUBSET S : s # {} => s = {1}
        OBVIOUS
    <3>2. {1} \ {Max({1})} = {} /\ <<a>>[Max({1})] = a
        BY <1>2
    <3> QED BY <3>1, <3>2
  <2>2. F[{}] = tr
      OBVIOUS
  <2>3. F = [s \in SUBSET S |-> IF s = {} THEN tr
                                ELSE FollowAdd(F[s \ {Max(s)}], <<a>>[Max(s)])]
    <3>1. \A s \in SUBSET S : F[s] = IF s = {} THEN tr
                                ELSE FollowAdd(F[s \ {Max(s)}], <<a>>[Max(s)])
      <4>1. \A s \in SUBSET S : F[s] = IF s = {} THEN tr ELSE FollowAdd(tr, a)
          OBVIOUS
      <4> HIDE DEF F
      <4> QED BY <2>1, <2>2, <4>1
    <3> HIDE DEF S, tr
    <3> QED BY <3>1
  <2> QED BY <2>3
<1>4. IsIter(H)
  <2> HIDE DEF IsIter
  <2> QED BY <1>3
<1>5. track'[t] = H[S]
  <2>1. track' = [track EXCEPT ![t] = H[S]]
      BY <1>1 DEF AddToMove, FoldLeft, MapThenFoldSet, FollowAdd
  <2> HIDE DEF H, S
  <2> QED BY <2>1
<1>6. \A s \in SUBSET S : H[s] = IF s = {} THEN tr
                                 ELSE FollowAdd(H[s \ {Max(s)}], <<a>>[Max(s)])
  <2> HIDE DEF H, S, tr
  <2> QED BY <1>4
<1> HIDE DEF H, tr
<1>7. {1} \ {1} = {} /\ H[{}] = tr /\ <<a>>[1] = a
    BY <1>6
<1>8. H[S] = FollowAdd(H[{1} \ {1}], <<a>>[1])
    BY <1>2, <1>6
<1> QED BY <1>5, <1>7, <1>8 DEF tr

(* The fold over two cells is the step for one after the other.            *)
LEMMA FollowTwo ==
    ASSUME NEW t \in Thread, DOMAIN track = Thread, NEW a, NEW b, AddToMove(t, <<a, b>>)
    PROVE  track'[t] = FollowAdd(FollowAdd(track[t], a), b)
<1> DEFINE tr == track[t]
           S  == {1, 2}
           q  == <<a, b>>
           F  == [s \in SUBSET S |->
                    IF s = {} THEN tr ELSE IF s = {1} THEN FollowAdd(tr, a)
                    ELSE IF s = {2} THEN FollowAdd(tr, b) ELSE FollowAdd(FollowAdd(tr, a), b)]
           IsIter(G) == G = [s \in SUBSET S |-> IF s = {} THEN tr
                                ELSE FollowAdd(G[s \ {Max(s)}], q[Max(s)])]
           H  == CHOOSE G : IsIter(G)
<1>1. DOMAIN q = S
    OBVIOUS
<1>2. Max({1}) = 1 /\ Max({2}) = 2 /\ Max({1, 2}) = 2
    BY DEF Max
<1>3. \A s \in SUBSET S : s # {} => s = {1} \/ s = {2} \/ s = {1, 2}
    OBVIOUS
<1>4. /\ {1} \ {1} = {} /\ {2} \ {2} = {} /\ {1, 2} \ {2} = {1}
      /\ {1} # {2} /\ {1, 2} # {1} /\ {1, 2} # {2} /\ {1} # {} /\ {2} # {} /\ {1, 2} # {}
    OBVIOUS
<1>5. q[1] = a /\ q[2] = b
    OBVIOUS
<1>6. IsIter(F)
  <2>1. /\ F[{}] = tr /\ F[{1}] = FollowAdd(tr, a) /\ F[{2}] = FollowAdd(tr, b)
        /\ F[{1, 2}] = FollowAdd(FollowAdd(tr, a), b)
      BY <1>4
  <2>2. ASSUME NEW s \in SUBSET S
        PROVE F[s] = IF s = {} THEN tr ELSE FollowAdd(F[s \ {Max(s)}], q[Max(s)])
    <3> HIDE DEF F, tr, q
    <3>1. CASE s = {}
        BY <3>1, <2>1
    <3>2. CASE s = {1}
        BY <3>2, <2>1, <1>2, <1>4, <1>5
    <3>3. CASE s = {2}
        BY <3>3, <2>1, <1>2, <1>4, <1>5
    <3>4. CASE s = {1, 2}
        BY <3>4, <2>1, <1>2, <1>4, <1>5
    <3> QED BY <3>1, <3>2, <3>3, <3>4, <1>3
  <2> HIDE DEF S, tr, q
  <2> QED BY <2>2
<1>7. IsIter(H)
  <2> HIDE DEF IsIter
  <2> QED BY <1>6
<1>8. track'[t] = H[S]
  <2>1. track' = [track EXCEPT ![t] = H[S]]
      BY <1>1 DEF AddToMove, FoldLeft, MapThenFoldSet, FollowAdd
  <2> HIDE DEF H, S
  <2> QED BY <2>1
<1>9. \A s \in SUBSET S : H[s] = IF s = {} THEN tr ELSE FollowAdd(H[s \ {Max(s)}], q[Max(s)])
  <2> HIDE DEF H, S, tr, q
  <2> QED BY <1>7
<1> HIDE DEF H, tr, q
<1>10. {} \in SUBSET S /\ {1} \in SUBSET S /\ {1, 2} \in SUBSET S
    OBVIOUS
<1>11. H[{}] = tr
    BY <1>9, <1>10
<1>12. H[{1}] = FollowAdd(H[{1} \ {1}], q[1])
    BY <1>9, <1>10, <1>2, <1>4
<1>13. H[{1, 2}] = FollowAdd(H[{1, 2} \ {2}], q[2])
    BY <1>9, <1>10, <1>2, <1>4
<1> QED BY <1>4, <1>5, <1>8, <1>11, <1>12, <1>13 DEF tr

-----------------------------------------------------------------------------
(* The boxes of the nets: the steps of a thread.                           *)

Early == {"idle", "adding"}
Late  == {"decide", "bind", "binding", "check", "commit"}

(* A thread whose maps are left alone keeps its boxes, unless it goes back *)
(* to an earlier phase.                                                    *)
LEMMA BoxesKept ==
    ASSUME NEW u \in Thread, BoxesInv(u), view'[u] = view[u], bounds'[u] = bounds[u],
           track'[u] = track[u], moved'[u] = moved[u],
           pc'[u] \in Early => pc[u] \in Early, pc'[u] \in Late => pc[u] \in Late
    PROVE  BoxesInv(u)'
<1>1. Before(u)' = Before(u)
    BY DEF Before, Old
<1>2. ViewTyped(u)' /\ BoxesBefore(u)'
    BY <1>1 DEF BoxesInv, ViewTyped, BoxesBefore
<1>3. BoxesFollow(u)' /\ UnnotedKept(u)'
    BY DEF BoxesInv, BoxesFollow, UnnotedKept
<1>4. NothingNoted(u)' /\ BoxesAfter(u)'
    BY DEF BoxesInv, NothingNoted, BoxesAfter, Early, Late
<1> QED BY <1>2, <1>3, <1>4 DEF BoxesInv


MapsLeft == UNCHANGED <<main, view, bounds, track, moved, minWirelen, used>>
GoesOn == \A u \in Thread : /\ pc'[u] \in Early => pc[u] \in Early
                            /\ pc'[u] \in Late => pc[u] \in Late

(* A step that leaves the maps of every thread alone.                      *)
LEMMA MapsQuiet ==
    /\ BoundsInv /\ main = "running" /\ MapsLeft /\ GoesOn
    /\ tries' \in [Thread -> 0 .. MaxTries]
    => BoundsInv'
<1> SUFFICES ASSUME BoundsInv, main = "running", MapsLeft, GoesOn,
                    tries' \in [Thread -> 0 .. MaxTries]
             PROVE  BoundsInv'
    OBVIOUS
<1>1. RestTyped'
    BY DEF BoundsInv, RestTyped, MapsLeft
<1>2. LastBoundsInv'
    BY DEF LastBoundsInv, MapsLeft
<1>3. ASSUME NEW u \in Thread PROVE BoxesInv(u)'
  <2>1. BoxesInv(u)
      BY DEF BoundsInv
  <2> QED BY <2>1, BoxesKept DEF MapsLeft, GoesOn
<1> QED BY <1>1, <1>2, <1>3 DEF BoundsInv

(* A step of thread t that changes its maps.                               *)
LEMMA MapsStep ==
    ASSUME BoundsInv, main = "running", UNCHANGED <<main, minWirelen>>, NEW t \in Thread,
           RestTyped', BoxesInv(t)',
           \A u \in Thread \ {t} : /\ view'[u] = view[u] /\ bounds'[u] = bounds[u]
                                   /\ track'[u] = track[u] /\ moved'[u] = moved[u]
                                   /\ pc'[u] = pc[u]
    PROVE  BoundsInv'
<1>1. LastBoundsInv'
    BY DEF LastBoundsInv
<1>2. ASSUME NEW u \in Thread \ {t} PROVE BoxesInv(u)'
  <2>1. BoxesInv(u)
      BY DEF BoundsInv
  <2> QED BY <2>1, BoxesKept
<1> QED BY <1>1, <1>2 DEF BoundsInv

(* While a thread moves, the main thread waits.                            *)
LEMMA AtWork ==
    ASSUME ApartInv, NEW t \in Thread, pc[t] # "joined"
    PROVE  main = "running" /\ pc \in [Thread -> {"joined", "idle", "searching", "adding", "decide", "bind",
                "binding", "check", "commit", "revert", "rebind"}]
BY DEF ApartInv, TypeInv, ThreadInv, Phase, Running

(* A thread picks a move; the three kinds of move begin alike.             *)
LEMMA BeginBounds ==
    ASSUME ApartInv, BoundsInv, NEW t \in Thread, pc[t] = "idle", NEW ch, NEW cells, NEW disp,
           Begin(t, ch, cells, disp)
    PROVE  BoundsInv'
<1>1. main = "running" /\ pc \in [Thread -> {"joined", "idle", "searching", "adding", "decide", "bind",
                "binding", "check", "commit", "revert", "rebind"}]
    BY AtWork
<1>2. /\ UNCHANGED <<main, view, bounds, track, moved, minWirelen, used>>
      /\ tries[t] < MaxTries /\ tries' = [tries EXCEPT ![t] = @ + 1]
      /\ pc' = [pc EXCEPT ![t] = "adding"]
    BY DEF Begin, global
<1>3. tries' \in [Thread -> 0 .. MaxTries]
  <2>1. tries \in [Thread -> 0 .. MaxTries] /\ MaxTries \in Nat
      BY NetsAre DEF BoundsInv, RestTyped
  <2> QED BY <2>1, <1>2
<1>4. GoesOn
    BY <1>1, <1>2 DEF GoesOn, Early, Late
<1>5. MapsLeft
    BY <1>2 DEF MapsLeft
<1> QED BY <1>1, <1>3, <1>4, <1>5, MapsQuiet

(* Whichever kind of move is picked, the maps are left alone.              *)
LEMMA PickBounds ==
    ASSUME ApartInv, BoundsInv, NEW t \in Thread,
           SingleCellSwap(t) \/ ChainSwap(t) \/ TileSwap(t)
    PROVE  BoundsInv'
<1>1. pc[t] = "idle"
    BY DEF SingleCellSwap, ChainSwap, TileSwap
<1>2. \E ch, cells, disp : Begin(t, ch, cells, disp)
  <2>1. CASE SingleCellSwap(t)
      BY <2>1 DEF SingleCellSwap
  <2>2. CASE ChainSwap(t)
      BY <2>2 DEF ChainSwap
  <2>3. CASE TileSwap(t)
      BY <2>3 DEF TileSwap
  <2> QED BY <2>1, <2>2, <2>3
<1> QED BY <1>1, <1>2, BeginBounds

(* The steps that leave the maps of the thread alone.                      *)
LEMMA PhaseBounds ==
    ASSUME ApartInv, BoundsInv, NEW t \in Thread,
           \/ Finish(t) \/ (pc[t] = "adding" /\ Fail(t)) \/ NextCluster(t) \/ AcceptMove(t)
           \/ BindMoveBegin(t) \/ BindMoveCell(t) \/ CheckValidity(t) \/ RevertUnbind(t)
           \/ SearchInVain(t)
    PROVE  BoundsInv'
<1>1. UNCHANGED <<main, view, bounds, track, moved, minWirelen, used, tries>>
    BY DEF Finish, Fail, NextCluster, AcceptMove, BindMoveBegin, BindMoveCell, CheckValidity,
           RevertUnbind, SearchInVain, global, local
<1>2. pc[t] # "joined"
    BY DEF Finish, Fail, NextCluster, AcceptMove, BindMoveBegin, BindMoveCell, CheckValidity,
           RevertUnbind, SearchInVain
<1>3. main = "running" /\ pc \in [Thread -> {"joined", "idle", "searching", "adding", "decide", "bind",
                "binding", "check", "commit", "revert", "rebind"}]
    BY <1>2, AtWork
<1>4. GoesOn
  <2>1. CASE Finish(t)
      BY <1>3, <2>1 DEF Finish, GoesOn, Early, Late
  <2>2. CASE (pc[t] = "adding" /\ Fail(t))
      BY <1>3, <2>2 DEF Fail, GoesOn, Early, Late
  <2>3. CASE NextCluster(t)
      BY <1>3, <2>3 DEF NextCluster, Fail, GoesOn, Early, Late
  <2>4. CASE AcceptMove(t)
      BY <1>3, <2>4 DEF AcceptMove, GoesOn, Early, Late
  <2>5. CASE BindMoveBegin(t)
      BY <1>3, <2>5 DEF BindMoveBegin, GoesOn, Early, Late
  <2>6. CASE BindMoveCell(t)
      BY <1>3, <2>6 DEF BindMoveCell, GoesOn, Early, Late
  <2>7. CASE CheckValidity(t)
      BY <1>3, <2>7 DEF CheckValidity, GoesOn, Early, Late
  <2>8. CASE RevertUnbind(t)
      BY <1>3, <2>8 DEF RevertUnbind, GoesOn, Early, Late
  <2>9. CASE SearchInVain(t)
      BY <1>3, <2>9 DEF SearchInVain, GoesOn, Early, Late
  <2> QED BY <2>1, <2>2, <2>3, <2>4, <2>5, <2>6, <2>7, <2>8, <2>9
<1>5. tries' \in [Thread -> 0 .. MaxTries]
    BY <1>1 DEF BoundsInv, RestTyped
<1>6. MapsLeft
    BY <1>1 DEF MapsLeft
<1> QED BY <1>3, <1>4, <1>5, <1>6, MapsQuiet

-----------------------------------------------------------------------------
(* The boxes of the nets: the main thread.                                 *)

LEMMA NetBox ==
    ASSUME NEW n \in Nets \ SkipNet, NEW place,
           \A c \in ToSet(Pins[n]) : place[c] \in Bels
    PROVE  /\ Compute(n, place) = ExactBox(n, place)
           /\ ExactBox(n, place) \in [Axis -> BoxType]
           /\ \A ax \in Axis : ExactBox(n, place)[ax].lo <= ExactBox(n, place)[ax].hi
           /\ Hpwl(ExactBox(n, place)) \in Nat
<1>1. ASSUME NEW ax \in Axis
      PROVE  /\ Scan(Positions(n, place, ax)) = ExactAxis(Positions(n, place, ax))
             /\ ExactAxis(Positions(n, place, ax)) \in BoxType
             /\ ExactAxis(Positions(n, place, ax)).lo <= ExactAxis(Positions(n, place, ax)).hi
  <2>1. Positions(n, place, ax) \in Seq(Int) /\ Positions(n, place, ax) # <<>>
      BY NetPositions
  <2> QED BY <2>1, ScanIsExact
<1>2. ExactBox(n, place) = [ax \in Axis |-> ExactAxis(Positions(n, place, ax))]
    BY DEF ExactBox
<1>3. Compute(n, place) = ExactBox(n, place)
    BY <1>1 DEF Compute, ExactBox
<1>4. /\ ExactBox(n, place) \in [Axis -> BoxType]
      /\ \A ax \in Axis : ExactBox(n, place)[ax].lo <= ExactBox(n, place)[ax].hi
    BY <1>1, <1>2
<1>5. "x" \in Axis /\ "y" \in Axis
    BY DEF Axis
<1>6. Hpwl(ExactBox(n, place)) \in Nat
  <2>1. ASSUME NEW b \in BoxType, b.lo <= b.hi PROVE Span(b) \in Nat
      BY <2>1 DEF Span, BoxType
  <2>2. Span(ExactBox(n, place)["x"]) \in Nat /\ Span(ExactBox(n, place)["y"]) \in Nat
      BY <1>4, <1>5, <2>1
  <2> QED BY <2>2 DEF Hpwl
<1> QED BY <1>3, <1>4, <1>6

(* The global bounds of a placement are the exact boxes.                   *)
LEMMA AllBoxes ==
    ASSUME NEW place \in [Cells -> Bels], NEW n \in Nets \ SkipNet
    PROVE  /\ \A c \in ToSet(Pins[n]) : c \in Cells /\ place[c] \in Bels
           /\ DOMAIN GlobalBounds(place) = Nets \ SkipNet
           /\ GlobalBounds(place)[n] = ExactBox(n, place)
<1>1. \A c \in ToSet(Pins[n]) : c \in Cells /\ place[c] \in Bels
    BY NetsAre
<1>2. Compute(n, place) = ExactBox(n, place)
    BY <1>1, NetBox
<1> QED BY <1>1, <1>2 DEF GlobalBounds

(* The wirelength is a number.                                             *)
LEMMA WirelenIsNat ==
    ASSUME NEW place \in [Cells -> Bels]
    PROVE  TotalWirelen(GlobalBounds(place)) \in Nat
<1> DEFINE E == Nets \ SkipNet
           b == GlobalBounds(place)
           f == [n \in E |-> Hpwl(b[n])]
           IsIter(G) == G = [s \in SUBSET E |-> IF s = {} THEN 0
                                ELSE Hpwl(b[CHOOSE x \in s : TRUE]) + G[s \ {CHOOSE x \in s : TRUE}]]
           H == CHOOSE G : IsIter(G)
<1>1. IsFiniteSet(E)
    BY NetsAre, FS_Subset
<1>2. \A n \in E : Hpwl(b[n]) \in Nat
  <2> SUFFICES ASSUME NEW n \in E PROVE Hpwl(b[n]) \in Nat
      OBVIOUS
  <2>1. b[n] = ExactBox(n, place) /\ \A c \in ToSet(Pins[n]) : place[c] \in Bels
      BY AllBoxes
  <2> HIDE DEF b
  <2> QED BY <2>1, NetBox
<1> HIDE DEF b
<1>3. f \in [E -> Int] /\ \A n \in E : f[n] \in Nat
    BY <1>2
<1>4. PICK F : Sums(F, E, f)
  <2> HIDE DEF E, f
  <2> QED BY <1>1, <1>3, SumsExist
<1>5. \A G : Sums(G, E, f) <=> IsIter(G)
  <2>1. \A s \in SUBSET E : s # {} => f[CHOOSE x \in s : TRUE] = Hpwl(b[CHOOSE x \in s : TRUE])
    <3>1. \A s \in SUBSET E : s # {} => (CHOOSE x \in s : TRUE) \in E
        OBVIOUS
    <3> QED BY <3>1
  <2> HIDE DEF f, E
  <2>2. \A G : [s \in SUBSET E |-> IF s = {} THEN 0
                    ELSE f[CHOOSE x \in s : TRUE] + G[s \ {CHOOSE x \in s : TRUE}]]
             = [s \in SUBSET E |-> IF s = {} THEN 0
                    ELSE Hpwl(b[CHOOSE x \in s : TRUE]) + G[s \ {CHOOSE x \in s : TRUE}]]
      BY <2>1
  <2> QED BY <2>2 DEF Sums
<1>6. IsIter(H)
  <2>1. IsIter(F)
      BY <1>4, <1>5
  <2> HIDE DEF IsIter
  <2> QED BY <2>1
<1>7. TotalWirelen(b) = H[E]
    BY DEF TotalWirelen, MapThenSumSet, MapThenFoldSet
<1>8. Sums(H, E, f)
  <2> HIDE DEF IsIter, H
  <2> QED BY <1>5, <1>6
<1> HIDE DEF H, f, E
<1>9. H[E] \in Nat
    BY <1>1, <1>3, <1>8, SumIsNat
<1> QED BY <1>7, <1>9 DEF b

(* Initially the bounds are those of the start placement.                  *)
LEMMA InitBounds == Init => BoundsInv
<1> SUFFICES ASSUME Init PROVE BoundsInv
    OBVIOUS
<1>1. cellBel \in [Cells -> Bels] /\ MaxTries \in Nat
    BY DetailPlaceAssumption DEF Init
<1>2. RestTyped
  <2>1. minWirelen \in Nat
      BY <1>1, WirelenIsNat DEF Init
  <2>2. tries \in [Thread -> 0 .. MaxTries] /\ used \in [Thread -> SUBSET Bels]
      BY <1>1 DEF Init
  <2>3. DOMAIN bounds = Thread /\ DOMAIN track = Thread /\ \A t \in Thread : DOMAIN moved[t] = {}
      BY DEF Init
  <2> QED BY <2>1, <2>2, <2>3 DEF RestTyped
<1>3. LastBoundsInv
    BY DEF Init, LastBoundsInv
<1>4. ASSUME NEW t \in Thread PROVE BoxesInv(t)
  <2>1. /\ DOMAIN view[t] = {} /\ DOMAIN bounds[t] = {} /\ DOMAIN track[t] = {}
        /\ pc[t] = "joined"
      BY DEF Init
  <2>2. NetCells({}) = {}
      BY DEF NetCells
  <2> QED BY <2>1, <2>2 DEF BoxesInv, ViewTyped, BoxesBefore, BoxesFollow, UnnotedKept,
                           NothingNoted, BoxesAfter
<1> QED BY <1>2, <1>3, <1>4 DEF BoundsInv

(* A cut of the partitions moves no cell.                                  *)
LEMMA SplitBounds == ApartInv /\ BoundsInv /\ Split => BoundsInv'
<1> SUFFICES ASSUME ApartInv, BoundsInv, Split PROVE BoundsInv'
    OBVIOUS
<1>1. UNCHANGED <<main, lastBounds, minWirelen, cellBel, pc, view, bounds, track, moved, used, tries>>
    BY DEF Split, arch, local
<1>2. RestTyped' /\ LastBoundsInv'
    BY <1>1 DEF BoundsInv, RestTyped, LastBoundsInv
<1>3. ASSUME NEW u \in Thread PROVE BoxesInv(u)'
  <2>1. BoxesInv(u)
      BY DEF BoundsInv
  <2> QED BY <1>1, <2>1, BoxesKept
<1> QED BY <1>2, <1>3 DEF BoundsInv

(* update_global_costs takes the bounds from the placement.                *)
LEMMA EndBounds == ApartInv /\ BoundsInv /\ EndIteration => BoundsInv'
<1> SUFFICES ASSUME ApartInv, BoundsInv, EndIteration PROVE BoundsInv'
    OBVIOUS
<1>1. /\ UNCHANGED <<cellBel, pc, view, bounds, track, moved, used, tries>>
      /\ lastBounds' = GlobalBounds(cellBel) /\ \A t \in Thread : pc[t] = "joined"
      /\ minWirelen' = minWirelen \/ minWirelen' = TotalWirelen(lastBounds')
    BY DEF EndIteration, arch, local
<1>2. cellBel \in [Cells -> Bels]
    BY <1>1, AllBound
<1>3. minWirelen' \in Nat
    BY <1>1, <1>2, WirelenIsNat DEF BoundsInv, RestTyped
<1>4. RestTyped'
    BY <1>1, <1>3 DEF BoundsInv, RestTyped
<1>5. LastBoundsInv'
    BY <1>1 DEF LastBoundsInv
<1>6. ASSUME NEW u \in Thread PROVE BoxesInv(u)'
  <2>1. BoxesInv(u)
      BY DEF BoundsInv
  <2> QED BY <1>1, <2>1, BoxesKept
<1> QED BY <1>4, <1>5, <1>6 DEF BoundsInv

(* setup_initial_state.                                                    *)
LEMMA StartBounds == ApartInv /\ BoundsInv /\ StartThreads => BoundsInv'
<1> SUFFICES ASSUME ApartInv, BoundsInv, StartThreads PROVE BoundsInv'
    OBVIOUS
<1> DEFINE N(t) == ThreadNets(t) \ SkipNet
<1>1. /\ UNCHANGED <<minWirelen, cellBel, moved, used>> /\ main' = "running"
      /\ tries' = [t \in Thread |-> 0] /\ pc' = [t \in Thread |-> "idle"]
      /\ view' = [t \in Thread |-> Restrict(cellBel, NetCells(ThreadNets(t)))]
      /\ bounds' = [t \in Thread |-> Restrict(lastBounds, ThreadNets(t) \ SkipNet)]
      /\ track' = [t \in Thread |-> [n \in DOMAIN bounds'[t] |-> TrackedNet(bounds'[t][n])]]
      /\ lastBounds = GlobalBounds(cellBel)
    BY DEF StartThreads, BoundsInv, LastBoundsInv, arch
<1>2. \A t \in Thread : pc[t] = "joined"
    BY DEF StartThreads, ApartInv, ThreadInv, Phase, Running
<1>3. cellBel \in [Cells -> Bels] /\ \A t \in Thread : DOMAIN moved[t] = {}
    BY <1>2, AllBound
<1>4. RestTyped'
    BY <1>1, NetsAre DEF BoundsInv, RestTyped
<1>5. LastBoundsInv'
    BY <1>1 DEF LastBoundsInv
<1>6. ASSUME NEW t \in Thread PROVE BoxesInv(t)'
  <2> DEFINE V == NetCells(ThreadNets(t))
  <2>1. /\ DOMAIN view'[t] = V /\ V \subseteq Cells
        /\ \A c \in V : view'[t][c] = cellBel[c] /\ cellBel[c] \in Bels
    <3>1. view'[t] = Restrict(cellBel, NetCells(ThreadNets(t)))
        BY <1>1
    <3>2. V \subseteq Cells
      <4>1. \A n \in Nets : ToSet(Pins[n]) \subseteq Cells
        <5>1. Pins \in [Nets -> Seq(Cells)]
            BY DetailPlaceAssumption
        <5>2. \A s \in Seq(Cells) : ToSet(s) \subseteq Cells
            BY DEF ToSet
        <5> QED BY <5>1, <5>2
      <4> QED BY <4>1 DEF NetCells, ThreadNets, CellNets
    <3> QED BY <1>3, <3>1, <3>2 DEF Restrict
  <2>2. N(t) \subseteq Nets \ SkipNet /\ DOMAIN bounds'[t] = N(t)
        /\ \A n \in N(t) : bounds'[t][n] = lastBounds[n]
    <3>1. N(t) \subseteq Nets \ SkipNet
        BY DEF ThreadNets, CellNets
    <3>2. DOMAIN lastBounds = Nets \ SkipNet
        BY <1>1 DEF GlobalBounds
    <3>3. bounds'[t] = Restrict(lastBounds, N(t))
        BY <1>1
    <3> HIDE DEF N
    <3> QED BY <3>1, <3>2, <3>3 DEF Restrict
  <2>3. DOMAIN track'[t] = N(t) /\ \A n \in N(t) : track'[t][n] = TrackedNet(bounds'[t][n])
    <3>1. track'[t] = [n \in DOMAIN bounds'[t] |-> TrackedNet(bounds'[t][n])]
        BY <1>1
    <3> HIDE DEF N
    <3> QED BY <2>2, <3>1
  <2>4. \A n \in N(t) : \A c \in ToSet(Pins[n]) : c \in V
      BY <2>2, NetsAre DEF NetCells
  <2> HIDE DEF N, V
  <2>5. ViewTyped(t)'
    <3>2. NetCells(N(t)) \subseteq V
        BY <2>4 DEF NetCells
    <3> QED BY <2>1, <2>2, <2>3, <3>2 DEF ViewTyped
  <2>6. \A c \in V : Before(t)'[c] = cellBel[c]
    <3>1. DOMAIN Old(t)' = {}
        BY <1>1, <1>3 DEF Old
    <3> QED BY <2>1, <3>1 DEF Before, Over
  <2>7. ASSUME NEW n \in N(t)
        PROVE  /\ bounds'[t][n] = ExactBox(n, cellBel)
               /\ ExactBox(n, Before(t)') = ExactBox(n, cellBel)
               /\ ExactBox(n, view'[t]) = ExactBox(n, cellBel)
               /\ bounds'[t][n] \in [Axis -> BoxType]
    <3>1. bounds'[t][n] = ExactBox(n, cellBel) /\ \A c \in ToSet(Pins[n]) : cellBel[c] \in Bels
        BY <1>1, <1>3, <2>2, AllBoxes
    <3>2. \A ax \in Axis : /\ Positions(n, Before(t)', ax) = Positions(n, cellBel, ax)
                           /\ Positions(n, view'[t], ax) = Positions(n, cellBel, ax)
        BY <2>1, <2>2, <2>4, <2>6, SamePositions
    <3> QED BY <2>2, <3>1, <3>2, NetBox DEF ExactBox
  <2>8. BoxesBefore(t)'
      BY <2>2, <2>7 DEF BoxesBefore
  <2>9. ASSUME NEW n \in N(t), NEW ax \in Axis
        PROVE  /\ track'[t][n][ax] \in TrackedType /\ track'[t][n][ax].change = "NO_CHANGE"
               /\ Untracked(track'[t][n][ax]) = ExactAxis(Positions(n, view'[t], ax))
    <3> DEFINE b == bounds'[t][n][ax]
    <3>1. b \in BoxType /\ b = ExactAxis(Positions(n, view'[t], ax))
      <4>1. bounds'[t][n] = ExactBox(n, view'[t]) /\ bounds'[t][n] \in [Axis -> BoxType]
          BY <2>7
      <4>2. ExactBox(n, view'[t])[ax] = ExactAxis(Positions(n, view'[t], ax))
          BY DEF ExactBox
      <4> QED BY <4>1, <4>2
    <3>2. track'[t][n][ax] = [lo |-> b.lo, nlo |-> b.nlo, hi |-> b.hi, nhi |-> b.nhi,
                              change |-> "NO_CHANGE"]
        BY <2>3 DEF TrackedNet, Tracked, WithChange
    <3> HIDE DEF b
    <3>3. track'[t][n][ax] \in TrackedType /\ track'[t][n][ax].change = "NO_CHANGE"
        BY <3>1, <3>2 DEF BoxType, TrackedType, BoundChange
    <3>4. Untracked(track'[t][n][ax]) = [lo |-> b.lo, nlo |-> b.nlo, hi |-> b.hi, nhi |-> b.nhi]
        BY <3>2 DEF Untracked
    <3>5. b = [lo |-> b.lo, nlo |-> b.nlo, hi |-> b.hi, nhi |-> b.nhi]
        BY <3>1 DEF BoxType
    <3> QED BY <3>1, <3>3, <3>4, <3>5
  <2>10. BoxesFollow(t)'
      BY <2>3, <2>9 DEF BoxesFollow, Follows
  <2>11. UnnotedKept(t)' /\ NothingNoted(t)'
      BY <2>3, <2>9 DEF UnnotedKept, NothingNoted, Unnoted
  <2>12. BoxesAfter(t)'
      BY <1>1 DEF BoxesAfter
  <2> QED BY <2>5, <2>8, <2>10, <2>11, <2>12 DEF BoxesInv
<1> QED BY <1>4, <1>5, <1>6 DEF BoundsInv

-----------------------------------------------------------------------------
(* The boxes of the nets: a thread collects its move.                      *)

LEMMA SameBoxes ==
    ASSUME NEW N \in SUBSET (Nets \ SkipNet), NEW p, NEW q, \A c \in NetCells(N) : p[c] = q[c],
           NEW n \in N
    PROVE  /\ ExactBox(n, p) = ExactBox(n, q)
           /\ \A ax \in Axis : Positions(n, p, ax) = Positions(n, q, ax)
<1>1. \A c \in ToSet(Pins[n]) : p[c] = q[c]
    BY DEF NetCells
<1>2. \A ax \in Axis : Positions(n, p, ax) = Positions(n, q, ax)
    BY <1>1, SamePositions
<1> QED BY <1>2 DEF ExactBox

(* What BoxesFollow and UnnotedKept say of the maps of a thread.           *)
LEMMA TracksIs ==
    ASSUME NEW t \in Thread, BoxesInv(t)
    PROVE  /\ DOMAIN bounds[t] \in SUBSET (Nets \ SkipNet)
           /\ \A c \in NetCells(DOMAIN bounds[t]) : c \in DOMAIN view[t] /\ view[t][c] \in Bels
           /\ TracksBoxes(track[t], bounds[t], DOMAIN bounds[t], view[t])
<1>1. /\ DOMAIN bounds[t] \in SUBSET (Nets \ SkipNet) /\ DOMAIN track[t] = DOMAIN bounds[t]
      /\ \A c \in NetCells(DOMAIN bounds[t]) : c \in DOMAIN view[t] /\ view[t][c] \in Bels
    BY DEF BoxesInv, ViewTyped
<1>2. \A n \in DOMAIN bounds[t] : \A c \in ToSet(Pins[n]) : view[t][c] \in Bels
    BY <1>1 DEF NetCells
<1> QED BY <1>1, <1>2 DEF BoxesInv, BoxesFollow, UnnotedKept, TracksBoxes

(* add_to_move, called once or twice.                                      *)
LEMMA AddBounds ==
    ASSUME ApartInv, BoundsInv, ApartInv', NEW t \in Thread, Adding(t), NEW adds, AddToMove(t, adds),
           UNCHANGED <<main, minWirelen, parts, cellBel, bounds, pc, tries>>,
           used' \in [Thread -> SUBSET Bels],
           Named(adds) \cap DOMAIN moved[t] = {},
           \/ \E a : adds = <<a>>
           \/ \E a, b : adds = <<a, b>> /\ a.cell # b.cell
    PROVE  BoundsInv'
<1> DEFINE D == Named(adds)
           N == DOMAIN bounds[t]
<1>1. PICK dest :
        /\ \A c \in D : \E a \in ToSet(adds) : a.cell = c /\ dest[c] = a.bel
        /\ DOMAIN moved'[t] = D \cup DOMAIN moved[t]
        /\ \A c \in DOMAIN moved'[t] : moved'[t][c] =
                IF c \in D THEN [old |-> cellBel[c], new |-> dest[c]] ELSE moved[t][c]
        /\ DOMAIN view'[t] = D \cup DOMAIN view[t]
        /\ \A c \in DOMAIN view'[t] : view'[t][c] = IF c \in D THEN dest[c] ELSE view[t][c]
        /\ \A u \in Thread \ {t} : moved'[u] = moved[u] /\ view'[u] = view[u]
    BY AddEffect DEF ApartInv
<1>2. pc[t] = "adding" /\ main = "running"
    BY AtWork DEF Adding
<1>3. \A c \in D : /\ c \in parts[t].cells /\ c \in Cells
                   /\ cellBel[c] \in Bels /\ dest[c] \in Bels
                   /\ c \in DOMAIN view[t] => view[t][c] = cellBel[c]
  <2> SUFFICES ASSUME NEW c \in D
               PROVE  /\ c \in parts[t].cells /\ c \in Cells
                      /\ cellBel[c] \in Bels /\ dest[c] \in Bels
                      /\ c \in DOMAIN view[t] => view[t][c] = cellBel[c]
      OBVIOUS
  <2>1. c \in DOMAIN moved'[t] /\ moved'[t][c] = [old |-> cellBel[c], new |-> dest[c]]
      BY <1>1
  <2>2. c \in parts'[t].cells \ Locked /\ moved'[t][c].old \in Bels /\ moved'[t][c].new \in BelsFor[c]
      BY <2>1 DEF ApartInv, ThreadInv, MoveInv
  <2>3. c \in parts[t].cells /\ c \in Cells
    <3>1. parts[t].cells \subseteq Cells
      <4>1. t \in DOMAIN parts
          BY <1>2 DEF ApartInv, TypeInv, Running, Thread
      <4> QED BY <4>1 DEF ApartInv, PartsApart
    <3> QED BY <2>2, <3>1
  <2>4. dest[c] \in Bels
      BY <2>1, <2>2, <2>3, Grid
  <2>5. c \in DOMAIN view[t] => view[t][c] = cellBel[c]
    <3>1. c \notin DOMAIN moved[t] /\ pc[t] # "joined" /\ ViewInv(t)
        BY <1>2 DEF ApartInv, ThreadInv
    <3> QED BY <2>3, <3>1 DEF ViewInv
  <2> QED BY <2>1, <2>2, <2>3, <2>4, <2>5
<1>4. BoxesInv(t) /\ RestTyped
    BY DEF BoundsInv
<1>5. /\ N \in SUBSET (Nets \ SkipNet)
      /\ \A c \in NetCells(N) : c \in DOMAIN view[t] /\ view[t][c] \in Bels
      /\ TracksBoxes(track[t], bounds[t], N, view[t])
    BY <1>4, TracksIs
<1>6. DOMAIN track = Thread
    BY <1>4 DEF RestTyped
<1>1a. /\ \A c \in D : c \in DOMAIN moved'[t] /\ moved'[t][c] = [old |-> cellBel[c], new |-> dest[c]]
       /\ \A c \in DOMAIN moved'[t] : c \notin D => c \in DOMAIN moved[t] /\ moved'[t][c] = moved[t][c]
       /\ \A c \in D : c \notin DOMAIN moved[t]
    BY <1>1
<1> HIDE DEF D, N
<1>7. TracksBoxes(track'[t], bounds[t], N, view'[t])
  <2>1. ASSUME NEW a, adds = <<a>> PROVE TracksBoxes(track'[t], bounds[t], N, view'[t])
    <3>1. D = {a.cell} /\ dest[a.cell] = a.bel
      <4>1. ToSet(adds) = {a}
          BY <2>1 DEF ToSet
      <4> QED BY <1>1, <4>1 DEF D, Named
    <3>2. track'[t] = FollowCell(track[t], a.cell, cellBel[a.cell], a.bel)
        BY <1>6, <2>1, FollowOne DEF FollowAdd
    <3>3. OneGoes(N, view[t], view'[t], a.cell, cellBel[a.cell], a.bel)
        BY <1>1, <1>3, <1>5, <3>1 DEF OneGoes
    <3>4. a.cell \in Cells /\ cellBel[a.cell] \in Bels /\ a.bel \in Bels
        BY <1>3, <3>1
    <3> QED BY <1>5, <3>2, <3>3, <3>4, CellTracked
  <2>2. ASSUME NEW a, NEW b, adds = <<a, b>>, a.cell # b.cell
        PROVE  TracksBoxes(track'[t], bounds[t], N, view'[t])
    <3> DEFINE p == [d \in DOMAIN view[t] |-> IF d = a.cell THEN a.bel ELSE view[t][d]]
               k == FollowCell(track[t], a.cell, cellBel[a.cell], a.bel)
    <3>1. D = {a.cell, b.cell} /\ dest[a.cell] = a.bel /\ dest[b.cell] = b.bel
      <4>1. ToSet(adds) = {a, b}
          BY <2>2 DEF ToSet
      <4> QED BY <1>1, <2>2, <4>1 DEF D, Named
    <3>2. track'[t] = FollowCell(k, b.cell, cellBel[b.cell], b.bel)
        BY <1>6, <2>2, FollowTwo DEF FollowAdd
    <3>3. OneGoes(N, view[t], p, a.cell, cellBel[a.cell], a.bel)
        BY <1>3, <1>5, <3>1 DEF OneGoes
    <3>4. OneGoes(N, p, view'[t], b.cell, cellBel[b.cell], b.bel)
        BY <1>1, <1>3, <1>5, <2>2, <3>1 DEF OneGoes
    <3>5. a.cell \in Cells /\ cellBel[a.cell] \in Bels /\ a.bel \in Bels
          /\ b.cell \in Cells /\ cellBel[b.cell] \in Bels /\ b.bel \in Bels
        BY <1>3, <3>1
    <3> HIDE DEF p
    <3>6. TracksBoxes(k, bounds[t], N, p)
        BY <1>5, <3>3, <3>5, CellTracked
    <3> HIDE DEF k
    <3> QED BY <1>5, <3>2, <3>4, <3>5, <3>6, CellTracked
  <2> QED BY <2>1, <2>2
<1>8. ViewTyped(t)'
  <2>1. DOMAIN track'[t] = N /\ bounds'[t] = bounds[t]
      BY <1>7 DEF TracksBoxes
  <2>2. DOMAIN view'[t] \subseteq Cells /\ \A c \in DOMAIN view'[t] : view'[t][c] \in Bels
      BY <1>1, <1>3, <1>4 DEF BoxesInv, ViewTyped
  <2>3. NetCells(N) \subseteq DOMAIN view'[t]
      BY <1>1, <1>5
  <2> QED BY <1>5, <2>1, <2>2, <2>3 DEF ViewTyped, N
<1>9. BoxesBefore(t)'
  <2>1. \A c \in NetCells(N) : Before(t)'[c] = Before(t)[c]
    <3> SUFFICES ASSUME NEW c \in NetCells(N) PROVE Before(t)'[c] = Before(t)[c]
        OBVIOUS
    <3>1. c \in DOMAIN view[t] /\ c \in DOMAIN view'[t]
        BY <1>1, <1>5
    <3>2. Before(t)[c] = IF c \in DOMAIN moved[t] THEN moved[t][c].old ELSE view[t][c]
        BY <3>1 DEF Before, Over, Old
    <3>3. Before(t)'[c] = IF c \in DOMAIN moved'[t] THEN moved'[t][c].old ELSE view'[t][c]
        BY <3>1 DEF Before, Over, Old
    <3>4. CASE c \in D
      <4>0. moved'[t][c] = [old |-> cellBel[c], new |-> dest[c]]
          BY <1>1a, <3>4
      <4>1. moved'[t][c].old = cellBel[c]
          BY <4>0
      <4>2. c \in DOMAIN moved'[t] /\ c \notin DOMAIN moved[t]
          BY <1>1a, <3>4
      <4> QED BY <1>3, <3>1, <3>2, <3>3, <3>4, <4>1, <4>2
    <3>5. CASE c \notin D
        BY <1>1, <3>1, <3>2, <3>3, <3>5, ZenonT(60)
    <3> QED BY <3>4, <3>5
  <2>2. ASSUME NEW n \in N PROVE bounds'[t][n] = ExactBox(n, Before(t)')
    <3>1. ExactBox(n, Before(t)') = ExactBox(n, Before(t))
        BY <1>5, <2>1, SameBoxes
    <3> QED BY <1>4, <3>1 DEF BoxesInv, BoxesBefore, N
  <2> QED BY <2>2 DEF BoxesBefore, N
<1>10. BoxesFollow(t)' /\ UnnotedKept(t)'
    BY <1>7 DEF BoxesFollow, UnnotedKept, TracksBoxes
<1>11. NothingNoted(t)' /\ BoxesAfter(t)'
  <2>1. DOMAIN moved'[t] # {}
    <3>1. D # {}
      <4>1. ASSUME NEW a, adds = <<a>> PROVE D # {}
        <5>1. a \in ToSet(adds)
            BY <4>1 DEF ToSet
        <5> QED BY <5>1 DEF D, Named
      <4>2. ASSUME NEW a, NEW b, adds = <<a, b>> PROVE D # {}
        <5>1. a \in ToSet(adds)
            BY <4>2 DEF ToSet
        <5> QED BY <5>1 DEF D, Named
      <4> QED BY <4>1, <4>2
    <3> QED BY <1>1, <3>1
  <2> QED BY <1>2, <2>1 DEF NothingNoted, BoxesAfter
<1>12. BoxesInv(t)'
    BY <1>8, <1>9, <1>10, <1>11 DEF BoxesInv
<1>13. DOMAIN track' = Thread /\ \A u \in Thread \ {t} : track'[u] = track[u]
  <2>1. track' = [track EXCEPT ![t] = track'[t]]
    <3> DEFINE f == FoldLeft(LAMBDA tr, a : FollowCell(tr, a.cell, cellBel[a.cell], a.bel), track[t], adds)
    <3>1. track' = [track EXCEPT ![t] = f]
        BY DEF AddToMove
    <3> HIDE DEF f
    <3> QED BY <1>6, <3>1
  <2> QED BY <1>6, <2>1
<1>14. RestTyped'
  <2>1. minWirelen' \in Nat /\ tries' \in [Thread -> 0 .. MaxTries] /\ DOMAIN bounds' = Thread
      BY <1>4 DEF RestTyped
  <2>2. ASSUME NEW u \in Thread, NEW c \in DOMAIN moved'[u]
        PROVE  moved'[u][c] \in [old : Bels, new : Bels]
    <3>1. CASE u # t \/ c \notin D
        BY <1>1, <1>1a, <1>4, <3>1, <2>2 DEF RestTyped
    <3>2. CASE u = t /\ c \in D
      <4>1. moved'[t][c] = [old |-> cellBel[c], new |-> dest[c]]
          BY <1>1a, <3>2
      <4>2. cellBel[c] \in Bels /\ dest[c] \in Bels
          BY <1>3, <3>2
      <4> QED BY <3>2, <4>1, <4>2
    <3> QED BY <3>1, <3>2
  <2> QED BY <1>13, <2>1, <2>2 DEF RestTyped
<1> QED BY <1>1, <1>2, <1>12, <1>13, <1>14, MapsStep

(* A cell of a swap, and a member of a cluster, is added to the move.      *)
LEMMA AddNextBounds ==
    ASSUME ApartInv, BoundsInv, ApartInv', NEW t \in Thread, AddNext(t) PROVE BoundsInv'
<1> DEFINE a == Head(todo[t])
<1>1. Requests(t) /\ Adding(t) /\ ~chain[t] /\ pc[t] = "adding" /\ todo[t] \in Seq(ToType)
    BY DEF ApartInv, ThreadInv, TypeInv, AddNext, Adding
<1>2. CASE ~MayAdd(t, a.cell, cellBel[a.cell], a.bel)
    BY <1>1, <1>2, PhaseBounds DEF AddNext
<1>3. CASE MayAdd(t, a.cell, cellBel[a.cell], a.bel)
  <2>1. /\ AddToMove(t, <<a>>)
        /\ UNCHANGED <<main, minWirelen, parts, cellBel, bounds, pc, tries>> /\ used' = used
      BY <1>3 DEF AddNext, global, arch
  <2>2. Named(<<a>>) = {a.cell}
      BY DEF ToSet, Named
  <2>3. a.cell \in TodoCells(t)
      BY <1>1, TakeHead DEF TodoCells, Adding
  <2>4. a.cell \notin DOMAIN moved[t]
      BY <1>1, <2>3 DEF Requests
  <2>5. used' \in [Thread -> SUBSET Bels]
      BY <2>1 DEF BoundsInv, RestTyped
  <2> HIDE DEF a
  <2>6. UNCHANGED <<main, minWirelen, parts, cellBel, bounds, pc, tries>>
      BY <2>1
  <2>7. Named(<<a>>) \cap DOMAIN moved[t] = {}
      BY <2>2, <2>4
  <2> QED BY <1>1, <2>1, <2>5, <2>6, <2>7, AddBounds
<1> QED BY <1>2, <1>3

(* A member of a cluster is added, with the cell it displaces if any.      *)
LEMMA AddMemberBounds ==
    ASSUME ApartInv, BoundsInv, ApartInv', NEW t \in Thread, AddMember(t) PROVE BoundsInv'
<1> DEFINE a     == Head(todo[t])
           old   == cellBel[a.cell]
           bound == belCell[a.bel]
<1>1. TypeInv /\ Phase(t) /\ Requests(t) /\ Adding(t) /\ pc[t] = "adding" /\ chain[t]
    BY DEF ApartInv, ThreadInv, AddMember, Adding
<1>2. Running /\ ~dirty[t]
    BY <1>1 DEF Phase
<1>3. a \in ToSet(todo[t]) /\ a.cell \in TodoCells(t) /\ a \in ToType
  <2>1. todo[t] \in Seq(ToType) /\ todo[t] # <<>>
      BY <1>1 DEF TypeInv, Adding
  <2>2. a \in ToSet(todo[t]) /\ a \in ToType
      BY <2>1, TakeHead
  <2> QED BY <2>2 DEF TodoCells
<1> HIDE DEF a, old, bound
<1>4. CASE Fail(t)
    BY <1>1, <1>4, PhaseBounds
<1>5. CASE /\ a.cell \notin DOMAIN moved[t] /\ MayAdd(t, a.cell, old, a.bel)
           /\ UNCHANGED <<global, arch, archMutex, pc, bounds, chain, dirty, tries>>
           /\ \/ AddToMove(t, <<a>>) /\ used' = [used EXCEPT ![t] = @ \cup {a.bel}]
              \/ /\ bound # a.cell /\ bound \notin DOMAIN moved[t]
                 /\ AddToMove(t, <<a, To(bound, old)>>)
                 /\ used' = [used EXCEPT ![t] = @ \cup {a.bel, old}]
  <2>1. a.cell \in Cells /\ a.bel \in Bels /\ old \in Bels
    <3>1. a.cell \in Cells
        BY <1>3 DEF ToType
    <3>2. a.bel \in Bels
        BY <1>5, <3>1, Grid DEF MayAdd
    <3>3. ClusterOf[a.cell] # NoCluster /\ Reaches(t, ClusterOf[a.cell])
        BY <1>1, <1>3 DEF Requests
    <3>4. ClusterOf[a.cell] \in Cluster /\ a.cell \in MemberCells(ClusterOf[a.cell])
        BY <3>1, <3>3, Clusters
    <3>5. old \in Bels
        BY <1>2, <3>3, <3>4, ClusterBound DEF old
    <3> QED BY <3>1, <3>2, <3>5
  <2>2. used' \in [Thread -> SUBSET Bels]
    <3>1. used \in [Thread -> SUBSET Bels]
        BY DEF BoundsInv, RestTyped
    <3> QED BY <1>5, <2>1, <3>1
  <2>3. UNCHANGED <<main, minWirelen, parts, cellBel, bounds, pc, tries>>
      BY <1>5 DEF global, arch
  <2>4. CASE AddToMove(t, <<a>>)
    <3>1. Named(<<a>>) = {a.cell}
        BY DEF ToSet, Named
    <3>2. Named(<<a>>) \cap DOMAIN moved[t] = {}
        BY <1>5, <3>1
    <3> QED BY <1>1, <2>2, <2>3, <2>4, <3>2, AddBounds
  <2>5. CASE /\ bound # a.cell /\ bound \notin DOMAIN moved[t]
             /\ AddToMove(t, <<a, To(bound, old)>>)
    <3>1. Named(<<a, To(bound, old)>>) = {a.cell, bound} /\ To(bound, old).cell = bound
        BY DEF ToSet, Named, To
    <3>2. Named(<<a, To(bound, old)>>) \cap DOMAIN moved[t] = {}
        BY <1>5, <2>5, <3>1
    <3> DEFINE b == To(bound, old)
    <3>3. b.cell # a.cell /\ AddToMove(t, <<a, b>>) /\ Named(<<a, b>>) \cap DOMAIN moved[t] = {}
        BY <2>5, <3>1, <3>2
    <3> HIDE DEF b
    <3>4. \E x, y : <<a, b>> = <<x, y>> /\ x.cell # y.cell
        BY <3>3
    <3> QED BY <1>1, <2>2, <2>3, <3>3, <3>4, AddBounds
  <2> QED BY <1>5, <2>4, <2>5
<1> QED BY <1>4, <1>5 DEF AddMember, a, old, bound

-----------------------------------------------------------------------------
(* The boxes of the nets: the change of cost, and the end of a move.       *)

LEMMA TrackedBack ==
    ASSUME NEW b \in BoxType
    PROVE  /\ Tracked(b) \in TrackedType /\ Tracked(b).change = "NO_CHANGE"
           /\ Untracked(Tracked(b)) = b
<1>1. Tracked(b) = [lo |-> b.lo, nlo |-> b.nlo, hi |-> b.hi, nhi |-> b.nhi, change |-> "NO_CHANGE"]
    BY DEF Tracked, WithChange
<1>2. b = [lo |-> b.lo, nlo |-> b.nlo, hi |-> b.hi, nhi |-> b.nhi]
    BY DEF BoxType
<1>3. Untracked(Tracked(b)) = [lo |-> b.lo, nlo |-> b.nlo, hi |-> b.hi, nhi |-> b.nhi]
    BY <1>1 DEF Untracked
<1>4. Tracked(b) \in TrackedType
    BY <1>1 DEF BoxType, TrackedType, BoundChange
<1>5. Tracked(b).change = "NO_CHANGE"
    BY <1>1
<1> QED BY <1>2, <1>3, <1>4, <1>5

(* The boxes of a thread are boxes.                                        *)
LEMMA BoxesTyped ==
    ASSUME BoundsInv, NEW t \in Thread, NEW n \in DOMAIN bounds[t]
    PROVE  /\ n \in Nets \ SkipNet /\ n \in DOMAIN track[t]
           /\ bounds[t][n] \in [Axis -> BoxType] /\ bounds[t][n] = ExactBox(n, Before(t))
           /\ \A c \in ToSet(Pins[n]) : /\ c \in DOMAIN view[t] /\ view[t][c] \in Bels
                                        /\ Before(t)[c] \in Bels
<1>1. RestTyped /\ BoxesInv(t)
    BY DEF BoundsInv
<1>2. /\ n \in Nets \ SkipNet /\ n \in DOMAIN track[t] /\ bounds[t][n] = ExactBox(n, Before(t))
    BY <1>1 DEF BoxesInv, ViewTyped, BoxesBefore
<1>3. ASSUME NEW c \in ToSet(Pins[n])
      PROVE  c \in DOMAIN view[t] /\ view[t][c] \in Bels /\ Before(t)[c] \in Bels
  <2>1. c \in DOMAIN view[t] /\ view[t][c] \in Bels
      BY <1>1 DEF BoxesInv, ViewTyped, NetCells
  <2>2. Before(t)[c] = IF c \in DOMAIN moved[t] THEN moved[t][c].old ELSE view[t][c]
      BY <2>1 DEF Before, Over, Old
  <2>3. c \in DOMAIN moved[t] => moved[t][c].old \in Bels
      BY <1>1 DEF RestTyped
  <2> QED BY <2>1, <2>2, <2>3
<1>4. ExactBox(n, Before(t)) \in [Axis -> BoxType]
    BY <1>2, <1>3, NetBox
<1> QED BY <1>2, <1>3, <1>4

(* compute_total_change scans the nets that ask for it.                    *)
LEMMA TotalBounds ==
    ASSUME ApartInv, BoundsInv, NEW t \in Thread, ComputeTotalChange(t) PROVE BoundsInv'
<1>1. /\ pc[t] = "adding" /\ track' = [track EXCEPT ![t] = Rescan(@, view[t])]
      /\ pc' = [pc EXCEPT ![t] = "decide"]
      /\ UNCHANGED <<main, minWirelen, view, bounds, moved, used, tries>>
    BY DEF ComputeTotalChange, global
<1>2. main = "running" /\ pc \in [Thread -> {"joined", "idle", "searching", "adding", "decide", "bind",
                "binding", "check", "commit", "revert", "rebind"}]
    BY <1>1, AtWork
<1>3. RestTyped /\ BoxesInv(t)
    BY DEF BoundsInv
<1>4. /\ pc'[t] = "decide" /\ DOMAIN track' = Thread /\ track'[t] = Rescan(track[t], view[t])
      /\ \A u \in Thread \ {t} : track'[u] = track[u] /\ pc'[u] = pc[u]
    BY <1>1, <1>2, <1>3 DEF RestTyped
<1>5. RestTyped'
    BY <1>1, <1>3, <1>4 DEF RestTyped
<1>6. DOMAIN track'[t] = DOMAIN bounds[t] /\ DOMAIN track[t] = DOMAIN bounds[t]
    BY <1>3, <1>4 DEF BoxesInv, ViewTyped, Rescan
<1>7. ASSUME NEW n \in DOMAIN bounds[t]
      PROVE  /\ \A ax \in Axis : /\ track'[t][n][ax] \in TrackedType
                                 /\ Untracked(track'[t][n][ax]) = ExactAxis(Positions(n, view[t], ax))
             /\ Unnoted(track'[t][n]) => track'[t][n] = TrackedNet(bounds[t][n])
  <2>1. \A ax \in Axis : /\ track[t][n][ax] \in TrackedType
                         /\ Follows(track[t][n][ax], Positions(n, view[t], ax))
                         /\ track[t][n][ax].change \in BoundChange
      BY <1>3, <1>6 DEF BoxesInv, BoxesFollow, TrackedType
  <2>2. Unnoted(track[t][n]) => track[t][n] = TrackedNet(bounds[t][n])
      BY <1>3, <1>6 DEF BoxesInv, UnnotedKept
  <2>3. CASE \E ax \in Axis : track[t][n][ax].change = "FULL_RECOMPUTE"
    <3>1. track'[t][n] = [ax \in Axis |-> WithChange(Compute(n, view[t])[ax], track[t][n][ax].change)]
        BY <1>4, <1>6, <2>3 DEF Rescan
    <3>2. ASSUME NEW ax \in Axis
          PROVE  /\ track'[t][n][ax] \in TrackedType
                 /\ Untracked(track'[t][n][ax]) = ExactAxis(Positions(n, view[t], ax))
                 /\ track'[t][n][ax].change = track[t][n][ax].change
      <4> DEFINE pos == Positions(n, view[t], ax)
                 what == track[t][n][ax].change
      <4>1. track'[t][n][ax] = WithChange(Scan(pos), what)
          BY <3>1 DEF Compute
      <4>2. pos \in Seq(Int) /\ pos # <<>>
          BY BoxesTyped, NetPositions
      <4>3. what \in BoundChange
          BY <2>1
      <4> HIDE DEF pos, what
      <4>4. WithChange(Scan(pos), what) \in TrackedType /\ Untracked(WithChange(Scan(pos), what)) = ExactAxis(pos)
          BY <4>2, <4>3, ScanIsExact
      <4>5. WithChange(Scan(pos), what).change = what
          BY DEF WithChange
      <4> QED BY <4>1, <4>4, <4>5 DEF pos, what
    <3>3. ~Unnoted(track'[t][n])
        BY <2>3, <3>2 DEF Unnoted
    <3> QED BY <3>2, <3>3
  <2>4. CASE \A ax \in Axis : track[t][n][ax].change # "FULL_RECOMPUTE"
    <3>1. track'[t][n] = track[t][n]
        BY <1>4, <1>6, <2>4 DEF Rescan
    <3> QED BY <2>1, <2>2, <2>4, <3>1 DEF Follows
  <2> QED BY <2>3, <2>4
<1>8. ViewTyped(t)' /\ BoxesBefore(t)'
    BY <1>1, <1>3, <1>6 DEF BoxesInv, ViewTyped, BoxesBefore, Before, Old
<1>9. BoxesFollow(t)' /\ UnnotedKept(t)' /\ BoxesAfter(t)' /\ NothingNoted(t)'
    BY <1>1, <1>4, <1>6, <1>7 DEF BoxesFollow, UnnotedKept, BoxesAfter, Follows, NothingNoted
<1>10. BoxesInv(t)'
    BY <1>8, <1>9 DEF BoxesInv
<1>11. UNCHANGED <<main, minWirelen>>
    BY <1>1
<1> QED BY <1>1, <1>2, <1>4, <1>5, <1>10, <1>11, MapsStep

-----------------------------------------------------------------------------
(* The boxes of the nets: a move is committed or taken back.               *)

(* The boxes of a thread that has no move in hand.                         *)
FreshNet(t, n) ==
    /\ bounds[t][n] = ExactBox(n, view[t]) /\ bounds[t][n] \in [Axis -> BoxType]
    /\ track[t][n] = TrackedNet(bounds[t][n])

(* Boxes that are exact, and tracked as they are, are in order.            *)
LEMMA FreshBoxes ==
    ASSUME NEW t \in Thread, ViewTyped(t)', pc'[t] = "idle", DOMAIN moved'[t] = {},
           \A n \in DOMAIN bounds'[t] : FreshNet(t, n)'
    PROVE  BoxesInv(t)'
<1> DEFINE N == DOMAIN bounds'[t]
<1>1. /\ N \in SUBSET (Nets \ SkipNet) /\ DOMAIN track'[t] = N
      /\ \A c \in NetCells(N) : c \in DOMAIN view'[t]
    BY DEF ViewTyped
<1>2. \A c \in NetCells(N) : Before(t)'[c] = view'[t][c]
    BY <1>1 DEF Before, Over, Old
<1>3. ASSUME NEW n \in N
      PROVE  /\ bounds'[t][n] = ExactBox(n, view'[t]) /\ bounds'[t][n] \in [Axis -> BoxType]
             /\ track'[t][n] = TrackedNet(bounds'[t][n])
    BY <1>3 DEF FreshNet
<1> HIDE DEF N
<1>4. BoxesBefore(t)'
  <2>1. ASSUME NEW n \in N PROVE bounds'[t][n] = ExactBox(n, Before(t)')
      BY <1>1, <1>2, <1>3, SameBoxes
  <2> QED BY <2>1 DEF BoxesBefore, N
<1>5. ASSUME NEW n \in N, NEW ax \in Axis
      PROVE  /\ track'[t][n][ax] \in TrackedType /\ track'[t][n][ax].change = "NO_CHANGE"
             /\ Untracked(track'[t][n][ax]) = ExactAxis(Positions(n, view'[t], ax))
  <2> DEFINE b == bounds'[t][n][ax]
  <2>1. b \in BoxType /\ b = ExactAxis(Positions(n, view'[t], ax))
      BY <1>3 DEF ExactBox
  <2>2. track'[t][n][ax] = Tracked(b)
      BY <1>3 DEF TrackedNet
  <2> HIDE DEF b
  <2> QED BY <2>1, <2>2, TrackedBack
<1>6. BoxesFollow(t)'
    BY <1>1, <1>5 DEF BoxesFollow, Follows
<1>7. UnnotedKept(t)' /\ NothingNoted(t)'
    BY <1>1, <1>3, <1>5 DEF UnnotedKept, NothingNoted, Unnoted
<1>8. BoxesAfter(t)'
    BY DEF BoxesAfter
<1> QED BY <1>4, <1>6, <1>7, <1>8 DEF BoxesInv

(* What reset_move_state leaves: nothing of the move.                      *)
LEMMA ResetBounds ==
    ASSUME ApartInv, BoundsInv, NEW t \in Thread, pc[t] # "joined",
           UNCHANGED <<main, minWirelen, tries>>,
           NEW newBounds, ResetMoveState(t, newBounds), DOMAIN bounds' = Thread,
           \A u \in Thread \ {t} : view'[u] = view[u] /\ bounds'[u] = bounds[u],
           ViewTyped(t)', \A n \in DOMAIN bounds'[t] : FreshNet(t, n)'
    PROVE  BoundsInv'
<1>1. RestTyped /\ TypeInv
    BY DEF BoundsInv, ApartInv
<1>2. main = "running" /\ pc \in [Thread -> {"joined", "idle", "searching", "adding", "decide", "bind",
                "binding", "check", "commit", "revert", "rebind"}]
    BY AtWork
<1>3. /\ track' = [track EXCEPT ![t] = track'[t]] /\ moved' = [moved EXCEPT ![t] = <<>>]
      /\ used' = [used EXCEPT ![t] = {}] /\ pc' = [pc EXCEPT ![t] = "idle"]
    BY <1>1 DEF ResetMoveState, RestTyped
<1>4. /\ DOMAIN moved'[t] = {} /\ pc'[t] = "idle"
      /\ \A u \in Thread \ {t} : /\ view'[u] = view[u] /\ bounds'[u] = bounds[u]
                                 /\ track'[u] = track[u] /\ moved'[u] = moved[u]
                                 /\ pc'[u] = pc[u]
    BY <1>1, <1>2, <1>3 DEF TypeInv, RestTyped
<1>5. RestTyped'
  <2>1. /\ minWirelen' \in Nat /\ tries' \in [Thread -> 0 .. MaxTries]
        /\ used' \in [Thread -> SUBSET Bels] /\ DOMAIN bounds' = Thread /\ DOMAIN track' = Thread
      BY <1>1, <1>3 DEF RestTyped
  <2>2. ASSUME NEW u \in Thread, NEW c \in DOMAIN moved'[u]
        PROVE  moved'[u][c] \in [old : Bels, new : Bels]
      BY <1>1, <1>4, <2>2 DEF RestTyped
  <2> QED BY <2>1, <2>2 DEF RestTyped
<1>6. BoxesInv(t)'
    BY <1>4, FreshBoxes
<1> QED BY <1>2, <1>4, <1>5, <1>6, MapsStep

(* A tracked box that is not touched, or touched, for a net.               *)
LEMMA ChangedIs ==
    ASSUME NEW tr, NEW n \in DOMAIN tr
    PROVE  (\E ax \in Axis : n \in Changed(tr, ax)) <=> ~Unnoted(tr[n])
BY DEF Changed, Unnoted

(* commit_move takes the changed boxes over; the others were exact.        *)
LEMMA CommitBounds ==
    ASSUME ApartInv, BoundsInv, NEW t \in Thread, CommitMove(t) PROVE BoundsInv'
<1> DEFINE N == DOMAIN bounds[t]
           nb == NewBounds(bounds[t], track[t])
<1>1. RestTyped /\ BoxesInv(t) /\ pc[t] = "commit"
    BY DEF BoundsInv, CommitMove
<1>2. /\ bounds' = [bounds EXCEPT ![t] = nb] /\ ResetMoveState(t, nb) /\ bounds'[t] = nb
      /\ UNCHANGED <<main, minWirelen, tries>> /\ view' = view
  <2>1. bounds' = [bounds EXCEPT ![t] = nb] /\ ResetMoveState(t, bounds'[t])
        /\ UNCHANGED <<main, minWirelen, tries>> /\ view' = view
      BY DEF CommitMove, global
  <2>2. bounds'[t] = nb
      BY <1>1, <2>1 DEF RestTyped
  <2> QED BY <2>1, <2>2
<1>3. DOMAIN track[t] = N /\ DOMAIN nb = N
    BY <1>1 DEF BoxesInv, ViewTyped, NewBounds
<1>4. track'[t] = [n \in N |-> IF Unnoted(track[t][n]) THEN track[t][n] ELSE TrackedNet(nb[n])]
  <2>1. track'[t] = [n \in DOMAIN nb |-> IF \E ax \in Axis : n \in Changed(track[t], ax)
                                         THEN TrackedNet(nb[n]) ELSE track[t][n]]
      BY <1>1, <1>2 DEF ResetMoveState, RestTyped
  <2>2. \A n \in N : (\E ax \in Axis : n \in Changed(track[t], ax)) <=> ~Unnoted(track[t][n])
      BY <1>3, ChangedIs
  <2> HIDE DEF nb, N
  <2> QED BY <1>3, <2>1, <2>2
<1>5. ASSUME NEW n \in N PROVE FreshNet(t, n)'
  <2>1. /\ n \in Nets \ SkipNet /\ bounds[t][n] \in [Axis -> BoxType]
        /\ \A c \in ToSet(Pins[n]) : view[t][c] \in Bels
      BY BoxesTyped
  <2>2. ExactBox(n, view[t]) \in [Axis -> BoxType]
      BY <2>1, NetBox
  <2>3. \A ax \in Axis : Untracked(track[t][n][ax]) = ExactAxis(Positions(n, view[t], ax))
      BY <1>1, <1>3 DEF BoxesInv, BoxesAfter
  <2>4. PlainNet(track[t][n]) = ExactBox(n, view[t])
      BY <2>3 DEF PlainNet, ExactBox
  <2>5. nb[n] = IF Unnoted(track[t][n]) THEN bounds[t][n] ELSE PlainNet(track[t][n])
      BY <1>3, ChangedIs DEF NewBounds
  <2>6. CASE Unnoted(track[t][n])
    <3>1. track[t][n] = TrackedNet(bounds[t][n])
        BY <1>1, <1>3, <2>6 DEF BoxesInv, UnnotedKept
    <3>2. ASSUME NEW ax \in Axis PROVE bounds[t][n][ax] = ExactBox(n, view[t])[ax]
      <4>1. bounds[t][n][ax] \in BoxType
          BY <2>1
      <4>2. track[t][n][ax] = Tracked(bounds[t][n][ax])
          BY <3>1 DEF TrackedNet
      <4>3. Untracked(track[t][n][ax]) = bounds[t][n][ax]
          BY <4>1, <4>2, TrackedBack
      <4> QED BY <2>3, <4>3 DEF ExactBox
    <3>3. bounds[t][n] = ExactBox(n, view[t])
        BY <2>1, <2>2, <3>2
    <3>4. nb[n] = bounds[t][n] /\ track'[t][n] = track[t][n]
        BY <1>4, <2>5, <2>6
    <3> QED BY <1>2, <2>1, <3>1, <3>3, <3>4 DEF FreshNet
  <2>7. CASE ~Unnoted(track[t][n])
    <3>1. nb[n] = ExactBox(n, view[t]) /\ track'[t][n] = TrackedNet(nb[n])
        BY <1>4, <2>4, <2>5, <2>7
    <3> QED BY <1>2, <2>2, <3>1 DEF FreshNet
  <2> QED BY <2>6, <2>7
<1>6. ViewTyped(t)'
    BY <1>1, <1>2, <1>3, <1>4 DEF BoxesInv, ViewTyped
<1>7. pc[t] # "joined" /\ \A n \in DOMAIN bounds'[t] : FreshNet(t, n)'
    BY <1>1, <1>2, <1>3, <1>5
<1> HIDE DEF nb, N
<1>8. /\ UNCHANGED <<main, minWirelen, tries>> /\ DOMAIN bounds' = Thread
      /\ \A u \in Thread \ {t} : view'[u] = view[u] /\ bounds'[u] = bounds[u]
    BY <1>1, <1>2 DEF RestTyped
<1> QED BY <1>2, <1>6, <1>7, <1>8, ResetBounds

(* revert_move puts the view back to where the boxes still are.            *)
LEMMA ForgetBounds ==
    ASSUME ApartInv, BoundsInv, NEW t \in Thread, pc[t] # "joined", Forget(t) PROVE BoundsInv'
<1> DEFINE N == DOMAIN bounds[t]
<1>1. RestTyped /\ BoxesInv(t) /\ TypeInv /\ main = "running"
    BY AtWork DEF BoundsInv, ApartInv
<1>2. /\ bounds' = bounds /\ ResetMoveState(t, bounds[t]) /\ UNCHANGED <<main, minWirelen, tries>>
      /\ view'[t] = Before(t) /\ \A u \in Thread \ {t} : view'[u] = view[u]
    BY <1>1 DEF Forget, global, Before, TypeInv
<1>3. DOMAIN track[t] = N
    BY <1>1 DEF BoxesInv, ViewTyped
<1>4. ASSUME NEW n \in N PROVE track'[t][n] = TrackedNet(bounds[t][n]) /\ n \in DOMAIN track'[t]
  <2>1. track'[t] = [m \in DOMAIN bounds[t] |-> IF \E ax \in Axis : m \in Changed(track[t], ax)
                                         THEN TrackedNet(bounds[t][m]) ELSE track[t][m]]
      BY <1>1, <1>2 DEF ResetMoveState, RestTyped
  <2>2. Unnoted(track[t][n]) => track[t][n] = TrackedNet(bounds[t][n])
      BY <1>1, <1>3 DEF BoxesInv, UnnotedKept
  <2>3. (\E ax \in Axis : n \in Changed(track[t], ax)) <=> ~Unnoted(track[t][n])
      BY <1>3, ChangedIs
  <2> QED BY <2>1, <2>2, <2>3
<1>5. ASSUME NEW n \in N PROVE FreshNet(t, n)'
    BY <1>2, <1>4, <1>5, BoxesTyped DEF FreshNet
<1>6. ViewTyped(t)'
  <2>1. DOMAIN track'[t] = N /\ bounds'[t] = bounds[t]
      BY <1>1, <1>2 DEF ResetMoveState, RestTyped
  <2>2. DOMAIN view'[t] = DOMAIN moved[t] \cup DOMAIN view[t]
        /\ \A c \in DOMAIN view'[t] : view'[t][c] = IF c \in DOMAIN moved[t] THEN moved[t][c].old ELSE view[t][c]
      BY <1>2 DEF Before, Over, Old
  <2>3. DOMAIN moved[t] \subseteq Cells
    <3>1. t \in DOMAIN parts
        BY <1>1 DEF ApartInv, TypeInv, Running, Thread
    <3>2. parts[t].cells \subseteq Cells
        BY <3>1 DEF ApartInv, PartsApart
    <3> QED BY <3>2 DEF ApartInv, ThreadInv, MoveInv
  <2>4. \A c \in DOMAIN moved[t] : moved[t][c].old \in Bels
      BY <1>1 DEF RestTyped
  <2>5. /\ DOMAIN view[t] \subseteq Cells /\ \A c \in DOMAIN view[t] : view[t][c] \in Bels
        /\ N \subseteq Nets \ SkipNet /\ NetCells(N) \subseteq DOMAIN view[t]
      BY <1>1 DEF BoxesInv, ViewTyped
  <2>6. DOMAIN view'[t] \subseteq Cells /\ \A c \in DOMAIN view'[t] : view'[t][c] \in Bels
      BY <2>2, <2>3, <2>4, <2>5
  <2>7. NetCells(N) \subseteq DOMAIN view'[t]
      BY <2>2, <2>5
  <2> QED BY <2>1, <2>5, <2>6, <2>7 DEF ViewTyped, N
<1>7. /\ DOMAIN bounds' = Thread /\ \A n \in DOMAIN bounds'[t] : FreshNet(t, n)'
      /\ \A u \in Thread \ {t} : view'[u] = view[u] /\ bounds'[u] = bounds[u]
    BY <1>1, <1>2, <1>5 DEF RestTyped
<1>8. UNCHANGED <<main, minWirelen, tries>> /\ ResetMoveState(t, bounds[t])
    BY <1>2
<1> QED BY <1>6, <1>7, <1>8, ResetBounds

(* Every step keeps the boxes in order.                                    *)
LEMMA NextBounds == ApartInv /\ ApartInv' /\ BoundsInv /\ [Next]_vars => BoundsInv'
<1> SUFFICES ASSUME ApartInv, ApartInv', BoundsInv, [Next]_vars PROVE BoundsInv'
    OBVIOUS
<1>1. CASE MainNext
    BY <1>1, SplitBounds, StartBounds, EndBounds DEF MainNext
<1>2. ASSUME NEW t \in Thread, ThreadNext(t), ~SearchOn(t) PROVE BoundsInv'
  <2>1. CASE SingleCellSwap(t) \/ ChainSwap(t) \/ TileSwap(t)
      BY <2>1, PickBounds
  <2>2. CASE AddNext(t)
      BY <2>2, AddNextBounds
  <2>3. CASE AddMember(t)
      BY <2>3, AddMemberBounds
  <2>4. CASE ComputeTotalChange(t)
      BY <2>4, TotalBounds
  <2>5. CASE CommitMove(t)
      BY <2>5, CommitBounds
  <2>6. CASE RevertClean(t) \/ RevertRebind(t)
    <3>1. pc[t] # "joined" /\ Forget(t)
        BY <2>6 DEF RevertClean, RevertRebind
    <3> QED BY <3>1, ForgetBounds
  <2>7. CASE \/ Finish(t) \/ NextCluster(t) \/ AcceptMove(t) \/ BindMoveBegin(t)
             \/ BindMoveCell(t) \/ CheckValidity(t) \/ RevertUnbind(t) \/ SearchInVain(t)
    <3>1. \/ Finish(t) \/ (pc[t] = "adding" /\ Fail(t)) \/ NextCluster(t) \/ AcceptMove(t)
          \/ BindMoveBegin(t) \/ BindMoveCell(t) \/ CheckValidity(t) \/ RevertUnbind(t)
          \/ SearchInVain(t)
        BY <2>7
    <3> QED BY <3>1, PhaseBounds
  <2> QED BY <1>2, <2>1, <2>2, <2>3, <2>4, <2>5, <2>6, <2>7 DEF ThreadNext
<1>3. CASE UNCHANGED vars
  <2>1. UNCHANGED <<main, lastBounds, minWirelen, cellBel, pc, view, bounds, track, moved, used, tries>>
      BY <1>3 DEF vars, global, arch, local
  <2>2. RestTyped' /\ LastBoundsInv'
      BY <2>1 DEF BoundsInv, RestTyped, LastBoundsInv
  <2>3. ASSUME NEW u \in Thread PROVE BoxesInv(u)'
    <3>1. BoxesInv(u)
        BY DEF BoundsInv
    <3> QED BY <2>1, <3>1, BoxesKept
  <2> QED BY <2>2, <2>3 DEF BoundsInv
<1> QED BY <1>1, <1>2, <1>3 DEF Next, Done, SearchOn

(* The boxes a thread keeps follow the cells: each is the one of the       *)
(* positions before the move in hand, and what it tracks is the one of     *)
(* those after it, unless a scan is asked for (setup_initial_state,        *)
(* compute_changes_for_cell, compute_total_change, commit_move).           *)
THEOREM BoundsInvariant == Spec => []BoundsInv
<1>1. Init => BoundsInv
    BY InitBounds
<1>2. ApartInv /\ ApartInv' /\ BoundsInv /\ [Next]_vars => BoundsInv'
    BY NextBounds
<1> QED BY <1>1, <1>2, ApartInvariant, PTL DEF Spec

-----------------------------------------------------------------------------
(* What the boxes are good for.                                            *)

(* TypeOK from the invariants.                                             *)
LEMMA InvariantsType == ApartInv /\ BoundsInv => TypeOK
<1> SUFFICES ASSUME ApartInv, BoundsInv PROVE TypeOK
    OBVIOUS
<1>1. TypeInv /\ RestTyped /\ PartsApart
    BY DEF ApartInv, BoundsInv
<1>2. \A i \in DOMAIN parts : parts[i].cells \subseteq Cells
    BY <1>1 DEF PartsApart
<1>3. locked \subseteq Cells
    BY <1>1, Grid DEF TypeInv
<1>4. ASSUME NEW t \in Thread
      PROVE  /\ DOMAIN moved[t] \subseteq Cells
             /\ \A c \in DOMAIN moved[t] : moved[t][c] \in [old : Bels, new : Bels]
             /\ todo[t] \in Seq(ToType) /\ used[t] \subseteq Bels
             /\ DOMAIN track[t] = DOMAIN bounds[t]
             /\ \A n \in DOMAIN bounds[t] : bounds[t][n] \in [Axis -> BoxType]
             /\ chain[t] \in BOOLEAN /\ dirty[t] \in BOOLEAN
             /\ tries[t] \in 0 .. MaxTries
  <2>1. DOMAIN moved[t] \subseteq Cells
    <3>1. CASE main # "running"
        BY <1>1, <3>1 DEF ApartInv, ThreadInv, Phase, Running
    <3>2. CASE main = "running"
      <4>1. t \in DOMAIN parts
          BY <1>1, <3>2 DEF TypeInv, Running, Thread
      <4>2. parts[t].cells \subseteq Cells
          BY <1>2, <4>1
      <4> QED BY <4>2 DEF ApartInv, ThreadInv, MoveInv
    <3> QED BY <3>1, <3>2
  <2>2. /\ \A c \in DOMAIN moved[t] : moved[t][c] \in [old : Bels, new : Bels]
        /\ used[t] \subseteq Bels /\ tries[t] \in 0 .. MaxTries
      BY <1>1 DEF RestTyped
  <2>3. todo[t] \in Seq(ToType) /\ chain[t] \in BOOLEAN /\ dirty[t] \in BOOLEAN
      BY <1>1 DEF TypeInv
  <2>4. DOMAIN track[t] = DOMAIN bounds[t] /\ \A n \in DOMAIN bounds[t] : bounds[t][n] \in [Axis -> BoxType]
    <3>1. BoxesInv(t)
        BY DEF BoundsInv
    <3> QED BY <3>1, BoxesTyped DEF BoxesInv, ViewTyped
  <2> QED BY <2>1, <2>2, <2>3, <2>4
<1>5. /\ main \in {"partition", "running", "done"} /\ yaxis \in BOOLEAN /\ minWirelen \in Nat
      /\ cellBel \in [Cells -> Bels \cup {NoBel}] /\ belCell \in [Bels -> Cells \cup {NoCell}]
      /\ archMutex \in Thread \cup {NoThread}
      /\ pc \in [Thread -> {"joined", "idle", "searching", "adding", "decide", "bind", "binding",
                            "check", "commit", "revert", "rebind"}]
    BY <1>1 DEF TypeInv, RestTyped
<1> QED BY <1>2, <1>3, <1>4, <1>5 DEF TypeOK

(* Between two moves the boxes are those of the positions.                 *)
LEMMA InvariantsExact == BoundsInv => BoundsExact
<1> SUFFICES ASSUME BoundsInv, NEW t \in Thread, pc[t] \in {"idle", "adding"}, moved[t] = <<>>,
                    NEW n \in DOMAIN bounds[t]
             PROVE  /\ bounds[t][n] = ExactBox(n, view[t])
                    /\ track[t][n] = TrackedNet(bounds[t][n])
    BY DEF BoundsExact
<1>1. BoxesInv(t) /\ DOMAIN moved[t] = {} /\ n \in DOMAIN track[t]
    BY BoxesTyped DEF BoundsInv
<1>2. track[t][n] = TrackedNet(bounds[t][n])
    BY <1>1 DEF BoxesInv, NothingNoted, UnnotedKept
<1> DEFINE N == DOMAIN bounds[t]
<1>3. \A c \in NetCells(N) : Before(t)[c] = view[t][c]
    BY <1>1 DEF BoxesInv, ViewTyped, Before, Over, Old
<1>4. N \in SUBSET (Nets \ SkipNet) /\ n \in N
    BY <1>1 DEF BoxesInv, ViewTyped
<1> HIDE DEF N
<1>5. ASSUME NEW m \in N PROVE ExactBox(m, Before(t)) = ExactBox(m, view[t])
    <2>1. \A c \in ToSet(Pins[m]) : Before(t)[c] = view[t][c]
        BY <1>3 DEF NetCells
    <2>2. m \in Nets \ SkipNet
        BY <1>4
    <2>3. \A ax \in Axis : Positions(m, Before(t), ax) = Positions(m, view[t], ax)
        BY <2>1, <2>2, SamePositions
    <2> QED BY <2>3 DEF ExactBox
<1> QED BY <1>2, <1>4, <1>5, BoxesTyped

(* The sums of WirelenDelta and of DeltaExact, as functions of sets.       *)
DiffIter(b, tr, R, G) ==
    G = [s \in SUBSET R |-> IF s = {} THEN 0
            ELSE (Hpwl(tr[CHOOSE x \in s : TRUE]) - Hpwl(b[CHOOSE x \in s : TRUE]))
                 + G[s \ {CHOOSE x \in s : TRUE}]]
DiffTotal(b, tr, R) == (CHOOSE G : DiffIter(b, tr, R, G))[R]
ExactIter(p, q, R, G) ==
    G = [s \in SUBSET R |-> IF s = {} THEN 0
            ELSE (Hpwl(ExactBox(CHOOSE x \in s : TRUE, p)) - Hpwl(ExactBox(CHOOSE x \in s : TRUE, q)))
                 + G[s \ {CHOOSE x \in s : TRUE}]]
ExactTotal(p, q, R) == (CHOOSE G : ExactIter(p, q, R, G))[R]

(* WirelenDelta and the sum of DeltaExact as values of those functions.    *)
LEMMA DeltaIs ==
    ASSUME NEW b, NEW tr
    PROVE  WirelenDelta(b, tr) = DiffTotal(b, tr, Changed(tr, "x"))
                                 + DiffTotal(b, tr, Changed(tr, "y") \ Changed(tr, "x"))
BY DEF WirelenDelta, MapThenSumSet, MapThenFoldSet, DiffTotal, DiffIter

(* The sum of the exact changes over a set of nets.                        *)
LEMMA ExactIs ==
    ASSUME NEW p, NEW q, NEW R
    PROVE  MapThenSumSet(LAMBDA n : Hpwl(ExactBox(n, p)) - Hpwl(ExactBox(n, q)), R)
           = ExactTotal(p, q, R)
BY DEF MapThenSumSet, MapThenFoldSet, ExactTotal, ExactIter

(* Both are sums in the sense of Sums.                                     *)
LEMMA DiffSums ==
    ASSUME NEW b, NEW tr, NEW R, IsFiniteSet(R), NEW f \in [R -> Int],
           \A n \in R : f[n] = Hpwl(tr[n]) - Hpwl(b[n])
    PROVE  \E G : Sums(G, R, f) /\ DiffTotal(b, tr, R) = G[R]
<1> DEFINE H == CHOOSE G : DiffIter(b, tr, R, G)
<1>1. \A G : Sums(G, R, f) <=> DiffIter(b, tr, R, G)
  <2>1. \A s \in SUBSET R : s # {} => f[CHOOSE x \in s : TRUE]
            = Hpwl(tr[CHOOSE x \in s : TRUE]) - Hpwl(b[CHOOSE x \in s : TRUE])
    <3>1. \A s \in SUBSET R : s # {} => (CHOOSE x \in s : TRUE) \in R
        OBVIOUS
    <3> QED BY <3>1
  <2>2. \A G : [s \in SUBSET R |-> IF s = {} THEN 0
                    ELSE f[CHOOSE x \in s : TRUE] + G[s \ {CHOOSE x \in s : TRUE}]]
             = [s \in SUBSET R |-> IF s = {} THEN 0
                    ELSE (Hpwl(tr[CHOOSE x \in s : TRUE]) - Hpwl(b[CHOOSE x \in s : TRUE]))
                         + G[s \ {CHOOSE x \in s : TRUE}]]
      BY <2>1
  <2> QED BY <2>2 DEF Sums, DiffIter
<1>2. \E G : DiffIter(b, tr, R, G)
    BY <1>1, SumsExist
<1>3. DiffIter(b, tr, R, H)
    BY <1>2
<1> QED BY <1>1, <1>3 DEF DiffTotal

(* The exact changes are sums in the sense of Sums.                        *)
LEMMA ExactSums ==
    ASSUME NEW p, NEW q, NEW R, IsFiniteSet(R), NEW f \in [R -> Int],
           \A n \in R : f[n] = Hpwl(ExactBox(n, p)) - Hpwl(ExactBox(n, q))
    PROVE  \E G : Sums(G, R, f) /\ ExactTotal(p, q, R) = G[R]
<1> DEFINE H == CHOOSE G : ExactIter(p, q, R, G)
<1>1. \A G : Sums(G, R, f) <=> ExactIter(p, q, R, G)
  <2>1. \A s \in SUBSET R : s # {} => f[CHOOSE x \in s : TRUE]
            = Hpwl(ExactBox(CHOOSE x \in s : TRUE, p)) - Hpwl(ExactBox(CHOOSE x \in s : TRUE, q))
    <3>1. \A s \in SUBSET R : s # {} => (CHOOSE x \in s : TRUE) \in R
        OBVIOUS
    <3> QED BY <3>1
  <2>2. \A G : [s \in SUBSET R |-> IF s = {} THEN 0
                    ELSE f[CHOOSE x \in s : TRUE] + G[s \ {CHOOSE x \in s : TRUE}]]
             = [s \in SUBSET R |-> IF s = {} THEN 0
                    ELSE (Hpwl(ExactBox(CHOOSE x \in s : TRUE, p)) - Hpwl(ExactBox(CHOOSE x \in s : TRUE, q)))
                         + G[s \ {CHOOSE x \in s : TRUE}]]
      BY <2>1
  <2> QED BY <2>2 DEF Sums, ExactIter
<1>2. \E G : ExactIter(p, q, R, G)
    BY <1>1, SumsExist
<1>3. ExactIter(p, q, R, H)
    BY <1>2
<1> QED BY <1>1, <1>3 DEF ExactTotal

(* While the thread decides, the box tracked for a net is the exact one.   *)
LEMMA DecideNet ==
    ASSUME BoundsInv, NEW t \in Thread, pc[t] = "decide", NEW n \in DOMAIN bounds[t]
    PROVE  /\ Hpwl(track[t][n]) = Hpwl(ExactBox(n, view[t]))
           /\ Hpwl(bounds[t][n]) = Hpwl(ExactBox(n, Before(t)))
           /\ Hpwl(ExactBox(n, view[t])) \in Nat /\ Hpwl(ExactBox(n, Before(t))) \in Nat
           /\ Unnoted(track[t][n]) => Hpwl(ExactBox(n, view[t])) = Hpwl(ExactBox(n, Before(t)))
<1>1. BoxesInv(t)
    BY DEF BoundsInv
<1>2. /\ n \in Nets \ SkipNet /\ n \in DOMAIN track[t]
      /\ bounds[t][n] = ExactBox(n, Before(t))
      /\ \A c \in ToSet(Pins[n]) : view[t][c] \in Bels /\ Before(t)[c] \in Bels
    BY BoxesTyped
<1>3. Hpwl(ExactBox(n, view[t])) \in Nat /\ Hpwl(ExactBox(n, Before(t))) \in Nat
    BY <1>2, NetBox
<1>4. ASSUME NEW ax \in Axis PROVE Span(track[t][n][ax]) = Span(ExactBox(n, view[t])[ax])
  <2>1. Untracked(track[t][n][ax]) = ExactBox(n, view[t])[ax]
      BY <1>1, <1>2 DEF BoxesInv, BoxesAfter, ExactBox
  <2>2. ExactBox(n, view[t])[ax].lo = track[t][n][ax].lo /\ ExactBox(n, view[t])[ax].hi = track[t][n][ax].hi
      BY <2>1 DEF Untracked
  <2> QED BY <2>2 DEF Span
<1>5. "x" \in Axis /\ "y" \in Axis
    BY DEF Axis
<1>6. Hpwl(track[t][n]) = Hpwl(ExactBox(n, view[t]))
    BY <1>4, <1>5 DEF Hpwl
<1>7. ASSUME Unnoted(track[t][n]) PROVE Hpwl(track[t][n]) = Hpwl(bounds[t][n])
  <2>1. track[t][n] = TrackedNet(bounds[t][n])
      BY <1>1, <1>2, <1>7 DEF BoxesInv, UnnotedKept
  <2>2. ASSUME NEW ax \in Axis PROVE Span(track[t][n][ax]) = Span(bounds[t][n][ax])
      BY <2>1 DEF TrackedNet, Tracked, WithChange, Span
  <2> QED BY <1>5, <2>2 DEF Hpwl
<1> QED BY <1>2, <1>3, <1>6, <1>7

(* A set on which the function is 0 adds nothing to its sum.               *)
Zero(f, B) == \A x \in B : f[x] = 0
LEMMA ZeroSum ==
    ASSUME NEW S, IsFiniteSet(S), NEW f, f \in [S -> Int], NEW F, Sums(F, S, f),
           NEW B, B \in SUBSET S, Zero(f, B)
    PROVE  F[B] = 0
<1> DEFINE E == {}
<1>1. E \in SUBSET S /\ E \cap B = {}
    OBVIOUS
<1>2. \A x \in B : f[x] = 0
    BY DEF Zero
<1> HIDE DEF E
<1>3. /\ F[E \cup B] = F[E] + F[B]
      /\ (\A x \in B : f[x] = 0) => F[B] = 0
      /\ (\A x \in B : f[x] \in Nat) => F[B] \in Nat
    BY ONLY <1>1, IsFiniteSet(S), f \in [S -> Int], Sums(F, S, f), B \in SUBSET S, SumsSplit
<1> QED BY <1>2, <1>3

(* The cost of a move is computed from the nets that have changed; the     *)
(* others add nothing.                                                     *)
LEMMA InvariantsDelta == BoundsInv => DeltaExact
<1> SUFFICES ASSUME BoundsInv, NEW t \in Thread, pc[t] = "decide"
             PROVE  WirelenDelta(bounds[t], track[t]) = MapThenSumSet(
                        LAMBDA n : Hpwl(ExactBox(n, view[t])) - Hpwl(ExactBox(n, Over(Old(t), view[t]))),
                        DOMAIN bounds[t])
    BY DEF DeltaExact
<1> DEFINE S == DOMAIN bounds[t]
           tr == track[t]
           b == bounds[t]
           p == view[t]
           q == Before(t)
           X == Changed(tr, "x")
           Y == Changed(tr, "y") \ X
           R == S \ (X \cup Y)
           d(n) == Hpwl(ExactBox(n, p)) - Hpwl(ExactBox(n, q))
           f == [n \in S |-> d(n)]
           fX == [n \in X |-> d(n)]
           fY == [n \in Y |-> d(n)]
<1>1. DOMAIN track[t] = S /\ S \subseteq Nets \ SkipNet
    BY DEF BoundsInv, BoxesInv, ViewTyped
<1>2. IsFiniteSet(S)
    BY <1>1, NetsAre, FS_Subset
<1>3. X \in SUBSET S /\ Y \in SUBSET S /\ R \in SUBSET S /\ S = (X \cup Y) \cup R
      /\ X \cap Y = {} /\ (X \cup Y) \cap R = {}
    BY <1>1 DEF Changed
<1>4. IsFiniteSet(X) /\ IsFiniteSet(Y)
    BY <1>2, <1>3, FS_Subset
<1>5. \A n \in S : d(n) \in Int /\ Hpwl(tr[n]) - Hpwl(b[n]) = d(n)
    BY DecideNet
<1>6. \A n \in R : d(n) = 0
  <2> SUFFICES ASSUME NEW n \in R PROVE d(n) = 0
      OBVIOUS
  <2>1. Unnoted(tr[n])
      BY <1>1 DEF Unnoted, Changed, Axis
  <2>2. Hpwl(ExactBox(n, p)) \in Nat /\ Hpwl(ExactBox(n, p)) = Hpwl(ExactBox(n, q))
      BY <2>1, DecideNet
  <2> QED BY <2>2
<1> HIDE DEF S, tr, b, p, q, X, Y, R, d
<1>7. /\ f \in [S -> Int] /\ fX \in [X -> Int] /\ fY \in [Y -> Int]
      /\ \A n \in S : f[n] = d(n)
      /\ \A n \in X : fX[n] = d(n) /\ f[n] = d(n) /\ d(n) = Hpwl(tr[n]) - Hpwl(b[n])
      /\ \A n \in Y : fY[n] = d(n) /\ f[n] = d(n) /\ d(n) = Hpwl(tr[n]) - Hpwl(b[n])
      /\ \A n \in R : f[n] = 0
    BY <1>3, <1>5, <1>6
<1> HIDE DEF f, fX, fY
<1>8. PICK F : Sums(F, S, f) /\ ExactTotal(p, q, S) = F[S]
  <2>1. \A n \in S : f[n] = Hpwl(ExactBox(n, p)) - Hpwl(ExactBox(n, q))
      BY <1>7 DEF d
  <2> QED BY <1>2, <1>7, <2>1, ExactSums
<1>9. PICK GX : Sums(GX, X, fX) /\ DiffTotal(b, tr, X) = GX[X]
  <2>1. \A n \in X : fX[n] = Hpwl(tr[n]) - Hpwl(b[n])
      BY <1>7
  <2> QED BY <1>4, <1>7, <2>1, DiffSums
<1>10. PICK GY : Sums(GY, Y, fY) /\ DiffTotal(b, tr, Y) = GY[Y]
  <2>1. \A n \in Y : fY[n] = Hpwl(tr[n]) - Hpwl(b[n])
      BY <1>7
  <2> QED BY <1>4, <1>7, <2>1, DiffSums
<1>11. GX[X] = F[X]
  <2>1. \A n \in X : fX[n] = f[n]
      BY <1>7
  <2> QED BY <1>2, <1>3, <1>7, <1>8, <1>9, <2>1, SumsAgree
<1>12. GY[Y] = F[Y]
  <2>1. \A n \in Y : fY[n] = f[n]
      BY <1>7
  <2> QED BY <1>2, <1>3, <1>7, <1>8, <1>10, <2>1, SumsAgree
<1>13. F[X \cup Y] = F[X] + F[Y]
  <2>1. X \in SUBSET S /\ Y \in SUBSET S /\ X \cap Y = {}
      BY <1>3
  <2>2. Sums(F, S, f) /\ f \in [S -> Int]
      BY <1>7, <1>8
  <2> QED BY <1>2, <2>1, <2>2, SumsSplit
<1>14. X \cup Y \in SUBSET S
    BY <1>3
<1>15. F[(X \cup Y) \cup R] = F[X \cup Y] + F[R] /\ F[R] = 0
  <2> DEFINE XY == X \cup Y
  <2>1. XY \in SUBSET S /\ R \in SUBSET S /\ XY \cap R = {}
      BY <1>3, <1>14
  <2>2. Sums(F, S, f) /\ f \in [S -> Int]
      BY <1>7, <1>8
  <2>3. Zero(f, R)
      BY <1>7 DEF Zero
  <2> HIDE DEF XY
  <2>4. F[XY \cup R] = F[XY] + F[R]
      BY <1>2, <2>1, <2>2, SumsSplit
  <2>5. F[R] = 0
      BY <1>2, <2>1, <2>2, <2>3, ZeroSum
  <2> QED BY <2>4, <2>5 DEF XY
<1>16. F[X] \in Int /\ F[Y] \in Int
  <2>1. Additive(F, S, f)
      BY <1>2, <1>7, <1>8, SumsAre
  <2> QED BY <1>3, <2>1 DEF Additive
<1>17. F[S] = F[X] + F[Y]
    BY <1>3, <1>13, <1>15, <1>16
<1>18. WirelenDelta(b, tr) = DiffTotal(b, tr, X) + DiffTotal(b, tr, Y)
    BY DeltaIs DEF X, Y
<1>19. WirelenDelta(b, tr) = ExactTotal(p, q, S)
  <2>1. DiffTotal(b, tr, X) = F[X]
      BY <1>9, <1>11
  <2>2. DiffTotal(b, tr, Y) = F[Y]
      BY <1>10, <1>12
  <2>3. ExactTotal(p, q, S) = F[S]
      BY <1>8
  <2> QED BY <1>17, <1>18, <2>1, <2>2, <2>3, Zenon
<1>20. MapThenSumSet(LAMBDA n : Hpwl(ExactBox(n, p)) - Hpwl(ExactBox(n, q)), S) = ExactTotal(p, q, S)
    BY ExactIs
<1> QED BY <1>19, <1>20 DEF S, tr, b, p, q, Before

(* The types of the refinement hold.                                       *)
THEOREM RefinementTypes == Spec => []TypeOK
BY ApartInvariant, BoundsInvariant, InvariantsType, PTL

(* The incremental bounds never drift: between two moves the box of each   *)
(* net is that of the positions of its cells (compute_changes_for_cell,    *)
(* commit_move, reset_move_state).                                         *)
THEOREM BoundsStayExact == Spec => []BoundsExact
BY BoundsInvariant, InvariantsExact, PTL

(* The acceptance test is given the exact change of the wirelength         *)
(* (compute_total_change).                                                 *)
THEOREM DeltaStaysExact == Spec => []DeltaExact
BY BoundsInvariant, InvariantsDelta, PTL
=============================================================================
