-------------------------- MODULE NetBoundsProofs --------------------------
(***************************************************************************)
(* The incremental bounding box of NetBounds follows the pins of a net of  *)
(* any number of pins, wherever they are and wherever one moves: the box   *)
(* is exact, edges and counts, or asks for a scan.                         *)
(***************************************************************************)
EXTENDS NetBounds, FiniteSetTheorems, WellFoundedInduction, TLAPS

TrackedBox == [lo : Int, nlo : Int, hi : Int, nhi : Int, change : BoundChange]

PinsAt(pos, q) == {i \in DOMAIN pos : pos[i] = q}

(* The box k of the positions pos, or k asks for a scan.                   *)
LowerFollows(k, pos) ==
    k.change # "FULL_RECOMPUTE" =>
        /\ \A i \in DOMAIN pos : k.lo <= pos[i]
        /\ k.nlo = Cardinality(PinsAt(pos, k.lo)) /\ k.nlo >= 1
UpperFollows(k, pos) ==
    k.change # "FULL_RECOMPUTE" =>
        /\ \A i \in DOMAIN pos : pos[i] <= k.hi
        /\ k.nhi = Cardinality(PinsAt(pos, k.hi)) /\ k.nhi >= 1

(* What one pin that moves changes in the number of pins at q.             *)
Delta(pos, i, new, q) == (IF new = q THEN 1 ELSE 0) - (IF pos[i] = q THEN 1 ELSE 0)

(* The number of pins at a place: a number, positive where a pin is.       *)
LEMMA PinCount ==
    ASSUME NEW S, IsFiniteSet(S), NEW pos \in [S -> Int], NEW q \in Int
    PROVE  /\ IsFiniteSet(PinsAt(pos, q)) /\ Cardinality(PinsAt(pos, q)) \in Nat
           /\ Cardinality(PinsAt(pos, q)) >= 1 <=> \E j \in S : pos[j] = q
<1> DEFINE A == PinsAt(pos, q)
<1>1. A \subseteq S
    BY DEF PinsAt
<1>2. IsFiniteSet(A)
    BY <1>1, FS_Subset
<1>3. Cardinality(A) \in Nat
    BY <1>2, FS_CardinalityType
<1>4. Cardinality(A) >= 1 <=> A # {}
    BY <1>2, <1>3, FS_EmptySet
<1>5. A # {} <=> \E j \in S : pos[j] = q
    BY DEF PinsAt
<1> QED
    BY <1>2, <1>3, <1>4, <1>5

(* The number of pins at a place, when one pin moves.                      *)
LEMMA PinMoves ==
    ASSUME NEW S, IsFiniteSet(S), NEW pos \in [S -> Int], NEW i \in S,
           NEW new \in Int, NEW q \in Int
    PROVE  Cardinality(PinsAt([pos EXCEPT ![i] = new], q)) =
                Cardinality(PinsAt(pos, q)) + Delta(pos, i, new, q)
<1> DEFINE after == [pos EXCEPT ![i] = new]
           A == PinsAt(pos, q)
           B == PinsAt(after, q)
<1>1. IsFiniteSet(A) /\ IsFiniteSet(B)
    BY PinCount
<1>2. Cardinality(A) \in Nat /\ Cardinality(B) \in Nat
    BY <1>1, FS_CardinalityType
<1>3. \A j \in S : j # i => (j \in A <=> j \in B)
    BY DEF PinsAt
<1>4. A \subseteq S /\ B \subseteq S
    BY DEF PinsAt
<1>5. (i \in A <=> pos[i] = q) /\ (i \in B <=> new = q)
    BY DEF PinsAt
<1>6. ASSUME i \in A <=> i \in B PROVE A = B
  <2>1. \A j \in S : j \in A <=> j \in B
      BY <1>3, <1>6
  <2> QED
      BY <1>4, <2>1
<1>7. ASSUME i \notin A, i \in B PROVE Cardinality(B) = Cardinality(A) + 1
  <2>1. B = A \cup {i}
      BY <1>3, <1>4, <1>7
  <2> QED
      BY <1>1, <1>7, <2>1, FS_AddElement
<1>8. ASSUME i \in A, i \notin B PROVE Cardinality(B) = Cardinality(A) - 1
  <2>1. B = A \ {i}
      BY <1>3, <1>4, <1>8
  <2> QED
      BY <1>1, <1>8, <2>1, FS_RemoveElement
<1> QED
    BY <1>2, <1>5, <1>6, <1>7, <1>8 DEF Delta

(* A box with one field replaced is a box.                                 *)
LEMMA NumberReplaced ==
    ASSUME NEW k \in TrackedBox, NEW n \in Int
    PROVE  /\ [k EXCEPT !.lo = n] \in TrackedBox /\ [k EXCEPT !.nlo = n] \in TrackedBox
           /\ [k EXCEPT !.hi = n] \in TrackedBox /\ [k EXCEPT !.nhi = n] \in TrackedBox
<1>1. [k EXCEPT !.lo = n] \in TrackedBox
    BY DEF TrackedBox
<1>2. [k EXCEPT !.nlo = n] \in TrackedBox
    BY DEF TrackedBox
<1>3. [k EXCEPT !.hi = n] \in TrackedBox
    BY DEF TrackedBox
<1>4. [k EXCEPT !.nhi = n] \in TrackedBox
    BY DEF TrackedBox
<1> QED
    BY <1>1, <1>2, <1>3, <1>4

(* The change noted in a box has no part in what the box follows.          *)
LEMMA ChangeReplaced ==
    ASSUME NEW k \in TrackedBox, NEW what \in BoundChange
    PROVE  [k EXCEPT !.change = what] \in TrackedBox
BY DEF TrackedBox

(* The lower edge's update keeps the box a box and leaves the other edge   *)
(* alone, and a box that asks for a scan goes on asking for it.            *)
LEMMA LowerTyped ==
    ASSUME NEW k \in TrackedBox, NEW old \in Int, NEW new \in Int
    PROVE  /\ LowerBound(k, old, new) \in TrackedBox
           /\ LowerBound(k, old, new).hi = k.hi /\ LowerBound(k, old, new).nhi = k.nhi
           /\ k.change = "FULL_RECOMPUTE" => LowerBound(k, old, new).change = "FULL_RECOMPUTE"
<1>1. /\ k.lo \in Int /\ k.nlo \in Int /\ k \in TrackedBox
    BY DEF TrackedBox
<1> DEFINE out == Note(k, "CELL_MOVED_OUTWARDS")
           inw == Note(k, "CELL_MOVED_INWARDS")
<1>2. /\ out \in BoundChange /\ inw \in BoundChange /\ "FULL_RECOMPUTE" \in BoundChange
      /\ k.change = "FULL_RECOMPUTE" => out = "FULL_RECOMPUTE" /\ inw = "FULL_RECOMPUTE"
    BY DEF Note, BoundChange, TrackedBox
<1> HIDE DEF out, inw
<1> DEFINE b == LowerBound(k, old, new)
           Keeps(x) == /\ x \in TrackedBox /\ x.hi = k.hi /\ x.nhi = k.nhi
                       /\ k.change = "FULL_RECOMPUTE" => x.change = "FULL_RECOMPUTE"
<1>3. ASSUME NEW n \in Int, NEW what \in BoundChange,
             k.change = "FULL_RECOMPUTE" => what = "FULL_RECOMPUTE"
      PROVE  Keeps([k EXCEPT !.nlo = n, !.change = what])
  <2> DEFINE k1 == [k EXCEPT !.nlo = n]
             k2 == [k1 EXCEPT !.change = what]
  <2>1. k1 \in TrackedBox
      BY NumberReplaced
  <2>2. k2 \in TrackedBox
      BY <2>1, ChangeReplaced
  <2>3. [k EXCEPT !.nlo = n, !.change = what] = k2
      BY DEF TrackedBox
  <2>4. k2.hi = k.hi /\ k2.nhi = k.nhi /\ k2.change = what
      BY DEF TrackedBox
  <2> QED
      BY <1>3, <2>2, <2>3, <2>4
<1>4. CASE new < k.lo
  <2>1. b = [k EXCEPT !.lo = new, !.nlo = 1, !.change = out]
      BY <1>4 DEF LowerBound, out, inw
  <2> DEFINE k1 == [k EXCEPT !.lo = new]
             k2 == [k1 EXCEPT !.nlo = 1]
             k3 == [k2 EXCEPT !.change = out]
  <2>2. k1 \in TrackedBox
      BY NumberReplaced
  <2>3. k2 \in TrackedBox
    <3>1. 1 \in Int
        OBVIOUS
    <3> QED
        BY <2>2, <3>1, NumberReplaced
  <2>4. k3 \in TrackedBox
      BY <1>2, <2>3, ChangeReplaced
  <2>5. b = k3
      BY <2>1 DEF TrackedBox
  <2>6. k3.hi = k.hi /\ k3.nhi = k.nhi /\ k3.change = out
      BY DEF TrackedBox
  <2> QED
      BY <1>2, <2>4, <2>5, <2>6
<1>5. CASE ~ (new < k.lo) /\ new = k.lo /\ old > k.lo
  <2> DEFINE n == k.nlo + 1
  <2>1. b = [k EXCEPT !.nlo = n, !.change = out]
      BY <1>5 DEF LowerBound, out, inw
  <2>2. n \in Int
      BY <1>1
  <2> HIDE DEF n
  <2>3. Keeps([k EXCEPT !.nlo = n, !.change = out])
      BY <1>2, <1>3, <2>2
  <2> QED
      BY <2>1, <2>3
<1>6. CASE /\ ~ (new < k.lo) /\ ~ (new = k.lo /\ old > k.lo)
           /\ old = k.lo /\ new > k.lo /\ k.nlo = 1
  <2>1. b = [k EXCEPT !.change = "FULL_RECOMPUTE"]
      BY <1>6 DEF LowerBound, out, inw
  <2>2. [k EXCEPT !.change = "FULL_RECOMPUTE"] \in TrackedBox
      BY <1>2, ChangeReplaced
  <2> QED
      BY <2>1, <2>2 DEF TrackedBox
<1>7. CASE /\ ~ (new < k.lo) /\ ~ (new = k.lo /\ old > k.lo)
           /\ old = k.lo /\ new > k.lo /\ k.nlo # 1
  <2> DEFINE n == k.nlo - 1
  <2>1. b = [k EXCEPT !.nlo = n, !.change = inw]
      BY <1>7 DEF LowerBound, out, inw
  <2>2. n \in Int
      BY <1>1
  <2> HIDE DEF n
  <2>3. Keeps([k EXCEPT !.nlo = n, !.change = inw])
      BY <1>2, <1>3, <2>2
  <2> QED
      BY <2>1, <2>3
<1>8. CASE /\ ~ (new < k.lo) /\ ~ (new = k.lo /\ old > k.lo)
           /\ ~ (old = k.lo /\ new > k.lo)
  <2>1. b = k
      BY <1>8 DEF LowerBound
  <2> QED
      BY <2>1
<1> QED
    BY <1>4, <1>5, <1>6, <1>7, <1>8

(* The upper edge's update keeps the box a box and leaves the other edge   *)
(* alone, and a box that asks for a scan goes on asking for it.            *)
LEMMA UpperTyped ==
    ASSUME NEW k \in TrackedBox, NEW old \in Int, NEW new \in Int
    PROVE  /\ UpperBound(k, old, new) \in TrackedBox
           /\ UpperBound(k, old, new).lo = k.lo /\ UpperBound(k, old, new).nlo = k.nlo
           /\ k.change = "FULL_RECOMPUTE" => UpperBound(k, old, new).change = "FULL_RECOMPUTE"
<1>1. /\ k.hi \in Int /\ k.nhi \in Int /\ k \in TrackedBox
    BY DEF TrackedBox
<1> DEFINE out == Note(k, "CELL_MOVED_OUTWARDS")
           inw == Note(k, "CELL_MOVED_INWARDS")
<1>2. /\ out \in BoundChange /\ inw \in BoundChange /\ "FULL_RECOMPUTE" \in BoundChange
      /\ k.change = "FULL_RECOMPUTE" => out = "FULL_RECOMPUTE" /\ inw = "FULL_RECOMPUTE"
    BY DEF Note, BoundChange, TrackedBox
<1> HIDE DEF out, inw
<1> DEFINE b == UpperBound(k, old, new)
           Keeps(x) == /\ x \in TrackedBox /\ x.lo = k.lo /\ x.nlo = k.nlo
                       /\ k.change = "FULL_RECOMPUTE" => x.change = "FULL_RECOMPUTE"
<1>3. ASSUME NEW n \in Int, NEW what \in BoundChange,
             k.change = "FULL_RECOMPUTE" => what = "FULL_RECOMPUTE"
      PROVE  Keeps([k EXCEPT !.nhi = n, !.change = what])
  <2> DEFINE k1 == [k EXCEPT !.nhi = n]
             k2 == [k1 EXCEPT !.change = what]
  <2>1. k1 \in TrackedBox
      BY NumberReplaced
  <2>2. k2 \in TrackedBox
      BY <2>1, ChangeReplaced
  <2>3. [k EXCEPT !.nhi = n, !.change = what] = k2
      BY DEF TrackedBox
  <2>4. k2.lo = k.lo /\ k2.nlo = k.nlo /\ k2.change = what
      BY DEF TrackedBox
  <2> QED
      BY <1>3, <2>2, <2>3, <2>4
<1>4. CASE new > k.hi
  <2>1. b = [k EXCEPT !.hi = new, !.nhi = 1, !.change = out]
      BY <1>4 DEF UpperBound, out, inw
  <2> DEFINE k1 == [k EXCEPT !.hi = new]
             k2 == [k1 EXCEPT !.nhi = 1]
             k3 == [k2 EXCEPT !.change = out]
  <2>2. k1 \in TrackedBox
      BY NumberReplaced
  <2>3. k2 \in TrackedBox
    <3>1. 1 \in Int
        OBVIOUS
    <3> QED
        BY <2>2, <3>1, NumberReplaced
  <2>4. k3 \in TrackedBox
      BY <1>2, <2>3, ChangeReplaced
  <2>5. b = k3
      BY <2>1 DEF TrackedBox
  <2>6. k3.lo = k.lo /\ k3.nlo = k.nlo /\ k3.change = out
      BY DEF TrackedBox
  <2> QED
      BY <1>2, <2>4, <2>5, <2>6
<1>5. CASE ~ (new > k.hi) /\ new = k.hi /\ old < k.hi
  <2> DEFINE n == k.nhi + 1
  <2>1. b = [k EXCEPT !.nhi = n, !.change = out]
      BY <1>5 DEF UpperBound, out, inw
  <2>2. n \in Int
      BY <1>1
  <2> HIDE DEF n
  <2>3. Keeps([k EXCEPT !.nhi = n, !.change = out])
      BY <1>2, <1>3, <2>2
  <2> QED
      BY <2>1, <2>3
<1>6. CASE /\ ~ (new > k.hi) /\ ~ (new = k.hi /\ old < k.hi)
           /\ old = k.hi /\ new < k.hi /\ k.nhi = 1
  <2>1. b = [k EXCEPT !.change = "FULL_RECOMPUTE"]
      BY <1>6 DEF UpperBound, out, inw
  <2>2. [k EXCEPT !.change = "FULL_RECOMPUTE"] \in TrackedBox
      BY <1>2, ChangeReplaced
  <2> QED
      BY <2>1, <2>2 DEF TrackedBox
<1>7. CASE /\ ~ (new > k.hi) /\ ~ (new = k.hi /\ old < k.hi)
           /\ old = k.hi /\ new < k.hi /\ k.nhi # 1
  <2> DEFINE n == k.nhi - 1
  <2>1. b = [k EXCEPT !.nhi = n, !.change = inw]
      BY <1>7 DEF UpperBound, out, inw
  <2>2. n \in Int
      BY <1>1
  <2> HIDE DEF n
  <2>3. Keeps([k EXCEPT !.nhi = n, !.change = inw])
      BY <1>2, <1>3, <2>2
  <2> QED
      BY <2>1, <2>3
<1>8. CASE /\ ~ (new > k.hi) /\ ~ (new = k.hi /\ old < k.hi)
           /\ ~ (old = k.hi /\ new < k.hi)
  <2>1. b = k
      BY <1>8 DEF UpperBound
  <2> QED
      BY <2>1
<1> QED
    BY <1>4, <1>5, <1>6, <1>7, <1>8

(* The lower edge follows one pin.                                         *)
LEMMA LowerEdge ==
    ASSUME NEW S, IsFiniteSet(S), NEW pos \in [S -> Int], NEW i \in S,
           NEW new \in Int, NEW k \in TrackedBox, LowerFollows(k, pos)
    PROVE  LowerFollows(LowerBound(k, pos[i], new), [pos EXCEPT ![i] = new])
<1> DEFINE old   == pos[i]
           after == [pos EXCEPT ![i] = new]
           b     == LowerBound(k, old, new)
           count(q) == Cardinality(PinsAt(pos, q))
           now(q)   == Cardinality(PinsAt(after, q))
<1>1. old \in Int /\ k.lo \in Int /\ k.nlo \in Int
    BY DEF TrackedBox
<1>2. b.change # "FULL_RECOMPUTE" => k.change # "FULL_RECOMPUTE"
    BY <1>1, LowerTyped
<1> SUFFICES ASSUME b.change # "FULL_RECOMPUTE"
             PROVE  /\ \A j \in S : b.lo <= after[j]
                    /\ b.nlo = now(b.lo) /\ b.nlo >= 1
    BY DEF LowerFollows
<1>3. /\ \A j \in S : k.lo <= pos[j]
      /\ k.nlo = count(k.lo) /\ k.nlo >= 1
    BY <1>2 DEF LowerFollows
<1>4. \A j \in S : after[j] = IF j = i THEN new ELSE pos[j]
    OBVIOUS
<1>5. \A j \in S : pos[j] \in Int /\ after[j] \in Int
    OBVIOUS
<1>6. \A q \in Int :
        /\ count(q) \in Nat
        /\ count(q) >= 1 <=> \E j \in S : pos[j] = q
        /\ now(q) = count(q) + Delta(pos, i, new, q)
  <2>1. \A q \in Int : count(q) \in Nat
      BY PinCount
  <2>2. \A q \in Int : count(q) >= 1 <=> \E j \in S : pos[j] = q
      BY PinCount
  <2>3. \A q \in Int : now(q) = count(q) + Delta(pos, i, new, q)
      BY PinMoves
  <2> QED
      BY <2>1, <2>2, <2>3
<1> HIDE DEF count, now, after, b
<1>7. CASE new < k.lo
  <2>1. b.lo = new /\ b.nlo = 1
      BY <1>1, <1>7 DEF LowerBound, TrackedBox, b
  <2>2. \A j \in S : pos[j] # new
      BY <1>1, <1>3, <1>5, <1>7
  <2>3. count(new) = 0
      BY <1>6, <2>2
  <2>4. now(new) = 1
      BY <1>6, <2>2, <2>3 DEF Delta
  <2>5. \A j \in S : new <= after[j]
      BY <1>1, <1>3, <1>4, <1>5, <1>7
  <2> QED
      BY <2>1, <2>4, <2>5
<1>8. CASE new = k.lo /\ old > k.lo
  <2>1. b.lo = k.lo /\ b.nlo = k.nlo + 1
      BY <1>1, <1>8 DEF LowerBound, TrackedBox, b
  <2>2. now(k.lo) = count(k.lo) + 1
    <3>1. k.lo \in Int /\ pos[i] # k.lo
        BY <1>1, <1>8
    <3>2. Delta(pos, i, new, k.lo) = 1
        BY <1>8, <3>1 DEF Delta
    <3> QED BY <1>6, <3>1, <3>2
  <2>3. \A j \in S : k.lo <= after[j]
      BY <1>1, <1>3, <1>4, <1>5, <1>8
  <2> QED
      BY <1>1, <1>3, <2>1, <2>2, <2>3
<1>9. CASE old = k.lo /\ new > k.lo
  <2>1. k.nlo # 1 /\ b.lo = k.lo /\ b.nlo = k.nlo - 1
      BY <1>1, <1>9 DEF LowerBound, TrackedBox, b
  <2>2. now(k.lo) = count(k.lo) - 1
    <3>1. Delta(pos, i, new, k.lo) = -1
        BY <1>1, <1>9 DEF Delta
    <3> QED
        BY <1>1, <1>6, <3>1
  <2>3. \A j \in S : k.lo <= after[j]
      BY <1>1, <1>3, <1>4, <1>5, <1>9
  <2> QED
      BY <1>1, <1>3, <2>1, <2>2, <2>3
<1>10. CASE /\ ~ (new < k.lo) /\ ~ (new = k.lo /\ old > k.lo)
            /\ ~ (old = k.lo /\ new > k.lo)
  <2>1. b = k
      BY <1>10 DEF LowerBound, b
  <2>2. (old = k.lo /\ new = k.lo) \/ (old # k.lo /\ new # k.lo)
      BY <1>1, <1>3, <1>10
  <2>3. now(k.lo) = count(k.lo)
    <3>1. Delta(pos, i, new, k.lo) = 0
        BY <1>1, <2>2 DEF Delta
    <3> QED
        BY <1>1, <1>6, <3>1
  <2>4. \A j \in S : k.lo <= after[j]
      BY <1>1, <1>3, <1>4, <1>5, <1>10
  <2> QED
      BY <1>3, <2>1, <2>3, <2>4
<1> QED
    BY <1>7, <1>8, <1>9, <1>10

(* The upper edge follows one pin.                                         *)
LEMMA UpperEdge ==
    ASSUME NEW S, IsFiniteSet(S), NEW pos \in [S -> Int], NEW i \in S,
           NEW new \in Int, NEW k \in TrackedBox, UpperFollows(k, pos)
    PROVE  UpperFollows(UpperBound(k, pos[i], new), [pos EXCEPT ![i] = new])
<1> DEFINE old   == pos[i]
           after == [pos EXCEPT ![i] = new]
           b     == UpperBound(k, old, new)
           count(q) == Cardinality(PinsAt(pos, q))
           now(q)   == Cardinality(PinsAt(after, q))
<1>1. old \in Int /\ k.hi \in Int /\ k.nhi \in Int
    BY DEF TrackedBox
<1>2. b.change # "FULL_RECOMPUTE" => k.change # "FULL_RECOMPUTE"
    BY <1>1, UpperTyped
<1> SUFFICES ASSUME b.change # "FULL_RECOMPUTE"
             PROVE  /\ \A j \in S : after[j] <= b.hi
                    /\ b.nhi = now(b.hi) /\ b.nhi >= 1
    BY DEF UpperFollows
<1>3. /\ \A j \in S : pos[j] <= k.hi
      /\ k.nhi = count(k.hi) /\ k.nhi >= 1
    BY <1>2 DEF UpperFollows
<1>4. \A j \in S : after[j] = IF j = i THEN new ELSE pos[j]
    OBVIOUS
<1>5. \A j \in S : pos[j] \in Int /\ after[j] \in Int
    OBVIOUS
<1>6. \A q \in Int :
        /\ count(q) \in Nat
        /\ count(q) >= 1 <=> \E j \in S : pos[j] = q
        /\ now(q) = count(q) + Delta(pos, i, new, q)
  <2>1. \A q \in Int : count(q) \in Nat
      BY PinCount
  <2>2. \A q \in Int : count(q) >= 1 <=> \E j \in S : pos[j] = q
      BY PinCount
  <2>3. \A q \in Int : now(q) = count(q) + Delta(pos, i, new, q)
      BY PinMoves
  <2> QED
      BY <2>1, <2>2, <2>3
<1> HIDE DEF count, now, after, b
<1>7. CASE new > k.hi
  <2>1. b.hi = new /\ b.nhi = 1
      BY <1>1, <1>7 DEF UpperBound, TrackedBox, b
  <2>2. \A j \in S : pos[j] # new
      BY <1>1, <1>3, <1>5, <1>7
  <2>3. count(new) = 0
      BY <1>6, <2>2
  <2>4. now(new) = 1
      BY <1>6, <2>2, <2>3 DEF Delta
  <2>5. \A j \in S : after[j] <= new
      BY <1>1, <1>3, <1>4, <1>5, <1>7
  <2> QED
      BY <2>1, <2>4, <2>5
<1>8. CASE new = k.hi /\ old < k.hi
  <2>1. b.hi = k.hi /\ b.nhi = k.nhi + 1
      BY <1>1, <1>8 DEF UpperBound, TrackedBox, b
  <2>2. now(k.hi) = count(k.hi) + 1
      BY <1>1, <1>6, <1>8 DEF Delta
  <2>3. \A j \in S : after[j] <= k.hi
      BY <1>1, <1>3, <1>4, <1>5, <1>8
  <2> QED
      BY <1>1, <1>3, <2>1, <2>2, <2>3
<1>9. CASE old = k.hi /\ new < k.hi
  <2>1. k.nhi # 1 /\ b.hi = k.hi /\ b.nhi = k.nhi - 1
      BY <1>1, <1>9 DEF UpperBound, TrackedBox, b
  <2>2. now(k.hi) = count(k.hi) - 1
    <3>1. Delta(pos, i, new, k.hi) = -1
        BY <1>1, <1>9 DEF Delta
    <3> QED
        BY <1>1, <1>6, <3>1
  <2>3. \A j \in S : after[j] <= k.hi
      BY <1>1, <1>3, <1>4, <1>5, <1>9
  <2> QED
      BY <1>1, <1>3, <2>1, <2>2, <2>3
<1>10. CASE /\ ~ (new > k.hi) /\ ~ (new = k.hi /\ old < k.hi)
            /\ ~ (old = k.hi /\ new < k.hi)
  <2>1. b = k
      BY <1>10 DEF UpperBound, b
  <2>2. (old = k.hi /\ new = k.hi) \/ (old # k.hi /\ new # k.hi)
      BY <1>1, <1>3, <1>10
  <2>3. now(k.hi) = count(k.hi)
    <3>1. Delta(pos, i, new, k.hi) = 0
        BY <1>1, <2>2 DEF Delta
    <3> QED
        BY <1>1, <1>6, <3>1
  <2>4. \A j \in S : after[j] <= k.hi
      BY <1>1, <1>3, <1>4, <1>5, <1>10
  <2> QED
      BY <1>3, <2>1, <2>3, <2>4
<1> QED
    BY <1>7, <1>8, <1>9, <1>10

(* What compute_changes_for_cell leaves of a net's box when one pin of the *)
(* net moves, whatever the number of pins: both edges and both counts are  *)
(* those of the new positions, or the box asks for NetBB::compute.         *)
THEOREM PinFollowed ==
    ASSUME NEW S, IsFiniteSet(S), NEW pos \in [S -> Int], NEW i \in S,
           NEW new \in Int, NEW k \in TrackedBox,
           LowerFollows(k, pos), UpperFollows(k, pos)
    PROVE  LET b == MovePin(k, pos[i], new)
               after == [pos EXCEPT ![i] = new]
           IN  b \in TrackedBox /\ LowerFollows(b, after) /\ UpperFollows(b, after)
<1> DEFINE old   == pos[i]
           after == [pos EXCEPT ![i] = new]
           l     == LowerBound(k, old, new)
           b     == UpperBound(l, old, new)
<1>1. old \in Int
    OBVIOUS
<1>2. /\ l \in TrackedBox /\ l.hi = k.hi /\ l.nhi = k.nhi
      /\ k.change = "FULL_RECOMPUTE" => l.change = "FULL_RECOMPUTE"
    BY <1>1, LowerTyped
<1>3. LowerFollows(l, after)
    BY LowerEdge
<1>4. UpperFollows(l, pos)
    BY <1>2 DEF UpperFollows
<1> HIDE DEF l
<1>5. /\ b \in TrackedBox /\ b.lo = l.lo /\ b.nlo = l.nlo
      /\ l.change = "FULL_RECOMPUTE" => b.change = "FULL_RECOMPUTE"
    BY <1>1, <1>2, UpperTyped
<1>6. UpperFollows(b, after)
    BY <1>2, <1>4, UpperEdge
<1>7. LowerFollows(b, after)
    BY <1>3, <1>5 DEF LowerFollows
<1> QED
    BY <1>5, <1>6, <1>7 DEF MovePin, l

(* Two boxes that follow the same pins and ask for no scan are the same    *)
(* box: the one compute would find is the only one.                        *)
THEOREM BoxUnique ==
    ASSUME NEW S, IsFiniteSet(S), NEW pos \in [S -> Int],
           NEW k \in TrackedBox, NEW c \in TrackedBox,
           LowerFollows(k, pos), UpperFollows(k, pos),
           LowerFollows(c, pos), UpperFollows(c, pos),
           k.change # "FULL_RECOMPUTE", c.change # "FULL_RECOMPUTE"
    PROVE  Untracked(k) = Untracked(c)
<1> DEFINE count(q) == Cardinality(PinsAt(pos, q))
<1>1. /\ k.lo \in Int /\ k.hi \in Int /\ c.lo \in Int /\ c.hi \in Int
    BY DEF TrackedBox
<1>2. \A q \in Int : count(q) >= 1 => \E j \in S : pos[j] = q
    BY PinCount
<1>3. /\ \A j \in S : k.lo <= pos[j] /\ c.lo <= pos[j] /\ pos[j] <= k.hi /\ pos[j] <= c.hi
      /\ count(k.lo) >= 1 /\ count(c.lo) >= 1 /\ count(k.hi) >= 1 /\ count(c.hi) >= 1
      /\ k.nlo = count(k.lo) /\ c.nlo = count(c.lo)
      /\ k.nhi = count(k.hi) /\ c.nhi = count(c.hi)
    BY DEF LowerFollows, UpperFollows
<1> HIDE DEF count
<1>4. k.lo = c.lo
  <2>1. PICK j \in S : pos[j] = k.lo
      BY <1>1, <1>2, <1>3
  <2>2. PICK h \in S : pos[h] = c.lo
      BY <1>1, <1>2, <1>3
  <2> QED
      BY <1>1, <1>3, <2>1, <2>2
<1>5. k.hi = c.hi
  <2>1. PICK j \in S : pos[j] = k.hi
      BY <1>1, <1>2, <1>3
  <2>2. PICK h \in S : pos[h] = c.hi
      BY <1>1, <1>2, <1>3
  <2> QED
      BY <1>1, <1>3, <2>1, <2>2
<1> QED
    BY <1>3, <1>4, <1>5 DEF Untracked
-----------------------------------------------------------------------------
(* Sets, one element after the other.                                      *)

(* A set of numbers that has 0 and with each number the next has them all. *)
LEMMA AllNumbers ==
    ASSUME NEW T \in SUBSET Nat, 0 \in T, \A k \in T : k + 1 \in T
    PROVE  T = Nat
<1> SUFFICES ASSUME Nat \ T # {} PROVE FALSE
    OBVIOUS
<1>1. PICK x \in Nat \ T : \A y \in Nat \ T : ~(y < x)
  <2>1. \A x, y \in Nat : y < x => <<y, x>> \in OpToRel(<, Nat)
      BY DEF OpToRel
  <2>2. \E x \in Nat \ T : \A y \in Nat \ T : ~(<<y, x>> \in OpToRel(<, Nat))
      BY NatLessThanWellFounded, WFMin
  <2> QED BY <2>1, <2>2
<1>2. x - 1 \in T
    BY <1>1
<1> QED BY <1>1, <1>2

(* A set of subsets of S that has {} and with each set the ones with one   *)
(* element more has them all.                                              *)
LEMMA SubsetsByOne ==
    ASSUME NEW S, IsFiniteSet(S), NEW P \in SUBSET SUBSET S, {} \in P,
           \A s \in P : \A x \in S \ s : s \cup {x} \in P
    PROVE  P = SUBSET S
<1> DEFINE T == {N \in Nat : \A s \in SUBSET S : Cardinality(s) = N => s \in P}
<1>1. 0 \in T
  <2> SUFFICES ASSUME NEW s \in SUBSET S, Cardinality(s) = 0 PROVE s \in P
      OBVIOUS
  <2>1. s = {}
      BY FS_Subset, FS_EmptySet
  <2> QED BY <2>1
<1>2. ASSUME NEW N \in T PROVE N + 1 \in T
  <2> SUFFICES ASSUME NEW s \in SUBSET S, Cardinality(s) = N + 1 PROVE s \in P
      OBVIOUS
  <2>1. IsFiniteSet(s)
      BY FS_Subset
  <2>2. s # {}
    <3>1. N + 1 # 0
        OBVIOUS
    <3> QED BY <3>1, FS_EmptySet
  <2>3. PICK x \in s : TRUE
      BY <2>2
  <2>4. Cardinality(s \ {x}) = N
    <3>1. Cardinality(s \ {x}) = Cardinality(s) - 1
        BY <2>1, <2>3, FS_RemoveElement
    <3> QED BY <3>1
  <2>5. s \ {x} \in P
      BY <2>4
  <2>6. (s \ {x}) \cup {x} = s
      BY <2>3
  <2> QED BY <2>3, <2>5, <2>6
<1>3. T = Nat
  <2>1. T \subseteq Nat
      OBVIOUS
  <2> HIDE DEF T
  <2> QED BY <1>1, <1>2, <2>1, AllNumbers
<1> SUFFICES ASSUME NEW s \in SUBSET S PROVE s \in P
    OBVIOUS
<1>4. Cardinality(s) \in Nat
    BY FS_Subset, FS_CardinalityType
<1>5. Cardinality(s) \in T
  <2> HIDE DEF T
  <2> QED BY <1>3, <1>4
<1> QED BY <1>5

(* The functions the folds of the community modules are defined by: a      *)
(* value for each set from the value for the set without the element taken *)
(* first.                                                                  *)
FoldsSets(F, S, first, D, base) ==
    \A s \in SUBSET S :
        F[s] = IF s = {} THEN base ELSE D[first[s]][F[s \ {first[s]}]]
Takes(first, S) == /\ first \in [(SUBSET S) \ {{}} -> S]
                   /\ \A s \in (SUBSET S) \ {{}} : first[s] \in s

(* There is such a function.                                               *)
LEMMA FoldExists ==
    ASSUME NEW S, IsFiniteSet(S), NEW V, NEW base \in V, NEW first, Takes(first, S),
           NEW D \in [S -> [V -> V]]
    PROVE  \E F \in [SUBSET S -> V] : FoldsSets(F, S, first, D, base)
<1> DEFINE Step(F, s) == F[s] = IF s = {} THEN base ELSE D[first[s]][F[s \ {first[s]}]]
           T == {N \in Nat : \E F \in [SUBSET S -> V] :
                    \A s \in SUBSET S : Cardinality(s) <= N => Step(F, s)}
<1>0. \A s \in SUBSET S : IsFiniteSet(s) /\ Cardinality(s) \in Nat
    BY FS_Subset, FS_CardinalityType
<1>1. 0 \in T
  <2> DEFINE F == [s \in SUBSET S |-> base]
  <2>1. ASSUME NEW s \in SUBSET S, Cardinality(s) <= 0 PROVE Step(F, s)
    <3>1. s = {}
        BY <1>0, <2>1, FS_EmptySet
    <3> QED BY <3>1
  <2> QED BY <2>1
<1>2. ASSUME NEW N \in T PROVE N + 1 \in T
  <2>1. PICK F \in [SUBSET S -> V] : \A s \in SUBSET S : Cardinality(s) <= N => Step(F, s)
      OBVIOUS
  <2> DEFINE G == [s \in SUBSET S |-> IF Cardinality(s) = N + 1
                                      THEN D[first[s]][F[s \ {first[s]}]] ELSE F[s]]
  <2>2. G \in [SUBSET S -> V]
    <3>1. ASSUME NEW s \in SUBSET S, Cardinality(s) = N + 1
          PROVE  D[first[s]][F[s \ {first[s]}]] \in V
      <4>1. s # {}
        <5>1. N + 1 # 0
            OBVIOUS
        <5>2. Cardinality({}) = 0
            BY FS_EmptySet
        <5> QED BY <5>1, <5>2, <3>1, ZenonT(60)
      <4>2. first[s] \in S
          BY <4>1 DEF Takes
      <4> QED BY <4>2
    <3> QED BY <3>1
  <2>3. ASSUME NEW s \in SUBSET S, Cardinality(s) <= N + 1 PROVE Step(G, s)
    <3>1. CASE s = {}
      <4>1. Cardinality(s) = 0 /\ N \in Nat
          BY <3>1, FS_EmptySet
      <4>2. Cardinality(s) <= N /\ Cardinality(s) # N + 1
          BY <4>1
      <4>3. F[s] = base
          BY <4>2, <2>1, <3>1, ZenonT(60)
      <4>4. G[s] = F[s]
          BY <4>2
      <4> QED BY <4>3, <4>4, <3>1
    <3>2. CASE s # {}
      <4>1. first[s] \in s
          BY <3>2 DEF Takes
      <4>2. Cardinality(s \ {first[s]}) = Cardinality(s) - 1
          BY <4>1, <1>0, FS_RemoveElement
      <4>3. s \ {first[s]} \in SUBSET S /\ Cardinality(s) \in Nat
          BY <1>0
      <4>4. G[s \ {first[s]}] = F[s \ {first[s]}]
          BY <2>3, <4>2, <4>3
      <4>5. CASE Cardinality(s) = N + 1
          BY <4>4, <4>5, <3>2, ZenonT(60)
      <4>6. CASE Cardinality(s) <= N
        <5>1. G[s] = F[s]
            BY <4>6, <4>3
        <5> QED BY <5>1, <4>4, <4>6, <2>1, <3>2
      <4> QED BY <4>3, <4>5, <4>6, <2>3, SMTT(60)
    <3> QED BY <3>1, <3>2
  <2> HIDE DEF G, Step
  <2> QED BY <2>2, <2>3
<1>3. T = Nat
  <2>1. T \subseteq Nat
      OBVIOUS
  <2> HIDE DEF T
  <2> QED BY <1>1, <1>2, <2>1, AllNumbers
<1>4. Cardinality(S) \in Nat /\ \A s \in SUBSET S : Cardinality(s) <= Cardinality(S)
    BY FS_CardinalityType, FS_Subset
<1>5. Cardinality(S) \in T
  <2> HIDE DEF T
  <2> QED BY <1>3, <1>4
<1>6. PICK F \in [SUBSET S -> V] : \A s \in SUBSET S : Cardinality(s) <= Cardinality(S) => Step(F, s)
    BY <1>5
<1>7. \A s \in SUBSET S : Step(F, s)
    BY <1>4, <1>6
<1> QED BY <1>7 DEF FoldsSets

-----------------------------------------------------------------------------
(* NetBB::compute.                                                         *)

Edge == [at : Int, n : Int]

(* The greatest number of an interval that begins with one.                *)
LEMMA MaxOfSet ==
    ASSUME NEW N \in Nat
    PROVE  /\ Takes([s \in (SUBSET (1 .. N)) \ {{}} |-> Max(s)], 1 .. N)
           /\ \A k \in 1 .. N : Max(1 .. k) = k
<1>1. \A k \in Nat \ {0} : Max(1 .. k) = k
    BY DEF Max
<1>2. ASSUME NEW s \in (SUBSET (1 .. N)) \ {{}} PROVE Max(s) \in s
  <2> DEFINE R == {N - x : x \in s}
  <2>1. R \in SUBSET Nat /\ R # {}
      OBVIOUS
  <2> HIDE DEF R
  <2>2. PICK m \in R : \A k \in R : ~(k < m)
    <3>1. \A x, y \in Nat : y < x => <<y, x>> \in OpToRel(<, Nat)
        BY DEF OpToRel
    <3>2. \E m \in R : \A k \in R : ~(<<k, m>> \in OpToRel(<, Nat))
        BY <2>1, NatLessThanWellFounded, WFMin
    <3> QED BY <2>1, <3>1, <3>2
  <2>3. PICK x \in s : m = N - x
      BY DEF R
  <2>4. ASSUME NEW y \in s PROVE x >= y
    <3>1. N - y \in R /\ x \in 1 .. N /\ y \in 1 .. N
        BY DEF R
    <3> QED BY <2>2, <2>3, <3>1
  <2> QED BY <2>4 DEF Max
<1>3. \A k \in 1 .. N : k \in Nat \ {0}
    OBVIOUS
<1> QED BY <1>1, <1>2, <1>3 DEF Takes

(* The lower edge of the pins that have been looked at: its place, and how *)
(* many there are.                                                         *)
LowerOf(e, pos, k) ==
    /\ \A i \in 1 .. k : e.at <= pos[i]
    /\ e.n = Cardinality({i \in 1 .. k : pos[i] = e.at}) /\ e.n >= 1

(* One more pin.                                                           *)
NumAt(pos, k, q) == Cardinality({i \in 1 .. k : pos[i] = q})
(* How many of the first pins lie at a coordinate, with one more pin.      *)
LEMMA OneMorePin ==
    ASSUME NEW pos, NEW k \in Nat, NEW q
    PROVE  /\ NumAt(pos, k, q) \in Nat
           /\ NumAt(pos, k + 1, q) = NumAt(pos, k, q) + IF pos[k + 1] = q THEN 1 ELSE 0
<1> DEFINE at(j) == {i \in 1 .. j : pos[i] = q}
<1>1. \A j \in Nat : IsFiniteSet(at(j)) /\ Cardinality(at(j)) \in Nat
  <2> SUFFICES ASSUME NEW j \in Nat PROVE IsFiniteSet(at(j)) /\ Cardinality(at(j)) \in Nat
      OBVIOUS
  <2>1. IsFiniteSet(1 .. j) /\ at(j) \subseteq 1 .. j
      BY FS_Interval
  <2> HIDE DEF at
  <2> QED BY <2>1, FS_Subset, FS_CardinalityType
<1>2. CASE pos[k + 1] = q
  <2>1. at(k + 1) = at(k) \cup {k + 1} /\ k + 1 \notin at(k)
      BY <1>2
  <2>2. Cardinality(at(k + 1)) = Cardinality(at(k)) + 1
    <3> HIDE DEF at
    <3> QED BY <2>1, <1>1, FS_AddElement
  <2>3. Cardinality(at(k)) \in Nat
    <3> HIDE DEF at
    <3> QED BY <1>1
  <2> QED BY <1>2, <2>2, <2>3 DEF NumAt
<1>3. CASE pos[k + 1] # q
  <2>1. at(k + 1) = at(k)
      BY <1>3
  <2>2. Cardinality(at(k)) \in Nat
    <3> HIDE DEF at
    <3> QED BY <1>1
  <2> QED BY <1>3, <2>1, <2>2 DEF NumAt
<1> QED BY <1>2, <1>3

(* A pin more seen from the lower edge.                                    *)
LEMMA LowerScanned ==
    ASSUME NEW pos \in Seq(Int), NEW k \in Nat \ {0}, k + 1 <= Len(pos),
           NEW e \in Edge, LowerOf(e, pos, k)
    PROVE  /\ ScanLower(e, pos[k + 1]) \in Edge
           /\ LowerOf(ScanLower(e, pos[k + 1]), pos, k + 1)
<1> DEFINE q == pos[k + 1]
           at(j, r) == {i \in 1 .. j : pos[i] = r}
           num(j, r) == Cardinality(at(j, r))
<1>1. q \in Int /\ e.at \in Int /\ e.n \in Int /\ \A i \in 1 .. k : pos[i] \in Int
    BY DEF Edge
<1>2. \A r : num(k, r) \in Nat /\ num(k + 1, r) = num(k, r) + IF q = r THEN 1 ELSE 0
  <2> SUFFICES ASSUME NEW r
               PROVE  num(k, r) \in Nat /\ num(k + 1, r) = num(k, r) + IF q = r THEN 1 ELSE 0
      OBVIOUS
  <2>1. num(k, r) = NumAt(pos, k, r) /\ num(k + 1, r) = NumAt(pos, k + 1, r)
      BY DEF NumAt
  <2> HIDE DEF num
  <2> QED BY <2>1, OneMorePin
<1>3. e.n = num(k, e.at) /\ e.n >= 1 /\ \A i \in 1 .. k : e.at <= pos[i]
    BY DEF LowerOf
<1>4. CASE q < e.at
  <2>1. at(k, q) = {}
      BY <1>1, <1>3, <1>4
  <2>2. num(k, q) = 0
    <3> HIDE DEF at
    <3> QED BY <2>1, FS_EmptySet
  <2>3. num(k + 1, q) = 1
    <3> HIDE DEF num
    <3> QED BY <2>2, <1>2
  <2>4. \A i \in 1 .. k + 1 : q <= pos[i]
      BY <1>1, <1>3, <1>4, SMTT(60)
  <2>5. ScanLower(e, q) = [at |-> q, n |-> 1]
      BY <1>4 DEF ScanLower
  <2> HIDE DEF q
  <2> QED BY <2>3, <2>4, <2>5, <1>1 DEF LowerOf, Edge, q
<1>5. CASE q = e.at
  <2>1. ScanLower(e, q) = [at |-> q, n |-> e.n + 1]
      BY <1>5, <1>1, SMTT(60) DEF ScanLower, Edge
  <2>2. \A i \in 1 .. k + 1 : q <= pos[i]
      BY <1>1, <1>3, <1>5
  <2>3. num(k + 1, q) = e.n + 1 /\ e.n + 1 >= 1 /\ e.n + 1 \in Int
    <3> HIDE DEF num
    <3> QED BY <1>2, <1>3, <1>5, <1>1
  <2> HIDE DEF q
  <2> QED BY <2>1, <2>2, <2>3, <1>1 DEF LowerOf, Edge, q
<1>6. CASE ~(q < e.at) /\ q # e.at
  <2>1. ScanLower(e, q) = e
      BY <1>6 DEF ScanLower
  <2>2. \A i \in 1 .. k + 1 : e.at <= pos[i]
      BY <1>1, <1>3, <1>6
  <2>3. num(k + 1, e.at) = e.n
    <3> HIDE DEF num
    <3> QED BY <1>2, <1>3, <1>6, <1>1
  <2> QED BY <2>1, <2>2, <2>3, <1>3 DEF LowerOf
<1> QED BY <1>4, <1>5, <1>6

(* The fold over all pins but the driver.                                  *)
LEMMA LowerScan ==
    ASSUME NEW pos \in Seq(Int), pos # <<>>
    PROVE  LET e == FoldLeft(ScanLower, [at |-> Head(pos), n |-> 1], Tail(pos))
           IN  e \in Edge /\ LowerOf(e, pos, Len(pos))
<1> DEFINE seq == Tail(pos)
           N == Len(pos) - 1
           S == 1 .. N
           base == [at |-> Head(pos), n |-> 1]
           first == [s \in (SUBSET S) \ {{}} |-> Max(s)]
           D == [i \in S |-> [e \in Edge |-> ScanLower(e, seq[i])]]
           IsIter(F) == F = [s \in SUBSET S |->
                               IF s = {} THEN base
                               ELSE ScanLower(F[s \ {Max(s)}], seq[Max(s)])]
           G == CHOOSE F : IsIter(F)
<1>1. N \in Nat /\ Len(pos) = N + 1 /\ DOMAIN seq = S /\ seq \in Seq(Int)
      /\ \A i \in S : seq[i] = pos[i + 1] /\ seq[i] \in Int
      /\ Head(pos) = pos[1] /\ pos[1] \in Int
    OBVIOUS
<1>2. IsFiniteSet(S) /\ Takes(first, S) /\ \A k \in S : Max(1 .. k) = k
  <2>1. IsFiniteSet(S)
      BY <1>1, FS_Interval
  <2>2. Takes(first, S) /\ \A k \in S : Max(1 .. k) = k
    <3> HIDE DEF N
    <3> QED BY <1>1, MaxOfSet
  <2> QED BY <2>1, <2>2
<1>3. D \in [S -> [Edge -> Edge]]
  <2>1. ASSUME NEW e \in Edge, NEW i \in S PROVE ScanLower(e, seq[i]) \in Edge
      BY <1>1, SMTT(60) DEF ScanLower, Edge
  <2> QED BY <2>1
<1>4. base \in Edge
    BY <1>1 DEF Edge
<1>5. PICK F \in [SUBSET S -> Edge] : FoldsSets(F, S, first, D, base)
  <2> HIDE DEF S, first, D, base
  <2> QED BY <1>2, <1>3, <1>4, FoldExists
<1>6. IsIter(F)
  <2>1. ASSUME NEW s \in SUBSET S
        PROVE  F[s] = IF s = {} THEN base ELSE ScanLower(F[s \ {Max(s)}], seq[Max(s)])
    <3>1. CASE s # {}
      <4>1. first[s] = Max(s) /\ first[s] \in S
          BY <3>1, <1>2 DEF Takes
      <4>2. F[s] = D[Max(s)][F[s \ {Max(s)}]]
        <5> HIDE DEF D, first, base
        <5> QED BY <1>5, <3>1, <4>1 DEF FoldsSets
      <4>3. F[s \ {Max(s)}] \in Edge
          OBVIOUS
      <4> QED BY <4>1, <4>2, <4>3, <3>1
    <3>2. CASE s = {}
      <4> HIDE DEF D, first, base
      <4> QED BY <1>5, <3>2 DEF FoldsSets
    <3> QED BY <3>1, <3>2
  <2> HIDE DEF S, base
  <2> QED BY <2>1
<1>7. IsIter(G)
  <2> HIDE DEF IsIter
  <2> QED BY <1>6
<1>8. FoldLeft(ScanLower, base, seq) = G[S]
    BY <1>1 DEF FoldLeft, MapThenFoldSet
<1>9. \A s \in SUBSET S : G[s] = IF s = {} THEN base
                                 ELSE ScanLower(G[s \ {Max(s)}], seq[Max(s)])
  <2> HIDE DEF G, S, base
  <2> QED BY <1>7
<1> HIDE DEF G, base, IsIter, first, D, seq
<1> DEFINE T == {k \in Nat : k <= N => G[1 .. k] \in Edge /\ LowerOf(G[1 .. k], pos, k + 1)}
<1>10. 0 \in T
  <2>1. 1 .. 0 = {}
      OBVIOUS
  <2>2. G[1 .. 0] = base
      BY <2>1, <1>9
  <2>3. LowerOf(base, pos, 1)
    <3>1. base.at = pos[1] /\ base.n = 1
        BY <1>1 DEF base
    <3>2. {i \in 1 .. 1 : pos[i] = base.at} = {1} /\ \A i \in 1 .. 1 : i = 1
        BY <3>1
    <3>3. Cardinality({i \in 1 .. 1 : pos[i] = base.at}) = 1
        BY <3>2, FS_Singleton
    <3>4. base.n = 1 /\ 1 >= 1 /\ \A i \in 1 .. 1 : base.at <= pos[i]
        BY <1>1, <3>1, <3>2
    <3> QED BY <3>3, <3>4 DEF LowerOf
  <2> QED BY <2>2, <2>3, <1>4
<1>11. ASSUME NEW k \in T PROVE k + 1 \in T
  <2> SUFFICES ASSUME k + 1 <= N
               PROVE  G[1 .. k + 1] \in Edge /\ LowerOf(G[1 .. k + 1], pos, (k + 1) + 1)
      OBVIOUS
  <2>1. 1 .. k + 1 \in SUBSET S /\ 1 .. k + 1 # {} /\ k + 1 \in S /\ k <= N
    <3>1. k \in Nat /\ N \in Nat /\ k + 1 <= N
        BY <1>1
    <3>2. k + 1 \in 1 .. k + 1 /\ k + 1 \in S /\ k <= N
      <4> HIDE DEF N, T
      <4> QED BY <3>1
    <3>3. \A i \in 1 .. k + 1 : i \in S
      <4> HIDE DEF N, T
      <4> QED BY <3>1
    <3> HIDE DEF N, T, S
    <3> QED BY <3>2, <3>3
  <2>2. Max(1 .. k + 1) = k + 1 /\ (1 .. k + 1) \ {k + 1} = 1 .. k
      BY <1>2, <2>1, SMTT(60)
  <2>3. G[1 .. k + 1] = ScanLower(G[1 .. k], pos[(k + 1) + 1])
    <3>1. seq[k + 1] = pos[(k + 1) + 1]
        BY <1>1, <2>1
    <3> QED BY <1>9, <2>1, <2>2, <3>1
  <2>4. (k + 1) + 1 <= Len(pos) /\ k + 1 \in Nat \ {0}
      BY <1>1
  <2> QED BY <2>1, <2>3, <2>4, LowerScanned
<1>12. T = Nat
  <2>1. T \subseteq Nat
      OBVIOUS
  <2> HIDE DEF T
  <2> QED BY <1>10, <1>11, <2>1, AllNumbers
<1>13. N \in T
  <2> HIDE DEF T, N
  <2> QED BY <1>1, <1>12
<1>14. G[S] \in Edge /\ LowerOf(G[S], pos, N + 1)
    BY <1>1, <1>13
<1> HIDE DEF S, N
<1> QED BY <1>8, <1>14, <1>1 DEF seq, base

(* The same from above.                                                   *)
UpperOf(e, pos, k) ==
    /\ \A i \in 1 .. k : pos[i] <= e.at
    /\ e.n = Cardinality({i \in 1 .. k : pos[i] = e.at}) /\ e.n >= 1

(* A pin more seen from the upper edge.                                    *)
LEMMA UpperScanned ==
    ASSUME NEW pos \in Seq(Int), NEW k \in Nat \ {0}, k + 1 <= Len(pos),
           NEW e \in Edge, UpperOf(e, pos, k)
    PROVE  /\ ScanUpper(e, pos[k + 1]) \in Edge
           /\ UpperOf(ScanUpper(e, pos[k + 1]), pos, k + 1)
<1> DEFINE q == pos[k + 1]
           at(j, r) == {i \in 1 .. j : pos[i] = r}
           num(j, r) == Cardinality(at(j, r))
<1>1. q \in Int /\ e.at \in Int /\ e.n \in Int /\ \A i \in 1 .. k : pos[i] \in Int
    BY DEF Edge
<1>2. \A r : num(k, r) \in Nat /\ num(k + 1, r) = num(k, r) + IF q = r THEN 1 ELSE 0
  <2> SUFFICES ASSUME NEW r
               PROVE  num(k, r) \in Nat /\ num(k + 1, r) = num(k, r) + IF q = r THEN 1 ELSE 0
      OBVIOUS
  <2>1. num(k, r) = NumAt(pos, k, r) /\ num(k + 1, r) = NumAt(pos, k + 1, r)
      BY DEF NumAt
  <2> HIDE DEF num
  <2> QED BY <2>1, OneMorePin
<1>3. e.n = num(k, e.at) /\ e.n >= 1 /\ \A i \in 1 .. k : pos[i] <= e.at
    BY DEF UpperOf
<1>4. CASE q > e.at
  <2>1. at(k, q) = {}
      BY <1>1, <1>3, <1>4
  <2>2. num(k, q) = 0
    <3> HIDE DEF at
    <3> QED BY <2>1, FS_EmptySet
  <2>3. num(k + 1, q) = 1
    <3> HIDE DEF num
    <3> QED BY <2>2, <1>2
  <2>4. \A i \in 1 .. k + 1 : pos[i] <= q
      BY <1>1, <1>3, <1>4, SMTT(60)
  <2>5. ScanUpper(e, q) = [at |-> q, n |-> 1]
      BY <1>4 DEF ScanUpper
  <2> HIDE DEF q
  <2> QED BY <2>3, <2>4, <2>5, <1>1 DEF UpperOf, Edge, q
<1>5. CASE q = e.at
  <2>1. ScanUpper(e, q) = [at |-> q, n |-> e.n + 1]
      BY <1>5, <1>1, SMTT(60) DEF ScanUpper, Edge
  <2>2. \A i \in 1 .. k + 1 : pos[i] <= q
      BY <1>1, <1>3, <1>5
  <2>3. num(k + 1, q) = e.n + 1 /\ e.n + 1 >= 1 /\ e.n + 1 \in Int
    <3> HIDE DEF num
    <3> QED BY <1>2, <1>3, <1>5, <1>1
  <2> HIDE DEF q
  <2> QED BY <2>1, <2>2, <2>3, <1>1 DEF UpperOf, Edge, q
<1>6. CASE ~(q > e.at) /\ q # e.at
  <2>1. ScanUpper(e, q) = e
      BY <1>6 DEF ScanUpper
  <2>2. \A i \in 1 .. k + 1 : pos[i] <= e.at
      BY <1>1, <1>3, <1>6
  <2>3. num(k + 1, e.at) = e.n
    <3> HIDE DEF num
    <3> QED BY <1>2, <1>3, <1>6, <1>1
  <2> QED BY <2>1, <2>2, <2>3, <1>3 DEF UpperOf
<1> QED BY <1>4, <1>5, <1>6

(* The fold over all pins but the driver.                                  *)
LEMMA UpperScan ==
    ASSUME NEW pos \in Seq(Int), pos # <<>>
    PROVE  LET e == FoldLeft(ScanUpper, [at |-> Head(pos), n |-> 1], Tail(pos))
           IN  e \in Edge /\ UpperOf(e, pos, Len(pos))
<1> DEFINE seq == Tail(pos)
           N == Len(pos) - 1
           S == 1 .. N
           base == [at |-> Head(pos), n |-> 1]
           first == [s \in (SUBSET S) \ {{}} |-> Max(s)]
           D == [i \in S |-> [e \in Edge |-> ScanUpper(e, seq[i])]]
           IsIter(F) == F = [s \in SUBSET S |->
                               IF s = {} THEN base
                               ELSE ScanUpper(F[s \ {Max(s)}], seq[Max(s)])]
           G == CHOOSE F : IsIter(F)
<1>1. N \in Nat /\ Len(pos) = N + 1 /\ DOMAIN seq = S /\ seq \in Seq(Int)
      /\ \A i \in S : seq[i] = pos[i + 1] /\ seq[i] \in Int
      /\ Head(pos) = pos[1] /\ pos[1] \in Int
    OBVIOUS
<1>2. IsFiniteSet(S) /\ Takes(first, S) /\ \A k \in S : Max(1 .. k) = k
  <2>1. IsFiniteSet(S)
      BY <1>1, FS_Interval
  <2>2. Takes(first, S) /\ \A k \in S : Max(1 .. k) = k
    <3> HIDE DEF N
    <3> QED BY <1>1, MaxOfSet
  <2> QED BY <2>1, <2>2
<1>3. D \in [S -> [Edge -> Edge]]
  <2>1. ASSUME NEW e \in Edge, NEW i \in S PROVE ScanUpper(e, seq[i]) \in Edge
      BY <1>1, SMTT(60) DEF ScanUpper, Edge
  <2> QED BY <2>1
<1>4. base \in Edge
    BY <1>1 DEF Edge
<1>5. PICK F \in [SUBSET S -> Edge] : FoldsSets(F, S, first, D, base)
  <2> HIDE DEF S, first, D, base
  <2> QED BY <1>2, <1>3, <1>4, FoldExists
<1>6. IsIter(F)
  <2>1. ASSUME NEW s \in SUBSET S
        PROVE  F[s] = IF s = {} THEN base ELSE ScanUpper(F[s \ {Max(s)}], seq[Max(s)])
    <3>1. CASE s # {}
      <4>1. first[s] = Max(s) /\ first[s] \in S
          BY <3>1, <1>2 DEF Takes
      <4>2. F[s] = D[Max(s)][F[s \ {Max(s)}]]
        <5> HIDE DEF D, first, base
        <5> QED BY <1>5, <3>1, <4>1 DEF FoldsSets
      <4>3. F[s \ {Max(s)}] \in Edge
          OBVIOUS
      <4> QED BY <4>1, <4>2, <4>3, <3>1
    <3>2. CASE s = {}
      <4> HIDE DEF D, first, base
      <4> QED BY <1>5, <3>2 DEF FoldsSets
    <3> QED BY <3>1, <3>2
  <2> HIDE DEF S, base
  <2> QED BY <2>1
<1>7. IsIter(G)
  <2> HIDE DEF IsIter
  <2> QED BY <1>6
<1>8. FoldLeft(ScanUpper, base, seq) = G[S]
    BY <1>1 DEF FoldLeft, MapThenFoldSet
<1>9. \A s \in SUBSET S : G[s] = IF s = {} THEN base
                                 ELSE ScanUpper(G[s \ {Max(s)}], seq[Max(s)])
  <2> HIDE DEF G, S, base
  <2> QED BY <1>7
<1> HIDE DEF G, base, IsIter, first, D, seq
<1> DEFINE T == {k \in Nat : k <= N => G[1 .. k] \in Edge /\ UpperOf(G[1 .. k], pos, k + 1)}
<1>10. 0 \in T
  <2>1. 1 .. 0 = {}
      OBVIOUS
  <2>2. G[1 .. 0] = base
      BY <2>1, <1>9
  <2>3. UpperOf(base, pos, 1)
    <3>1. base.at = pos[1] /\ base.n = 1
        BY <1>1 DEF base
    <3>2. {i \in 1 .. 1 : pos[i] = base.at} = {1} /\ \A i \in 1 .. 1 : i = 1
        BY <3>1
    <3>3. Cardinality({i \in 1 .. 1 : pos[i] = base.at}) = 1
        BY <3>2, FS_Singleton
    <3>4. base.n = 1 /\ 1 >= 1 /\ \A i \in 1 .. 1 : pos[i] <= base.at
        BY <1>1, <3>1, <3>2
    <3> QED BY <3>3, <3>4 DEF UpperOf
  <2> QED BY <2>2, <2>3, <1>4
<1>11. ASSUME NEW k \in T PROVE k + 1 \in T
  <2> SUFFICES ASSUME k + 1 <= N
               PROVE  G[1 .. k + 1] \in Edge /\ UpperOf(G[1 .. k + 1], pos, (k + 1) + 1)
      OBVIOUS
  <2>1. 1 .. k + 1 \in SUBSET S /\ 1 .. k + 1 # {} /\ k + 1 \in S /\ k <= N
    <3>1. k \in Nat /\ N \in Nat /\ k + 1 <= N
        BY <1>1
    <3>2. k + 1 \in 1 .. k + 1 /\ k + 1 \in S /\ k <= N
      <4> HIDE DEF N, T
      <4> QED BY <3>1
    <3>3. \A i \in 1 .. k + 1 : i \in S
      <4> HIDE DEF N, T
      <4> QED BY <3>1
    <3> HIDE DEF N, T, S
    <3> QED BY <3>2, <3>3
  <2>2. Max(1 .. k + 1) = k + 1 /\ (1 .. k + 1) \ {k + 1} = 1 .. k
      BY <1>2, <2>1
  <2>3. G[1 .. k + 1] = ScanUpper(G[1 .. k], pos[(k + 1) + 1])
    <3>1. seq[k + 1] = pos[(k + 1) + 1]
        BY <1>1, <2>1
    <3> QED BY <1>9, <2>1, <2>2, <3>1
  <2>4. (k + 1) + 1 <= Len(pos) /\ k + 1 \in Nat \ {0}
      BY <1>1
  <2> QED BY <2>1, <2>3, <2>4, UpperScanned
<1>12. T = Nat
  <2>1. T \subseteq Nat
      OBVIOUS
  <2> HIDE DEF T
  <2> QED BY <1>10, <1>11, <2>1, AllNumbers
<1>13. N \in T
  <2> HIDE DEF T, N
  <2> QED BY <1>1, <1>12
<1>14. G[S] \in Edge /\ UpperOf(G[S], pos, N + 1)
    BY <1>1, <1>13
<1> HIDE DEF S, N
<1> QED BY <1>8, <1>14, <1>1 DEF seq, base

(* NetBB::compute finds the box of the positions, with any number of pins. *)
THEOREM ScanFollows ==
    ASSUME NEW pos \in Seq(Int), pos # <<>>
    PROVE  /\ Scan(pos) \in [lo : Int, nlo : Int, hi : Int, nhi : Int]
           /\ \A what \in BoundChange : LET k == WithChange(Scan(pos), what)
              IN  k \in TrackedBox /\ LowerFollows(k, pos) /\ UpperFollows(k, pos)
<1> DEFINE driver == [at |-> Head(pos), n |-> 1]
           l == FoldLeft(ScanLower, driver, Tail(pos))
           u == FoldLeft(ScanUpper, driver, Tail(pos))
           b == Scan(pos)
<1>1. l \in Edge /\ LowerOf(l, pos, Len(pos))
    BY LowerScan
<1>2. u \in Edge /\ UpperOf(u, pos, Len(pos))
    BY UpperScan
<1>3. b = [lo |-> l.at, nlo |-> l.n, hi |-> u.at, nhi |-> u.n]
    BY DEF Scan
<1>4. DOMAIN pos = 1 .. Len(pos)
    OBVIOUS
<1> HIDE DEF l, u, b
<1>5. b \in [lo : Int, nlo : Int, hi : Int, nhi : Int]
    BY <1>1, <1>2, <1>3 DEF Edge
<1>6. ASSUME NEW what \in BoundChange
      PROVE  LET k == WithChange(b, what)
             IN  k \in TrackedBox /\ LowerFollows(k, pos) /\ UpperFollows(k, pos)
  <2> DEFINE k == WithChange(b, what)
  <2>1. k \in TrackedBox
      BY <1>5 DEF WithChange, TrackedBox
  <2>2. k.lo = l.at /\ k.nlo = l.n /\ k.hi = u.at /\ k.nhi = u.n
      BY <1>3 DEF WithChange
  <2> HIDE DEF k
  <2>3. LowerFollows(k, pos)
      BY <1>1, <1>4, <2>2 DEF LowerFollows, LowerOf, PinsAt
  <2>4. UpperFollows(k, pos)
      BY <1>2, <1>4, <2>2 DEF UpperFollows, UpperOf, PinsAt
  <2> QED BY <2>1, <2>3, <2>4 DEF k
<1> QED BY <1>5, <1>6 DEF b

-----------------------------------------------------------------------------
(* compute_changes_for_cell.                                               *)

(* A change is noted if anything of the box changes.                       *)
LEMMA UnnotedIsSame ==
    ASSUME NEW k \in TrackedBox, NEW old \in Int, NEW new \in Int,
           MovePin(k, old, new).change = "NO_CHANGE"
    PROVE  MovePin(k, old, new) = k
<1> DEFINE l == LowerBound(k, old, new)
<1>1. ASSUME NEW b \in TrackedBox, LowerBound(b, old, new).change = "NO_CHANGE"
      PROVE  LowerBound(b, old, new) = b
    BY <1>1 DEF LowerBound, Note, TrackedBox
<1>2. ASSUME NEW b \in TrackedBox, UpperBound(b, old, new).change = "NO_CHANGE"
      PROVE  UpperBound(b, old, new) = b
    BY <1>2 DEF UpperBound, Note, TrackedBox
<1>3. l \in TrackedBox
    BY LowerTyped
<1> HIDE DEF l
<1>4. UpperBound(l, old, new) = l
    BY <1>2, <1>3 DEF MovePin, l
<1>5. l.change = "NO_CHANGE"
    BY <1>4 DEF MovePin, l
<1>6. l = k
    BY <1>1, <1>5 DEF l
<1> QED BY <1>4, <1>6 DEF MovePin, l

(* The pins of the cell in D have been moved to new. *)
MovedTo(pos, D, new) == [i \in DOMAIN pos |-> IF i \in D THEN new ELSE pos[i]]

(* The box of the net follows a cell with any number of pins on the net,   *)
(* from the place the pins all lie on to another.                          *)
THEOREM CellFollowed ==
    ASSUME NEW S, IsFiniteSet(S), NEW pos \in [S -> Int], NEW C \in SUBSET S,
           NEW old \in Int, NEW new \in Int, \A i \in C : pos[i] = old,
           NEW k \in TrackedBox, LowerFollows(k, pos), UpperFollows(k, pos)
    PROVE  LET b == MovePins(k, Cardinality(C), old, new)
           IN  /\ b \in TrackedBox
               /\ LowerFollows(b, MovedTo(pos, C, new))
               /\ UpperFollows(b, MovedTo(pos, C, new))
               /\ b.change = "NO_CHANGE" => b = k
<1> DEFINE n == Cardinality(C)
           IsIter(f) == f = [i \in 0 .. n |-> IF i = 0 THEN k ELSE MovePin(f[i - 1], old, new)]
           g == CHOOSE f : IsIter(f)
<1>1. IsFiniteSet(C) /\ n \in Nat
    BY FS_Subset, FS_CardinalityType
<1>2. ASSUME NEW b \in TrackedBox PROVE MovePin(b, old, new) \in TrackedBox
  <2>1. LowerBound(b, old, new) \in TrackedBox
      BY LowerTyped
  <2> QED BY <2>1, UpperTyped DEF MovePin
<1>3. \E f : IsIter(f)
  <2> DEFINE Upto(N, f) == /\ f \in [0 .. N -> TrackedBox]
                           /\ \A i \in 0 .. N : f[i] = IF i = 0 THEN k
                                                       ELSE MovePin(f[i - 1], old, new)
             T == {N \in Nat : \E f : Upto(N, f)}
  <2>1. 0 \in T
    <3>1. Upto(0, [i \in 0 .. 0 |-> k])
        OBVIOUS
    <3> QED BY <3>1
  <2>2. ASSUME NEW N \in T PROVE N + 1 \in T
    <3>1. PICK f : Upto(N, f)
        OBVIOUS
    <3> DEFINE h == [i \in 0 .. N + 1 |-> IF i = N + 1 THEN MovePin(f[N], old, new) ELSE f[i]]
    <3>2. N \in Nat /\ f[N] \in TrackedBox
        BY <3>1
    <3>3. h \in [0 .. N + 1 -> TrackedBox]
        BY <3>1, <3>2, <1>2
    <3>4. ASSUME NEW i \in 0 .. N + 1
          PROVE  h[i] = IF i = 0 THEN k ELSE MovePin(h[i - 1], old, new)
      <4>1. CASE i = N + 1
        <5>1. i - 1 = N /\ i # 0 /\ N \in 0 .. N + 1 /\ N # N + 1
            BY <3>2, <4>1
        <5> QED BY <5>1, <4>1
      <4>2. CASE i \in 0 .. N
        <5>1. h[i] = f[i]
            BY <4>2, <3>2
        <5>2. i # 0 => h[i - 1] = f[i - 1]
            BY <4>2, <3>2
        <5> QED BY <5>1, <5>2, <4>2, <3>1
      <4> QED BY <4>1, <4>2, <3>2
    <3> HIDE DEF h
    <3>5. Upto(N + 1, h)
        BY <3>3, <3>4
    <3> QED BY <3>5
  <2>3. T = Nat
    <3>1. T \subseteq Nat
        OBVIOUS
    <3> HIDE DEF T
    <3> QED BY <2>1, <2>2, <3>1, AllNumbers
  <2>4. n \in T
    <3> HIDE DEF T, n
    <3> QED BY <2>3, <1>1
  <2>5. PICK f : Upto(n, f)
      BY <2>4
  <2>6. IsIter(f)
      BY <2>5
  <2> HIDE DEF IsIter
  <2> QED BY <2>6
<1>4. \A i \in 0 .. n : g[i] = IF i = 0 THEN k ELSE MovePin(g[i - 1], old, new)
  <2>1. IsIter(g)
    <3> HIDE DEF IsIter
    <3> QED BY <1>3
  <2> HIDE DEF g, n
  <2> QED BY <2>1
<1>5. MovePins(k, n, old, new) = g[n]
    BY DEF MovePins
<1> HIDE DEF g, IsIter
<1> DEFINE Good(b, D) == /\ b \in TrackedBox
                         /\ LowerFollows(b, MovedTo(pos, D, new))
                         /\ UpperFollows(b, MovedTo(pos, D, new))
                         /\ b.change = "NO_CHANGE" => b = k
           P == {D \in SUBSET C : Good(g[Cardinality(D)], D)}
<1>6. {} \in P
  <2>1. Cardinality({}) = 0
      BY FS_EmptySet
  <2>2. g[0] = k
      BY <1>1, <1>4
  <2>3. MovedTo(pos, {}, new) = pos
      BY DEF MovedTo
  <2> QED BY <2>1, <2>2, <2>3
<1>7. ASSUME NEW D \in P, NEW x \in C \ D PROVE D \cup {x} \in P
  <2> DEFINE m == Cardinality(D)
             before == MovedTo(pos, D, new)
             after == MovedTo(pos, D \cup {x}, new)
  <2>1. D \subseteq C /\ IsFiniteSet(D) /\ m \in Nat /\ Good(g[m], D)
      BY <1>1, FS_Subset, FS_CardinalityType
  <2>2. Cardinality(D \cup {x}) = m + 1
      BY <2>1, FS_AddElement
  <2>3. m + 1 \in 0 .. n
    <3>1. Cardinality(D \cup {x}) <= n
        BY <1>1, FS_Subset
    <3> HIDE DEF m, n
    <3> QED BY <3>1, <2>1, <2>2, <1>1
  <2>4. g[m + 1] = MovePin(g[m], old, new)
    <3> HIDE DEF m, n
    <3>1. m + 1 # 0 /\ (m + 1) - 1 = m
        BY <2>1
    <3> QED BY <1>4, <2>3, <3>1
  <2>5. before \in [S -> Int] /\ before[x] = old /\ x \in S
    <3>1. DOMAIN pos = S
        OBVIOUS
    <3> QED BY <3>1 DEF MovedTo
  <2>6. after = [before EXCEPT ![x] = new]
      BY <2>5 DEF MovedTo
  <2> HIDE DEF before, after, m
  <2>7. /\ MovePin(g[m], old, new) \in TrackedBox
        /\ LowerFollows(MovePin(g[m], old, new), after)
        /\ UpperFollows(MovePin(g[m], old, new), after)
    <3>1. g[m] \in TrackedBox /\ LowerFollows(g[m], before) /\ UpperFollows(g[m], before)
        BY <2>1 DEF before
    <3> QED BY <3>1, <2>5, <2>6, PinFollowed
  <2>8. g[m + 1].change = "NO_CHANGE" => g[m + 1] = k
      BY <2>1, <2>4, UnnotedIsSame
  <2>9. Good(g[m + 1], D \cup {x})
      BY <2>4, <2>7, <2>8 DEF after
  <2> HIDE DEF Good
  <2> QED BY <2>1, <2>2, <2>9
<1>8. P = SUBSET C
  <2>1. P \in SUBSET SUBSET C
      OBVIOUS
  <2> HIDE DEF P
  <2> QED BY <1>1, <1>6, <1>7, <2>1, SubsetsByOne
<1>9. C \in P
    BY <1>8
<1> QED BY <1>5, <1>9

-----------------------------------------------------------------------------
(* Sums over sets.                                                         *)

(* A set of subsets of S is all of them if it has each set all of whose    *)
(* subsets with one element less it has.                                   *)
LEMMA SubsetsDown ==
    ASSUME NEW S, IsFiniteSet(S), NEW P \in SUBSET SUBSET S,
           \A s \in SUBSET S : (\A x \in s : s \ {x} \in P) => s \in P
    PROVE  P = SUBSET S
<1> DEFINE T == {N \in Nat : \A s \in SUBSET S : Cardinality(s) = N => s \in P}
<1>1. 0 \in T
  <2> SUFFICES ASSUME NEW s \in SUBSET S, Cardinality(s) = 0 PROVE s \in P
      OBVIOUS
  <2>1. s = {}
      BY FS_Subset, FS_EmptySet
  <2> QED BY <2>1
<1>2. ASSUME NEW N \in T PROVE N + 1 \in T
  <2> SUFFICES ASSUME NEW s \in SUBSET S, Cardinality(s) = N + 1 PROVE s \in P
      OBVIOUS
  <2>1. ASSUME NEW x \in s PROVE s \ {x} \in P
    <3>1. Cardinality(s \ {x}) = Cardinality(s) - 1
        BY FS_Subset, FS_RemoveElement
    <3>2. Cardinality(s \ {x}) = N
        BY <3>1
    <3> QED BY <3>2
  <2> QED BY <2>1
<1>3. T = Nat
  <2>1. T \subseteq Nat
      OBVIOUS
  <2> HIDE DEF T
  <2> QED BY <1>1, <1>2, <2>1, AllNumbers
<1> SUFFICES ASSUME NEW s \in SUBSET S PROVE s \in P
    OBVIOUS
<1>4. Cardinality(s) \in Nat
    BY FS_Subset, FS_CardinalityType
<1>5. Cardinality(s) \in T
  <2> HIDE DEF T
  <2> QED BY <1>3, <1>4
<1> QED BY <1>5

(* F[s] is the sum of f over the subset s of S, added up in the order      *)
(* MapThenSumSet takes.                                                    *)
Sums(F, S, f) ==
    F = [s \in SUBSET S |-> IF s = {} THEN 0
                            ELSE f[CHOOSE x \in s : TRUE] + F[s \ {CHOOSE x \in s : TRUE}]]

(* There is such a function; its values are numbers; and the order does    *)
(* not matter.                                                             *)
LEMMA SumsExist ==
    ASSUME NEW S, IsFiniteSet(S), NEW f \in [S -> Int]
    PROVE  \E F : Sums(F, S, f)
<1> DEFINE first == [s \in (SUBSET S) \ {{}} |-> CHOOSE x \in s : TRUE]
           D == [x \in S |-> [v \in Int |-> f[x] + v]]
<1>1. \A s \in (SUBSET S) \ {{}} : (CHOOSE x \in s : TRUE) \in s
    OBVIOUS
<1>2. Takes(first, S)
    BY <1>1 DEF Takes
<1>3. D \in [S -> [Int -> Int]] /\ 0 \in Int
    OBVIOUS
<1>4. PICK F \in [SUBSET S -> Int] : FoldsSets(F, S, first, D, 0)
  <2> HIDE DEF first, D
  <2> QED BY <1>2, <1>3, FoldExists
<1>5. ASSUME NEW s \in SUBSET S
      PROVE  F[s] = IF s = {} THEN 0
                    ELSE f[CHOOSE x \in s : TRUE] + F[s \ {CHOOSE x \in s : TRUE}]
  <2>1. CASE s # {}
    <3>1. first[s] = (CHOOSE x \in s : TRUE) /\ first[s] \in S
        BY <2>1, <1>1
    <3>2. F[s] = D[first[s]][F[s \ {first[s]}]]
      <4> HIDE DEF first, D
      <4> QED BY <1>4, <2>1 DEF FoldsSets
    <3>3. F[s \ {first[s]}] \in Int
        BY <1>4
    <3> HIDE DEF first
    <3>4. F[s] = f[first[s]] + F[s \ {first[s]}]
        BY <3>1, <3>2, <3>3
    <3> QED BY <2>1, <3>1, <3>4
  <2>2. CASE s = {}
    <3> HIDE DEF first, D
    <3> QED BY <1>4, <2>2 DEF FoldsSets
  <2> QED BY <2>1, <2>2
<1>6. Sums(F, S, f)
    BY <1>4, <1>5 DEF Sums
<1> QED BY <1>6

Additive(F, S, f) ==
    /\ F \in [SUBSET S -> Int]
    /\ F[{}] = 0
    /\ \A s \in SUBSET S : \A x \in s : F[s] = f[x] + F[s \ {x}]

(* The choice of the element in Sums does not matter.                      *)
LEMMA SumsAre ==
    ASSUME NEW S, IsFiniteSet(S), NEW f \in [S -> Int], NEW F, Sums(F, S, f)
    PROVE  Additive(F, S, f)
<1> DEFINE c(s) == CHOOSE x \in s : TRUE
<1>1. /\ F[{}] = 0
      /\ \A s \in SUBSET S : s # {} => F[s] = f[c(s)] + F[s \ {c(s)}]
      /\ F = [s \in SUBSET S |-> F[s]]
    BY DEF Sums
<1>2. \A s \in SUBSET S : s # {} => c(s) \in s
    OBVIOUS
<1> HIDE DEF c
<1>3. F \in [SUBSET S -> Int]
  <2> DEFINE P == {s \in SUBSET S : F[s] \in Int}
  <2>1. ASSUME NEW s \in SUBSET S, \A x \in s : s \ {x} \in P PROVE s \in P
    <3>1. CASE s = {}
        BY <1>1, <3>1
    <3>2. CASE s # {}
      <4>1. c(s) \in s /\ c(s) \in S
          BY <1>2, <3>2
      <4>2. F[s \ {c(s)}] \in Int
          BY <2>1, <4>1
      <4>3. F[s] = f[c(s)] + F[s \ {c(s)}]
          BY <1>1, <3>2
      <4> QED BY <4>1, <4>2, <4>3
    <3> QED BY <3>1, <3>2
  <2>2. P \in SUBSET SUBSET S
      OBVIOUS
  <2>3. P = SUBSET S
    <3> HIDE DEF P
    <3> QED BY <2>1, <2>2, SubsetsDown
  <2>4. \A s \in SUBSET S : F[s] \in Int
      BY <2>3
  <2> QED BY <2>4, <1>1
<1>4. \A s \in SUBSET S : \A x \in s : F[s] = f[x] + F[s \ {x}]
  <2> DEFINE P == {s \in SUBSET S : \A x \in s : F[s] = f[x] + F[s \ {x}]}
  <2>1. ASSUME NEW s \in SUBSET S, \A x \in s : s \ {x} \in P PROVE s \in P
    <3> SUFFICES ASSUME NEW x \in s, x # c(s) PROVE F[s] = f[x] + F[s \ {x}]
        BY <1>1, <1>2
    <3> DEFINE y == c(s)
               r == (s \ {x}) \ {y}
    <3>1. y \in s /\ x \in s \ {y} /\ y \in s \ {x} /\ r = (s \ {y}) \ {x}
        BY <1>2
    <3>2. F[s] = f[y] + F[s \ {y}]
        BY <1>1
    <3>3. F[s \ {y}] = f[x] + F[r]
        BY <2>1, <3>1
    <3>4. F[s \ {x}] = f[y] + F[r]
        BY <2>1, <3>1
    <3>5. f[x] \in Int /\ f[y] \in Int /\ F[r] \in Int
        BY <1>3, <3>1
    <3> HIDE DEF r, y
    <3> QED BY <3>2, <3>3, <3>4, <3>5
  <2>2. P \in SUBSET SUBSET S
      OBVIOUS
  <2>3. P = SUBSET S
    <3> HIDE DEF P
    <3> QED BY <2>1, <2>2, SubsetsDown
  <2> QED BY <2>3
<1> QED BY <1>1, <1>3, <1>4 DEF Additive

(* Any element may be taken out.                                           *)
LEMMA SumTakes ==
    ASSUME NEW S, IsFiniteSet(S), NEW f \in [S -> Int], NEW F, Sums(F, S, f),
           NEW s \in SUBSET S, NEW x \in s
    PROVE  F[s] = f[x] + F[s \ {x}]
<1>1. Additive(F, S, f)
    BY SumsAre
<1> QED BY <1>1 DEF Additive

(* Sums of equal numbers are equal.                                        *)
LEMMA SumsAgree ==
    ASSUME NEW S, IsFiniteSet(S), NEW f \in [S -> Int], NEW F, Sums(F, S, f),
           NEW R \in SUBSET S, NEW g \in [R -> Int], NEW G, Sums(G, R, g),
           \A x \in R : g[x] = f[x]
    PROVE  G[R] = F[R]
<1>0. IsFiniteSet(R)
    BY FS_Subset
<1>1. /\ F[{}] = 0 /\ \A s \in SUBSET S : \A x \in s : F[s] = f[x] + F[s \ {x}]
  <2>1. Additive(F, S, f)
      BY SumsAre
  <2> QED BY <2>1 DEF Additive
<1>2. /\ G[{}] = 0 /\ \A s \in SUBSET R : \A x \in s : G[s] = g[x] + G[s \ {x}]
  <2>1. Additive(G, R, g)
      BY <1>0, SumsAre
  <2> QED BY <2>1 DEF Additive
<1> DEFINE P == {s \in SUBSET R : G[s] = F[s]}
<1>3. ASSUME NEW s \in SUBSET R, \A x \in s : s \ {x} \in P PROVE s \in P
  <2>1. CASE s = {}
      BY <2>1, <1>1, <1>2
  <2>2. CASE s # {}
    <3>1. PICK x \in s : TRUE
        BY <2>2
    <3>2. G[s] = g[x] + G[s \ {x}] /\ F[s] = f[x] + F[s \ {x}] /\ g[x] = f[x]
        BY <1>1, <1>2
    <3>3. G[s \ {x}] = F[s \ {x}]
        BY <1>3, <3>1
    <3> QED BY <3>2, <3>3
  <2> QED BY <2>1, <2>2
<1>4. P = SUBSET R
  <2>1. P \in SUBSET SUBSET R
      OBVIOUS
  <2> HIDE DEF P
  <2> QED BY <1>0, <1>3, <2>1, SubsetsDown
<1> QED BY <1>4

(* The sum over two sets apart, and over elements that add nothing.        *)
LEMMA SumsSplit ==
    ASSUME NEW S, IsFiniteSet(S), NEW f \in [S -> Int], NEW F, Sums(F, S, f),
           NEW A \in SUBSET S, NEW B \in SUBSET S, A \cap B = {}
    PROVE  /\ F[A \cup B] = F[A] + F[B]
           /\ (\A x \in B : f[x] = 0) => F[B] = 0
           /\ (\A x \in B : f[x] \in Nat) => F[B] \in Nat
<1>1. /\ F \in [SUBSET S -> Int] /\ F[{}] = 0
      /\ \A s \in SUBSET S : \A x \in s : F[s] = f[x] + F[s \ {x}]
  <2>1. Additive(F, S, f)
      BY SumsAre
  <2> QED BY <2>1 DEF Additive
<1> DEFINE P == {s \in SUBSET B : /\ F[A \cup s] = F[A] + F[s]
                                  /\ (\A x \in B : f[x] = 0) => F[s] = 0
                                  /\ (\A x \in B : f[x] \in Nat) => F[s] \in Nat}
<1>2. {} \in P
  <2>1. A \cup {} = A /\ F[A] \in Int
      BY <1>1
  <2> QED BY <2>1, <1>1
<1>3. ASSUME NEW s \in P, NEW x \in B \ s PROVE s \cup {x} \in P
  <2>1. (s \cup {x}) \ {x} = s /\ (A \cup (s \cup {x})) \ {x} = A \cup s
        /\ s \cup {x} \in SUBSET S /\ A \cup (s \cup {x}) \in SUBSET S
        /\ A \cup s \in SUBSET S
      OBVIOUS
  <2>2. F[s \cup {x}] = f[x] + F[s]
      BY <1>1, <2>1, SMTT(60)
  <2>3. F[A \cup (s \cup {x})] = f[x] + F[A \cup s]
      BY <1>1, <2>1
  <2>4. f[x] \in Int /\ F[s] \in Int /\ F[A] \in Int /\ F[A \cup s] = F[A] + F[s]
      BY <1>1
  <2>5. F[A \cup (s \cup {x})] = F[A] + F[s \cup {x}]
      BY <2>2, <2>3, <2>4
  <2>6. (\A z \in B : f[z] = 0) => F[s \cup {x}] = 0
      BY <2>2
  <2>7. (\A z \in B : f[z] \in Nat) => F[s \cup {x}] \in Nat
      BY <2>2
  <2>8. s \cup {x} \in SUBSET B
      OBVIOUS
  <2> QED BY <2>5, <2>6, <2>7, <2>8
<1>4. P = SUBSET B
  <2>1. P \in SUBSET SUBSET B /\ IsFiniteSet(B)
      BY FS_Subset
  <2> HIDE DEF P
  <2> QED BY <1>2, <1>3, <2>1, SubsetsByOne
<1>5. B \in P
    BY <1>4
<1> QED BY <1>5

(* A sum of natural numbers is one.                                        *)
LEMMA SumIsNat ==
    ASSUME NEW S, IsFiniteSet(S), NEW f \in [S -> Int], NEW F, Sums(F, S, f),
           \A x \in S : f[x] \in Nat
    PROVE  F[S] \in Nat
<1>1. Additive(F, S, f)
    BY SumsAre
<1>2. F[{}] = 0 /\ \A s \in SUBSET S : \A x \in s : F[s] = f[x] + F[s \ {x}]
    BY <1>1 DEF Additive
<1> DEFINE P == {s \in SUBSET S : F[s] \in Nat}
<1>3. ASSUME NEW s \in SUBSET S, \A x \in s : s \ {x} \in P PROVE s \in P
  <2>1. CASE s = {}
      BY <1>2, <2>1
  <2>2. CASE s # {}
    <3>1. PICK x \in s : TRUE
        BY <2>2
    <3>2. F[s \ {x}] \in Nat /\ f[x] \in Nat /\ F[s] = f[x] + F[s \ {x}]
        BY <1>2, <1>3, <3>1
    <3> QED BY <3>2
  <2> QED BY <2>1, <2>2
<1>4. P \in SUBSET SUBSET S
    OBVIOUS
<1>5. P = SUBSET S
  <2> HIDE DEF P
  <2> QED BY <1>3, <1>4, SubsetsDown
<1>6. S \in P
    BY <1>5
<1> QED BY <1>6
=============================================================================
