-------------------------- MODULE LogicTileProofs --------------------------
(***************************************************************************)
(* The answers of isBelLocationValid are current, for every set of cells   *)
(* and every rule book of an eight: the proof never opens EightFits.  It   *)
(* uses what an eight's examination reads (Reads, TopAddress), what a      *)
(* change marks (BelMarks, WriteClockMarks), and that chains of memory     *)
(* LUTs move as a whole (MemoryChained).                                   *)
(***************************************************************************)
EXTENDS LogicTile, TLAPS

Contents == [Bel -> Cells \cup {NoCell}]

(* The eights that read a bel are among those its changes mark.            *)
LEMMA ReadsMarked ==
    ASSUME NEW e \in Eight, NEW b \in Reads(e)
    PROVE  b \in Bel /\ e \in BelMarks(b)
<1>1. e \in {0, 1, 2, 3, 4, 5, 6, 7}
    BY DEF Eight
<1>2. CASE \E k \in LutKind \cup FfKind : b = <<e, k>>
    BY <1>1, <1>2 DEF Bel, Eight, BelMarks, LutKind, FfKind
<1>3. CASE e % 2 = 0 /\ b = <<e, "F7MUX">>
    BY <1>1, <1>3 DEF Bel, Eight, BelMarks, LutKind, FfKind
<1>4. CASE e % 4 = 1 /\ b = <<e - 1, "F8MUX">>
  <2>1. e \in {1, 5}
      BY <1>1, <1>4
  <2>2. b[2] = "F8MUX" /\ b[1] = e - 1 /\ b \in Bel
      BY <1>4, <2>1 DEF Bel, Eight
  <2>3. BelMarks(b) = {b[1] + 1, b[1] + 2} \cap Eight
      BY <2>2 DEF BelMarks, LutKind, FfKind
  <2>4. b[1] \in 0 .. 7 /\ b[1] + 1 = e
      BY <2>1, <2>2
  <2> QED
      BY <2>2, <2>3, <2>4
<1>5. CASE b = <<IF e < 4 THEN 0 ELSE 4, "CARRY4">>
    BY <1>1, <1>5 DEF Bel, Eight, BelMarks, LutKind, FfKind
<1> QED
    BY <1>2, <1>3, <1>4, <1>5 DEF Reads

(* A change that does not mark an eight leaves its legality as it was.     *)
LEMMA UnmarkedSame ==
    ASSUME NEW m \in Contents, NEW b \in Bel, NEW new \in Cells \cup {NoCell},
           NEW e \in Eight,
           e \notin BelMarks(b), e \notin WriteClockMarks(b, m[b], new)
    PROVE  EightLegal([m EXCEPT ![b] = new], e) <=> EightLegal(m, e)
<1> DEFINE n == [m EXCEPT ![b] = new]
<1>1. Near(n, e) = Near(m, e)
  <2>1. \A d \in Reads(e) : n[d] = m[d]
      BY ReadsMarked DEF Contents
  <2> QED
      BY <2>1 DEF Near
<1>2. TopAddress(n, e) = TopAddress(m, e)
  <2>1. <<3, "6LUT">> \in Bel /\ <<3, "5LUT">> \in Bel
      BY DEF Bel, Eight, LutKind
  <2>2. CASE b \notin Top
      BY <2>1, <2>2 DEF Top, TopAddress, Contents
  <2>3. CASE b \in Top
    <3>1. ~ IsMemory(m[b]) /\ ~ IsMemory(new)
        BY <2>3 DEF WriteClockMarks
    <3>2. CASE b = <<3, "6LUT">>
        BY <2>1, <3>1, <3>2 DEF TopAddress, Contents
    <3>3. CASE b = <<3, "5LUT">>
      <4>1. n[<<3, "6LUT">>] = m[<<3, "6LUT">>]
          BY <2>1, <3>3 DEF Contents
      <4>2. n[<<3, "5LUT">>] = new
          BY <2>1, <3>3 DEF Contents
      <4> QED
          BY <3>1, <3>3, <4>1, <4>2 DEF TopAddress
    <3> QED
        BY <2>3, <3>2, <3>3 DEF Top
  <2> QED
      BY <2>2, <2>3
<1> QED
    BY <1>1, <1>2 DEF EightLegal

(* A change of one bel marks the write clocks of all eighths or of none.   *)
LEMMA MarksAllOrNone ==
    ASSUME NEW b, NEW old, NEW new
    PROVE  /\ WriteClockMarks(b, old, new) \in {Eight, {}}
           /\ Eight # {}
    BY DEF WriteClockMarks, Eight

-----------------------------------------------------------------------------
(* Two whole contents that differ in no write clock agree on every cell    *)
(* that has one.                                                           *)
LEMMA QuietSame ==
    ASSUME MemoryChained,
           NEW m \in Contents, NEW n \in Contents,
           Placed(m), Placed(n), Whole(m), Whole(n), LoudDiff(m, n) = {},
           NEW b \in Bel, IsMemory(m[b]) \/ IsSrl(m[b])
    PROVE  n[b] = m[b]
<1> DEFINE c == m[b]
<1>1. c \in Cells /\ c # NoCell
    BY DEF IsMemory, IsSrl, Contents
<1>2. b \in BelsFor[c]
    BY <1>1 DEF Placed
<1>3. CASE IsSrl(c)
  <2>1. b[2] \in LutKind
      BY <1>1, <1>2, <1>3, LogicTileAssumption DEF IsSrl
  <2>2. WriteClockMarks(b, m[b], n[b]) = Eight
      BY <1>3, <2>1 DEF WriteClockMarks
  <2> QED
      BY <2>2 DEF LoudDiff, Diff
<1>4. CASE IsMemory(c)
  <2>1. PICK C \in Chains, r \in Cells : /\ c \in C /\ r \in C
                                        /\ IsMemory(r) /\ BelsFor[r] = {<<3, "6LUT">>}
      BY <1>1, <1>4 DEF MemoryChained
  <2> DEFINE top == <<3, "6LUT">>
  <2>2. top \in Bel /\ top \in Top
      BY DEF Bel, Eight, LutKind, Top
  <2>3. m[top] = r
    <3>1. PICK d \in Bel : m[d] = r
        BY <2>1 DEF Whole, PlacedIn
    <3> QED
        BY <2>1, <3>1 DEF Placed, IsMemory
  <2>4. n[top] = r
    <3>1. WriteClockMarks(top, m[top], n[top]) = Eight
        BY <2>1, <2>2, <2>3 DEF WriteClockMarks
    <3> QED
        BY <2>2, <2>3, <3>1 DEF LoudDiff, Diff
  <2>5. PICK d \in Bel : n[d] = c
      BY <2>1, <2>2, <2>4 DEF Whole, PlacedIn
  <2>6. d \in BelsFor[c]
      BY <1>1, <2>5 DEF Placed
  <2> QED
      BY <1>1, <1>2, <1>4, <2>5, <2>6 DEF MemoryChained
<1> QED
    BY <1>3, <1>4

(* If nothing that watches a write clock differs, no write clock of the    *)
(* one contents is missing in the other.                                   *)
LEMMA QuietClocks ==
    ASSUME MemoryChained,
           NEW m \in Contents, NEW n \in Contents,
           Placed(m), Placed(n), Whole(m), Whole(n), LoudDiff(m, n) = {}
    PROVE  ClocksOf(m, Eight) \subseteq ClocksOf(n, Eight)
<1> SUFFICES ASSUME NEW e \in Eight
             PROVE  WriteClocks(m, e) \subseteq WriteClocks(n, e)
    BY DEF ClocksOf
<1>1. <<e, "6LUT">> \in Bel /\ <<e, "5LUT">> \in Bel
    BY DEF Bel, LutKind
<1>2. \A b \in Bel : IsMemory(m[b]) \/ IsSrl(m[b]) => n[b] = m[b]
    BY QuietSame
<1> QED
    BY <1>1, <1>2 DEF WriteClocks

(* A clash of write clocks that the cells kept do not have is yet to be    *)
(* undone.                                                                 *)
LEMMA ClashIsLoud ==
    ASSUME MemoryChained,
           NEW m \in Contents, NEW n \in Contents,
           Placed(m), Placed(n), Whole(m), Whole(n),
           AtMostOne(ClocksOf(n, Eight)), ~ AtMostOne(ClocksOf(m, Eight))
    PROVE  LoudDiff(m, n) # {}
    BY QuietClocks DEF AtMostOne

(* In a whole tile, the clock half 0 finds among its LUTs is one of those  *)
(* the eights contribute, and there is one if there is any.                *)
LEMMA LastClockFound ==
    ASSUME MemoryChained, NEW m \in Contents, Placed(m), Whole(m)
    PROVE  /\ LastClock(m) \subseteq ClocksOf(m, Eight)
           /\ ClocksOf(m, Eight) # {} => LastClock(m) # {}
<1>1. ASSUME NEW b \in WriteBels(m)
      PROVE  Lut[m[b]].clk \in ClocksOf(m, Eight)
  <2> DEFINE c == m[b]
  <2>1. /\ b \in Bel /\ b[1] \in Eight /\ b[2] \in LutKind
        /\ b = <<b[1], b[2]>>
        /\ IsMemory(c) \/ IsSrl(c)
      BY <1>1 DEF WriteBels, Bel, Eight
  <2>2. c \in Cells /\ c # NoCell
      BY <2>1 DEF IsMemory, IsSrl, Contents
  <2>3. CASE IsSrl(c)
    <3>1. Lut[c].clk \in WriteClocks(m, b[1])
        BY <2>1, <2>3 DEF WriteClocks, LutKind
    <3> QED
        BY <2>1, <3>1 DEF ClocksOf
  <2>4. CASE IsMemory(c)
    <3>1. PICK C \in Chains, r \in Cells :
              /\ c \in C /\ r \in C /\ IsMemory(r)
              /\ BelsFor[r] = {<<3, "6LUT">>} /\ Lut[r].clk = Lut[c].clk
        BY <2>2, <2>4 DEF MemoryChained
    <3>2. PICK d \in Bel : m[d] = r
        BY <2>1, <3>1 DEF Whole, PlacedIn
    <3>3. m[<<3, "6LUT">>] = r
        BY <3>1, <3>2 DEF Placed, IsMemory
    <3>4. Lut[r].clk \in WriteClocks(m, 3)
        BY <3>1, <3>3 DEF WriteClocks
    <3> QED
        BY <3>1, <3>4 DEF ClocksOf, Eight
  <2> QED
      BY <2>1, <2>3, <2>4
<1>2. LastClock(m) \subseteq ClocksOf(m, Eight)
    BY <1>1 DEF LastClock
<1>3. ASSUME ClocksOf(m, Eight) # {}
      PROVE  WriteBels(m) # {}
  <2>1. PICK e \in Eight : WriteClocks(m, e) # {}
      BY <1>3 DEF ClocksOf
  <2>2. PICK k \in LutKind : IsMemory(m[<<e, k>>]) \/ IsSrl(m[<<e, k>>])
      BY <2>1 DEF WriteClocks, LutKind
  <2> DEFINE b == <<e, k>>
  <2>3. b \in Bel
      BY DEF Bel
  <2>4. m[b] \in Cells /\ m[b] # NoCell /\ Kind[m[b]] \in {"memory", "srl"}
      BY <2>2, <2>3 DEF IsMemory, IsSrl, Contents
  <2>5. b \in (0 .. 3) \X LutKind
      BY <2>3, <2>4, LogicTileAssumption DEF Placed
  <2> QED
      BY <2>2, <2>5 DEF WriteBels
<1>4. ASSUME WriteBels(m) # {}
      PROVE  LastClock(m) # {}
  <2> DEFINE W == WriteBels(m)
  <2>1. \A b \in W : b[1] \in {0, 1, 2, 3} /\ b[2] \in {"6LUT", "5LUT"} /\ b = <<b[1], b[2]>>
      BY DEF WriteBels, LutKind
  <2>2. PICK z \in W : \A d \in W : d[1] <= z[1]
    <3>1. CASE \E z \in W : z[1] = 3
        BY <2>1, <3>1
    <3>2. CASE (\A z \in W : z[1] # 3) /\ \E z \in W : z[1] = 2
        BY <2>1, <3>2
    <3>3. CASE (\A z \in W : z[1] \notin {2, 3}) /\ \E z \in W : z[1] = 1
        BY <2>1, <3>3
    <3>4. CASE \A z \in W : z[1] = 0
        BY <1>4, <2>1, <3>4
    <3> QED
        BY <2>1, <3>1, <3>2, <3>3, <3>4
  <2>3. PICK x \in W : x[1] = z[1] /\ (x[2] = "6LUT" \/ \A d \in W : d[1] = z[1] => d[2] # "6LUT")
    <3>1. CASE \E d \in W : d[1] = z[1] /\ d[2] = "6LUT"
        BY <3>1
    <3>2. CASE \A d \in W : d[1] = z[1] => d[2] # "6LUT"
        BY <2>2, <3>2
    <3> QED
        BY <3>1, <3>2
  <2>4. \A d \in W : \/ d[1] < x[1]
                     \/ d[1] = x[1] /\ (d = x \/ x[2] = "6LUT")
    <3> SUFFICES ASSUME NEW d \in W, ~ d[1] < x[1], x[2] # "6LUT"
                 PROVE  d[1] = x[1] /\ d = x
        BY <2>1, <2>2, <2>3
    <3>1. d[1] = x[1]
        BY <2>1, <2>2, <2>3
    <3>2. d[2] = x[2]
        BY <2>1, <2>3, <3>1
    <3> QED
        BY <2>1, <3>1, <3>2
  <2> QED
      BY <2>4 DEF LastClock
<1> QED
    BY <1>2, <1>3, <1>4

-----------------------------------------------------------------------------
(* isBelLocationValid.                                                     *)

(* Unless every eight is examined, the clocks of the tile agree.           *)
LEMMA ClocksAgree ==
    ASSUME MemoryChained, CacheInv, ~ undoing, Whole(cell), dirty # Eight
    PROVE  AtMostOne(ClocksOf(cell, Eight))
<1>1. LoudDiff(cell, kept) = {}
    BY DEF CacheInv, ClocksAreWatched
<1> QED
    BY <1>1, ClashIsLoud DEF CacheInv, TypeOK, ClocksAreWatched, Contents

(* If the clocks of the tile agree, an eight fails exactly if it is not    *)
(* legal.                                                                  *)
LEMMA FailsIsIllegal ==
    ASSUME CacheInv, ~ undoing, AtMostOne(ClocksOf(cell, Eight)), NEW e \in Eight
    PROVE  Fails(e) <=> ~ EightLegal(cell, e)
<1>1. CASE e \in dirty
  <2>1. ClocksOf(cell, {d \in dirty : d <= e}) \subseteq ClocksOf(cell, Eight)
      BY DEF ClocksOf, CacheInv, TypeOK
  <2>2. AtMostOne(ClocksOf(cell, {d \in dirty : d <= e}))
      BY <2>1 DEF AtMostOne
  <2> QED
      BY <1>1, <2>2 DEF Fails
<1>2. CASE e \notin dirty
    BY <1>2 DEF Fails, CacheInv, FlagsAreCurrent
<1> QED
    BY <1>1, <1>2

(* If they do not, the examination fails.                                  *)
LEMMA ClashFails ==
    ASSUME MemoryChained, CacheInv, ~ undoing, Whole(cell),
           ~ AtMostOne(ClocksOf(cell, Eight))
    PROVE  Fails(7)
<1>1. dirty = Eight
    BY ClocksAgree
<1>2. {d \in dirty : d <= 7} = Eight
    BY <1>1 DEF Eight
<1> QED
    BY <1>1, <1>2 DEF Fails, Eight

(* In a tile without a half-bound cell, the answer put together from the   *)
(* flags of the eighths is the rule of the whole tile.                     *)
LEMMA AnswerIsLegal ==
    ASSUME MemoryChained, CacheInv, ~ undoing, Whole(cell)
    PROVE  Answer <=> Legal(cell)
<1>1. CASE ~ AtMostOne(ClocksOf(cell, Eight))
  <2>1. 7 \in Eight
      BY DEF Eight
  <2> QED
      BY <1>1, <2>1, ClashFails DEF Answer, Legal
<1>2. CASE AtMostOne(ClocksOf(cell, Eight))
  <2>1. (\A e \in Eight : ~ Fails(e)) <=> \A e \in Eight : EightLegal(cell, e)
      BY <1>2, FailsIsIllegal
  <2> DEFINE all == ClocksOf(cell, Eight)
  <2>2. ClocksOf(cell, dirty) \subseteq all
      BY DEF ClocksOf, CacheInv, TypeOK
  <2>3. /\ LastClock(cell) \subseteq all
        /\ all # {} => LastClock(cell) # {}
      BY LastClockFound DEF CacheInv, TypeOK, Contents
  <2>4. FoundClocks = IF all # {} THEN all ELSE LastClock(cell)
    <3>1. CASE all = {}
        BY <2>2, <3>1 DEF FoundClocks
    <3>2. CASE all # {}
      <4>1. FoundClocks \subseteq all /\ FoundClocks # {}
          BY <2>2, <2>3, <3>2 DEF FoundClocks
      <4> QED
          BY <1>2, <3>2, <4>1 DEF AtMostOne
    <3> QED
        BY <3>1, <3>2
  <2> QED
      BY <1>2, <2>1, <2>4 DEF Answer, Legal
<1> QED
    BY <1>1, <1>2

-----------------------------------------------------------------------------
(* The steps.                                                              *)

LEMMA InitInv == Init => CacheInv
<1> SUFFICES ASSUME Init PROVE CacheInv
    OBVIOUS
<1>1. \A b \in Bel : cell[b] = NoCell /\ kept[b] = NoCell
    BY DEF Init, Empty
<1>2. TypeOK
    BY DEF Init, TypeOK, Empty
<1>3. Placed(cell) /\ Placed(kept) /\ LoudDiff(cell, kept) = {}
    BY <1>1 DEF Placed, LoudDiff, Diff
<1>4. FlagsAreCurrent
    BY DEF Init, FlagsAreCurrent
<1>5. Whole(kept)
    BY <1>1, LogicTileAssumption DEF Whole, PlacedIn
<1>6. AtMostOne(ClocksOf(kept, Eight))
  <2>1. ASSUME NEW e \in Eight PROVE WriteClocks(kept, e) = {}
    <3>1. <<e, "6LUT">> \in Bel /\ <<e, "5LUT">> \in Bel
        BY DEF Bel, LutKind
    <3> QED
        BY <1>1, <3>1 DEF WriteClocks, IsMemory, IsSrl
  <2> QED
      BY <2>1 DEF ClocksOf, AtMostOne
<1>7. ClocksAreWatched /\ BestIsWatched /\ AnswerIsCurrent
    BY <1>5, <1>6 DEF Init, ClocksAreWatched, BestIsWatched, AnswerIsCurrent
<1> QED
    BY <1>2, <1>3, <1>4, <1>7 DEF CacheInv

(* update_logic_bel keeps the types of the flags and the bels.             *)
LEMMA UpdatesTyped ==
    ASSUME TypeOK, NEW b \in Bel, NEW new \in Cells \cup {NoCell},
           UpdateLogicBel(b, new), undoing' = (undoing /\ cell' # kept),
           best' = best \/ best' = kept
    PROVE  TypeOK'
<1>1. b[1] \in 0 .. 7 /\ b[2] \in LutKind \cup FfKind \cup {"F7MUX", "F8MUX", "CARRY4"}
    BY DEF Bel, Eight
<1>2. BelMarks(b) \subseteq Eight
    BY <1>1 DEF BelMarks, Eight, LutKind, FfKind
<1> QED
    BY <1>2, MarksAllOrNone DEF TypeOK, UpdateLogicBel

(* A change at a bel, in a move or in its undoing.                         *)
LEMMA UpdateKeepsFlags ==
    ASSUME CacheInv, NEW b \in Bel, NEW new \in Cells \cup {NoCell},
           UpdateLogicBel(b, new),
           undoing => (cell[b] = NoCell \/ new = NoCell) /\ cell[b] # kept[b],
           undoing /\ new # NoCell => new = kept[b],
           undoing' = (undoing /\ cell' # kept)
    PROVE  FlagsAreCurrent' /\ ClocksAreWatched'
<1> DEFINE old == cell[b]
           marks == WriteClockMarks(b, old, new)
<1>1. /\ cell \in Contents /\ kept \in Contents
      /\ dirty \subseteq Eight /\ valid \subseteq Eight
      /\ cell' = [cell EXCEPT ![b] = new]
      /\ dirty' = dirty \cup BelMarks(b) \cup marks
      /\ valid' = valid /\ kept' = kept
    BY DEF CacheInv, TypeOK, UpdateLogicBel, Contents
<1>2. \A d \in Bel : cell'[d] = IF d = b THEN new ELSE cell[d]
    BY <1>1 DEF Contents
<1>3. \A e \in Eight \ dirty' : EightLegal(cell', e) <=> EightLegal(cell, e)
    BY <1>1, UnmarkedSame
<1>4. \A d \in Bel : d # b => (d \in LoudDiff(cell', kept) <=> d \in LoudDiff(cell, kept))
    BY <1>2 DEF LoudDiff, Diff
<1>5. marks = Eight => Eight \subseteq dirty'
    BY <1>1
<1>6. \A p, q, r : WriteClockMarks(b, p, q) = Eight =>
                   \/ WriteClockMarks(b, r, p) = Eight
                   \/ WriteClockMarks(b, r, q) = Eight
    BY MarksAllOrNone DEF WriteClockMarks
<1>7. \A p, q : WriteClockMarks(b, p, q) = WriteClockMarks(b, q, p)
    BY DEF WriteClockMarks
<1>8. FlagsAreCurrent'
  <2>1. \A e \in valid \ dirty' : EightLegal(cell', e)
      BY <1>1, <1>3 DEF CacheInv, FlagsAreCurrent
  <2>2. CASE \A e \in Eight \ (valid \cup dirty) : ~ EightLegal(cell, e)
      BY <1>1, <1>3, <2>1, <2>2 DEF FlagsAreCurrent
  <2>3. CASE undoing /\ LoudDiff(cell, kept) # {}
    <3>1. PICK d \in Bel : d \in LoudDiff(cell, kept)
        BY <2>3 DEF LoudDiff, Diff
    <3>2. CASE marks = Eight
        BY <1>1, <1>5, <2>1, <3>2 DEF FlagsAreCurrent
    <3>3. CASE marks # Eight
      <4>1. LoudDiff(cell', kept) # {}
        <5>1. CASE d # b
            BY <1>4, <3>1, <5>1
        <5>2. CASE d = b
          <6>1. WriteClockMarks(b, old, kept[b]) = Eight
              BY <3>1, <5>2 DEF LoudDiff
          <6>2. WriteClockMarks(b, new, kept[b]) = Eight
              BY <1>6, <1>7, <3>3, <6>1
          <6>3. new = NoCell
            <7>1. SUFFICES ASSUME new # NoCell PROVE FALSE
                OBVIOUS
            <7> QED
                BY <2>3, <3>3, <6>1, <7>1
          <6>4. old # NoCell \/ kept[b] # NoCell
              BY <2>3
          <6>5. kept[b] # new
            <7>1. SUFFICES ASSUME kept[b] = NoCell PROVE FALSE
                BY <6>3
            <7> QED
                BY <3>3, <6>1, <6>3, <7>1
          <6> QED
              BY <1>2, <5>2, <6>2, <6>5 DEF LoudDiff, Diff
        <5> QED
            BY <5>1, <5>2
      <4>2. cell' # kept
          BY <4>1 DEF LoudDiff, Diff
      <4> QED
          BY <1>1, <2>1, <2>3, <4>1, <4>2 DEF FlagsAreCurrent
    <3> QED
        BY <3>2, <3>3
  <2> QED
      BY <2>2, <2>3 DEF CacheInv, FlagsAreCurrent
<1>9. ClocksAreWatched'
  <2>1. Whole(kept)' /\ AtMostOne(ClocksOf(kept, Eight))'
      BY <1>1 DEF CacheInv, ClocksAreWatched
  <2>2. undoing' => cell' # kept'
      BY <1>1
  <2>3. ASSUME ~ undoing' PROVE dirty' = Eight \/ LoudDiff(cell', kept') = {}
    <3>1. CASE undoing
      <4>1. cell' = kept
          BY <2>3, <3>1
      <4> QED
          BY <1>1, <4>1 DEF LoudDiff, Diff
    <3>2. CASE ~ undoing /\ dirty # Eight /\ marks # Eight
      <4>1. LoudDiff(cell, kept) = {}
          BY <3>2 DEF CacheInv, ClocksAreWatched
      <4>2. b \notin LoudDiff(cell', kept)
        <5>1. SUFFICES ASSUME WriteClockMarks(b, new, kept[b]) = Eight PROVE FALSE
            BY <1>2 DEF LoudDiff
        <5>2. WriteClockMarks(b, old, kept[b]) = Eight
            BY <1>6, <3>2, <5>1
        <5>3. old = kept[b]
            BY <4>1, <5>2 DEF LoudDiff, Diff
        <5> QED
            BY <1>7, <3>2, <5>1, <5>3
      <4> QED
          BY <1>1, <1>4, <4>1, <4>2 DEF LoudDiff, Diff
    <3>3. CASE dirty = Eight \/ marks = Eight
      <4>1. BelMarks(b) \subseteq Eight /\ marks \subseteq Eight
        <5>1. b[1] \in 0 .. 7 /\ b[2] \in LutKind \cup FfKind \cup {"F7MUX", "F8MUX", "CARRY4"}
            BY DEF Bel, Eight
        <5> QED
            BY <5>1, MarksAllOrNone DEF BelMarks, Eight, LutKind, FfKind
      <4> QED
          BY <1>1, <3>3, <4>1
    <3> QED
        BY <3>1, <3>2, <3>3
  <2> QED
      BY <2>1, <2>2, <2>3 DEF ClocksAreWatched
<1> QED
    BY <1>8, <1>9

(* bestBel is what it was, or forgotten: the cells kept are watched too.   *)
LEMMA BestStays ==
    ASSUME BestIsWatched, ClocksAreWatched, best' = best \/ best' = kept
    PROVE  BestIsWatched'
<1>1. Whole(kept) /\ AtMostOne(ClocksOf(kept, Eight))
    BY DEF ClocksAreWatched
<1>2. CASE best' = best
    BY <1>2 DEF BestIsWatched
<1>3. CASE best' = kept
    BY <1>1, <1>3 DEF BestIsWatched
<1> QED BY <1>2, <1>3

(* Binding a cell keeps the cache in step with the contents.               *)
LEMMA BindStep ==
    ASSUME CacheInv, NEW b \in Bel, NEW c \in Cells, Bind(b, c)
    PROVE  CacheInv'
<1>1. c # NoCell /\ cell[b] = NoCell /\ b \in BelsFor[c] /\ ~ PlacedIn(cell, c)
    BY LogicTileAssumption DEF Bind
<1>2. /\ UpdateLogicBel(b, c)
      /\ undoing => c = kept[b]
      /\ undoing' = (undoing /\ cell' # kept)
      /\ best' = best \/ best' = kept
    BY DEF Bind
<1>3. FlagsAreCurrent' /\ ClocksAreWatched'
    BY <1>1, <1>2, UpdateKeepsFlags
<1>4. TypeOK'
    BY <1>2, UpdatesTyped DEF CacheInv
<1>5. Placed(cell)' /\ Placed(kept)'
    BY <1>1, <1>2 DEF UpdateLogicBel, CacheInv, TypeOK, Placed, PlacedIn
<1> QED
    BY <1>2, <1>3, <1>4, <1>5, BestStays DEF CacheInv, AnswerIsCurrent, UpdateLogicBel

(* Unbinding a cell keeps the cache in step with the contents.             *)
LEMMA UnbindStep ==
    ASSUME CacheInv, NEW b \in Bel, Unbind(b)
    PROVE  CacheInv'
<1>1. /\ UpdateLogicBel(b, NoCell)
      /\ undoing => cell[b] # kept[b]
      /\ undoing' = (undoing /\ cell' # kept)
      /\ best' = best \/ best' = kept
    BY DEF Unbind
<1>2. FlagsAreCurrent' /\ ClocksAreWatched'
    BY <1>1, UpdateKeepsFlags
<1>3. TypeOK'
    BY <1>1, UpdatesTyped DEF CacheInv
<1>4. Placed(cell)' /\ Placed(kept)'
    BY <1>1 DEF UpdateLogicBel, CacheInv, TypeOK, Placed
<1> QED
    BY <1>1, <1>2, <1>3, <1>4, BestStays DEF CacheInv, AnswerIsCurrent, UpdateLogicBel

(* A check of the tile makes the flags it reached current.                 *)
LEMMA CheckStep ==
    ASSUME MemoryChained, CacheInv, Check
    PROVE  CacheInv'
<1>1. /\ ~ undoing /\ Whole(cell)
      /\ dirty' = dirty \ Reached
      /\ valid' = (valid \ Reached) \cup {e \in Reached : ~ Fails(e)}
      /\ answer' = IF Answer THEN "yes" ELSE "no"
      /\ \/ Answer /\ kept' = cell /\ undoing' = FALSE
         \/ kept' = kept /\ undoing' = (cell # kept)
      /\ best' = best \/ (Answer /\ best' = cell)
      /\ cell' = cell
    BY DEF Check
<1>2. Answer <=> Legal(cell)
    BY <1>1, AnswerIsLegal
<1>3. Reached \subseteq Eight
    BY DEF Reached
<1>4. TypeOK'
    BY <1>1, <1>3 DEF CacheInv, TypeOK
<1>5. Placed(cell)' /\ Placed(kept)'
    BY <1>1 DEF CacheInv
<1>6. AnswerIsCurrent'
  <2>1. Legal(cell)' <=> Legal(cell)
      BY <1>1
  <2> QED
      BY <1>1, <1>2, <2>1 DEF AnswerIsCurrent
<1>7. FlagsAreCurrent'
  <2>1. ASSUME NEW e \in valid' \ dirty' PROVE EightLegal(cell, e)
    <3>1. CASE e \in dirty
      <4>1. e \in Reached /\ ~ Fails(e)
          BY <1>1, <2>1, <3>1
      <4> QED
          BY <3>1, <4>1 DEF Fails
    <3>2. CASE e \notin dirty
      <4>1. e \in valid
          BY <1>1, <1>3, <2>1, <3>2 DEF Fails
      <4> QED
          BY <3>2, <4>1 DEF CacheInv, FlagsAreCurrent
    <3> QED
        BY <3>1, <3>2
  <2>2. CASE AtMostOne(ClocksOf(cell, Eight))
    <3>1. ASSUME NEW e \in Eight \ (valid' \cup dirty') PROVE ~ EightLegal(cell, e)
      <4>1. CASE e \in Reached
          BY <1>1, <2>2, <3>1, <4>1, FailsIsIllegal
      <4>2. CASE e \notin Reached
          BY <1>1, <3>1, <4>2 DEF CacheInv, FlagsAreCurrent
      <4> QED
          BY <4>1, <4>2
    <3> QED
        BY <1>1, <2>1, <3>1 DEF FlagsAreCurrent
  <2>3. CASE ~ AtMostOne(ClocksOf(cell, Eight))
    <3>1. ~ Answer
        BY <1>2, <2>3 DEF Legal
    <3>2. LoudDiff(cell, kept) # {}
        BY <1>1, <2>3, ClashIsLoud DEF CacheInv, TypeOK, ClocksAreWatched, Contents
    <3>3. cell # kept
        BY <3>2 DEF LoudDiff, Diff
    <3> QED
        BY <1>1, <2>1, <3>1, <3>2, <3>3 DEF FlagsAreCurrent
  <2> QED
      BY <2>2, <2>3
<1>8. ClocksAreWatched'
  <2>1. LoudDiff(cell, cell) = {}
      BY DEF LoudDiff, Diff
  <2>2. CASE Answer /\ kept' = cell /\ undoing' = FALSE
    <3>1. AtMostOne(ClocksOf(cell, Eight))
        BY <1>2, <2>2 DEF Legal
    <3> QED
        BY <1>1, <2>1, <2>2, <3>1 DEF ClocksAreWatched
  <2>3. CASE kept' = kept /\ undoing' = (cell # kept)
    <3>1. kept' = kept /\ cell' = cell /\ (~ undoing' => cell = kept)
        BY <1>1, <2>3
    <3> QED
        BY <1>1, <2>1, <2>3, <3>1 DEF CacheInv, ClocksAreWatched
  <2> QED
      BY <1>1, <2>2, <2>3
<1>9. BestIsWatched'
  <2>1. Answer => AtMostOne(ClocksOf(cell, Eight))
      BY <1>2 DEF Legal
  <2> QED
      BY <1>1, <2>1 DEF CacheInv, BestIsWatched
<1> QED
    BY <1>4, <1>5, <1>6, <1>7, <1>8, <1>9 DEF CacheInv

(* Taking cells out for good leaves every flag as it was.                  *)
LEMMA RemoveStep ==
    ASSUME CacheInv, Remove
    PROVE  CacheInv'
<1>1. /\ ~ undoing /\ Whole(cell)
      /\ \A b \in Bel : cell[b] \in {kept[b], NoCell}
      /\ kept' = cell /\ best' = cell
      /\ UNCHANGED <<cell, dirty, valid, answer, undoing>>
    BY DEF Remove, flags
<1>2. LoudDiff(cell, cell) = {}
    BY DEF LoudDiff, Diff
<1>3. ClocksOf(cell, Eight) \subseteq ClocksOf(kept, Eight)
  <2>1. ASSUME NEW e \in Eight PROVE WriteClocks(cell, e) \subseteq WriteClocks(kept, e)
    <3>1. <<e, "6LUT">> \in Bel /\ <<e, "5LUT">> \in Bel
        BY DEF Bel, LutKind
    <3> QED
        BY <1>1, <3>1 DEF WriteClocks, IsMemory, IsSrl
  <2> QED
      BY <2>1 DEF ClocksOf
<1>4. AtMostOne(ClocksOf(cell, Eight))
    BY <1>3 DEF CacheInv, ClocksAreWatched, AtMostOne
<1>5. FlagsAreCurrent' /\ ClocksAreWatched' /\ BestIsWatched'
    BY <1>1, <1>2, <1>4 DEF CacheInv, FlagsAreCurrent, ClocksAreWatched, BestIsWatched
<1> QED
    BY <1>1, <1>5 DEF CacheInv, TypeOK, AnswerIsCurrent

(* Coming back to the best cells found leaves every flag as it was.        *)
LEMMA KeepBestStep ==
    ASSUME CacheInv, KeepBest
    PROVE  CacheInv'
<1>1. /\ ~ undoing /\ cell = best /\ kept' = cell
      /\ UNCHANGED <<cell, dirty, valid, answer, best, undoing>>
    BY DEF KeepBest, flags
<1>2. LoudDiff(cell, cell) = {}
    BY DEF LoudDiff, Diff
<1>3. Whole(cell) /\ AtMostOne(ClocksOf(cell, Eight))
    BY <1>1 DEF CacheInv, BestIsWatched
<1>4. FlagsAreCurrent' /\ ClocksAreWatched' /\ BestIsWatched'
    BY <1>1, <1>2, <1>3 DEF CacheInv, FlagsAreCurrent, ClocksAreWatched, BestIsWatched
<1> QED
    BY <1>1, <1>4 DEF CacheInv, TypeOK, AnswerIsCurrent

(* CacheInv is inductive.                                                  *)
THEOREM CacheInvInductive ==
    ASSUME MemoryChained, CacheInv, [Next]_vars
    PROVE  CacheInv'
<1>1. ASSUME NEW b \in Bel, Unbind(b) PROVE CacheInv'
    BY <1>1, UnbindStep
<1>2. ASSUME NEW b \in Bel, NEW c \in Cells, Bind(b, c) PROVE CacheInv'
    BY <1>2, BindStep
<1>3. CASE Check
    BY <1>3, CheckStep
<1>4. CASE Remove
    BY <1>4, RemoveStep
<1>5. CASE KeepBest
    BY <1>5, KeepBestStep
<1>6. CASE UNCHANGED vars
  <2>1. UNCHANGED <<cell, dirty, valid, answer, kept, best, undoing>>
      BY <1>6 DEF vars, flags
  <2> QED
      BY <2>1 DEF CacheInv, TypeOK, FlagsAreCurrent, ClocksAreWatched, BestIsWatched,
                  AnswerIsCurrent
<1> QED
    BY <1>1, <1>2, <1>3, <1>4, <1>5, <1>6 DEF Next

(* Whatever cells are bound, unbound, refused and undone in a tile of any  *)
(* cells, the flags of updateLogicBel and isBelLocationValid say of an     *)
(* eight what its cells make it.                                           *)
THEOREM CacheInvariant == MemoryChained => (Spec => []CacheInv)
<1> SUFFICES ASSUME MemoryChained PROVE Spec => []CacheInv
    OBVIOUS
<1>1. Init => CacheInv
    BY InitInv
<1>2. CacheInv /\ [Next]_vars => CacheInv'
    BY CacheInvInductive
<1> QED
    BY <1>1, <1>2, PTL DEF Spec

(* Every answer of isBelLocationValid is that of a complete examination.   *)
THEOREM AnswersAreCurrent == MemoryChained => (Spec => []AnswerIsCurrent)
<1> SUFFICES ASSUME MemoryChained PROVE Spec => []AnswerIsCurrent
    OBVIOUS
<1>1. CacheInv => AnswerIsCurrent
    BY DEF CacheInv
<1> QED
    BY <1>1, CacheInvariant, PTL

=============================================================================
