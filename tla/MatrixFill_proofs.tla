-------------------------- MODULE MatrixFill_proofs --------------------------
(***************************************************************************)
(* For a matrix of any size: the block index_alpha chooses is the one the  *)
(* documented window prescribes, lanes that are filled together never read *)
(* what one of them writes, the block carried in registers is the previous *)
(* one, and the matrix is the one the sequential nest computes, whatever   *)
(* the interleaving of the lanes and the leftovers in the arena.           *)
(***************************************************************************)
EXTENDS MatrixFill, FiniteSetTheorems, FunctionTheorems, Numbers, TLAPS

\* Lower and upper bound of the remainder, and its value below twice the modulus.
LEMMA Remainder ==
  ASSUME NEW n \in Nat, NEW m \in Nat \ {0}
  PROVE  /\ n % m \in 0 .. m - 1
         /\ n < m => n % m = n
         /\ m <= n /\ n < 2 * m => n % m = n - m
  BY SMT

LEMMA Quotient ==
  ASSUME NEW n \in Nat, NEW m \in Nat \ {0}
  PROVE  n \div m \in Nat /\ (n \div m) * m <= n
  BY SMT

\* The size of a lane is linear in that of a segment.
LEMMA Sizes ==
  /\ Word \in Nat \ {0}
  /\ SegmentLength \in Nat /\ SegmentLength >= 2
  /\ LaneLength = 4 * SegmentLength
  /\ LaneLength \in Nat \ {0} /\ LaneLength < Word
  BY IndexAlphaAssumption, SMT DEF LaneLength, SyncPoints

-----------------------------------------------------------------------------
(* The arithmetic of index_alpha *)

\* The high half of a product with a factor below Word is below the other factor.
LEMMA MulHighBelow ==
  ASSUME NEW x \in Nat, x > 0, NEW y \in Nat, y < Word
  PROVE  MulHigh(x, y) \in 0 .. x - 1
<1> DEFINE q == (x * y) \div Word
<1>1. x * y \in Nat /\ x * y < x * Word
  <2>1. x * y \in Nat /\ x * Word \in Nat
    BY Sizes, SMT
  <2>2. x * (y + 1) <= x * Word
    BY Sizes, SMT
  <2>3. x * (y + 1) = x * y + x
    BY SMT
  <2> QED BY <2>1, <2>2, <2>3, SMT
<1>2. q \in Nat /\ q * Word <= x * y
  BY <1>1, Sizes, Quotient
<1>3. q < x
  <2> HIDE DEF q
  <2>1. SUFFICES ASSUME q >= x PROVE FALSE
    BY <1>2, SMT
  <2>2. x * Word <= q * Word
    BY <1>2, <2>1, Sizes, SMT
  <2>3. q * Word \in Nat /\ x * Word \in Nat
    BY <1>2, Sizes, SMT
  <2> QED BY <1>1, <1>2, <2>2, <2>3, SMT
<1> QED BY <1>2, <1>3 DEF MulHigh

\* The subtraction of relative_position does not underflow, as the code's comment says.
LEMMA RelativeInArea ==
  ASSUME NEW size \in Nat, 0 < size, size < Word, NEW j1 \in Block
  PROVE  RelativePosition(size, j1) \in 0 .. size - 1
<1>1. MulHigh(j1, j1) \in Nat /\ MulHigh(j1, j1) < Word
  <2>1. CASE j1 = 0
    <3>1. MulHigh(0, 0) = 0
      BY Sizes, SMT DEF MulHigh
    <3> QED BY <2>1, <3>1, Sizes
  <2>2. CASE j1 # 0
    <3>1. MulHigh(j1, j1) \in 0 .. j1 - 1
      BY <2>2, Sizes, MulHighBelow DEF Block
    <3> QED BY <3>1, Sizes, SMT DEF Block
  <2> QED BY <2>1, <2>2
<1>2. MulHigh(size, MulHigh(j1, j1)) \in 0 .. size - 1
  BY <1>1, MulHighBelow
<1>3. Wrap(size - 1) = size - 1
  <2> DEFINE n == size - 1
  <2>1. n \in Nat /\ n < Word
    BY Sizes, SMT
  <2> HIDE DEF n
  <2>2. n % Word = n
    BY <2>1, Sizes, Remainder
  <2> QED BY <2>2 DEF Wrap, n
<1> QED BY <1>2, <1>3, SMT DEF RelativePosition

-----------------------------------------------------------------------------
(* The window *)

\* Positions of fill_segment, with the lanes they may refer to: the own one only,
\* while nothing else is finished.
Asked(pos, sameLane) ==
  /\ pos \in Position /\ Visited(pos)
  /\ sameLane \in BOOLEAN
  /\ pos.pass = 0 /\ pos.slice = 0 => sameLane

\* The size of the area without the wrapping.
Area(pos, sameLane) ==
  (IF pos.pass = 0 THEN pos.slice * SegmentLength ELSE 3 * SegmentLength)
    + (IF sameLane THEN pos.index - 1 ELSE 0 - IfZero(pos.index))

\* A position in linear terms.
LEMMA PositionIs ==
  ASSUME NEW pos \in Position
  PROVE  /\ pos.pass \in Nat
         /\ pos.slice \in {0, 1, 2, 3}
         /\ pos.index \in Nat /\ pos.index < SegmentLength
         /\ pos.slice = 0 => pos.slice * SegmentLength = 0
         /\ pos.slice = 1 => pos.slice * SegmentLength = SegmentLength
         /\ pos.slice = 2 => pos.slice * SegmentLength = 2 * SegmentLength
         /\ pos.slice = 3 => pos.slice * SegmentLength = 3 * SegmentLength
         /\ (pos.slice + 1) * SegmentLength = pos.slice * SegmentLength + SegmentLength
         /\ pos.slice * SegmentLength \in Nat
<1>1. pos.pass \in Nat /\ pos.slice \in 0 .. 3 /\ pos.index \in 0 .. SegmentLength - 1
  BY DEF Position, SyncPoints
<1>2. SegmentLength \in Nat
  BY Sizes
<1> QED BY <1>1, <1>2, SMT

\* The area is not empty, and no subtraction wraps around.
LEMMA AreaIs ==
  ASSUME NEW pos, NEW sameLane, Asked(pos, sameLane)
  PROVE  /\ Area(pos, sameLane) \in 1 .. LaneLength - 2
         /\ ReferenceAreaSize(pos, sameLane) = Area(pos, sameLane)
<1>1. pos \in Position
  BY DEF Asked
<1> DEFINE here == pos.slice * SegmentLength
<1>2. /\ pos.pass \in Nat /\ pos.index \in Nat /\ pos.index < SegmentLength
      /\ here \in Nat /\ here <= 3 * SegmentLength
      /\ pos.slice # 0 => here >= SegmentLength
      /\ pos.slice = 0 => here = 0
  BY <1>1, PositionIs, Sizes, SMT
<1>3. /\ IfZero(pos.index) \in {0, 1}
      /\ pos.pass = 0 /\ pos.slice = 0 => sameLane /\ pos.index >= 2
      /\ sameLane \in BOOLEAN
  BY DEF IfZero, Asked, Visited
<1>4. Area(pos, sameLane) \in 1 .. LaneLength - 2
  <2> HIDE DEF here
  <2>1. Area(pos, sameLane) =
          (IF pos.pass = 0 THEN here ELSE 3 * SegmentLength)
            + (IF sameLane THEN pos.index - 1 ELSE 0 - IfZero(pos.index))
    BY DEF Area, here
  <2>2. CASE sameLane
    BY <1>2, <1>3, <2>1, <2>2, Sizes, SMT
  <2>3. CASE ~sameLane
    BY <1>2, <1>3, <2>1, <2>3, Sizes, SMT
  <2> QED BY <2>2, <2>3
<1>5. \A n \in 1 .. LaneLength - 2 : Wrap(n) = n
  BY Sizes, Remainder, SMT DEF Wrap
<1>6. ReferenceAreaSize(pos, sameLane) = Wrap(Area(pos, sameLane))
  <2> HIDE DEF here
  <2>1. ReferenceAreaSize(pos, sameLane) =
          IF pos.pass = 0
          THEN IF pos.slice = 0 THEN Wrap(pos.index - 1)
               ELSE IF sameLane THEN Wrap(here + pos.index - 1)
               ELSE Wrap(here - IfZero(pos.index))
          ELSE IF sameLane THEN Wrap(LaneLength - SegmentLength + pos.index - 1)
               ELSE Wrap(LaneLength - SegmentLength - IfZero(pos.index))
    BY DEF ReferenceAreaSize, here
  <2>2. Area(pos, sameLane) =
          (IF pos.pass = 0 THEN here ELSE 3 * SegmentLength)
            + (IF sameLane THEN pos.index - 1 ELSE 0 - IfZero(pos.index))
    BY DEF Area, here
  <2>3. CASE sameLane
    BY <1>2, <1>3, <2>1, <2>2, <2>3, Sizes, SMT
  <2>4. CASE ~sameLane
    BY <1>2, <1>3, <2>1, <2>2, <2>4, Sizes, SMT
  <2> QED BY <2>3, <2>4
<1> QED BY <1>4, <1>5, <1>6

\* PrevIndex and CurrIndex.
LEMMA OffsetsAre ==
  ASSUME NEW pos \in Position
  PROVE  /\ CurrIndex(pos) \in Index
         /\ PrevIndex(pos) \in Index
         /\ CurrIndex(pos) = 0 => PrevIndex(pos) = LaneLength - 1
         /\ CurrIndex(pos) # 0 => PrevIndex(pos) = CurrIndex(pos) - 1
<1> DEFINE c == CurrIndex(pos)
<1>1. c \in Nat /\ c < LaneLength
  BY PositionIs, Sizes, SMT DEF CurrIndex
<1> HIDE DEF c
<1>2. c + LaneLength - 1 \in Nat /\ c + LaneLength - 1 < 2 * LaneLength
  BY <1>1, Sizes, SMT
<1>3. /\ c = 0 => (c + LaneLength - 1) % LaneLength = LaneLength - 1
      /\ c # 0 => (c + LaneLength - 1) % LaneLength = c - 1
  <2> DEFINE n == c + LaneLength - 1
  <2>1. n \in Nat /\ n < 2 * LaneLength
    BY <1>2
  <2>2. (n < LaneLength => n % LaneLength = n)
          /\ (LaneLength <= n => n % LaneLength = n - LaneLength)
    <3> HIDE DEF n
    <3> QED BY <2>1, Sizes, Remainder
  <2> QED BY <1>1, <2>2, Sizes, SMT
<1> QED BY <1>1, <1>3, Sizes, SMT DEF PrevIndex, Index, c

\* The window in linear terms.
LEMMA WindowIs ==
  ASSUME NEW pos \in Position, NEW sameLane \in BOOLEAN, NEW i \in Index
  PROVE  i \in ReferenceWindow(pos, sameLane) <=>
           LET here == pos.slice * SegmentLength
              inSlice == here <= i /\ i < here + SegmentLength
          IN  /\ i # PrevIndex(pos)
              /\ \/ sameLane /\ inSlice /\ i < here + pos.index
                 \/ ~inSlice /\ (pos.pass = 0 => i < here)
<1>1. (pos.slice + 1) * SegmentLength = pos.slice * SegmentLength + SegmentLength
  BY PositionIs
<1> QED BY <1>1 DEF ReferenceWindow, Finished, InSlice, CurrIndex

\* One step around the lane.
Rotates(i, n) ==
  \/ n < LaneLength /\ i = n
  \/ LaneLength <= n /\ i = n - LaneLength

\* Where the area begins, and the block in terms of it.
LEMMA ReferenceIs ==
  ASSUME NEW pos, NEW sameLane, Asked(pos, sameLane), NEW j1 \in Block
  PROVE  LET here == pos.slice * SegmentLength
             rel  == RelativePosition(ReferenceAreaSize(pos, sameLane), j1)
             ref  == index_alpha(pos, j1, sameLane)
         IN  /\ rel \in 0 .. Area(pos, sameLane) - 1
             /\ pos.pass = 0 \/ pos.slice = 3 => ref = rel
             /\ pos.pass # 0 /\ pos.slice # 3 =>
                  Rotates(ref, here + SegmentLength + rel)
<1> DEFINE here == pos.slice * SegmentLength
           rel  == RelativePosition(ReferenceAreaSize(pos, sameLane), j1)
<1>1. pos \in Position /\ Area(pos, sameLane) \in 1 .. LaneLength - 2
  BY AreaIs DEF Asked
<1>2. rel \in 0 .. Area(pos, sameLane) - 1
  <2> DEFINE size == Area(pos, sameLane)
  <2>1. size \in Nat /\ 0 < size /\ size < Word
    BY <1>1, Sizes, SMT
  <2>2. ReferenceAreaSize(pos, sameLane) = size
    BY AreaIs
  <2> HIDE DEF size
  <2> QED BY <2>1, <2>2, RelativeInArea DEF size
<1>3. rel \in Nat /\ rel < LaneLength
  BY <1>1, <1>2, Sizes, SMT
<1> HIDE DEF rel
<1>4. ASSUME pos.pass = 0 \/ pos.slice = 3
      PROVE  index_alpha(pos, j1, sameLane) = rel
  <2>1. StartPosition(pos) = 0
    BY <1>4 DEF StartPosition, SyncPoints
  <2>2. (0 + rel) % LaneLength = rel
    <3>1. 0 + rel = rel
      BY <1>3, SMT
    <3> QED BY <3>1, <1>3, Sizes, Remainder
  <2> QED BY <2>1, <2>2 DEF index_alpha, rel
<1>5. ASSUME pos.pass # 0, pos.slice # 3
      PROVE  Rotates(index_alpha(pos, j1, sameLane), here + SegmentLength + rel)
  <2>1. here + SegmentLength \in Nat /\ here + SegmentLength < LaneLength
    BY <1>1, <1>5, PositionIs, Sizes, SMT
  <2>2. StartPosition(pos) = Wrap(here + SegmentLength)
    BY <1>1, <1>5, PositionIs DEF StartPosition, SyncPoints
  <2>3. Wrap(here + SegmentLength) = here + SegmentLength
    <3> DEFINE n == here + SegmentLength
    <3>1. n \in Nat /\ n < Word
      BY <2>1, Sizes, SMT
    <3> HIDE DEF n
    <3>2. n % Word = n
      BY <3>1, Sizes, Remainder
    <3> QED BY <3>2 DEF Wrap, n
  <2> DEFINE n == here + SegmentLength + rel
  <2>4. n \in Nat /\ n < 2 * LaneLength
    BY <1>3, <2>1, Sizes, SMT
  <2>5. Rotates(n % LaneLength, n)
    <3> HIDE DEF n
    <3>1. n < LaneLength => n % LaneLength = n
      BY <2>4, Sizes, Remainder
    <3>2. LaneLength <= n => n % LaneLength = n - LaneLength
      BY <2>4, Sizes, Remainder
    <3> QED BY <2>4, <3>1, <3>2, Sizes, SMT DEF Rotates
  <2>6. index_alpha(pos, j1, sameLane) = n % LaneLength
    BY <2>2, <2>3 DEF index_alpha, rel
  <2> QED BY <2>5, <2>6
<1> DEFINE ref == index_alpha(pos, j1, sameLane)
<1>6. /\ pos.pass = 0 \/ pos.slice = 3 => ref = rel
      /\ pos.pass # 0 /\ pos.slice # 3 =>
           Rotates(ref, here + SegmentLength + rel)
  <2>1. pos.pass = 0 \/ pos.slice = 3 => ref = rel
    BY <1>4
  <2>2. pos.pass # 0 /\ pos.slice # 3 =>
           Rotates(ref, here + SegmentLength + rel)
    BY <1>5, Zenon
  <2> QED BY <2>1, <2>2, Zenon
<1> QED BY <1>2, <1>6 DEF rel

\* The block index_alpha chooses is complete, will not be written in this slice, and is
\* not the block before the current one: for every segment length, every position that
\* fill_segment visits and every number.
THEOREM ReferenceInWindow ==
  ASSUME NEW pos, NEW sameLane, Asked(pos, sameLane), NEW j1 \in Block
  PROVE  index_alpha(pos, j1, sameLane) \in ReferenceWindow(pos, sameLane)
<1> DEFINE here == pos.slice * SegmentLength
           rel  == RelativePosition(ReferenceAreaSize(pos, sameLane), j1)
           ref  == index_alpha(pos, j1, sameLane)
           prev == PrevIndex(pos)
           curr == CurrIndex(pos)
<1>1. pos \in Position /\ sameLane \in BOOLEAN
  BY DEF Asked
<1>2. /\ pos.pass \in Nat /\ pos.slice \in {0, 1, 2, 3}
      /\ pos.index \in Nat /\ pos.index < SegmentLength
      /\ here \in Nat
      /\ pos.slice = 0 => here = 0
      /\ pos.slice = 1 => here = SegmentLength
      /\ pos.slice = 2 => here = 2 * SegmentLength
      /\ pos.slice = 3 => here = 3 * SegmentLength
  BY <1>1, PositionIs
<1>3. /\ rel \in 0 .. Area(pos, sameLane) - 1
      /\ pos.pass = 0 \/ pos.slice = 3 => ref = rel
      /\ pos.pass # 0 /\ pos.slice # 3 =>
           Rotates(ref, here + SegmentLength + rel)
  BY ReferenceIs
<1>4. Area(pos, sameLane) =
        (IF pos.pass = 0 THEN here ELSE 3 * SegmentLength)
          + (IF sameLane THEN pos.index - 1 ELSE 0 - (IF pos.index = 0 THEN 1 ELSE 0))
  BY DEF Area, IfZero
<1>5. /\ pos.pass = 0 /\ pos.slice = 0 => sameLane /\ pos.index >= 2
      /\ curr = here + pos.index
      /\ curr = 0 => prev = LaneLength - 1
      /\ curr # 0 => prev = curr - 1
  <2>1. pos.pass = 0 /\ pos.slice = 0 => sameLane /\ pos.index >= 2
    BY DEF Asked, Visited
  <2>2. /\ CurrIndex(pos) = 0 => prev = LaneLength - 1
        /\ CurrIndex(pos) # 0 => prev = CurrIndex(pos) - 1
    BY <1>1, OffsetsAre
  <2>3. CurrIndex(pos) = here + pos.index
    BY DEF CurrIndex
  <2> QED BY <2>1, <2>2, <2>3, Zenon
<1> DEFINE inSlice == here <= ref /\ ref < here + SegmentLength
<1>6. /\ ref \in 0 .. LaneLength - 1
      /\ ref # prev
      /\ \/ sameLane /\ inSlice /\ ref < here + pos.index
         \/ ~inSlice /\ (pos.pass = 0 => ref < here)
  <2> HIDE DEF here, rel, ref, prev, curr
  <2>1. CASE pos.pass = 0
    BY <1>1, <1>2, <1>3, <1>4, <1>5, <2>1, Sizes, SMT DEF Rotates
  <2>2. CASE pos.pass # 0 /\ pos.slice = 0
    <3>1. /\ Rotates(ref, SegmentLength + rel)
          /\ rel \in Nat
          /\ sameLane => rel <= 3 * SegmentLength + pos.index - 2
          /\ ~sameLane => rel <= 3 * SegmentLength - 1
          /\ ~sameLane /\ pos.index = 0 => rel <= 3 * SegmentLength - 2
      BY <1>1, <1>2, <1>3, <1>4, <2>2, Sizes, SMT
    <3>2. CASE sameLane
      BY <1>2, <1>5, <2>2, <3>1, <3>2, Sizes, SMT DEF Rotates
    <3>3. CASE ~sameLane
      BY <1>2, <1>5, <2>2, <3>1, <3>3, Sizes, SMT DEF Rotates
    <3> QED BY <1>1, <3>2, <3>3
  <2>3. CASE pos.pass # 0 /\ pos.slice = 1
    BY <1>1, <1>2, <1>3, <1>4, <1>5, <2>3, Sizes, SMT DEF Rotates
  <2>4. CASE pos.pass # 0 /\ pos.slice = 2
    BY <1>1, <1>2, <1>3, <1>4, <1>5, <2>4, Sizes, SMT DEF Rotates
  <2>5. CASE pos.pass # 0 /\ pos.slice = 3
    BY <1>1, <1>2, <1>3, <1>4, <1>5, <2>5, Sizes, SMT DEF Rotates
  <2> QED BY <1>2, <2>1, <2>2, <2>3, <2>4, <2>5
<1> QED BY <1>1, <1>6, WindowIs DEF Index

-----------------------------------------------------------------------------
(* The invariant *)

FillTypes ==
  /\ phase \in {"first", "fill", "finalize", "done"}
  /\ seed \in Block
  /\ pass \in Nat
  /\ slice \in 0 .. 3
  /\ index \in [Lane -> Nat]
  /\ addresses \in [Lane -> Nat]
  /\ prev_offset \in [Lane -> Nat]
  /\ carried \in [Lane -> Block]
  /\ memory \in [Cell -> Block]

\* A segment is never before its first block.
SegmentsBegun ==
  pass = 0 /\ slice = 0 => \A l \in Lane : index[l] >= 2

\* Nothing has moved before the first blocks are there.
AtFirst ==
  phase = "first" =>
    /\ pass = 0 /\ slice = 0
    /\ \A l \in Lane : index[l] = 2 /\ prev_offset[l] = 1

FillInvariant == FillTypes /\ SegmentsBegun /\ AtFirst /\ CarriedIsPrevious

LEMMA LaneIs ==
  /\ Lanes \in Nat \ {0}
  /\ Passes \in Nat \ {0}
  /\ AddressesInBlock \in Nat \ {0} /\ AddressesInBlock >= 2
  BY MatrixFillAssumption, SMT

\* What a lane that is being filled reads.
LEMMA ReadsOf ==
  ASSUME FillInvariant, NEW l \in Lane, Active(l)
  PROVE  /\ At(l) \in Position
         /\ Rotated(l) = PrevIndex(At(l)) /\ Rotated(l) \in Index
         /\ RefLane(l) \in Lane
         /\ RefCell(l)[1] = RefLane(l)
         /\ RefCell(l)[2] \in ReferenceWindow(At(l), RefLane(l) = l)
         /\ RefCell(l) \in Cell
<1>1. At(l) \in Position
  <2>1. index[l] \in Nat /\ index[l] < SegmentLength
    BY DEF FillInvariant, FillTypes, Active
  <2>2. index[l] \in 0 .. SegmentLength - 1
    BY <2>1, Sizes, SMT
  <2> QED BY <2>2 DEF FillInvariant, FillTypes, At, Position, SyncPoints
<1>2. Rotated(l) = PrevIndex(At(l)) /\ Rotated(l) \in Index
  BY <1>1, OffsetsAre DEF FillInvariant, CarriedIsPrevious
<1>3. Rand(l) \in Block
  <2>1. CASE DataIndependent(pass, slice)
    <3>1. CallsAt(l) \in Nat
      BY DEF CallsAt, FillInvariant, FillTypes
    <3>2. index[l] % AddressesInBlock \in Nat
      BY LaneIs, Remainder DEF FillInvariant, FillTypes
    <3> DEFINE calls == CallsAt(l)
               slot == index[l] % AddressesInBlock
    <3>3. pass \in Nat /\ l \in Nat /\ slice \in Nat
      BY LaneIs DEF FillInvariant, FillTypes, Lane
    <3>4. Address(pass, l, slice, calls, slot) \in Block
      <4> HIDE DEF calls, slot
      <4> DEFINE n == 5 * pass + 3 * l + 7 * slice + 11 * calls + 13 * slot
      <4>1. calls \in Nat /\ slot \in Nat
        BY <3>1, <3>2 DEF calls, slot
      <4>2. n \in Nat
        BY <3>3, <4>1, SMT
      <4> HIDE DEF n
      <4>3. n % Word \in Block /\ 0 \in Block
        BY <4>2, Sizes, Remainder, SMT DEF Block
      <4> QED BY <4>3 DEF Address, n
    <3> QED BY <2>1, <3>4 DEF Rand
  <2>2. CASE ~DataIndependent(pass, slice)
    <3>1. <<l, Rotated(l)>> \in Cell
      BY <1>2 DEF Cell
    <3> QED BY <2>2, <3>1 DEF Rand, FillInvariant, FillTypes
  <2> QED BY <2>1, <2>2
<1>4. RefLane(l) \in Lane
  <2>1. High(Rand(l)) \in Nat
    BY <1>3, Sizes, SMT DEF High, Block
  <2>2. High(Rand(l)) % Lanes \in Lane
    BY <2>1, LaneIs, Remainder DEF Lane
  <2> QED BY <2>2 DEF RefLane
<1>5. RefCell(l)[2] \in ReferenceWindow(At(l), RefLane(l) = l)
  <2>1. Visited(At(l))
    BY DEF Visited, At, FillInvariant, SegmentsBegun
  <2>2. At(l).pass = 0 /\ At(l).slice = 0 => RefLane(l) = l
    BY DEF At, RefLane
  <2>3. Asked(At(l), RefLane(l) = l)
    BY <1>1, <2>1, <2>2 DEF Asked
  <2>4. Low(Rand(l)) \in Block
    BY <1>3 DEF Low
  <2>5. index_alpha(At(l), Low(Rand(l)), RefLane(l) = l)
          \in ReferenceWindow(At(l), RefLane(l) = l)
    BY <2>3, <2>4, ReferenceInWindow
  <2> QED BY <2>5 DEF RefCell
<1>6. RefCell(l) \in Cell
  <2>1. RefCell(l)[2] \in Index
    BY <1>5 DEF ReferenceWindow, Finished
  <2> QED BY <1>4, <2>1 DEF RefCell, Cell
<1>7. RefCell(l)[1] = RefLane(l)
  BY DEF RefCell
<1> QED BY <1>1, <1>2, <1>4, <1>5, <1>6, <1>7

\* What is stored is a block.
LEMMA NewBlockIs ==
  ASSUME FillInvariant, NEW l \in Lane, Active(l)
  PROVE  NewBlock(l) \in Block
<1>1. memory[RefCell(l)] \in Block
  BY ReadsOf DEF FillInvariant, FillTypes
<1>2. PrevBlock(l) \in Block
  <2>1. <<l, Rotated(l)>> \in Cell
    BY ReadsOf DEF Cell
  <2> QED BY <2>1 DEF PrevBlock, FillInvariant, FillTypes
<1>3. memory[<<l, CurrIndex(At(l))>>] \in Block
  <2>1. <<l, CurrIndex(At(l))>> \in Cell
    BY ReadsOf, OffsetsAre DEF Cell
  <2> QED BY <2>1 DEF FillInvariant, FillTypes
<1>4. ASSUME NEW n \in Nat
      PROVE  n % Word \in Block
  BY Sizes, Remainder DEF Block
<1>5. ASSUME NEW a \in Block, NEW b \in Block
      PROVE  Mix(a, b) \in Block /\ Xor(a, b) \in Block
  <2>1. 3 * a + 5 * b + 1 \in Nat /\ a + b \in Nat
    BY Sizes, SMT DEF Block
  <2> QED BY <1>4, <2>1 DEF Mix, Xor
<1> QED BY <1>1, <1>2, <1>3, <1>5 DEF NewBlock

-----------------------------------------------------------------------------
(* The initial state and the steps *)

LEMMA FillStarts == Init => FillInvariant
<1> SUFFICES ASSUME Init PROVE FillInvariant
  OBVIOUS
<1>1. PICK b \in Leftovers : memory = [c \in Cell |-> b] /\ carried = [l \in Lane |-> b]
  BY DEF Init
<1>2. b \in Block
  BY MatrixFillAssumption DEF Block
<1>3. pass = 0 /\ slice = 0 /\ phase = "first"
  BY DEF Init
<1>4. index = [l \in Lane |-> 2]
  BY DEF Init, StartIndex
<1>5. prev_offset = [l \in Lane |-> 1]
  <2> DEFINE pos == [pass |-> 0, slice |-> 0, index |-> 2]
  <2>1. (2 + LaneLength - 1) % LaneLength = 1
    <3> DEFINE n == 2 + LaneLength - 1
    <3>1. n \in Nat /\ LaneLength <= n /\ n < 2 * LaneLength /\ n - LaneLength = 1
      BY Sizes, SMT
    <3> HIDE DEF n
    <3>2. n % LaneLength = n - LaneLength
      BY <3>1, Sizes, Remainder
    <3> QED BY <3>1, <3>2 DEF n
  <2>2. CurrIndex(pos) = 2
    BY Sizes, SMT DEF CurrIndex
  <2>3. PrevIndex(pos) = 1
    BY <2>1, <2>2 DEF PrevIndex
  <2> QED BY <2>3 DEF Init, StartPrev, StartIndex
<1>6. addresses \in [Lane -> Nat]
  BY DEF Init, StartAddresses
<1>7. FillTypes
  <2>1. seed \in Block
    BY MatrixFillAssumption DEF Init, Block
  <2> QED BY <2>1, <1>1, <1>2, <1>3, <1>4, <1>5, <1>6 DEF FillTypes
<1>8. SegmentsBegun /\ AtFirst
  BY <1>3, <1>4, <1>5 DEF SegmentsBegun, AtFirst
<1>9. CarriedIsPrevious
  BY <1>3 DEF CarriedIsPrevious, Active
<1> QED BY <1>7, <1>8, <1>9 DEF FillInvariant

LEMMA FirstBlocksStep ==
  ASSUME FillInvariant, FillFirstBlocks
  PROVE  FillInvariant'
<1> USE DEF FillFirstBlocks
<1>1. ASSUME NEW l \in Lane
      PROVE  /\ pass = 0 /\ slice = 0 /\ index[l] = 2 /\ prev_offset[l] = 1
             /\ pass' = 0 /\ slice' = 0 /\ index'[l] = 2 /\ prev_offset'[l] = 1
  BY DEF FillInvariant, AtFirst
<1>2. memory' \in [Cell -> Block]
  <2>1. ASSUME NEW c \in Cell, c[2] < 2
        PROVE  FirstBlock(seed, c[1], c[2]) \in Block
    <3> DEFINE n == seed + 7 * c[1] + 11 * c[2]
    <3>1. seed \in Nat /\ c[1] \in Nat /\ c[2] \in Nat
      BY Sizes, LaneIs DEF FillInvariant, FillTypes, Block, Cell, Lane, Index
    <3>2. n \in Nat
      BY <3>1, SMT
    <3> HIDE DEF n
    <3>3. n % Word \in Block
      BY <3>2, Sizes, Remainder DEF Block
    <3> QED BY <3>3 DEF FirstBlock, n
  <2> QED BY <2>1 DEF FillInvariant, FillTypes
<1>3. carried' = [l \in Lane |-> memory'[<<l, 1>>]] /\ carried' \in [Lane -> Block]
  <2>1. 1 \in Index
    BY Sizes, SMT DEF Index
  <2>2. \A l \in Lane : <<l, 1>> \in Cell
    BY <2>1 DEF Cell
  <2> QED BY <1>1, <1>2, <2>2
<1>4. FillTypes'
  BY <1>2, <1>3 DEF FillInvariant, FillTypes, hashed
<1>5. SegmentsBegun' /\ AtFirst'
  BY <1>1 DEF SegmentsBegun, AtFirst
<1>6. CarriedIsPrevious'
  <2> SUFFICES ASSUME NEW l \in Lane, Active(l)'
      PROVE  Rotated(l)' = PrevIndex(At(l))' /\ carried'[l] = memory'[<<l, Rotated(l)'>>]
    BY DEF CarriedIsPrevious
  <2> DEFINE pos == At(l)'
  <2>1. pos = [pass |-> 0, slice |-> 0, index |-> 2]
    BY <1>1 DEF At
  <2>2. pos \in Position
    <3>1. 2 \in 0 .. SegmentLength - 1
      BY <1>1, Sizes, SMT DEF Active
    <3> QED BY <2>1, <3>1 DEF Position, SyncPoints
  <2>3. CurrIndex(pos) = 2
    BY <2>1, Sizes, SMT DEF CurrIndex
  <2>4. PrevIndex(pos) = 1
    BY <2>2, <2>3, OffsetsAre
  <2>5. Rotated(l)' = 1
    BY <1>1, <2>3 DEF Rotated
  <2> QED BY <1>3, <2>4, <2>5
<1> QED BY <1>4, <1>5, <1>6 DEF FillInvariant

LEMMA FillBlockStep ==
  ASSUME FillInvariant, NEW l \in Lane, FillBlock(l)
  PROVE  FillInvariant'
<1>1. /\ Active(l)
      /\ pass' = pass /\ slice' = slice /\ phase = "fill" /\ phase' = "fill"
      /\ hashed' = hashed
      /\ memory' = [memory EXCEPT ![<<l, CurrIndex(At(l))>>] = NewBlock(l)]
      /\ carried' = [carried EXCEPT ![l] = NewBlock(l)]
      /\ prev_offset' = [prev_offset EXCEPT ![l] = Rotated(l) + 1]
      /\ addresses' = [addresses EXCEPT ![l] = CallsAt(l)]
      /\ index' = [index EXCEPT ![l] = index[l] + 1]
  BY DEF FillBlock, Active
<1>2. /\ At(l) \in Position
      /\ Rotated(l) = PrevIndex(At(l)) /\ Rotated(l) \in Index
      /\ NewBlock(l) \in Block
  BY <1>1, ReadsOf, NewBlockIs
<1> DEFINE curr == CurrIndex(At(l))
<1>3. /\ curr \in Index
      /\ curr = 0 => PrevIndex(At(l)) = LaneLength - 1
      /\ curr # 0 => PrevIndex(At(l)) = curr - 1
  BY <1>2, OffsetsAre
<1>4. FillTypes'
  <2>1. Rotated(l) + 1 \in Nat /\ CallsAt(l) \in Nat /\ index[l] + 1 \in Nat
    BY <1>2, Sizes, SMT DEF Index, CallsAt, FillInvariant, FillTypes
  <2>2. seed' = seed
    BY <1>1 DEF hashed
  <2>3. memory' \in [Cell -> Block] /\ carried' \in [Lane -> Block]
    BY <1>1, <1>2 DEF FillInvariant, FillTypes
  <2>4. /\ prev_offset' \in [Lane -> Nat] /\ addresses' \in [Lane -> Nat]
        /\ index' \in [Lane -> Nat]
    BY <1>1, <2>1 DEF FillInvariant, FillTypes
  <2> QED BY <1>1, <2>2, <2>3, <2>4 DEF FillInvariant, FillTypes
<1>5. SegmentsBegun' /\ AtFirst'
  <2>1. ASSUME pass = 0, slice = 0, NEW k \in Lane
        PROVE  index'[k] >= 2
    <3>1. index[k] \in Nat /\ index[k] >= 2
      BY <2>1 DEF FillInvariant, FillTypes, SegmentsBegun
    <3>2. index'[k] = index[k] \/ index'[k] = index[k] + 1
      BY <1>1 DEF FillInvariant, FillTypes
    <3> QED BY <3>1, <3>2, SMT
  <2> QED BY <1>1, <2>1 DEF SegmentsBegun, AtFirst
<1>6. CarriedIsPrevious'
  <2> SUFFICES ASSUME NEW k \in Lane, Active(k)'
      PROVE  Rotated(k)' = PrevIndex(At(k))' /\ carried'[k] = memory'[<<k, Rotated(k)'>>]
    BY DEF CarriedIsPrevious
  <2>1. CASE k # l
    <3>1. index'[k] = index[k] /\ prev_offset'[k] = prev_offset[k] /\ carried'[k] = carried[k]
      BY <1>1, <2>1 DEF FillInvariant, FillTypes
    <3>2. Active(k) /\ At(k)' = At(k)
      BY <1>1, <3>1 DEF Active, At
    <3>3. Rotated(k)' = Rotated(k) /\ PrevIndex(At(k))' = PrevIndex(At(k))
      BY <3>1, <3>2 DEF Rotated, CurrIndex, PrevIndex
    <3>4. /\ Rotated(k) = PrevIndex(At(k)) /\ Rotated(k) \in Index
          /\ carried[k] = memory[<<k, Rotated(k)>>]
      BY <3>2, ReadsOf DEF FillInvariant, CarriedIsPrevious
    <3>5. memory'[<<k, Rotated(k)>>] = memory[<<k, Rotated(k)>>]
      <4>1. <<k, Rotated(k)>> \in Cell /\ <<k, Rotated(k)>> # <<l, curr>>
        BY <2>1, <3>4 DEF Cell
      <4> QED BY <1>1, <4>1 DEF FillInvariant, FillTypes
    <3> QED BY <3>1, <3>3, <3>4, <3>5
  <2>2. CASE k = l
    <3>1. /\ index'[l] = index[l] + 1 /\ prev_offset'[l] = Rotated(l) + 1
          /\ carried'[l] = NewBlock(l)
      BY <1>1 DEF FillInvariant, FillTypes
    <3>2. memory'[<<l, curr>>] = NewBlock(l)
      <4>1. <<l, curr>> \in Cell
        BY <1>3 DEF Cell
      <4> QED BY <1>1, <4>1 DEF FillInvariant, FillTypes
    <3> DEFINE next == At(l)'
    <3>3. next = [pass |-> pass, slice |-> slice, index |-> index[l] + 1]
      BY <1>1, <3>1 DEF At
    <3>4. next \in Position
      <4>1. index[l] + 1 \in 0 .. SegmentLength - 1
        BY <2>2, <3>1, Sizes, SMT DEF Active, FillInvariant, FillTypes
      <4> QED BY <1>2, <3>3, <4>1 DEF Position, At
    <3>5. CurrIndex(next) = curr + 1
      <4>1. slice * SegmentLength \in Nat /\ index[l] \in Nat
        BY Sizes, SMT DEF FillInvariant, FillTypes
      <4> QED BY <3>3, <4>1, SMT DEF CurrIndex, At
    <3>6. PrevIndex(next) = curr
      <4>1. curr \in Nat
        BY <1>3 DEF Index
      <4>2. curr + 1 # 0 /\ (curr + 1) - 1 = curr
        BY <4>1, SMT
      <4> QED BY <3>4, <3>5, <4>2, OffsetsAre
    <3>7. Rotated(l)' = curr
      <4>1. Rotated(l)' = IF CurrIndex(next) = 1 THEN 0 ELSE Rotated(l) + 1
        BY <3>1 DEF Rotated
      <4>2. curr \in Nat
        BY <1>3 DEF Index
      <4>3. curr = 0 => Rotated(l)' = 0
        BY <3>5, <4>1
      <4>4. curr # 0 => Rotated(l)' = curr
        <5>1. ASSUME curr # 0 PROVE curr + 1 # 1 /\ curr - 1 + 1 = curr
          BY <4>2, <5>1, SMT
        <5> QED BY <1>2, <1>3, <3>5, <4>1, <5>1
      <4> QED BY <4>3, <4>4
    <3> QED BY <2>2, <3>1, <3>2, <3>6, <3>7
  <2> QED BY <2>1, <2>2
<1> QED BY <1>4, <1>5, <1>6 DEF FillInvariant

\* Where a segment starts is not one past the start of the lane, so that its first
\* block takes prev_offset as it is.
LEMMA StartIs ==
  ASSUME NEW p \in Nat, NEW s \in 0 .. 3
  PROVE  LET start == [pass |-> p, slice |-> s, index |-> StartIndex(p, s)]
         IN  /\ CurrIndex(start) # 1
             /\ StartPrev(p, s) = PrevIndex(start)
             /\ StartPrev(p, s) \in Index
<1> DEFINE start == [pass |-> p, slice |-> s, index |-> StartIndex(p, s)]
           c == CurrIndex(start)
<1>1. c \in Nat /\ c # 1
  BY Sizes, SMT DEF CurrIndex, StartIndex
<1>2. c + LaneLength - 1 \in Nat
  BY <1>1, Sizes, SMT
<1>3. PrevIndex(start) \in Index
  BY <1>2, Sizes, Remainder DEF PrevIndex, Index
<1> QED BY <1>1, <1>3 DEF StartPrev

LEMMA NextSliceStep ==
  ASSUME FillInvariant, NextSlice
  PROVE  FillInvariant'
<1>1. /\ phase' \in {"fill", "finalize"}
      /\ index' = [l \in Lane |-> StartIndex(pass', slice')]
      /\ addresses' = [l \in Lane |-> StartAddresses(pass', slice')]
      /\ prev_offset' = [l \in Lane |-> StartPrev(pass', slice')]
      /\ carried' = [l \in Lane |-> memory[<<l, prev_offset'[l]>>]]
      /\ memory' = memory /\ seed' = seed
  BY DEF NextSlice, hashed
<1>2. pass' \in Nat /\ slice' \in 0 .. 3
  <2>1. slice + 1 \in Nat /\ slice \in 0 .. 3 /\ pass \in Nat
    BY DEF FillInvariant, FillTypes
  <2>2. (slice + 1) % 4 \in 0 .. 3
    BY <2>1, SMT
  <2> QED BY <2>1, <2>2 DEF NextSlice, SyncPoints
<1>3. StartPrev(pass', slice') \in Index
  BY <1>2, StartIs
<1>4. FillTypes'
  <2>1. \A l \in Lane : <<l, prev_offset'[l]>> \in Cell
    BY <1>1, <1>3 DEF Cell
  <2>2. carried' \in [Lane -> Block]
    BY <1>1, <2>1 DEF FillInvariant, FillTypes
  <2>3. StartIndex(pass', slice') \in Nat /\ StartAddresses(pass', slice') \in Nat
    BY DEF StartIndex, StartAddresses
  <2>4. StartPrev(pass', slice') \in Nat
    BY <1>3, Sizes DEF Index
  <2> QED BY <1>1, <1>2, <2>2, <2>3, <2>4 DEF FillInvariant, FillTypes
<1>5. SegmentsBegun' /\ AtFirst'
  BY <1>1 DEF SegmentsBegun, AtFirst, StartIndex
<1>6. CarriedIsPrevious'
  <2> SUFFICES ASSUME NEW l \in Lane
      PROVE  Rotated(l)' = PrevIndex(At(l))' /\ carried'[l] = memory'[<<l, Rotated(l)'>>]
    BY DEF CarriedIsPrevious
  <2>1. At(l)' = [pass |-> pass', slice |-> slice', index |-> StartIndex(pass', slice')]
    BY <1>1 DEF At
  <2>2. CurrIndex(At(l)') # 1 /\ StartPrev(pass', slice') = PrevIndex(At(l)')
    BY <1>2, <2>1, StartIs
  <2>3. Rotated(l)' = prev_offset'[l] /\ prev_offset'[l] = StartPrev(pass', slice')
    BY <1>1, <2>2 DEF Rotated
  <2> QED BY <1>1, <2>2, <2>3
<1> QED BY <1>4, <1>5, <1>6 DEF FillInvariant

-----------------------------------------------------------------------------
\* Between any two steps of fill_segment every lane's registers and prev_offset, the
\* blocks begun so far and the counters agree with where the fill is.
THEOREM FillInductive == Spec => []FillInvariant
<1>1. FillInvariant /\ [Next]_vars => FillInvariant'
  <2> SUFFICES ASSUME FillInvariant, [Next]_vars PROVE FillInvariant'
    OBVIOUS
  <2>1. CASE FillFirstBlocks
    BY <2>1, FirstBlocksStep
  <2>2. ASSUME NEW l \in Lane, FillBlock(l)
        PROVE  FillInvariant'
    BY <2>2, FillBlockStep
  <2>3. CASE NextSlice
    BY <2>3, NextSliceStep
  <2>4. CASE Finalize
    BY <2>4 DEF Finalize, hashed, loop, FillInvariant, FillTypes, SegmentsBegun, AtFirst,
                CarriedIsPrevious, Active
  <2>5. CASE UNCHANGED vars
    BY <2>5 DEF vars, hashed, loop, FillInvariant, FillTypes, SegmentsBegun, AtFirst,
                CarriedIsPrevious, Active, Rotated, At, CurrIndex, PrevIndex
  <2> QED BY <2>1, <2>2, <2>3, <2>4, <2>5 DEF Next
<1> QED BY <1>1, FillStarts, PTL DEF Spec

\* For every size of the matrix: prev_offset points at the block before the current one
\* and the registers hold it.
THEOREM CarriedHolds == Spec => []CarriedIsPrevious
<1>1. FillInvariant => CarriedIsPrevious
  BY DEF FillInvariant
<1> QED BY <1>1, FillInductive, PTL

\* For every size of the matrix and every number: no block that is read is in a segment
\* that another lane is writing, and the block written is none of those read.
THEOREM ReadsSettled == Spec => []ReadsAreSettled
<1>1. FillInvariant => ReadsAreSettled
  <2> SUFFICES ASSUME FillInvariant, NEW l \in Lane, Active(l)
      PROVE  /\ RefLane(l) # l => ~InSlice(RefCell(l)[2], slice)
             /\ RefCell(l) # <<l, CurrIndex(At(l))>>
             /\ Rotated(l) # CurrIndex(At(l))
    BY DEF ReadsAreSettled
  <2> DEFINE curr == CurrIndex(At(l))
             ref  == RefCell(l)[2]
  <2>1. /\ At(l) \in Position /\ Rotated(l) = PrevIndex(At(l))
        /\ RefCell(l) = <<RefLane(l), ref>>
        /\ ref \in ReferenceWindow(At(l), RefLane(l) = l)
    BY ReadsOf DEF RefCell
  <2>2. /\ curr \in Index
        /\ curr = 0 => PrevIndex(At(l)) = LaneLength - 1
        /\ curr # 0 => PrevIndex(At(l)) = curr - 1
    BY <2>1, OffsetsAre
  <2>3. Rotated(l) # curr
    <3> HIDE DEF curr
    <3> QED BY <2>1, <2>2, Sizes, SMT DEF Index
  <2>4. RefLane(l) # l => ~InSlice(ref, slice)
    BY <2>1 DEF ReferenceWindow, Finished, At
  <2>5. ref # curr
    <3>1. CASE InSlice(ref, slice)
      <4>1. ref < curr /\ ref \in Index
        BY <2>1, <3>1 DEF ReferenceWindow, Finished, At
      <4> HIDE DEF ref, curr
      <4> QED BY <2>2, <4>1, Sizes, SMT DEF Index
    <3>2. CASE ~InSlice(ref, slice)
      <4>1. InSlice(curr, slice)
        <5>1. slice * SegmentLength \in Nat
              /\ (slice + 1) * SegmentLength = slice * SegmentLength + SegmentLength
          BY Sizes, SMT DEF FillInvariant, FillTypes
        <5>2. index[l] \in Nat /\ index[l] < SegmentLength
          BY DEF FillInvariant, FillTypes, Active
        <5> QED BY <5>1, <5>2, Sizes, SMT DEF InSlice, CurrIndex, At
      <4> QED BY <3>2, <4>1
    <3> QED BY <3>1, <3>2
  <2> QED BY <2>1, <2>3, <2>4, <2>5
<1> QED BY <1>1, FillInductive, PTL

-----------------------------------------------------------------------------
(* The window by age *)

\* Ages in linear terms: the segment after the current one is the oldest.
LEMMA AgeIs ==
  ASSUME NEW pos \in Position, NEW i \in Index
  PROVE  LET here == pos.slice * SegmentLength
             age  == Age(i, pos.pass, pos.slice)
         IN  /\ age \in Index
             /\ pos.pass = 0 => age = i
             /\ pos.pass # 0 /\ here + SegmentLength <= i => age = i - here - SegmentLength
             /\ pos.pass # 0 /\ ~ (here + SegmentLength <= i) =>
                  age = i + LaneLength - here - SegmentLength
<1> DEFINE here == pos.slice * SegmentLength
           age  == Age(i, pos.pass, pos.slice)
           n    == i + LaneLength - (here + SegmentLength)
<1>1. /\ (pos.slice + 1) * SegmentLength = here + SegmentLength
      /\ here \in Nat /\ here + SegmentLength <= LaneLength /\ pos.pass \in Nat
  BY PositionIs, Sizes, SMT
<1>2. age = IF pos.pass = 0 THEN i ELSE n % LaneLength
  BY <1>1 DEF Age
<1> HIDE DEF here, age
<1>3. n \in Nat /\ n < 2 * LaneLength /\ i \in Nat /\ i < LaneLength
  BY <1>1, Sizes, SMT DEF Index
<1>4. /\ n < LaneLength => n % LaneLength = n
      /\ LaneLength <= n => n % LaneLength = n - LaneLength
  <2> HIDE DEF n
  <2> QED BY <1>3, Sizes, Remainder
<1>5. /\ pos.pass = 0 => age = i
      /\ pos.pass # 0 /\ here + SegmentLength <= i => age = i - here - SegmentLength
      /\ pos.pass # 0 /\ ~ (here + SegmentLength <= i) =>
           age = i + LaneLength - here - SegmentLength
  BY <1>1, <1>2, <1>3, <1>4, Sizes, SMT
<1>6. age \in Index
  BY <1>1, <1>3, <1>5, Sizes, SMT DEF Index
<1> QED BY <1>5, <1>6 DEF here, age

\* The window is the youngest part of the lane that is old enough: its ages are those
\* below its size.
LEMMA WindowByAge ==
  ASSUME NEW pos, NEW sameLane, Asked(pos, sameLane), NEW i \in Index
  PROVE  i \in ReferenceWindow(pos, sameLane) <=>
           Age(i, pos.pass, pos.slice) < Area(pos, sameLane)
<1> DEFINE here == pos.slice * SegmentLength
           age  == Age(i, pos.pass, pos.slice)
           prev == PrevIndex(pos)
           size == Area(pos, sameLane)
           inSlice == here <= i /\ i < here + SegmentLength
<1>1. pos \in Position /\ sameLane \in BOOLEAN /\ i \in 0 .. LaneLength - 1
  BY DEF Asked, Index
<1>2. /\ pos.pass \in Nat
      /\ pos.index \in Nat /\ pos.index < SegmentLength
      /\ here \in Nat /\ here + SegmentLength <= LaneLength
      /\ pos.slice = 0 => here = 0
      /\ pos.slice # 0 => here >= SegmentLength
  BY <1>1, PositionIs, Sizes, SMT
<1>3. /\ pos.pass = 0 => age = i
      /\ pos.pass # 0 /\ here + SegmentLength <= i => age = i - here - SegmentLength
      /\ pos.pass # 0 /\ ~ (here + SegmentLength <= i) =>
           age = i + LaneLength - here - SegmentLength
  BY <1>1, AgeIs
<1>4. size = (IF pos.pass = 0 THEN here ELSE 3 * SegmentLength)
               + (IF sameLane THEN pos.index - 1 ELSE 0 - (IF pos.index = 0 THEN 1 ELSE 0))
  BY DEF Area, IfZero
<1>5. pos.pass = 0 /\ pos.slice = 0 => sameLane /\ pos.index >= 2
  BY DEF Asked, Visited
<1>6. /\ here + pos.index = 0 => prev = LaneLength - 1
      /\ here + pos.index # 0 => prev = (here + pos.index) - 1
  <2>1. /\ CurrIndex(pos) = 0 => prev = LaneLength - 1
        /\ CurrIndex(pos) # 0 => prev = CurrIndex(pos) - 1
    BY <1>1, OffsetsAre
  <2> DEFINE curr == here + pos.index
  <2>2. CurrIndex(pos) = curr
    BY DEF CurrIndex
  <2>3. /\ curr = 0 => prev = LaneLength - 1
        /\ curr # 0 => prev = curr - 1
    <3> HIDE DEF curr, prev
    <3> QED BY <2>1, <2>2
  <2> QED BY <2>3
<1>7. i \in ReferenceWindow(pos, sameLane) <=>
        /\ i # prev
        /\ \/ sameLane /\ inSlice /\ i < here + pos.index
           \/ ~inSlice /\ (pos.pass = 0 => i < here)
  BY <1>1, WindowIs
<1> DEFINE first == pos.pass = 0
           begun == pos.index
<1>8. /\ first \in BOOLEAN /\ sameLane \in BOOLEAN
      /\ i \in Int /\ 0 <= i /\ i < LaneLength
      /\ begun \in Int /\ 0 <= begun /\ begun < SegmentLength
      /\ here \in Int /\ here + SegmentLength <= LaneLength
      /\ here = 0 \/ here >= SegmentLength
      /\ first /\ here = 0 => sameLane /\ begun >= 2
      /\ here + begun = 0 => prev = LaneLength - 1
      /\ here + begun # 0 => prev = (here + begun) - 1
      /\ first => age = i
      /\ ~first /\ here + SegmentLength <= i => age = i - here - SegmentLength
      /\ ~first /\ i < here + SegmentLength => age = i + LaneLength - here - SegmentLength
      /\ first /\ sameLane => size = here + begun - 1
      /\ first /\ ~sameLane /\ begun = 0 => size = here - 1
      /\ first /\ ~sameLane /\ begun # 0 => size = here
      /\ ~first /\ sameLane => size = 3 * SegmentLength + begun - 1
      /\ ~first /\ ~sameLane /\ begun = 0 => size = 3 * SegmentLength - 1
      /\ ~first /\ ~sameLane /\ begun # 0 => size = 3 * SegmentLength
  <2> HIDE DEF here, age, prev, size
  <2>1. i \in Int /\ 0 <= i /\ i < LaneLength
    BY <1>1, Sizes, SMT
  <2>2. begun \in Int /\ 0 <= begun /\ begun < SegmentLength
    BY <1>2, Sizes, SMT
  <2>3. /\ here \in Int /\ here + SegmentLength <= LaneLength
        /\ here = 0 \/ here >= SegmentLength
        /\ here = 0 <=> pos.slice = 0
    <3>1. CASE pos.slice = 0
      BY <1>2, <3>1, Sizes, SMT
    <3>2. CASE pos.slice # 0
      <4>1. here \in Int /\ here + SegmentLength <= LaneLength /\ here >= SegmentLength
        BY <1>2, <3>2
      <4> QED BY <3>2, <4>1, Sizes, SMT
    <3> QED BY <3>1, <3>2
  <2>4. first \in BOOLEAN /\ sameLane \in BOOLEAN
    BY <1>1
  <2>5. /\ first /\ here = 0 => sameLane /\ begun >= 2
        /\ here + begun = 0 => prev = LaneLength - 1
        /\ here + begun # 0 => prev = (here + begun) - 1
    <3>1. pos.slice = 0 <=> here = 0
      BY <2>3
    <3>2. first /\ here = 0 => sameLane /\ begun >= 2
      BY <1>5, <3>1
    <3> QED BY <1>6, <3>2
  <2>6. /\ first => age = i
        /\ ~first /\ here + SegmentLength <= i => age = i - here - SegmentLength
        /\ ~first /\ i < here + SegmentLength => age = i + LaneLength - here - SegmentLength
    <3>1. i < here + SegmentLength => ~ (here + SegmentLength <= i)
      BY <2>1, <2>3, Sizes, SMT
    <3> QED BY <1>3, <3>1
  <2>7. /\ first /\ sameLane => size = here + begun - 1
        /\ first /\ ~sameLane /\ begun = 0 => size = here - 1
        /\ first /\ ~sameLane /\ begun # 0 => size = here
        /\ ~first /\ sameLane => size = 3 * SegmentLength + begun - 1
        /\ ~first /\ ~sameLane /\ begun = 0 => size = 3 * SegmentLength - 1
        /\ ~first /\ ~sameLane /\ begun # 0 => size = 3 * SegmentLength
    <3> HIDE DEF first
    <3>1. size = (IF first THEN here ELSE 3 * SegmentLength)
                   + (IF sameLane THEN begun - 1 ELSE 0 - (IF begun = 0 THEN 1 ELSE 0))
      BY <1>4 DEF first
    <3> HIDE DEF begun
    <3>2. CASE sameLane
      BY <2>2, <2>3, <3>1, <3>2, Sizes, SMT
    <3>3. CASE ~sameLane
      BY <2>2, <2>3, <3>1, <3>3, Sizes, SMT
    <3> QED BY <2>4, <3>2, <3>3
  <2> QED BY <2>1, <2>2, <2>3, <2>4, <2>5, <2>6, <2>7
<1>9. (/\ i # prev
       /\ \/ sameLane /\ inSlice /\ i < here + begun
          \/ ~inSlice /\ (first => i < here)) <=> age < size
  <2> HIDE DEF here, age, prev, size, first, begun
  <2>1. CASE first
    BY <1>8, <2>1, Sizes, SMT
  <2>2. CASE ~first /\ sameLane
    BY <1>8, <2>2, Sizes, SMT
  <2>3. CASE ~first /\ ~sameLane
    BY <1>8, <2>3, Sizes, SMT
  <2> QED BY <1>1, <2>1, <2>2, <2>3
<1> QED BY <1>7, <1>9

\* Every age is the age of one block.
LEMMA AgeIsOneToOne ==
  ASSUME NEW pos \in Position
  PROVE  /\ \A i, j \in Index :
              Age(i, pos.pass, pos.slice) = Age(j, pos.pass, pos.slice) => i = j
         /\ \A a \in Index : \E i \in Index : Age(i, pos.pass, pos.slice) = a
<1> DEFINE here == pos.slice * SegmentLength
           age(i) == Age(i, pos.pass, pos.slice)
<1>1. pos.pass \in Nat /\ here \in Nat /\ here + SegmentLength <= LaneLength
  BY PositionIs, Sizes, SMT
<1>2. \A i \in Index :
        /\ pos.pass = 0 => age(i) = i
        /\ pos.pass # 0 /\ here + SegmentLength <= i => age(i) = i - here - SegmentLength
        /\ pos.pass # 0 /\ ~ (here + SegmentLength <= i) =>
             age(i) = i + LaneLength - here - SegmentLength
  BY AgeIs
<1> HIDE DEF here, age
<1>3. ASSUME NEW i \in Index, NEW j \in Index, age(i) = age(j)
      PROVE  i = j
  <2>1. i \in 0 .. LaneLength - 1 /\ j \in 0 .. LaneLength - 1
    BY DEF Index
  <2> QED BY <1>1, <1>2, <1>3, <2>1, Sizes, SMT
<1>4. ASSUME NEW a \in Index
      PROVE  \E i \in Index : age(i) = a
  <2>0. a \in 0 .. LaneLength - 1
    BY DEF Index
  <2>1. CASE pos.pass = 0
    BY <1>2, <2>1
  <2>2. CASE pos.pass # 0 /\ a + here + SegmentLength < LaneLength
    <3>1. a + here + SegmentLength \in Index
      BY <1>1, <2>0, <2>2, Sizes, SMT DEF Index
    <3>2. age(a + here + SegmentLength) = a
      BY <1>1, <1>2, <2>0, <2>2, <3>1, Sizes, SMT
    <3> QED BY <3>1, <3>2
  <2>3. CASE pos.pass # 0 /\ ~ (a + here + SegmentLength < LaneLength)
    <3>1. a + here + SegmentLength - LaneLength \in Index
      BY <1>1, <2>0, <2>3, Sizes, SMT DEF Index
    <3>2. age(a + here + SegmentLength - LaneLength) = a
      BY <1>1, <1>2, <2>0, <2>3, <3>1, Sizes, SMT
    <3> QED BY <3>1, <3>2
  <2> QED BY <2>1, <2>2, <2>3
<1> QED BY <1>3, <1>4 DEF age

\* So many blocks of a window are younger than a given one.
LEMMA YoungerIs ==
  ASSUME NEW pos, NEW sameLane, Asked(pos, sameLane), NEW k \in 0 .. Area(pos, sameLane)
  PROVE  Cardinality({i \in ReferenceWindow(pos, sameLane) :
                        Age(i, pos.pass, pos.slice) < k}) = k
<1> DEFINE older == {i \in ReferenceWindow(pos, sameLane) : Age(i, pos.pass, pos.slice) < k}
           ages  == [i \in older |-> Age(i, pos.pass, pos.slice) + 1]
<1>1. pos \in Position /\ Area(pos, sameLane) \in 1 .. LaneLength - 2
  BY AreaIs DEF Asked
<1>2. k \in Nat /\ k <= Area(pos, sameLane) /\ k < LaneLength /\ Area(pos, sameLane) \in Nat
  BY <1>1, Sizes, SMT
<1>3. older \subseteq Index
  BY DEF ReferenceWindow, Finished
<1>4. \A i \in Index : /\ Age(i, pos.pass, pos.slice) \in Index
                       /\ i \in older <=> Age(i, pos.pass, pos.slice) < k
  <2> SUFFICES ASSUME NEW i \in Index
      PROVE  /\ Age(i, pos.pass, pos.slice) \in Index
             /\ i \in older <=> Age(i, pos.pass, pos.slice) < k
    OBVIOUS
  <2> DEFINE age == Age(i, pos.pass, pos.slice)
  <2>1. age \in Index /\ (i \in ReferenceWindow(pos, sameLane) <=> age < Area(pos, sameLane))
    BY <1>1, AgeIs, WindowByAge
  <2>2. i \in older <=> i \in ReferenceWindow(pos, sameLane) /\ age < k
    OBVIOUS
  <2> HIDE DEF older, age
  <2>3. age < k => age < Area(pos, sameLane)
    BY <1>2, <2>1, Sizes, SMT DEF Index
  <2> QED BY <2>1, <2>2, <2>3 DEF age
<1> HIDE DEF older
<1>5. ages \in Bijection(older, 1 .. k)
  <2>1. ages \in [older -> 1 .. k]
    <3> SUFFICES ASSUME NEW i \in older
        PROVE  Age(i, pos.pass, pos.slice) + 1 \in 1 .. k
      OBVIOUS
    <3> QED BY <1>2, <1>3, <1>4, Sizes, SMT DEF Index
  <2>2. ASSUME NEW i \in older, NEW j \in older, ages[i] = ages[j]
        PROVE  i = j
    <3>1. i \in Index /\ j \in Index
      BY <1>3
    <3>2. Age(i, pos.pass, pos.slice) + 1 = Age(j, pos.pass, pos.slice) + 1
      BY <2>2
    <3>3. Age(i, pos.pass, pos.slice) \in Nat /\ Age(j, pos.pass, pos.slice) \in Nat
      BY <1>4, <3>1, Sizes DEF Index
    <3>4. Age(i, pos.pass, pos.slice) = Age(j, pos.pass, pos.slice)
      BY <3>2, <3>3, SMT
    <3> QED BY <1>1, <3>1, <3>4, AgeIsOneToOne
  <2>3. ASSUME NEW b \in 1 .. k
        PROVE  \E i \in older : ages[i] = b
    <3>1. b - 1 \in Index /\ b - 1 < k /\ b - 1 + 1 = b
      BY <1>2, Sizes, SMT DEF Index
    <3>2. PICK i \in Index : Age(i, pos.pass, pos.slice) = b - 1
      BY <1>1, <3>1, AgeIsOneToOne
    <3>3. i \in older
      BY <1>4, <3>1, <3>2
    <3>4. ages[i] = b
      BY <3>1, <3>2, <3>3
    <3> QED BY <3>3, <3>4
  <2> QED BY <2>1, <2>2, <2>3, Fun_IsBij
<1>6. IsFiniteSet(1 .. k) /\ Cardinality(1 .. k) = k
  BY <1>2, FS_Interval, SMT
<1>7. Cardinality(older) = k
  <2> HIDE DEF ages
  <2>1. ExistsBijection(older, 1 .. k)
    BY <1>5 DEF ExistsBijection
  <2>2. ExistsBijection(1 .. k, older)
    BY <2>1, Fun_ExistsBijSymmetric
  <2> QED BY <1>2, <2>2, FS_CountingElements
<1> QED BY <1>7 DEF older

\* The age of the block index_alpha chooses is the relative position: for every number the
\* area is used oldest block first.
LEMMA AgeOfReference ==
  ASSUME NEW pos, NEW sameLane, Asked(pos, sameLane), NEW j1 \in Block
  PROVE  LET ref  == index_alpha(pos, j1, sameLane)
             size == Area(pos, sameLane)
             k    == size - 1 - (size * ((j1 * j1) \div Word)) \div Word
         IN  /\ ref \in Index
             /\ Age(ref, pos.pass, pos.slice) = k
             /\ k \in 0 .. size - 1
<1> DEFINE here == pos.slice * SegmentLength
           rel  == RelativePosition(ReferenceAreaSize(pos, sameLane), j1)
           ref  == index_alpha(pos, j1, sameLane)
           size == Area(pos, sameLane)
           k    == size - 1 - (size * ((j1 * j1) \div Word)) \div Word
           age  == Age(ref, pos.pass, pos.slice)
<1>1. pos \in Position /\ size \in 1 .. LaneLength - 2 /\ ReferenceAreaSize(pos, sameLane) = size
  BY AreaIs DEF Asked
<1>2. rel = k
  <2>1. Wrap(size - 1) = size - 1
    <3> DEFINE n == size - 1
    <3>1. n \in Nat /\ n < Word
      BY <1>1, Sizes, SMT
    <3> HIDE DEF n, size
    <3>2. n % Word = n
      BY <3>1, Sizes, Remainder
    <3> QED BY <3>2 DEF Wrap, n
  <2> HIDE DEF size
  <2> QED BY <1>1, <2>1 DEF RelativePosition, MulHigh, size
<1>3. ref \in Index
  BY ReferenceInWindow DEF ReferenceWindow, Finished
<1>4. /\ rel \in 0 .. size - 1
      /\ pos.pass = 0 \/ pos.slice = 3 => ref = rel
      /\ pos.pass # 0 /\ pos.slice # 3 => Rotates(ref, here + SegmentLength + rel)
  BY ReferenceIs
<1>5. /\ pos.pass = 0 => age = ref
      /\ pos.pass # 0 /\ here + SegmentLength <= ref => age = ref - here - SegmentLength
      /\ pos.pass # 0 /\ ~ (here + SegmentLength <= ref) =>
           age = ref + LaneLength - here - SegmentLength
  <2> HIDE DEF ref
  <2> QED BY <1>1, <1>3, AgeIs
<1>6. /\ pos.pass \in Nat /\ here \in Nat /\ here + SegmentLength <= LaneLength
      /\ pos.slice = 3 => here = 3 * SegmentLength
  BY <1>1, PositionIs, Sizes, SMT
<1>7. rel \in Nat /\ rel < LaneLength /\ ref \in Nat /\ ref < LaneLength
  <2> HIDE DEF rel, ref, size
  <2> QED BY <1>1, <1>3, <1>4, Sizes, SMT DEF Index
<1>8. age = rel
  <2> HIDE DEF here, rel, ref, age, size
  <2>1. CASE pos.pass = 0
    BY <1>4, <1>5, <2>1
  <2>2. CASE pos.pass # 0 /\ pos.slice = 3
    BY <1>4, <1>5, <1>6, <1>7, <2>2, Sizes, SMT
  <2>3. CASE pos.pass # 0 /\ pos.slice # 3
    <3>1. \/ here + SegmentLength + rel < LaneLength /\ ref = here + SegmentLength + rel
          \/ ref = (here + SegmentLength + rel) - LaneLength
      BY <1>4, <2>3 DEF Rotates
    <3> QED BY <1>5, <1>6, <1>7, <2>3, <3>1, Sizes, SMT
  <2> QED BY <2>1, <2>2, <2>3
<1> QED BY <1>2, <1>3, <1>4, <1>8

\* The number of blocks of the window.
LEMMA WindowSize ==
  ASSUME NEW pos, NEW sameLane, Asked(pos, sameLane)
  PROVE  Cardinality(ReferenceWindow(pos, sameLane)) = Area(pos, sameLane)
<1> DEFINE size == Area(pos, sameLane)
           window == ReferenceWindow(pos, sameLane)
<1>1. size \in 0 .. size
  <2>1. size \in Nat
    BY AreaIs, SMT
  <2> HIDE DEF size
  <2> QED BY <2>1, SMT
<1>2. window = {i \in window : Age(i, pos.pass, pos.slice) < size}
  <2>1. window \subseteq Index
    BY DEF ReferenceWindow, Finished
  <2> QED BY <2>1, WindowByAge
<1>3. Cardinality({i \in window : Age(i, pos.pass, pos.slice) < size}) = size
  BY <1>1, YoungerIs
<1> QED BY <1>2, <1>3

\* The block index_alpha chooses is the one that WindowPick takes from the window by age.
LEMMA PickIs ==
  ASSUME NEW pos, NEW sameLane, Asked(pos, sameLane), NEW j1 \in Block
  PROVE  LET window == ReferenceWindow(pos, sameLane)
             size   == Cardinality(window)
             k      == size - 1 - (size * ((j1 * j1) \div Word)) \div Word
             ref    == index_alpha(pos, j1, sameLane)
         IN  /\ WindowPick(window, k, pos.pass, pos.slice) = ref
             /\ ref \in window
             /\ Cardinality({i \in window : Age(i, pos.pass, pos.slice)
                                              < Age(ref, pos.pass, pos.slice)}) = k
<1> DEFINE window == ReferenceWindow(pos, sameLane)
           size   == Cardinality(window)
           k      == size - 1 - (size * ((j1 * j1) \div Word)) \div Word
           ref    == index_alpha(pos, j1, sameLane)
           age(i) == Age(i, pos.pass, pos.slice)
           older(i) == Cardinality({j \in window : age(j) < age(i)})
<1>1. size = Area(pos, sameLane)
  BY WindowSize
<1>2. ref \in Index /\ age(ref) = k /\ k \in 0 .. Area(pos, sameLane) - 1
  BY <1>1, AgeOfReference
<1>3. ref \in window /\ window \subseteq Index /\ pos \in Position
  BY ReferenceInWindow DEF ReferenceWindow, Finished, Asked
<1>4. Area(pos, sameLane) \in Nat
  BY AreaIs, SMT
<1>5. ASSUME NEW i \in window
      PROVE  older(i) = age(i)
  <2>1. age(i) \in Nat /\ age(i) < Area(pos, sameLane)
    BY <1>3, AgeIs, WindowByAge, Sizes DEF Index
  <2>2. age(i) \in 0 .. Area(pos, sameLane)
    <3> HIDE DEF age
    <3> QED BY <1>4, <2>1, SMT
  <2> QED BY <2>2, YoungerIs
<1>6. older(ref) = k
  BY <1>2, <1>3, <1>5
<1>7. ASSUME NEW i \in window, older(i) = k
      PROVE  i = ref
  <2>1. age(i) = age(ref) /\ i \in Index
    BY <1>2, <1>3, <1>5, <1>7
  <2> QED BY <1>2, <1>3, <2>1, AgeIsOneToOne
<1>8. WindowPick(window, k, pos.pass, pos.slice) = ref
  <2> HIDE DEF window, k, ref
  <2>1. WindowPick(window, k, pos.pass, pos.slice) = CHOOSE i \in window : older(i) = k
    BY DEF WindowPick
  <2> HIDE DEF older
  <2> QED BY <1>3, <1>6, <1>7, <2>1
<1> QED BY <1>3, <1>6, <1>8

\* For every size of the matrix, every position of the fill and every number: the block
\* referred to is one of the window, and as many of its blocks are older as the quadratic
\* mapping says (index_alpha, relative_position).
THEOREM WindowIsFollowed == Spec => []WindowFollowed
<1>1. FillInvariant => WindowFollowed
  <2> SUFFICES ASSUME FillInvariant, NEW l \in Lane, Active(l), NEW j1 \in Block,
                      NEW same \in {TRUE, slice = 0 /\ pass = 0}
      PROVE  LET window == ReferenceWindow(At(l), same)
                 ref    == index_alpha(At(l), j1, same)
                 older  == {i \in window : Age(i, pass, slice) < Age(ref, pass, slice)}
                 size   == Cardinality(window)
             IN /\ ref \in window
                /\ Cardinality(older) = size - 1 - (size * ((j1 * j1) \div Word)) \div Word
    BY DEF WindowFollowed, Block
  <2>1. At(l) \in Position /\ At(l).pass = pass /\ At(l).slice = slice
    BY ReadsOf DEF At
  <2>2. Visited(At(l))
    BY DEF Visited, At, FillInvariant, SegmentsBegun
  <2>3. Asked(At(l), same)
    BY <2>1, <2>2 DEF Asked
  <2> HIDE DEF At
  <2> QED BY <2>1, <2>3, PickIs
<1> QED BY <1>1, FillInductive, PTL

-----------------------------------------------------------------------------
(* The sequential matrix *)

LEMMA WordOf ==
  ASSUME NEW n \in Nat
  PROVE  n % Word \in Block
BY Sizes, Remainder DEF Block

LEMMA MixIs ==
  ASSUME NEW a \in Block, NEW b \in Block
  PROVE  Mix(a, b) \in Block /\ Xor(a, b) \in Block
<1>1. 3 * a + 5 * b + 1 \in Nat /\ a + b \in Nat
  BY Sizes, SMT DEF Block
<1> QED BY <1>1, WordOf DEF Mix, Xor

LEMMA AddressIs ==
  ASSUME NEW p \in Nat, NEW l \in Nat, NEW s \in Nat, NEW calls \in Nat, NEW slot \in Nat
  PROVE  Address(p, l, s, calls, slot) \in Block
<1> DEFINE n == 5 * p + 3 * l + 7 * s + 11 * calls + 13 * slot
<1>1. n \in Nat
  BY SMT
<1> HIDE DEF n
<1>2. n % Word \in Block /\ 0 \in Block
  BY <1>1, WordOf, Sizes, SMT DEF Block
<1> QED BY <1>2 DEF Address, n

MatrixType == [Cell -> Block]
SequentialPosition ==
  [pass : Nat, slice : 0 .. 3, lane : Lane, index : 0 .. SegmentLength - 1]

\* A position of the sequential nest as one of fill_segment.
InLane(pos) == [pass |-> pos.pass, slice |-> pos.slice, index |-> pos.index]

\* What NextMatrix computes, with the block index_alpha chooses.
SequentialRand(m, pos) ==
  IF DataIndependent(pos.pass, pos.slice)
  THEN Address(pos.pass, pos.lane, pos.slice, pos.index \div AddressesInBlock + 1,
               pos.index % AddressesInBlock)
  ELSE m[<<pos.lane, PrevIndex(pos)>>]

SequentialLane(m, pos) ==
  IF pos.pass = 0 /\ pos.slice = 0 THEN pos.lane ELSE High(SequentialRand(m, pos)) % Lanes

SequentialRef(m, pos) ==
  <<SequentialLane(m, pos),
    index_alpha(InLane(pos), Low(SequentialRand(m, pos)), SequentialLane(m, pos) = pos.lane)>>

SequentialBlock(m, pos) ==
  LET new == Mix(m[<<pos.lane, PrevIndex(pos)>>], m[SequentialRef(m, pos)])
  IN IF WithXor(pos.pass) THEN Xor(m[<<pos.lane, CurrIndex(pos)>>], new) ELSE new

LEMMA InLaneIs ==
  ASSUME NEW pos \in SequentialPosition
  PROVE  /\ InLane(pos) \in Position
         /\ PrevIndex(InLane(pos)) = PrevIndex(pos)
         /\ CurrIndex(InLane(pos)) = CurrIndex(pos)
         /\ Visited(InLane(pos)) = Visited(pos)
         /\ \A x : ReferenceWindow(InLane(pos), x) = ReferenceWindow(pos, x)
BY DEF SequentialPosition, InLane, Position, SyncPoints, PrevIndex, CurrIndex, Visited,
       ReferenceWindow, Finished, InSlice

LEMMA NextMatrixIs ==
  ASSUME NEW m \in MatrixType, NEW pos \in SequentialPosition, Visited(pos)
  PROVE  /\ NextMatrix(m, pos) =
              [m EXCEPT ![<<pos.lane, CurrIndex(pos)>>] = SequentialBlock(m, pos)]
         /\ <<pos.lane, CurrIndex(pos)>> \in Cell
         /\ SequentialBlock(m, pos) \in Block
<1> DEFINE rand == SequentialRand(m, pos)
           from == SequentialLane(m, pos)
           same == from = pos.lane
           last == <<pos.lane, PrevIndex(pos)>>
           curr == <<pos.lane, CurrIndex(pos)>>
<1>1. last \in Cell /\ curr \in Cell
  BY InLaneIs, OffsetsAre DEF SequentialPosition, Cell
<1>2. rand \in Block
  <2>1. CASE DataIndependent(pos.pass, pos.slice)
    <3>1. /\ pos.pass \in Nat /\ pos.lane \in Nat /\ pos.slice \in Nat /\ pos.index \in Nat
      BY LaneIs DEF SequentialPosition, Lane
    <3>2. pos.index \div AddressesInBlock + 1 \in Nat /\ pos.index % AddressesInBlock \in Nat
      <4>1. pos.index \div AddressesInBlock \in Nat /\ pos.index % AddressesInBlock \in Nat
        <5>1. pos.index \div AddressesInBlock \in Nat
          BY <3>1, LaneIs, Quotient
        <5>2. pos.index % AddressesInBlock \in 0 .. AddressesInBlock - 1
          BY <3>1, LaneIs, Remainder
        <5> QED BY <5>1, <5>2
      <4> DEFINE q == pos.index \div AddressesInBlock
      <4> HIDE DEF q
      <4> QED BY <4>1, SMT
    <3> QED BY <2>1, <3>1, <3>2, AddressIs DEF SequentialRand
  <2>2. CASE ~DataIndependent(pos.pass, pos.slice)
    BY <1>1, <2>2 DEF SequentialRand, MatrixType
  <2> QED BY <2>1, <2>2
<1>3. from \in Lane
  <2>1. High(rand) \in Nat
    BY <1>2, Sizes, SMT DEF High, Block
  <2>2. High(rand) % Lanes \in Lane
    BY <2>1, LaneIs, Remainder DEF Lane
  <2> QED BY <2>2 DEF SequentialLane, SequentialPosition
<1>4. Asked(InLane(pos), same) /\ Low(rand) \in Block
  <2>1. pos.pass = 0 /\ pos.slice = 0 => from = pos.lane
    BY DEF SequentialLane
  <2> QED BY <1>2, <2>1, InLaneIs DEF Asked, InLane, Low
<1> DEFINE window == ReferenceWindow(InLane(pos), same)
           size   == Cardinality(window)
           k      == size - 1 - (size * ((Low(rand) * Low(rand)) \div Word)) \div Word
           ref    == index_alpha(InLane(pos), Low(rand), same)
<1>5. WindowPick(window, k, pos.pass, pos.slice) = ref /\ ref \in Index
  <2>1. InLane(pos).pass = pos.pass /\ InLane(pos).slice = pos.slice
    BY DEF InLane
  <2>2. ref \in window /\ WindowPick(window, k, InLane(pos).pass, InLane(pos).slice) = ref
    BY <1>4, PickIs
  <2> QED BY <2>1, <2>2 DEF ReferenceWindow, Finished
<1> DEFINE new == Mix(m[last], m[<<from, ref>>])
<1>6. NextMatrix(m, pos) =
        [m EXCEPT ![curr] = IF WithXor(pos.pass) THEN Xor(m[curr], new) ELSE new]
  <2> DEFINE theirs == ReferenceWindow(pos, same)
             count  == Cardinality(theirs)
             back   == (count * ((Low(rand) * Low(rand)) \div Word)) \div Word
             pick   == WindowPick(theirs, count - 1 - back, pos.pass, pos.slice)
             mixed  == Mix(m[last], m[<<from, pick>>])
  <2>1. NextMatrix(m, pos) =
          [m EXCEPT ![curr] = IF WithXor(pos.pass) THEN Xor(@, mixed) ELSE mixed]
    BY DEF NextMatrix, SequentialRand, SequentialLane
  <2>2. theirs = window
    BY InLaneIs
  <2>3. pick = ref
    BY <1>5, <2>2
  <2>4. mixed = new
    BY <2>3
  <2> HIDE DEF mixed, new
  <2> QED BY <2>1, <2>4
<1>7. SequentialRef(m, pos) = <<from, ref>>
  BY DEF SequentialRef
<1>8. SequentialBlock(m, pos) = IF WithXor(pos.pass) THEN Xor(m[curr], new) ELSE new
  BY <1>7 DEF SequentialBlock
<1>9. SequentialBlock(m, pos) \in Block
  <2>1. <<from, ref>> \in Cell
    BY <1>3, <1>5 DEF Cell
  <2>2. m[last] \in Block /\ m[<<from, ref>>] \in Block /\ m[curr] \in Block
    BY <1>1, <2>1 DEF MatrixType
  <2>3. new \in Block
    BY <2>2, MixIs
  <2> HIDE DEF new, curr
  <2> QED BY <1>8, <2>2, <2>3, MixIs
<1> QED BY <1>1, <1>6, <1>8, <1>9

LEMMA PositionOfIs ==
  ASSUME NEW n \in Nat
  PROVE  PositionOf(n) \in SequentialPosition
<1> DEFINE w == SegmentLength * Lanes
<1>1. w \in Nat \ {0} /\ w * SyncPoints \in Nat \ {0}
  BY Sizes, LaneIs, SMT DEF SyncPoints
<1>2. n \div (w * SyncPoints) \in Nat /\ n \div w \in Nat /\ n \div SegmentLength \in Nat
  <2> HIDE DEF w
  <2> QED BY <1>1, Sizes, Quotient
<1> HIDE DEF w
<1>3. /\ (n \div w) % SyncPoints \in 0 .. 3
      /\ (n \div SegmentLength) % Lanes \in Lane
      /\ n % SegmentLength \in 0 .. SegmentLength - 1
  <2>1. SyncPoints \in Nat \ {0} /\ SyncPoints - 1 = 3
    BY SMT DEF SyncPoints
  <2>2. (n \div w) % SyncPoints \in 0 .. SyncPoints - 1
    BY <1>2, <2>1, Remainder
  <2>3. (n \div SegmentLength) % Lanes \in 0 .. Lanes - 1
    BY <1>2, LaneIs, Remainder
  <2>4. n % SegmentLength \in 0 .. SegmentLength - 1
    BY Sizes, Remainder
  <2> QED BY <2>1, <2>2, <2>3, <2>4 DEF Lane
<1> QED BY <1>2, <1>3 DEF PositionOf, SequentialPosition, w

FirstMatrix == [c \in Cell |-> IF c[2] < 2 THEN FirstBlock(seed, c[1], c[2]) ELSE 0]
StepAt(m, n) == IF Visited(PositionOf(n - 1)) THEN NextMatrix(m, PositionOf(n - 1)) ELSE m

LEMMA FirstIs ==
  ASSUME seed \in Block
  PROVE  FirstMatrix \in MatrixType
<1> SUFFICES ASSUME NEW c \in Cell
    PROVE  FirstBlock(seed, c[1], c[2]) \in Block /\ 0 \in Block
  BY DEF FirstMatrix, MatrixType
<1> DEFINE n == seed + 7 * c[1] + 11 * c[2]
<1>1. seed \in Nat /\ c[1] \in Nat /\ c[2] \in Nat
  BY Sizes, LaneIs DEF Block, Cell, Lane, Index
<1>2. n \in Nat /\ 0 \in Block
  BY <1>1, Sizes, SMT DEF Block
<1> HIDE DEF n
<1> QED BY <1>2, WordOf DEF FirstBlock, n

LEMMA StepIs ==
  ASSUME NEW m \in MatrixType, NEW n \in Nat, n > 0
  PROVE  StepAt(m, n) \in MatrixType
<1>1. n - 1 \in Nat
  BY SMT
<1>2. PositionOf(n - 1) \in SequentialPosition
  BY <1>1, PositionOfIs
<1> QED BY <1>2, NextMatrixIs DEF StepAt, MatrixType

LEMMA TotalIs == TotalBlocks \in Nat
BY Sizes, LaneIs, SMT DEF TotalBlocks

\* The recursion defines a matrix for every number of blocks.
LEMMA MatrixIs ==
  ASSUME seed \in Block
  PROVE  /\ \A n \in 0 .. TotalBlocks : Matrix[n] \in MatrixType
         /\ Matrix[0] = FirstMatrix
         /\ \A n \in 1 .. TotalBlocks : Matrix[n] = StepAt(Matrix[n - 1], n)
<1> DEFINE step == [x \in (1 .. TotalBlocks) \X MatrixType |-> StepAt(x[2], x[1])]
           body(g) == [n \in 0 .. TotalBlocks |-> IF n = 0 THEN FirstMatrix ELSE StepAt(g[n - 1], n)]
<1>1. step \in [(1 .. TotalBlocks) \X MatrixType -> MatrixType]
  <2>1. ASSUME NEW x \in (1 .. TotalBlocks) \X MatrixType
        PROVE  StepAt(x[2], x[1]) \in MatrixType
    <3>1. x[1] \in Nat /\ x[1] > 0 /\ x[2] \in MatrixType
      BY TotalIs
    <3> QED BY <3>1, StepIs
  <2> QED BY <2>1
<1>2. \E g : Iterates(g, TotalBlocks, MatrixType, FirstMatrix, step)
  BY <1>1, TotalIs, FirstIs, IterationExists
<1>3. PICK g : Iterates(g, TotalBlocks, MatrixType, FirstMatrix, step)
  BY <1>2
<1>4. g = body(g)
  <2>1. ASSUME NEW n \in 0 .. TotalBlocks
        PROVE  g[n] = IF n = 0 THEN FirstMatrix ELSE StepAt(g[n - 1], n)
    <3>1. CASE n = 0
      BY <1>3, <3>1 DEF Iterates
    <3>2. CASE n # 0
      <4>1. n \in 1 .. TotalBlocks /\ n - 1 \in 0 .. TotalBlocks
        BY <3>2, TotalIs, SMT
      <4>2. g[n - 1] \in MatrixType /\ g[n] = step[<<n, g[n - 1]>>]
        BY <1>3, <4>1 DEF Iterates
      <4>3. <<n, g[n - 1]>> \in (1 .. TotalBlocks) \X MatrixType
        BY <4>1, <4>2
      <4>4. step[<<n, g[n - 1]>>] = StepAt(g[n - 1], n)
        BY <4>3
      <4> QED BY <3>2, <4>2, <4>4
    <3> QED BY <3>1, <3>2
  <2> QED BY <1>3, <2>1 DEF Iterates
<1>5. Matrix = CHOOSE f : f = body(f)
  BY DEF Matrix, FirstMatrix, StepAt
<1>6. Matrix = body(Matrix)
  <2> HIDE DEF body
  <2> QED BY <1>4, <1>5
<1>7. /\ Matrix[0] = FirstMatrix
      /\ \A n \in 1 .. TotalBlocks : Matrix[n] = StepAt(Matrix[n - 1], n)
  <2>1. ASSUME NEW n \in 0 .. TotalBlocks
        PROVE  Matrix[n] = IF n = 0 THEN FirstMatrix ELSE StepAt(Matrix[n - 1], n)
    BY <1>6
  <2>2. 0 \in 0 .. TotalBlocks /\ \A n \in 1 .. TotalBlocks : n # 0 /\ n \in 0 .. TotalBlocks
    BY TotalIs, SMT
  <2> QED BY <2>1, <2>2
<1> DEFINE S == {n \in 0 .. TotalBlocks : Matrix[n] \in MatrixType}
<1>8. 0 \in S
  BY <1>7, TotalIs, FirstIs
<1>9. ASSUME NEW n \in 0 .. TotalBlocks - 1, n \in S
      PROVE  n + 1 \in S
  <2>1. n + 1 \in 1 .. TotalBlocks /\ n + 1 \in 0 .. TotalBlocks /\ n + 1 - 1 = n
        /\ n + 1 \in Nat /\ n + 1 > 0
    BY TotalIs, SMT
  <2>2. Matrix[n + 1] = StepAt(Matrix[n], n + 1)
    BY <1>7, <2>1
  <2> QED BY <1>9, <2>1, <2>2, StepIs
<1>10. 0 .. TotalBlocks \subseteq S
  <2> HIDE DEF S
  <2> QED BY <1>8, <1>9, TotalIs, BoundedInduction
<1> QED BY <1>7, <1>10

-----------------------------------------------------------------------------
(* What a step leaves as it is *)

LEMMA StepStays ==
  ASSUME UNCHANGED hashed
  PROVE  /\ \A m, n : StepAt(m, n)' = StepAt(m, n)
         /\ FirstMatrix' = FirstMatrix
         /\ \A p, s : DataIndependent(p, s)' = DataIndependent(p, s)
         /\ \A p : WithXor(p)' = WithXor(p)
<1>1. algorithm' = algorithm /\ version' = version /\ seed' = seed
  BY DEF hashed
<1>2. \A p, s : DataIndependent(p, s)' = DataIndependent(p, s)
  BY <1>1 DEF DataIndependent
<1>3. \A p : WithXor(p)' = WithXor(p)
  BY <1>1 DEF WithXor
<1>4. FirstMatrix' = FirstMatrix
  BY <1>1 DEF FirstMatrix
<1>5. ASSUME NEW m, NEW n PROVE StepAt(m, n)' = StepAt(m, n)
  BY <1>2, <1>3 DEF StepAt, NextMatrix
<1> QED BY <1>2, <1>3, <1>4, <1>5

\* The sequential matrix is one of the inputs of the hash, which no step changes.
LEMMA MatrixStays ==
  ASSUME UNCHANGED hashed, seed \in Block
  PROVE  \A n \in 0 .. TotalBlocks : Matrix'[n] = Matrix[n]
<1>1. (seed \in Block => /\ \A n \in 0 .. TotalBlocks : Matrix[n] \in MatrixType
                         /\ Matrix[0] = FirstMatrix
                         /\ \A n \in 1 .. TotalBlocks : Matrix[n] = StepAt(Matrix[n - 1], n))'
  BY MatrixIs, PTL
<1>2. seed' \in Block
  BY DEF hashed
<1>3. Block' = Block
  BY DEF Block
<1>4. /\ Matrix'[0] = FirstMatrix'
      /\ \A n \in 1 .. TotalBlocks : Matrix'[n] = StepAt(Matrix[n - 1], n)'
  BY <1>1, <1>2
<1> DEFINE S == {n \in 0 .. TotalBlocks : Matrix'[n] = Matrix[n]}
<1>5. 0 \in S
  BY <1>4, StepStays, MatrixIs, TotalIs
<1>6. ASSUME NEW n \in 0 .. TotalBlocks - 1, n \in S
      PROVE  n + 1 \in S
  <2>1. n + 1 \in 1 .. TotalBlocks /\ n + 1 \in 0 .. TotalBlocks /\ n + 1 - 1 = n
    BY TotalIs, SMT
  <2>2. Matrix'[n + 1] = StepAt(Matrix[n], n + 1)'
    BY <1>4, <2>1
  <2>3. Matrix[n + 1] = StepAt(Matrix[n], n + 1)
    BY <2>1, MatrixIs
  <2>4. StepAt(Matrix[n], n + 1)' = StepAt(Matrix'[n], n + 1)
    BY StepStays
  <2>5. Matrix'[n] = Matrix[n]
    BY <1>6
  <2> QED BY <2>1, <2>2, <2>3, <2>4, <2>5
<1>7. 0 .. TotalBlocks \subseteq S
  <2> HIDE DEF S
  <2> QED BY <1>5, <1>6, TotalIs, BoundedInduction
<1> QED BY <1>7

-----------------------------------------------------------------------------
(* The blocks of a slice *)

\* How many blocks a slice has, and how many are visited before one.
Width == SegmentLength * Lanes
Base(p, s) == (SyncPoints * p + s) * Width

LEMMA SegmentIs ==
  ASSUME NEW l \in Lane
  PROVE  /\ Width \in Nat \ {0} /\ l \in Nat
         /\ l * SegmentLength \in Nat /\ l * SegmentLength + SegmentLength <= Width
         /\ \A k \in Lane : /\ k < l => k * SegmentLength + SegmentLength <= l * SegmentLength
                            /\ l < k => l * SegmentLength + SegmentLength <= k * SegmentLength
<1> USE Sizes, LaneIs
<1>1. Width \in Nat \ {0} /\ l \in Nat /\ l < Lanes
  BY SMT DEF Width, Lane
<1>2. ASSUME NEW a \in Nat, NEW b \in Nat, a < b
      PROVE  a * SegmentLength \in Nat /\ a * SegmentLength + SegmentLength <= b * SegmentLength
  <2>1. (b - a - 1) * SegmentLength \in Nat
    BY <1>2, SMT
  <2>2. (b - a - 1) * SegmentLength = b * SegmentLength - a * SegmentLength - SegmentLength
    BY <1>2, SMT
  <2>3. a * SegmentLength \in Nat /\ b * SegmentLength \in Nat
    BY SMT
  <2> QED BY <2>1, <2>2, <2>3, SMT
<1>3. Lanes * SegmentLength = Width
  BY SMT DEF Width
<1>4. l * SegmentLength \in Nat /\ l * SegmentLength + SegmentLength <= Width
  BY <1>1, <1>2, <1>3
<1>5. \A k \in Lane : k \in Nat
  BY DEF Lane
<1> QED BY <1>1, <1>2, <1>4, <1>5

LEMMA BaseIs ==
  ASSUME NEW p \in Nat, NEW s \in 0 .. 3
  PROVE  /\ Base(p, s) \in Nat
         /\ p < Passes => Base(p, s) + Width <= TotalBlocks
         /\ Base(0, 0) = 0
         /\ s = 3 => Base(p + 1, 0) = Base(p, s) + Width
         /\ s # 3 => Base(p, s + 1) = Base(p, s) + Width
         /\ Base(Passes, 0) = TotalBlocks
<1> DEFINE q == SyncPoints * p + s
<1>1. Width \in Nat
  BY Sizes, LaneIs, SMT DEF Width
<1>2. Base(p, s) = q * Width /\ q \in Nat /\ s \in Nat /\ Passes \in Nat /\ SyncPoints = 4
  BY LaneIs, SMT DEF Base, SyncPoints
<1>3. Base(Passes, 0) = (SyncPoints * Passes) * Width /\ Base(0, 0) = 0 * Width
  <2>1. SyncPoints * Passes + 0 = SyncPoints * Passes /\ SyncPoints * 0 + 0 = 0
    BY <1>2, SMT
  <2> QED BY <2>1 DEF Base
<1>4. TotalBlocks = (SyncPoints * Passes) * Width
  BY <1>2, Sizes, LaneIs, SMT DEF TotalBlocks, LaneLength, Width
<1>5. p < Passes => Base(p, s) + Width <= TotalBlocks
  <2> SUFFICES ASSUME p < Passes PROVE Base(p, s) + Width <= TotalBlocks
    OBVIOUS
  <2> DEFINE r == SyncPoints * Passes
  <2>1. r - q - 1 \in Nat /\ r \in Nat
    BY <1>2, SMT
  <2> HIDE DEF q, r
  <2>2. (r - q - 1) * Width \in Nat /\ (r - q - 1) * Width = r * Width - q * Width - Width
        /\ r * Width \in Nat /\ q * Width \in Nat
    BY <1>1, <1>2, <2>1, SMT
  <2>3. TotalBlocks = r * Width
    BY <1>4 DEF r
  <2> QED BY <1>1, <1>2, <2>2, <2>3, SMT
<1>6. (q + 1) * Width = q * Width + Width /\ q * Width \in Nat /\ 0 * Width = 0
  <2> HIDE DEF q
  <2> QED BY <1>1, <1>2, SMT
<1>7. /\ s = 3 => Base(p + 1, 0) = (q + 1) * Width
      /\ s # 3 => Base(p, s + 1) = (q + 1) * Width
  <2>1. /\ s = 3 => SyncPoints * (p + 1) + 0 = q + 1
        /\ SyncPoints * p + (s + 1) = q + 1
    BY <1>2, SMT
  <2> HIDE DEF q
  <2> QED BY <2>1 DEF Base
<1> QED BY <1>2, <1>3, <1>4, <1>5, <1>6, <1>7

\* The number of a block determines its place.
LEMMA PositionAt ==
  ASSUME NEW p \in Nat, NEW s \in 0 .. 3, NEW l \in Lane, NEW i \in 0 .. SegmentLength - 1
  PROVE  PositionOf(Base(p, s) + (l * SegmentLength + i)) =
           [pass |-> p, slice |-> s, lane |-> l, index |-> i]
<1> DEFINE q == SyncPoints * p + s
           o == l * SegmentLength + i
           n == Base(p, s) + o
           a == q * Lanes + l
<1>1. /\ SegmentLength \in Nat \ {0} /\ Lanes \in Nat \ {0} /\ l \in 0 .. Lanes - 1
      /\ i \in Nat /\ i < SegmentLength /\ q \in Nat /\ s \in Nat /\ SyncPoints = 4
  BY Sizes, LaneIs, SMT DEF Lane, SyncPoints
<1>2. /\ Width \in Nat \ {0} /\ l * SegmentLength \in Nat
      /\ l * SegmentLength + SegmentLength <= Width
  BY SegmentIs
<1>3. o \in 0 .. Width - 1
  <2> DEFINE b == l * SegmentLength
  <2> HIDE DEF b
  <2>1. b + i \in 0 .. Width - 1
    BY <1>1, <1>2, SMT DEF b
  <2> QED BY <2>1 DEF b
<1>4. Base(p, s) = q * Width
  BY DEF Base
<1>5. n \div Width = q
  <2> HIDE DEF q, o
  <2> QED BY <1>1, <1>2, <1>3, <1>4, QuotientIs
<1>6. n \div SegmentLength = a /\ n % SegmentLength = i
  <2>1. n = a * SegmentLength + i /\ a \in Nat
    <3>1. q * (SegmentLength * Lanes) = (q * Lanes) * SegmentLength
      <4> HIDE DEF q
      <4> QED BY <1>1, SMT
    <3>2. (q * Lanes) * SegmentLength + (l * SegmentLength + i) = (q * Lanes + l) * SegmentLength + i
      <4> DEFINE d == q * Lanes
      <4>1. d \in Nat
        <5> HIDE DEF q
        <5> QED BY <1>1, SMT
      <4> HIDE DEF d
      <4>2. d * SegmentLength + (l * SegmentLength + i) = (d + l) * SegmentLength + i
        BY <1>1, <4>1, SMT
      <4> QED BY <4>2 DEF d
    <3>3. a \in Nat
      <4> HIDE DEF q
      <4> QED BY <1>1, SMT
    <3> QED BY <1>4, <3>1, <3>2, <3>3 DEF Width
  <2>2. i \in 0 .. SegmentLength - 1
    OBVIOUS
  <2> HIDE DEF n, a
  <2> QED BY <1>1, <2>1, <2>2, QuotientIs
<1>7. a % Lanes = l
  <2>1. a \in Nat
    <3> HIDE DEF q
    <3> QED BY <1>1, SMT
  <2> HIDE DEF q
  <2> QED BY <1>1, QuotientIs
<1>8. q % SyncPoints = s
  <2>1. q = p * SyncPoints + s /\ s \in 0 .. SyncPoints - 1
    BY <1>1, SMT
  <2> HIDE DEF q
  <2> QED BY <1>1, <2>1, QuotientIs
<1>9. n \div (SegmentLength * Lanes * SyncPoints) = p
  <2> DEFINE w == Width * SyncPoints
             r == s * Width + o
  <2>1. w \in Nat \ {0} /\ r \in 0 .. w - 1
    <3> HIDE DEF o
    <3>1. CASE s = 0
      BY <1>1, <1>2, <1>3, <3>1, SMT
    <3>2. CASE s = 1
      BY <1>1, <1>2, <1>3, <3>2, SMT
    <3>3. CASE s = 2
      BY <1>1, <1>2, <1>3, <3>3, SMT
    <3>4. CASE s = 3
      BY <1>1, <1>2, <1>3, <3>4, SMT
    <3> QED BY <3>1, <3>2, <3>3, <3>4, SMT
  <2>2. n = p * w + r
    <3> HIDE DEF o
    <3>1. q * Width = p * w + s * Width
      BY <1>1, <1>2, SMT
    <3>2. p * w \in Nat /\ s * Width \in Nat /\ o \in Nat
      BY <1>1, <1>2, <1>3, SMT
    <3> HIDE DEF w, q
    <3>3. p * w + s * Width + o = p * w + (s * Width + o)
      BY <3>2, SMT
    <3> QED BY <1>4, <3>1, <3>3
  <2> HIDE DEF n, w, r
  <2>3. n \div w = p
    BY <2>1, <2>2, QuotientIs
  <2> QED BY <2>3 DEF w, Width
<1> HIDE DEF n, a, q
<1>10. PositionOf(n) = [pass |-> p, slice |-> s, lane |-> l, index |-> i]
  BY <1>5, <1>6, <1>7, <1>8, <1>9 DEF PositionOf, Width
<1> QED BY <1>10 DEF n

\* The matrix before block o of a slice.
During(p, s, o) == Matrix[Base(p, s) + o]

\* Block i of the segment of lane l in a slice is the next one to be visited.
NextAt(p, s, l, i) ==
  LET pos == [pass |-> p, slice |-> s, lane |-> l, index |-> i]
      m   == During(p, s, l * SegmentLength + i)
  IN IF p = 0 /\ s = 0 /\ i < 2 THEN m
     ELSE [m EXCEPT ![<<l, s * SegmentLength + i>>] = SequentialBlock(m, pos)]

LEMMA DuringIs ==
  ASSUME seed \in Block, NEW p \in 0 .. Passes - 1, NEW s \in 0 .. 3
  PROVE  /\ \A o \in 0 .. Width : During(p, s, o) \in MatrixType
         /\ \A l \in Lane, i \in 0 .. SegmentLength - 1 :
              /\ l * SegmentLength + i \in 0 .. Width - 1
              /\ During(p, s, l * SegmentLength + i + 1) = NextAt(p, s, l, i)
              /\ <<l, s * SegmentLength + i>> \in Cell
              /\ \/ p = 0 /\ s = 0 /\ i < 2
                 \/ SequentialBlock(During(p, s, l * SegmentLength + i),
                                    [pass |-> p, slice |-> s, lane |-> l, index |-> i]) \in Block
<1> DEFINE b == Base(p, s)
<1>1. /\ p \in Nat /\ b \in Nat /\ Width \in Nat \ {0} /\ b + Width <= TotalBlocks
      /\ SegmentLength \in Nat
  <2>1. p \in Nat /\ p < Passes /\ 0 \in Lane
    BY LaneIs, SMT DEF Lane
  <2> QED BY <2>1, BaseIs, SegmentIs, Sizes
<1>2. ASSUME NEW o \in 0 .. Width
      PROVE  b + o \in 0 .. TotalBlocks /\ During(p, s, o) \in MatrixType
  <2>1. b + o \in 0 .. TotalBlocks
    <3> HIDE DEF b
    <3> QED BY <1>1, TotalIs, SMT
  <2> QED BY <2>1, MatrixIs DEF During
<1>3. ASSUME NEW l \in Lane, NEW i \in 0 .. SegmentLength - 1
      PROVE  /\ l * SegmentLength + i \in 0 .. Width - 1
             /\ During(p, s, l * SegmentLength + i + 1) = NextAt(p, s, l, i)
             /\ <<l, s * SegmentLength + i>> \in Cell
             /\ \/ p = 0 /\ s = 0 /\ i < 2
                \/ SequentialBlock(During(p, s, l * SegmentLength + i),
                                   [pass |-> p, slice |-> s, lane |-> l, index |-> i]) \in Block
  <2> DEFINE pos == [pass |-> p, slice |-> s, lane |-> l, index |-> i]
             o   == l * SegmentLength + i
             n   == b + o
             m   == Matrix[n]
  <2>1. o \in 0 .. Width - 1 /\ o \in 0 .. Width
    <3> DEFINE a == l * SegmentLength
    <3>1. a \in Nat /\ a + SegmentLength <= Width
      BY SegmentIs
    <3> HIDE DEF a
    <3>2. a + i \in 0 .. Width - 1 /\ a + i \in 0 .. Width
      BY <1>1, <3>1, SMT
    <3> QED BY <3>2 DEF a
  <2>2. PositionOf(n) = pos /\ pos \in SequentialPosition
    BY <1>1, PositionAt DEF SequentialPosition
  <2>3. n + 1 \in 1 .. TotalBlocks /\ (n + 1) - 1 = n /\ b + (o + 1) = n + 1
    <3> HIDE DEF b, o
    <3> QED BY <1>1, <2>1, TotalIs, SMT
  <2>4. Matrix[n + 1] = StepAt(m, n + 1) /\ m \in MatrixType /\ m = During(p, s, o)
    BY <2>1, <2>3, <1>2, MatrixIs DEF During
  <2>5. During(p, s, o + 1) = IF Visited(pos) THEN NextMatrix(m, pos) ELSE m
    <3>1. During(p, s, o + 1) = Matrix[n + 1]
      BY <2>3 DEF During
    <3>2. StepAt(m, n + 1) = IF Visited(pos) THEN NextMatrix(m, pos) ELSE m
      BY <2>2, <2>3 DEF StepAt
    <3> QED BY <2>4, <3>1, <3>2
  <2>6. Visited(pos) <=> ~ (p = 0 /\ s = 0 /\ i < 2)
    <3>1. i >= 2 <=> ~ (i < 2)
      BY <1>1, SMT
    <3> QED BY <3>1 DEF Visited
  <2>7. pos.lane = l /\ CurrIndex(pos) = s * SegmentLength + i
    BY DEF CurrIndex
  <2>8. <<l, s * SegmentLength + i>> \in Cell
    <3>1. CurrIndex(InLane(pos)) \in Index
      BY <2>2, InLaneIs, OffsetsAre
    <3>2. CurrIndex(pos) \in Index
      BY <2>2, <3>1, InLaneIs
    <3> QED BY <2>7, <3>2 DEF Cell
  <2>9. Visited(pos) => /\ NextMatrix(m, pos) =
                            [m EXCEPT ![<<l, s * SegmentLength + i>>] = SequentialBlock(m, pos)]
                        /\ SequentialBlock(m, pos) \in Block
    <3> HIDE DEF pos, m
    <3> QED BY <2>2, <2>4, <2>7, NextMatrixIs
  <2> HIDE DEF m, pos
  <2>10. During(p, s, o + 1) = NextAt(p, s, l, i)
    BY <2>4, <2>5, <2>6, <2>9 DEF NextAt, pos
  <2> QED BY <2>1, <2>4, <2>6, <2>8, <2>9, <2>10 DEF pos
<1> QED BY <1>2, <1>3

\* A cell keeps its block while no block that is visited is in it.
LEMMA CellRests ==
  ASSUME seed \in Block, NEW p \in 0 .. Passes - 1, NEW s \in 0 .. 3,
         NEW lo \in 0 .. Width, NEW hi \in 0 .. Width, lo <= hi, NEW c \in Cell,
         \A l \in Lane, i \in 0 .. SegmentLength - 1 :
           /\ lo <= l * SegmentLength + i
           /\ l * SegmentLength + i < hi
           /\ ~ (p = 0 /\ s = 0 /\ i < 2)
           => c # <<l, s * SegmentLength + i>>
  PROVE  During(p, s, hi)[c] = During(p, s, lo)[c]
<1> DEFINE N == hi - lo
           S == {k \in 0 .. N : During(p, s, lo + k)[c] = During(p, s, lo)[c]}
<1>0. Width \in Nat \ {0} /\ SegmentLength \in Nat \ {0} /\ Lanes \in Nat \ {0}
  <2>1. 0 \in Lane
    BY LaneIs, SMT DEF Lane
  <2> QED BY <2>1, SegmentIs, Sizes, LaneIs, SMT
<1>1. N \in Nat /\ lo + N = hi /\ lo + 0 = lo /\ lo \in Nat
  BY <1>0, SMT
<1>2. 0 \in S
  BY <1>1
<1>3. ASSUME NEW k \in 0 .. N - 1, k \in S
      PROVE  k + 1 \in S
  <2> DEFINE o == lo + k
             l == o \div SegmentLength
             i == o % SegmentLength
  <2>1. o \in Nat /\ lo <= o /\ o < hi /\ o < Width /\ lo + (k + 1) = o + 1 /\ k + 1 \in 0 .. N
    BY <1>0, <1>1, SMT
  <2>2. l \in Nat /\ i \in 0 .. SegmentLength - 1 /\ o = l * SegmentLength + i
    <3> HIDE DEF o
    <3> QED BY <1>0, <2>1, DivisionOf
  <2> HIDE DEF o, l, i
  <2>3. l \in Lane
    <3> SUFFICES ASSUME ~ (l < Lanes) PROVE FALSE
      BY <1>0, <2>2, SMT DEF Lane
    <3>1. (l - Lanes) * SegmentLength \in Nat
      BY <1>0, <2>2, SMT
    <3>2. (l - Lanes) * SegmentLength = l * SegmentLength - Width
      BY <1>0, <2>2, SMT DEF Width
    <3>3. l * SegmentLength \in Nat
      BY <1>0, <2>2, SMT
    <3> QED BY <1>0, <2>1, <2>2, <3>1, <3>2, <3>3, SMT
  <2>4. /\ During(p, s, o + 1) = NextAt(p, s, l, i)
        /\ During(p, s, o) \in MatrixType
        /\ <<l, s * SegmentLength + i>> \in Cell
    <3>1. o \in 0 .. Width
      BY <1>0, <2>1, SMT
    <3> QED BY <2>2, <2>3, <3>1, DuringIs
  <2>5. During(p, s, o + 1)[c] = During(p, s, o)[c]
    <3>1. CASE p = 0 /\ s = 0 /\ i < 2
      BY <2>2, <2>4, <3>1 DEF NextAt
    <3>2. CASE ~ (p = 0 /\ s = 0 /\ i < 2)
      <4>1. c # <<l, s * SegmentLength + i>>
        BY <2>1, <2>2, <2>3, <3>2
      <4>2. During(p, s, o + 1) =
              [During(p, s, o) EXCEPT ![<<l, s * SegmentLength + i>>] =
                 SequentialBlock(During(p, s, o), [pass |-> p, slice |-> s, lane |-> l, index |-> i])]
        BY <2>2, <2>4, <3>2 DEF NextAt
      <4> QED BY <2>4, <4>1, <4>2 DEF MatrixType
    <3> QED BY <3>1, <3>2
  <2> QED BY <1>3, <2>1, <2>5 DEF o
<1>4. 0 .. N \subseteq S
  <2> HIDE DEF S, N
  <2> QED BY <1>1, <1>2, <1>3, BoundedInduction
<1>5. N \in S
  <2> HIDE DEF S
  <2> QED BY <1>1, <1>4, SMT
<1> QED BY <1>1, <1>5

-----------------------------------------------------------------------------
(* The blocks that rest while others are visited *)

\* A block that is not in the slice stays.
LEMMA OutsideRests ==
  ASSUME seed \in Block, NEW p \in 0 .. Passes - 1, NEW s \in 0 .. 3,
         NEW a \in 0 .. Width, NEW b \in 0 .. Width, NEW c \in Cell, ~InSlice(c[2], s)
  PROVE  During(p, s, a)[c] = During(p, s, b)[c]
<1>1. ASSUME NEW l \in Lane, NEW i \in 0 .. SegmentLength - 1
      PROVE  c # <<l, s * SegmentLength + i>>
  <2> SUFFICES InSlice(s * SegmentLength + i, s)
    BY DEF Cell
  <2>1. /\ s * SegmentLength \in Nat
        /\ (s + 1) * SegmentLength = s * SegmentLength + SegmentLength
        /\ i \in Nat /\ i < SegmentLength /\ SegmentLength \in Nat
    BY Sizes, SMT
  <2> DEFINE x == s * SegmentLength
  <2> HIDE DEF x
  <2>2. x <= x + i /\ x + i < x + SegmentLength
    BY <2>1, SMT DEF x
  <2> QED BY <2>1, <2>2 DEF InSlice, x
<1>2. CASE a <= b
  BY <1>1, <1>2, CellRests
<1>3. CASE b <= a
  BY <1>1, <1>3, CellRests
<1>4. a <= b \/ b <= a
  <2>1. 0 \in Lane
    BY LaneIs, SMT DEF Lane
  <2> QED BY <2>1, SegmentIs, SMT
<1> QED BY <1>2, <1>3, <1>4

\* Lanes are visited one after the other: a lane stays while those before it and
\* those after it are.
LEMMA LaneRests ==
  ASSUME seed \in Block, NEW p \in 0 .. Passes - 1, NEW s \in 0 .. 3, NEW l \in Lane,
         NEW j \in Index
  PROVE  /\ l * SegmentLength \in 0 .. Width
         /\ l * SegmentLength + SegmentLength \in 0 .. Width
         /\ Width \in 0 .. Width /\ 0 \in 0 .. Width
         /\ During(p, s, l * SegmentLength)[<<l, j>>] = During(p, s, 0)[<<l, j>>]
         /\ During(p, s, Width)[<<l, j>>] =
              During(p, s, l * SegmentLength + SegmentLength)[<<l, j>>]
<1> DEFINE a == l * SegmentLength
<1>1. /\ Width \in Nat \ {0} /\ a \in Nat /\ a + SegmentLength <= Width /\ SegmentLength \in Nat
  BY SegmentIs, Sizes
<1>2. /\ a \in 0 .. Width /\ a + SegmentLength \in 0 .. Width /\ Width \in 0 .. Width
      /\ 0 \in 0 .. Width /\ 0 <= a /\ a + SegmentLength <= Width
  <2> HIDE DEF a
  <2> QED BY <1>1, SMT
<1>3. <<l, j>> \in Cell
  BY DEF Cell
<1>4. ASSUME NEW k \in Lane, NEW i \in 0 .. SegmentLength - 1,
             k * SegmentLength + i < a \/ a + SegmentLength <= k * SegmentLength + i
      PROVE  k # l
  <2> SUFFICES ASSUME k = l PROVE FALSE
    OBVIOUS
  <2>1. a + i < a \/ a + SegmentLength <= a + i
    BY <1>4
  <2> HIDE DEF a
  <2> QED BY <1>1, <2>1, SMT
<1>5. \A k \in Lane, i \in 0 .. SegmentLength - 1 :
        k # l => <<l, j>> # <<k, s * SegmentLength + i>>
  OBVIOUS
<1>6. During(p, s, a)[<<l, j>>] = During(p, s, 0)[<<l, j>>]
  <2> HIDE DEF a
  <2> QED BY <1>2, <1>3, <1>4, <1>5, CellRests
<1>7. During(p, s, Width)[<<l, j>>] = During(p, s, a + SegmentLength)[<<l, j>>]
  <2> HIDE DEF a
  <2> QED BY <1>2, <1>3, <1>4, <1>5, CellRests
<1> QED BY <1>2, <1>6, <1>7

\* The blocks of fill_first_blocks stay during the first slice.
LEMMA FirstBlocksRest ==
  ASSUME seed \in Block, NEW l \in Lane, NEW j \in Index, j < 2
  PROVE  During(0, 0, l * SegmentLength + 2)[<<l, j>>] = FirstBlock(seed, l, j)
<1> DEFINE a == l * SegmentLength
<1>1. /\ Width \in Nat \ {0} /\ a \in Nat /\ a + SegmentLength <= Width /\ SegmentLength \in Nat
      /\ SegmentLength >= 2 /\ 0 \in 0 .. Passes - 1 /\ 0 \in 0 .. 3
  BY SegmentIs, Sizes, LaneIs, SMT
<1>2. a + 2 \in 0 .. Width /\ 0 \in 0 .. Width /\ 0 <= a + 2
  <2> HIDE DEF a
  <2> QED BY <1>1, SMT
<1>3. <<l, j>> \in Cell
  BY DEF Cell
<1>4. ASSUME NEW k \in Lane, NEW i \in 0 .. SegmentLength - 1, ~ (i < 2)
      PROVE  <<l, j>> # <<k, 0 * SegmentLength + i>>
  <2>1. 0 * SegmentLength + i = i
    BY <1>1, SMT
  <2> QED BY <1>4, <2>1
<1>5. During(0, 0, a + 2)[<<l, j>>] = During(0, 0, 0)[<<l, j>>]
  <2> HIDE DEF a
  <2> QED BY <1>1, <1>2, <1>3, <1>4, CellRests
<1>6. During(0, 0, 0) = FirstMatrix
  <2>1. Base(0, 0) = 0 /\ 0 + 0 = 0
    BY <1>1, BaseIs, SMT
  <2> QED BY <2>1, MatrixIs DEF During
<1>7. FirstMatrix[<<l, j>>] = FirstBlock(seed, l, j)
  BY <1>3 DEF FirstMatrix
<1> QED BY <1>5, <1>6, <1>7

-----------------------------------------------------------------------------
(* The fill follows the sequential one *)

\* fill_segment has called next_addresses for every block of addresses begun.
AddressesFollow(l) ==
  DataIndependent(pass, slice) =>
    addresses[l] = IF index[l] % AddressesInBlock = 0 THEN index[l] \div AddressesInBlock
                   ELSE index[l] \div AddressesInBlock + 1

\* In the first pass a lane holds blocks up to the current one, later it is full.
Settled(l, i) == pass # 0 \/ i < slice * SegmentLength + index[l]

\* What a lane holds is what the sequential fill has in it when it is there.
LaneFollows(l) ==
  \A i \in Index : Settled(l, i) =>
    memory[<<l, i>>] = During(pass, slice, l * SegmentLength + index[l])[<<l, i>>]

FollowsSequential ==
  /\ phase \in {"first", "fill"} =>
       pass < Passes /\ \A l \in Lane : index[l] <= SegmentLength /\ AddressesFollow(l)
  /\ phase = "fill" => \A l \in Lane : LaneFollows(l)
  /\ phase = "finalize" => memory = SequentialMatrix
  /\ phase = "done" => memory = SequentialMatrix /\ tag = LastBlocks(memory)

\* Slot 0 of a block of addresses is where it is generated.
LEMMA CallsAre ==
  ASSUME FillInvariant, NEW l \in Lane, AddressesFollow(l), DataIndependent(pass, slice)
  PROVE  CallsAt(l) = index[l] \div AddressesInBlock + 1
BY DEF CallsAt, AddressesFollow

\* A lane that is being filled.
LEMMA LaneIsAt ==
  ASSUME FillInvariant, FollowsSequential, NEW l \in Lane, Active(l)
  PROVE  /\ seed \in Block /\ pass \in 0 .. Passes - 1 /\ slice \in 0 .. 3
         /\ index[l] \in 0 .. SegmentLength - 1
         /\ l * SegmentLength + index[l] \in 0 .. Width
         /\ pass = 0 /\ slice = 0 => index[l] >= 2
         /\ CurrIndex(At(l)) = slice * SegmentLength + index[l]
<1>1. /\ seed \in Block /\ slice \in 0 .. 3 /\ pass \in Nat /\ index[l] \in Nat
      /\ index[l] < SegmentLength /\ pass < Passes
      /\ pass = 0 /\ slice = 0 => index[l] >= 2
  BY DEF FillInvariant, FillTypes, SegmentsBegun, Active, FollowsSequential
<1>2. pass \in 0 .. Passes - 1 /\ index[l] \in 0 .. SegmentLength - 1
  BY <1>1, Sizes, LaneIs, SMT
<1>3. l * SegmentLength + index[l] \in 0 .. Width - 1
  BY <1>1, <1>2, DuringIs
<1>4. l * SegmentLength + index[l] \in 0 .. Width
  BY <1>3, SegmentIs, SMT
<1> QED BY <1>1, <1>2, <1>4 DEF CurrIndex, At

\* What the lane computes is what the sequential fill computes there.
LEMMA NewBlockFollows ==
  ASSUME FillInvariant, FollowsSequential, NEW l \in Lane, Active(l)
  PROVE  NewBlock(l) =
           SequentialBlock(During(pass, slice, l * SegmentLength + index[l]),
                           [pass |-> pass, slice |-> slice, lane |-> l, index |-> index[l]])
<1> DEFINE pos  == [pass |-> pass, slice |-> slice, lane |-> l, index |-> index[l]]
           o    == l * SegmentLength + index[l]
           m    == During(pass, slice, o)
           curr == CurrIndex(At(l))
           prev == PrevIndex(At(l))
<1>1. /\ seed \in Block /\ pass \in 0 .. Passes - 1 /\ slice \in 0 .. 3
      /\ index[l] \in 0 .. SegmentLength - 1 /\ o \in 0 .. Width
      /\ pass = 0 /\ slice = 0 => index[l] >= 2
      /\ curr = slice * SegmentLength + index[l]
  BY LaneIsAt
<1>2. /\ At(l) = InLane(pos) /\ PrevIndex(pos) = prev /\ CurrIndex(pos) = curr
      /\ pos \in SequentialPosition
  BY <1>1 DEF At, InLane, SequentialPosition, PrevIndex, CurrIndex
<1>3. /\ Rotated(l) = prev /\ prev \in Index /\ RefLane(l) \in Lane
      /\ RefCell(l)[1] = RefLane(l)
      /\ RefCell(l)[2] \in ReferenceWindow(At(l), RefLane(l) = l)
      /\ RefCell(l) \in Cell /\ At(l) \in Position
  BY ReadsOf
<1>4. /\ curr \in Index
      /\ curr = 0 => prev = LaneLength - 1
      /\ curr # 0 => prev = curr - 1
  BY <1>3, OffsetsAre
<1>5. LaneFollows(l) /\ phase = "fill"
  BY DEF FollowsSequential, Active
<1> HIDE DEF pos, m
<1>6. memory[<<l, prev>>] = m[<<l, prev>>]
  <2>1. pass = 0 => prev < curr
    <3> SUFFICES ASSUME pass = 0 PROVE prev < curr
      OBVIOUS
    <3>1. curr # 0
      <4>1. slice * SegmentLength \in Nat /\ (slice # 0 => slice * SegmentLength >= SegmentLength)
        BY <1>1, Sizes, SMT
      <4> DEFINE x == slice * SegmentLength
      <4> HIDE DEF x, curr
      <4> QED BY <1>1, <4>1, Sizes, SMT DEF x
    <3> HIDE DEF curr, prev
    <3> QED BY <1>4, <3>1, Sizes, SMT DEF Index
  <2>2. Settled(l, prev)
    BY <1>1, <2>1 DEF Settled
  <2> QED BY <1>3, <1>5, <2>2 DEF LaneFollows, m
<1>7. PrevBlock(l) = m[<<l, prev>>]
  BY <1>3, <1>6 DEF PrevBlock, FillInvariant, CarriedIsPrevious
<1>8. Rand(l) = SequentialRand(m, pos)
  <2>0. pos.pass = pass /\ pos.slice = slice /\ pos.lane = l /\ pos.index = index[l]
    BY DEF pos
  <2>1. CASE DataIndependent(pass, slice)
    <3>1. CallsAt(l) = index[l] \div AddressesInBlock + 1
      BY <1>5, <2>1, CallsAre DEF FollowsSequential
    <3> QED BY <2>0, <2>1, <3>1 DEF Rand, SequentialRand
  <2>2. CASE ~DataIndependent(pass, slice)
    BY <1>2, <1>3, <1>6, <2>0, <2>2 DEF Rand, SequentialRand
  <2> QED BY <2>1, <2>2
<1>9. RefLane(l) = SequentialLane(m, pos) /\ RefCell(l) = SequentialRef(m, pos)
  <2>0. pos.pass = pass /\ pos.slice = slice /\ pos.lane = l
    BY DEF pos
  <2>1. RefLane(l) = SequentialLane(m, pos)
    BY <1>8, <2>0 DEF RefLane, SequentialLane
  <2> QED BY <1>2, <1>8, <2>0, <2>1 DEF RefCell, SequentialRef
<1>10. memory[RefCell(l)] = m[RefCell(l)]
  <2> DEFINE r == RefLane(l)
             j == RefCell(l)[2]
  <2>1. r \in Lane /\ j \in Index /\ RefCell(l) = <<r, j>>
        /\ j \in Finished(At(l), r = l) /\ At(l).pass = pass /\ At(l).slice = slice
    BY <1>3 DEF ReferenceWindow, Finished, Cell, At
  <2> HIDE DEF r, j
  <2>2. \/ r = l /\ j < curr
        \/ ~InSlice(j, slice) /\ (pass = 0 => j < slice * SegmentLength)
    BY <2>1 DEF Finished
  <2>3. Settled(r, j)
    <3>1. CASE r = l /\ j < curr
      BY <1>1, <3>1 DEF Settled
    <3>2. CASE pass = 0 => j < slice * SegmentLength
      <4>1. pass = 0 => j < slice * SegmentLength + index[r]
        <5>1. index[r] \in Nat /\ slice * SegmentLength \in Nat /\ j \in Nat
          BY <1>1, <2>1, Sizes, SMT DEF FillInvariant, FillTypes, Index
        <5> DEFINE x == slice * SegmentLength
        <5> HIDE DEF x
        <5> QED BY <3>2, <5>1, SMT DEF x
      <4> QED BY <4>1 DEF Settled
    <3> QED BY <2>2, <3>1, <3>2
  <2>4. memory[<<r, j>>] = During(pass, slice, r * SegmentLength + index[r])[<<r, j>>]
    BY <1>5, <2>1, <2>3 DEF FollowsSequential, LaneFollows
  <2>5. CASE r = l
    BY <2>1, <2>4, <2>5 DEF m
  <2>6. CASE r # l
    <3>1. ~InSlice(j, slice) /\ <<r, j>> \in Cell
      BY <2>1, <2>2, <2>6 DEF Cell
    <3>2. r * SegmentLength + index[r] \in 0 .. Width
      <4>1. index[r] \in Nat /\ index[r] <= SegmentLength
        BY <1>5, <2>1 DEF FillInvariant, FillTypes, FollowsSequential
      <4> DEFINE x == r * SegmentLength
      <4>2. x \in Nat /\ x + SegmentLength <= Width /\ Width \in Nat /\ SegmentLength \in Nat
        BY <2>1, SegmentIs, Sizes
      <4> HIDE DEF x
      <4>3. x + index[r] \in 0 .. Width
        BY <4>1, <4>2, SMT
      <4> QED BY <4>3 DEF x
    <3>3. During(pass, slice, r * SegmentLength + index[r])[<<r, j>>] = m[<<r, j>>]
      BY <1>1, <3>1, <3>2, OutsideRests DEF m
    <3> QED BY <2>1, <2>4, <3>3
  <2> QED BY <2>5, <2>6
<1>11. WithXor(pass) => memory[<<l, curr>>] = m[<<l, curr>>]
  <2>1. WithXor(pass) => Settled(l, curr)
    BY DEF WithXor, Settled
  <2> QED BY <1>4, <1>5, <2>1 DEF LaneFollows, m
<1> DEFINE new == Mix(m[<<l, prev>>], m[RefCell(l)])
<1>12. NewBlock(l) = IF WithXor(pass) THEN Xor(m[<<l, curr>>], new) ELSE new
  <2>1. NewBlock(l) = IF WithXor(pass) THEN Xor(memory[<<l, curr>>], new) ELSE new
    BY <1>7, <1>10 DEF NewBlock
  <2> HIDE DEF new
  <2> QED BY <1>11, <2>1
<1>13. SequentialBlock(m, pos) = IF WithXor(pass) THEN Xor(m[<<l, curr>>], new) ELSE new
  <2>1. pos.pass = pass /\ pos.lane = l
    BY DEF pos
  <2> QED BY <1>2, <1>9, <2>1 DEF SequentialBlock
<1> QED BY <1>12, <1>13 DEF m, pos

-----------------------------------------------------------------------------
(* The loop follows the sequential nest *)

\* The sequential matrix does not change during the hash.
LEMMA DuringStays ==
  ASSUME UNCHANGED hashed, seed \in Block
  PROVE  /\ \A p \in 0 .. Passes - 1, s \in 0 .. 3, o \in 0 .. Width :
              During(p, s, o)' = During(p, s, o)
         /\ SequentialMatrix' = SequentialMatrix
         /\ SequentialMatrix = Matrix[TotalBlocks]
<1>1. ASSUME NEW p \in 0 .. Passes - 1, NEW s \in 0 .. 3, NEW o \in 0 .. Width
      PROVE  During(p, s, o)' = During(p, s, o)
  <2>1. Base(p, s) + o \in 0 .. TotalBlocks
    <3>1. p \in Nat /\ p < Passes /\ 0 \in Lane
      BY LaneIs, SMT DEF Lane
    <3>2. Base(p, s) \in Nat /\ Base(p, s) + Width <= TotalBlocks /\ Width \in Nat
      BY <3>1, BaseIs, SegmentIs
    <3> QED BY <3>2, TotalIs, SMT
  <2> QED BY <2>1, MatrixStays DEF During, Base, Width, SyncPoints
<1>2. TotalBlocks \in 0 .. TotalBlocks
  BY TotalIs, SMT
<1> QED BY <1>1, <1>2, MatrixStays DEF SequentialMatrix, TotalBlocks, LaneLength, SyncPoints

LEMMA DuringNext ==
  ASSUME UNCHANGED hashed, UNCHANGED <<pass, slice>>, seed \in Block,
         pass \in 0 .. Passes - 1, slice \in 0 .. 3,
         NEW l \in Lane, NEW o \in 0 .. Width, l * SegmentLength + index'[l] = o
  PROVE  During(pass, slice, l * SegmentLength + index[l])' = During(pass, slice, o)
<1>1. Base(pass, slice) + o \in 0 .. TotalBlocks
  <2>1. pass \in Nat /\ pass < Passes
    BY LaneIs, SMT
  <2>2. /\ Base(pass, slice) \in Nat /\ Base(pass, slice) + Width <= TotalBlocks
        /\ Width \in Nat
    BY <2>1, BaseIs, SegmentIs
  <2> QED BY <2>2, TotalIs, SMT
<1>2. During(pass, slice, l * SegmentLength + index[l])' = Matrix'[Base(pass', slice') + o]
  BY DEF During, Base, Width, SyncPoints
<1>3. Base(pass', slice') = Base(pass, slice)
  OBVIOUS
<1> QED BY <1>1, <1>2, <1>3, MatrixStays DEF During

LEMMA StartAddressesFollow ==
  ASSUME NEW p \in Nat, NEW s \in 0 .. 3
  PROVE  LET i == StartIndex(p, s)
         IN  /\ i \in Nat /\ i <= SegmentLength
             /\ DataIndependent(p, s) =>
                  StartAddresses(p, s) = IF i % AddressesInBlock = 0 THEN i \div AddressesInBlock
                                         ELSE i \div AddressesInBlock + 1
<1>1. AddressesInBlock \in Nat /\ AddressesInBlock >= 2
  BY LaneIs
<1>2. 0 % AddressesInBlock = 0 /\ 0 \div AddressesInBlock = 0
  <2>1. 0 = 0 * AddressesInBlock + 0 /\ 0 \in 0 .. AddressesInBlock - 1
    BY <1>1, SMT
  <2> QED BY <1>1, <2>1, QuotientIs, SMT
<1>3. /\ AddressesInBlock = 2 => 2 % AddressesInBlock = 0 /\ 2 \div AddressesInBlock = 1
      /\ AddressesInBlock > 2 => 2 % AddressesInBlock = 2 /\ 2 \div AddressesInBlock = 0
  <2>1. AddressesInBlock \in Nat \ {0}
    BY <1>1, SMT
  <2>2. AddressesInBlock = 2 => 2 = 1 * AddressesInBlock + 0 /\ 0 \in 0 .. AddressesInBlock - 1
    BY SMT
  <2>3. AddressesInBlock > 2 => 2 = 0 * AddressesInBlock + 2 /\ 2 \in 0 .. AddressesInBlock - 1
    BY <1>1, SMT
  <2> QED BY <2>1, <2>2, <2>3, QuotientIs
<1>4. CASE p = 0 /\ s = 0
  <2>1. StartIndex(p, s) = 2 /\ (DataIndependent(p, s) => StartAddresses(p, s) = 1)
    BY <1>4 DEF StartIndex, StartAddresses
  <2>2. 2 \in Nat /\ 2 <= SegmentLength
    BY Sizes, SMT
  <2>3. 1 = IF 2 % AddressesInBlock = 0 THEN 2 \div AddressesInBlock
            ELSE 2 \div AddressesInBlock + 1
    <3>1. CASE AddressesInBlock = 2
      BY <1>3, <3>1
    <3>2. CASE AddressesInBlock > 2
      BY <1>3, <3>2, SMT
    <3> QED BY <1>1, <3>1, <3>2, SMT
  <2> QED BY <2>1, <2>2, <2>3
<1>5. CASE ~ (p = 0 /\ s = 0)
  <2>1. StartIndex(p, s) = 0 /\ StartAddresses(p, s) = 0
    BY <1>5 DEF StartIndex, StartAddresses
  <2> QED BY <1>2, <2>1, Sizes, SMT
<1> QED BY <1>4, <1>5

LEMMA NextAddressesFollow ==
  ASSUME FillInvariant, NEW l \in Lane, AddressesFollow(l), DataIndependent(pass, slice)
  PROVE  LET i == index[l] + 1
         IN CallsAt(l) = IF i % AddressesInBlock = 0 THEN i \div AddressesInBlock
                         ELSE i \div AddressesInBlock + 1
<1> DEFINE n == index[l]
           q == n \div AddressesInBlock
           r == n % AddressesInBlock
<1>1. n \in Nat /\ AddressesInBlock \in Nat \ {0} /\ AddressesInBlock >= 2
  BY LaneIs DEF FillInvariant, FillTypes
<1>2. q \in Nat /\ r \in 0 .. AddressesInBlock - 1 /\ n = q * AddressesInBlock + r
  BY <1>1, DivisionOf
<1>3. CallsAt(l) = q + 1
  BY CallsAre
<1> HIDE DEF n, q, r
<1>4. CASE r + 1 = AddressesInBlock
  <2> DEFINE w == n + 1
             v == q + 1
  <2>1. w = v * AddressesInBlock + 0 /\ v \in Nat /\ 0 \in 0 .. AddressesInBlock - 1
    BY <1>1, <1>2, <1>4, SMT
  <2> HIDE DEF w, v
  <2>2. w \div AddressesInBlock = v /\ w % AddressesInBlock = 0
    BY <1>1, <2>1, QuotientIs
  <2> USE DEF w, v
  <2> QED BY <1>3, <2>2 DEF n
<1>5. CASE r + 1 # AddressesInBlock
  <2> DEFINE w == n + 1
             v == r + 1
  <2>1. w = q * AddressesInBlock + v /\ v \in 0 .. AddressesInBlock - 1 /\ v # 0
    BY <1>1, <1>2, <1>5, SMT
  <2> HIDE DEF w, v
  <2>2. w \div AddressesInBlock = q /\ w % AddressesInBlock = v
    BY <1>1, <1>2, <2>1, QuotientIs
  <2> USE DEF w
  <2> QED BY <1>3, <2>1, <2>2 DEF n
<1> QED BY <1>4, <1>5

-----------------------------------------------------------------------------
(* The steps *)

LEMMA FollowsStarts == Init => FollowsSequential
<1> SUFFICES ASSUME Init PROVE FollowsSequential
  OBVIOUS
<1>1. /\ pass = 0 /\ slice = 0 /\ phase = "first" /\ 0 < Passes
      /\ \A l \in Lane : index[l] = StartIndex(0, 0) /\ addresses[l] = StartAddresses(0, 0)
  BY LaneIs, SMT DEF Init
<1> QED BY <1>1, StartAddressesFollow DEF FollowsSequential, AddressesFollow

LEMMA FollowFirstBlocks ==
  ASSUME FillInvariant, FollowsSequential, FillFirstBlocks
  PROVE  FollowsSequential'
<1>1. /\ phase = "first" /\ phase' = "fill" /\ UNCHANGED <<hashed, pass, slice, index, addresses>>
      /\ memory' = [c \in Cell |-> IF c[2] < 2 THEN FirstBlock(seed, c[1], c[2]) ELSE memory[c]]
  BY DEF FillFirstBlocks
<1>2. /\ pass = 0 /\ slice = 0 /\ seed \in Block /\ pass < Passes
      /\ \A l \in Lane : index[l] = 2 /\ index[l] <= SegmentLength /\ AddressesFollow(l)
  BY <1>1 DEF FillInvariant, AtFirst, FillTypes, FollowsSequential
<1>3. \A l \in Lane : AddressesFollow(l)'
  BY <1>1, <1>2, StepStays DEF AddressesFollow
<1>4. ASSUME NEW l \in Lane PROVE LaneFollows(l)'
  <2> SUFFICES ASSUME NEW i \in Index, Settled(l, i)'
               PROVE  memory'[<<l, i>>] =
                        During(pass, slice, l * SegmentLength + index[l])'[<<l, i>>]
    BY <1>1 DEF LaneFollows
  <2>1. i < 2
    <3>1. i < 0 * SegmentLength + 2
      BY <1>1, <1>2 DEF Settled
    <3> QED BY <3>1, Sizes, SMT DEF Index
  <2>2. memory'[<<l, i>>] = FirstBlock(seed, l, i)
    <3>1. <<l, i>> \in Cell
      BY DEF Cell
    <3> QED BY <1>1, <2>1, <3>1
  <2>3. During(0, 0, l * SegmentLength + 2)[<<l, i>>] = FirstBlock(seed, l, i)
    BY <1>2, <2>1, FirstBlocksRest
  <2>4. During(pass, slice, l * SegmentLength + index[l])' =
          During(0, 0, l * SegmentLength + 2)
    <3>1. During(pass, slice, l * SegmentLength + index[l])' =
            During(0, 0, l * SegmentLength + 2)'
      BY <1>1, <1>2
    <3>2. 0 \in 0 .. Passes - 1 /\ 0 \in 0 .. 3 /\ l * SegmentLength + 2 \in 0 .. Width
      <4> DEFINE a == l * SegmentLength
      <4>1. a \in Nat /\ a + SegmentLength <= Width /\ Width \in Nat
        BY SegmentIs
      <4> HIDE DEF a
      <4>2. a + 2 \in 0 .. Width
        BY <4>1, Sizes, SMT
      <4> QED BY <4>2, LaneIs, SMT DEF a
    <3> QED BY <1>1, <1>2, <3>1, <3>2, DuringStays
  <2> QED BY <2>2, <2>3, <2>4
<1> QED BY <1>1, <1>2, <1>3, <1>4 DEF FollowsSequential

LEMMA FollowFillBlock ==
  ASSUME FillInvariant, FollowsSequential, NEW l \in Lane, FillBlock(l)
  PROVE  FollowsSequential'
<1> DEFINE pos  == [pass |-> pass, slice |-> slice, lane |-> l, index |-> index[l]]
           o    == l * SegmentLength + index[l]
           m    == During(pass, slice, o)
           curr == slice * SegmentLength + index[l]
<1>1. /\ Active(l) /\ phase = "fill" /\ phase' = "fill"
      /\ UNCHANGED hashed /\ pass' = pass /\ slice' = slice
      /\ memory' = [memory EXCEPT ![<<l, CurrIndex(At(l))>>] = NewBlock(l)]
      /\ addresses' = [addresses EXCEPT ![l] = CallsAt(l)]
      /\ index' = [index EXCEPT ![l] = index[l] + 1]
  BY DEF FillBlock, Active
<1>2. /\ seed \in Block /\ pass \in 0 .. Passes - 1 /\ slice \in 0 .. 3
      /\ index[l] \in 0 .. SegmentLength - 1 /\ o \in 0 .. Width
      /\ pass = 0 /\ slice = 0 => index[l] >= 2
      /\ CurrIndex(At(l)) = curr
  BY <1>1, LaneIsAt
<1>3. /\ pass < Passes /\ \A k \in Lane : LaneFollows(k)
      /\ \A k \in Lane : index[k] <= SegmentLength /\ index[k] \in Nat /\ AddressesFollow(k)
      /\ index \in [Lane -> Nat] /\ addresses \in [Lane -> Nat] /\ memory \in [Cell -> Block]
  BY <1>1 DEF FollowsSequential, FillInvariant, FillTypes
<1>4. /\ index'[l] = index[l] + 1 /\ addresses'[l] = CallsAt(l)
      /\ \A k \in Lane : k # l => index'[k] = index[k] /\ addresses'[k] = addresses[k]
  BY <1>1, <1>3
<1>5. ASSUME NEW k \in Lane
      PROVE  index'[k] <= SegmentLength /\ AddressesFollow(k)'
  <2>1. CASE k # l
    BY <1>1, <1>3, <1>4, <2>1, StepStays DEF AddressesFollow
  <2>2. CASE k = l
    <3>1. index[l] + 1 <= SegmentLength
      BY <1>2, Sizes, SMT
    <3>2. DataIndependent(pass, slice) =>
            LET i == index[l] + 1
            IN CallsAt(l) = IF i % AddressesInBlock = 0 THEN i \div AddressesInBlock
                            ELSE i \div AddressesInBlock + 1
      BY <1>3, NextAddressesFollow
    <3>3. DataIndependent(pass, slice)' = DataIndependent(pass, slice)
      BY <1>1, StepStays
    <3>4. AddressesFollow(l)'
      BY <1>4, <3>2, <3>3 DEF AddressesFollow
    <3> QED BY <1>4, <2>2, <3>1, <3>4
  <2> QED BY <2>1, <2>2
<1>6. ASSUME NEW k \in Lane, k # l
      PROVE  LaneFollows(k)'
  <2> SUFFICES ASSUME NEW i \in Index, Settled(k, i)'
               PROVE  memory'[<<k, i>>] =
                        During(pass, slice, k * SegmentLength + index[k])'[<<k, i>>]
    BY DEF LaneFollows
  <2> DEFINE x == k * SegmentLength + index[k]
  <2>1. index'[k] = index[k]
    BY <1>4, <1>6
  <2>2. Settled(k, i)
    BY <1>1, <2>1 DEF Settled
  <2>3. memory[<<k, i>>] = During(pass, slice, x)[<<k, i>>]
    BY <1>3, <2>2 DEF LaneFollows
  <2>4. memory'[<<k, i>>] = memory[<<k, i>>]
    <3>1. <<k, i>> \in Cell /\ <<k, i>> # <<l, CurrIndex(At(l))>>
      BY <1>6 DEF Cell
    <3> QED BY <1>1, <1>3, <3>1
  <2>5. x \in 0 .. Width
    <3> DEFINE a == k * SegmentLength
    <3>1. a \in Nat /\ a + SegmentLength <= Width /\ Width \in Nat
      BY SegmentIs
    <3> HIDE DEF a
    <3>2. a + index[k] \in 0 .. Width
      BY <1>3, <3>1, Sizes, SMT
    <3> QED BY <3>2 DEF a
  <2>6. During(pass, slice, k * SegmentLength + index[k])' = During(pass, slice, x)
    <3>1. k * SegmentLength + index'[k] = x
      BY <2>1
    <3> HIDE DEF x
    <3> QED BY <1>1, <1>2, <2>5, <3>1, DuringNext
  <2> QED BY <2>3, <2>4, <2>6
<1>7. LaneFollows(l)'
  <2> SUFFICES ASSUME NEW i \in Index, Settled(l, i)'
               PROVE  memory'[<<l, i>>] =
                        During(pass, slice, l * SegmentLength + index[l])'[<<l, i>>]
    BY DEF LaneFollows
  <2>1. /\ l * SegmentLength + index[l] + 1 = o + 1 /\ o + 1 \in 0 .. Width
        /\ During(pass, slice, o + 1) = NextAt(pass, slice, l, index[l])
        /\ m \in MatrixType /\ <<l, curr>> \in Cell
    <3>1. o \in 0 .. Width - 1 /\ During(pass, slice, o + 1) = NextAt(pass, slice, l, index[l])
          /\ m \in MatrixType /\ <<l, curr>> \in Cell
      BY <1>2, DuringIs
    <3> HIDE DEF o
    <3>2. o + 1 \in 0 .. Width
      BY <3>1, SegmentIs, SMT
    <3> QED BY <3>1, <3>2 DEF o
  <2>2. During(pass, slice, l * SegmentLength + index[l])' = During(pass, slice, o + 1)
    <3> DEFINE w == o + 1
    <3>1. l * SegmentLength + index'[l] = w
      <4> DEFINE a == l * SegmentLength
      <4>1. a \in Nat /\ index[l] \in Nat
        BY <1>2, SegmentIs, Sizes
      <4> HIDE DEF a
      <4>2. a + (index[l] + 1) = (a + index[l]) + 1
        BY <4>1, SMT
      <4> QED BY <1>4, <4>2 DEF a
    <3>2. w \in 0 .. Width
      BY <2>1
    <3> HIDE DEF w
    <3>3. During(pass, slice, l * SegmentLength + index[l])' = During(pass, slice, w)
      BY <1>1, <1>2, <3>1, <3>2, DuringNext
    <3> QED BY <3>3 DEF w
  <2>3. During(pass, slice, o + 1) = [m EXCEPT ![<<l, curr>>] = SequentialBlock(m, pos)]
    <3>1. ~ (pass = 0 /\ slice = 0 /\ index[l] < 2)
      BY <1>2, Sizes, SMT
    <3> QED BY <2>1, <3>1 DEF NextAt
  <2>4. NewBlock(l) = SequentialBlock(m, pos)
    BY <1>1, NewBlockFollows
  <2>5. <<l, i>> \in Cell
    BY DEF Cell
  <2>6. CASE i = curr
    <3>1. memory'[<<l, i>>] = NewBlock(l)
      BY <1>1, <1>2, <1>3, <2>1, <2>6
    <3>2. During(pass, slice, o + 1)[<<l, i>>] = SequentialBlock(m, pos)
      <4> HIDE DEF m, pos
      <4> QED BY <2>1, <2>3, <2>6 DEF MatrixType
    <3> QED BY <2>2, <2>4, <3>1, <3>2
  <2>7. CASE i # curr
    <3>1. memory'[<<l, i>>] = memory[<<l, i>>]
      BY <1>1, <1>2, <1>3, <2>5, <2>7
    <3>2. During(pass, slice, o + 1)[<<l, i>>] = m[<<l, i>>]
      <4> HIDE DEF m, pos
      <4> QED BY <2>1, <2>3, <2>5, <2>7 DEF MatrixType
    <3>3. Settled(l, i)
      <4>1. pass # 0 \/ i < slice * SegmentLength + (index[l] + 1)
        BY <1>1, <1>4 DEF Settled
      <4>2. slice * SegmentLength \in Nat /\ index[l] \in Nat /\ i \in Nat
        BY <1>2, <1>3, Sizes, SMT DEF Index
      <4> DEFINE x == slice * SegmentLength
      <4>3. i # x + index[l]
        BY <2>7
      <4> HIDE DEF x, curr
      <4>4. pass # 0 \/ i < x + index[l]
        BY <4>1, <4>2, <4>3, SMT DEF x
      <4> QED BY <4>4 DEF Settled, x
    <3>4. memory[<<l, i>>] = m[<<l, i>>]
      BY <1>3, <3>3 DEF LaneFollows
    <3> QED BY <2>2, <3>1, <3>2, <3>4
  <2> QED BY <2>6, <2>7
<1>8. \A k \in Lane : LaneFollows(k)'
  BY <1>6, <1>7
<1> QED BY <1>1, <1>3, <1>5, <1>8 DEF FollowsSequential

LEMMA FollowNextSlice ==
  ASSUME FillInvariant, FollowsSequential, NextSlice
  PROVE  FollowsSequential'
<1>1. /\ phase = "fill" /\ UNCHANGED hashed /\ memory' = memory
      /\ slice' = (slice + 1) % SyncPoints
      /\ pass' = IF slice = SyncPoints - 1 THEN pass + 1 ELSE pass
      /\ phase' = IF pass' < Passes THEN "fill" ELSE "finalize"
      /\ \A l \in Lane : /\ index'[l] = StartIndex(pass', slice')
                         /\ addresses'[l] = StartAddresses(pass', slice')
      /\ \A l \in Lane : index[l] >= SegmentLength
  BY DEF NextSlice, SliceFilled
<1>2. /\ seed \in Block /\ pass \in Nat /\ pass < Passes /\ slice \in 0 .. 3
      /\ \A l \in Lane : index[l] \in Nat /\ index[l] <= SegmentLength /\ LaneFollows(l)
      /\ memory \in [Cell -> Block]
  BY <1>1 DEF FollowsSequential, FillInvariant, FillTypes
<1>3. pass \in 0 .. Passes - 1
  BY <1>2, LaneIs, SMT
<1>4. /\ pass' \in Nat /\ slice' \in 0 .. 3 /\ ~ (pass' = 0 /\ slice' = 0)
      /\ Base(pass', slice') = Base(pass, slice) + Width
      /\ pass' <= Passes /\ (pass' = Passes => slice' = 0)
      /\ pass' = 0 => slice' * SegmentLength = slice * SegmentLength + SegmentLength
      /\ pass' # 0 => pass # 0 \/ slice = 3
  <2>1. CASE slice = 3
    <3>1. slice' = 0 /\ pass' = pass + 1
      <4>1. (3 + 1) % 4 = 0
        BY SMT
      <4> QED BY <1>1, <2>1, <4>1 DEF SyncPoints
    <3>2. pass + 1 \in Nat /\ pass + 1 # 0 /\ pass + 1 <= Passes
      BY <1>2, LaneIs, SMT
    <3> QED BY <1>2, <2>1, <3>1, <3>2, BaseIs
  <2>2. CASE slice # 3
    <3>1. slice + 1 \in 0 .. 3 /\ slice + 1 # 0 /\ (slice + 1) % 4 = slice + 1
          /\ (slice + 1) * SegmentLength = slice * SegmentLength + SegmentLength
          /\ pass <= Passes /\ pass # Passes
      BY <1>2, <2>2, LaneIs, Sizes, SMT
    <3>2. slice' = slice + 1 /\ pass' = pass
      BY <1>1, <2>2, <3>1 DEF SyncPoints
    <3> QED BY <1>2, <2>2, <3>1, <3>2, BaseIs
  <2> QED BY <2>1, <2>2
<1>5. ASSUME NEW l \in Lane, NEW i \in Index, Settled(l, i)
      PROVE  memory[<<l, i>>] = During(pass, slice, Width)[<<l, i>>]
  <2>1. index[l] = SegmentLength
    BY <1>1, <1>2, Sizes, SMT
  <2>2. memory[<<l, i>>] = During(pass, slice, l * SegmentLength + SegmentLength)[<<l, i>>]
    BY <1>2, <1>5, <2>1 DEF LaneFollows
  <2> QED BY <1>2, <1>3, <2>2, LaneRests
<1>6. ASSUME NEW l \in Lane, NEW i \in Index, pass' # 0 \/ i < slice' * SegmentLength
      PROVE  Settled(l, i)
  <2>1. index[l] = SegmentLength
    BY <1>1, <1>2, Sizes, SMT
  <2>2. CASE pass' # 0 /\ pass # 0
    BY <2>2 DEF Settled
  <2>3. CASE pass' # 0 /\ slice = 3
    <3>1. i < slice * SegmentLength + SegmentLength
      BY <2>3, Sizes, SMT DEF Index
    <3> QED BY <2>1, <3>1 DEF Settled
  <2>4. CASE pass' = 0
    BY <1>4, <1>6, <2>1, <2>4 DEF Settled
  <2> QED BY <1>4, <2>2, <2>3, <2>4
<1>7. CASE pass' < Passes
  <2>1. phase' = "fill" /\ pass' \in 0 .. Passes - 1
    BY <1>1, <1>4, <1>7, LaneIs, SMT
  <2>2. ASSUME NEW l \in Lane
        PROVE  /\ index'[l] = 0 /\ index'[l] <= SegmentLength /\ AddressesFollow(l)'
    <3>1. StartIndex(pass', slice') = 0
      BY <1>4 DEF StartIndex
    <3>2. DataIndependent(pass, slice)' = DataIndependent(pass', slice')
      BY <1>1 DEF DataIndependent, hashed
    <3> QED BY <1>1, <1>4, <3>1, <3>2, StartAddressesFollow DEF AddressesFollow
  <2>3. ASSUME NEW l \in Lane PROVE LaneFollows(l)'
    <3> SUFFICES ASSUME NEW i \in Index, Settled(l, i)'
                 PROVE  memory'[<<l, i>>] =
                          During(pass, slice, l * SegmentLength + index[l])'[<<l, i>>]
      BY DEF LaneFollows
    <3> DEFINE a == l * SegmentLength
    <3>1. a \in Nat /\ a + 0 = a /\ slice' * SegmentLength + 0 = slice' * SegmentLength
      BY <1>4, SegmentIs, Sizes, SMT
    <3>2. pass' # 0 \/ i < slice' * SegmentLength
      BY <2>2, <3>1 DEF Settled
    <3>3. memory[<<l, i>>] = During(pass, slice, Width)[<<l, i>>]
      BY <1>5, <1>6, <3>2
    <3>4. During(pass', slice', 0) = During(pass, slice, Width)
      <4>1. Base(pass', slice') + 0 = Base(pass, slice) + Width
        <5>1. Base(pass, slice) + Width \in Nat
          <6>1. Base(pass, slice) \in Nat /\ Width \in Nat
            BY <1>2, BaseIs, SegmentIs
          <6> DEFINE b == Base(pass, slice)
          <6> HIDE DEF b
          <6>2. b + Width \in Nat
            BY <6>1, SMT DEF b
          <6> QED BY <6>2 DEF b
        <5> QED BY <1>4, <5>1, SMT
      <4> QED BY <4>1 DEF During
    <3>5. a \in 0 .. Width /\ During(pass', slice', a)[<<l, i>>] = During(pass', slice', 0)[<<l, i>>]
      BY <1>2, <1>4, <2>1, LaneRests
    <3>6. During(pass, slice, l * SegmentLength + index[l])' = During(pass', slice', a)
      <4>1. l * SegmentLength + index'[l] = a
        BY <2>2, <3>1
      <4> HIDE DEF a
      <4>2. During(pass, slice, l * SegmentLength + index[l])' = Matrix'[Base(pass', slice') + a]
        BY <4>1 DEF During, Base, Width, SyncPoints
      <4>3. Base(pass', slice') + a \in 0 .. TotalBlocks
        <5>1. Base(pass', slice') \in Nat /\ Base(pass', slice') + Width <= TotalBlocks /\ Width \in Nat
          BY <1>4, <1>7, BaseIs, SegmentIs
        <5> QED BY <3>5, <5>1, TotalIs, SMT
      <4> QED BY <1>1, <1>2, <4>2, <4>3, MatrixStays DEF During
    <3> QED BY <1>1, <3>3, <3>4, <3>5, <3>6
  <2> QED BY <1>7, <2>1, <2>2, <2>3 DEF FollowsSequential
<1>8. CASE ~ (pass' < Passes)
  <2>1. phase' = "finalize" /\ pass' = Passes /\ slice' = 0 /\ pass' # 0
    BY <1>1, <1>4, <1>8, LaneIs, SMT
  <2>2. During(pass, slice, Width) = Matrix[TotalBlocks]
    BY <1>4, <2>1, BaseIs DEF During
  <2>3. ASSUME NEW c \in Cell PROVE memory[c] = Matrix[TotalBlocks][c]
    <3>1. PICK l \in Lane, i \in Index : c = <<l, i>>
      BY DEF Cell
    <3> QED BY <1>5, <1>6, <2>1, <2>2, <3>1
  <2>4. memory = Matrix[TotalBlocks]
    <3>1. TotalBlocks \in 0 .. TotalBlocks
      BY TotalIs, SMT
    <3>2. Matrix[TotalBlocks] \in [Cell -> Block]
      BY <1>2, <3>1, MatrixIs DEF MatrixType
    <3> QED BY <1>2, <2>3, <3>2
  <2>5. memory' = SequentialMatrix'
    BY <1>1, <1>2, <2>4, DuringStays
  <2> QED BY <2>1, <2>5 DEF FollowsSequential
<1> QED BY <1>7, <1>8

LEMMA FollowFinalize ==
  ASSUME FillInvariant, FollowsSequential, Finalize
  PROVE  FollowsSequential'
<1>1. /\ phase = "finalize" /\ phase' = "done" /\ tag' = LastBlocks(memory)
      /\ memory' = memory /\ UNCHANGED hashed /\ seed \in Block
  BY DEF Finalize, FillInvariant, FillTypes
<1>2. memory = SequentialMatrix
  BY <1>1 DEF FollowsSequential
<1>3. memory' = SequentialMatrix'
  BY <1>1, <1>2, DuringStays
<1>4. tag' = LastBlocks(memory')
  BY <1>1
<1> QED BY <1>1, <1>3, <1>4 DEF FollowsSequential

LEMMA FollowStutter ==
  ASSUME FillInvariant, FollowsSequential, UNCHANGED vars
  PROVE  FollowsSequential'
<1>1. /\ UNCHANGED <<hashed, phase, pass, slice, index, addresses, memory, tag>>
      /\ seed \in Block /\ slice \in 0 .. 3 /\ pass \in Nat
  BY DEF vars, loop, FillInvariant, FillTypes
<1>2. phase \in {"first", "fill"} =>
        pass < Passes /\ \A l \in Lane : index[l] <= SegmentLength /\ AddressesFollow(l)'
  BY <1>1, StepStays DEF FollowsSequential, AddressesFollow
<1>3. ASSUME phase = "fill", NEW l \in Lane PROVE LaneFollows(l)'
  <2> SUFFICES ASSUME NEW i \in Index, Settled(l, i)'
               PROVE  memory'[<<l, i>>] =
                        During(pass, slice, l * SegmentLength + index[l])'[<<l, i>>]
    BY DEF LaneFollows
  <2> DEFINE x == l * SegmentLength + index[l]
  <2>1. memory[<<l, i>>] = During(pass, slice, x)[<<l, i>>]
    BY <1>1, <1>3 DEF FollowsSequential, LaneFollows, Settled
  <2>2. x \in 0 .. Width /\ pass \in 0 .. Passes - 1
    <3> DEFINE a == l * SegmentLength
    <3>1. /\ a \in Nat /\ a + SegmentLength <= Width /\ Width \in Nat
          /\ index[l] <= SegmentLength /\ index[l] \in Nat /\ pass < Passes
      BY <1>3, SegmentIs DEF FollowsSequential, FillInvariant, FillTypes
    <3> HIDE DEF a
    <3>2. a + index[l] \in 0 .. Width /\ pass \in 0 .. Passes - 1
      BY <1>1, <3>1, Sizes, LaneIs, SMT
    <3> QED BY <3>2 DEF a
  <2>3. During(pass, slice, l * SegmentLength + index[l])' = During(pass, slice, x)
    <3>1. l * SegmentLength + index'[l] = x
      BY <1>1
    <3> HIDE DEF x
    <3> QED BY <1>1, <2>2, <3>1, DuringNext
  <2> QED BY <1>1, <2>1, <2>3
<1>4. SequentialMatrix' = SequentialMatrix
  BY <1>1, DuringStays
<1> QED BY <1>1, <1>2, <1>3, <1>4 DEF FollowsSequential

\* However the lanes of a slice interleave, what a lane holds at its position is what the
\* sequential nest of fill_memory_blocks_traced has in it at that position.
THEOREM LanesFollow == Spec => []FollowsSequential
<1>1. FillInvariant /\ FollowsSequential /\ [Next]_vars => FollowsSequential'
  <2> SUFFICES ASSUME FillInvariant, FollowsSequential, [Next]_vars
               PROVE  FollowsSequential'
    OBVIOUS
  <2>1. ASSUME NEW l \in Lane, FillBlock(l) PROVE FollowsSequential'
    BY <2>1, FollowFillBlock
  <2> QED BY <2>1, FollowFirstBlocks, FollowNextSlice, FollowFinalize, FollowStutter DEF Next
<1> QED BY <1>1, FillInductive, FollowsStarts, PTL DEF Spec

\* For every size of the matrix, every number of lanes and every interleaving of them: the
\* matrix, and so the tag, is a function of the inputs, whatever a pooled arena held.
THEOREM TagDetermined == Spec => []TagIsDeterministic
<1>1. FollowsSequential => TagIsDeterministic
  BY DEF FollowsSequential, TagIsDeterministic
<1> QED BY <1>1, LanesFollow, PTL
=============================================================================
