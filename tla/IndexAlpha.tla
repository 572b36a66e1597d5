----------------------------- MODULE IndexAlpha -----------------------------
(***************************************************************************)
(* Which block the block being computed refers to: index_alpha of          *)
(* src/src/core.rs and the offsets fill_segment derives around it.         *)
(*                                                                         *)
(* The arithmetic is that of the code: u32 operations wrap at Word, which  *)
(* is 2^32 there, and the two products are taken in u64 and cannot wrap.   *)
(* A pseudo-random number is given by its low half, j1.                    *)
(***************************************************************************)
EXTENDS Integers

CONSTANTS
  Word,            \* 2^32 in the code
  SegmentLength    \* Instance::segment_length

SyncPoints == 4
LaneLength == SyncPoints * SegmentLength

\* memory_layout gives a segment at least two blocks, and a lane fits in a u32.
ASSUME IndexAlphaAssumption ==
  /\ Word \in Nat
  /\ SegmentLength \in Nat
  /\ SegmentLength >= 2
  /\ LaneLength < Word

Index == 0 .. LaneLength - 1

\* wrapping_add, wrapping_sub and wrapping_mul of u32 values.
Wrap(n) == n % Word

\* The positions fill_segment visits: it skips the two blocks of a lane that
\* fill_first_blocks wrote.
Position == [pass : Nat, slice : 0 .. SyncPoints - 1, index : 0 .. SegmentLength - 1]
Visited(pos) == pos.pass = 0 /\ pos.slice = 0 => pos.index >= 2

IfZero(n) == IF n = 0 THEN 1 ELSE 0

\* A plausible bug, which no specification uses: the area is one too large.
ReferenceAreaSizeMutant(pos, sameLane) ==
  IF pos.pass = 0 THEN pos.slice * SegmentLength + pos.index
  ELSE LaneLength - SegmentLength + pos.index

\* reference_area_size
ReferenceAreaSize(pos, sameLane) ==
  IF pos.pass = 0
  THEN IF pos.slice = 0 THEN Wrap(pos.index - 1)
       ELSE IF sameLane THEN Wrap(pos.slice * SegmentLength + pos.index - 1)
       ELSE Wrap(pos.slice * SegmentLength - IfZero(pos.index))
  ELSE IF sameLane THEN Wrap(LaneLength - SegmentLength + pos.index - 1)
       ELSE Wrap(LaneLength - SegmentLength - IfZero(pos.index))

\* (x * y) >> 32, in u64.
MulHigh(x, y) == (x * y) \div Word

\* relative_position, from the size of the area and the low half of the number.
RelativePosition(size, j1) == Wrap(size - 1) - MulHigh(size, MulHigh(j1, j1))

StartPosition(pos) ==
  IF pos.pass = 0 \/ pos.slice = SyncPoints - 1 THEN 0
  ELSE Wrap((pos.slice + 1) * SegmentLength)

index_alpha(pos, j1, sameLane) ==
  (StartPosition(pos)
     + RelativePosition(ReferenceAreaSize(pos, sameLane), j1)) % LaneLength

\* curr_offset and prev_offset of fill_segment, relative to the start of the lane.
CurrIndex(pos) == pos.slice * SegmentLength + pos.index
PrevIndex(pos) == (CurrIndex(pos) + LaneLength - 1) % LaneLength

-----------------------------------------------------------------------------
\* What the comments on fill_segment and SharedInstance say of the block that is
\* referred to.  In a lane, the blocks that are complete and will not be written
\* in this slice: all finished slices of the window, and in the own lane also the
\* part of the current segment that is finished.  The block before the current
\* position is never referred to.
InSlice(i, slice) ==
  slice * SegmentLength <= i /\ i < (slice + 1) * SegmentLength

Finished(pos, sameLane) ==
  {i \in Index :
     \/ /\ sameLane
        /\ InSlice(i, pos.slice)
        /\ i < CurrIndex(pos)
     \/ /\ ~InSlice(i, pos.slice)
        /\ pos.pass = 0 => i < pos.slice * SegmentLength}

ReferenceWindow(pos, sameLane) == Finished(pos, sameLane) \ {PrevIndex(pos)}
=============================================================================
