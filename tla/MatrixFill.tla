----------------------------- MODULE MatrixFill -----------------------------
(***************************************************************************)
(* One hash at the granularity of blocks: fill_first_blocks, then the      *)
(* segments of every slice, lane by lane and block by block, then          *)
(* finalize.  The lanes of one slice are filled concurrently (module       *)
(* FillPool shows that workers stay in one slice and hold distinct lanes), *)
(* so their blocks are written here in any interleaving.                   *)
(*                                                                         *)
(* A block is a number below Word.  Its compression function G and the     *)
(* address generator are fixed mixing functions standing for BLAKE2b's     *)
(* round, and XOR is addition: what matters is which blocks go in.         *)
(***************************************************************************)
EXTENDS IndexAlpha, FiniteSets

CONSTANTS
  Lanes,              \* Instance::lanes
  Passes,             \* Instance::passes
  AddressesInBlock,   \* ADDRESSES_IN_BLOCK, 128 in the code
  Seeds,              \* what H0 may expand to, as a block
  Leftovers           \* what a pooled arena may hold from an earlier hash

ASSUME MatrixFillAssumption ==
  /\ Lanes \in Nat \ {0}
  /\ Passes \in Nat \ {0}
  /\ AddressesInBlock \in Nat
  /\ AddressesInBlock >= 2   \* the two blocks skipped are in the first of them
  /\ Seeds \subseteq 0 .. Word - 1
  /\ Leftovers \subseteq 0 .. Word - 1

Block == 0 .. Word - 1
Lane == 0 .. Lanes - 1
Cell == Lane \X Index

VARIABLES
  algorithm,   \* Instance::algorithm
  version,     \* Instance::version
  seed,        \* H0
  phase,       \* "first", "fill", "finalize" or "done"
  pass, slice, \* the slice being filled
  index,       \* for each lane, the loop counter i of its fill_segment
  addresses,   \* for each lane, how often next_addresses has been called
  prev_offset, \* for each lane, as an index into the lane
  carried,     \* for each lane, the block in the registers state
  carries,     \* the backend mixes what it carried, not memory[prev_offset]
  memory,      \* the arena
  tag          \* the block finalize hashes

hashed == <<algorithm, version, seed, carries>>
loop == <<index, addresses, prev_offset, carried>>
vars == <<hashed, phase, pass, slice, loop, memory, tag>>

At(l) == [pass |-> pass, slice |-> slice, index |-> index[l]]

\* Mixing functions.
FirstBlock(h0, l, b) == (h0 + 7 * l + 11 * b) % Word
Mix(prev, ref) == (3 * prev + 5 * ref + 1) % Word
Address(p, l, s, calls, slot) ==
  IF calls = 0 THEN 0 ELSE (5 * p + 3 * l + 7 * s + 11 * calls + 13 * slot) % Word
Xor(a, b) == (a + b) % Word

\* The two halves of a pseudo-random u64.
Low(rand) == rand
High(rand) == rand \div 2

DataIndependent(p, s) ==
  \/ algorithm = "argon2i"
  \/ algorithm = "argon2id" /\ p = 0 /\ s < SyncPoints \div 2

\* Definitions named ...Mutant are plausible bugs; no specification uses them.
\* This one XORs into the blocks of the first pass as well.
WithXorMutant(p) == version # 16

WithXor(p) == version # 16 /\ p # 0

\* What fill_segment starts with: past the two blocks of fill_first_blocks, with
\* the first block of addresses already generated when there are addresses.
StartIndex(p, s) == IF p = 0 /\ s = 0 THEN 2 ELSE 0
StartAddresses(p, s) == IF p = 0 /\ s = 0 /\ DataIndependent(p, s) THEN 1 ELSE 0

\* Where prev_offset starts: the last block of the lane, or one block back.
StartPrev(p, s) ==
  PrevIndex([pass |-> p, slice |-> s, index |-> StartIndex(p, s)])

\* Rotates one iteration early.
RotatedMutant(l) == IF CurrIndex(At(l)) = 0 THEN 0 ELSE prev_offset[l]

\* prev_offset once the loop has rotated it.
Rotated(l) == IF CurrIndex(At(l)) = 1 THEN 0 ELSE prev_offset[l]

\* The SIMD backends but wasm128 load the previous block before the loop only;
\* afterwards fill_block leaves in state the block it has stored.
PrevBlock(l) == IF carries THEN carried[l] ELSE memory[<<l, Rotated(l)>>]

\* next_addresses has been called once more when the loop is at slot 0.
CallsAt(l) ==
  IF DataIndependent(pass, slice) /\ index[l] % AddressesInBlock = 0
  THEN addresses[l] + 1 ELSE addresses[l]

Rand(l) ==
  IF DataIndependent(pass, slice)
  THEN Address(pass, l, slice, CallsAt(l), index[l] % AddressesInBlock)
  ELSE memory[<<l, Rotated(l)>>]

\* Refers to other lanes from the first slice on.
RefLaneMutant(l) == High(Rand(l)) % Lanes

RefLane(l) ==
  IF pass = 0 /\ slice = 0 THEN l ELSE High(Rand(l)) % Lanes

RefCell(l) ==
  <<RefLane(l), index_alpha(At(l), Low(Rand(l)), RefLane(l) = l)>>

-----------------------------------------------------------------------------
Init ==
  /\ algorithm \in {"argon2d", "argon2i", "argon2id"}
  /\ version \in {16, 19}
  /\ seed \in Seeds
  /\ carries \in BOOLEAN
  /\ phase = "first"
  /\ pass = 0 /\ slice = 0
  /\ index = [l \in Lane |-> StartIndex(0, 0)]
  /\ addresses = [l \in Lane |-> StartAddresses(0, 0)]
  /\ prev_offset = [l \in Lane |-> StartPrev(0, 0)]
  /\ \E b \in Leftovers : /\ memory = [c \in Cell |-> b]
                          /\ carried = [l \in Lane |-> b]
  /\ tag = 0

\* fill_first_blocks
FillFirstBlocks ==
  /\ phase = "first"
  /\ phase' = "fill"
  /\ memory' = [c \in Cell |-> IF c[2] < 2 THEN FirstBlock(seed, c[1], c[2])
                                           ELSE memory[c]]
  /\ carried' = [l \in Lane |-> memory'[<<l, prev_offset[l]>>]]
  /\ UNCHANGED <<hashed, pass, slice, index, addresses, prev_offset, tag>>

NewBlock(l) ==
  LET new == Mix(PrevBlock(l), memory[RefCell(l)])
  IN IF WithXor(pass) THEN Xor(memory[<<l, CurrIndex(At(l))>>], new) ELSE new

\* One iteration of the loop of fill_segment, in lane l.
FillBlock(l) ==
  /\ phase = "fill"
  /\ index[l] < SegmentLength
  /\ memory' = [memory EXCEPT ![<<l, CurrIndex(At(l))>>] = NewBlock(l)]
  /\ carried' = [carried EXCEPT ![l] = NewBlock(l)]
  /\ prev_offset' = [prev_offset EXCEPT ![l] = Rotated(l) + 1]
  /\ addresses' = [addresses EXCEPT ![l] = CallsAt(l)]
  /\ index' = [index EXCEPT ![l] = @ + 1]
  /\ UNCHANGED <<hashed, phase, pass, slice, tag>>

SliceFilled == \A l \in Lane : index[l] >= SegmentLength

\* The sync point: the next slice, or the next pass, or the end of the fill.  The
\* previous block is loaded here, though fill_segment does so a little later: it
\* is in the lane itself and in another slice.
NextSlice ==
  /\ phase = "fill"
  /\ SliceFilled
  /\ slice' = (slice + 1) % SyncPoints
  /\ pass' = IF slice = SyncPoints - 1 THEN pass + 1 ELSE pass
  /\ phase' = IF pass' < Passes THEN "fill" ELSE "finalize"
  /\ index' = [l \in Lane |-> StartIndex(pass', slice')]
  /\ addresses' = [l \in Lane |-> StartAddresses(pass', slice')]
  /\ prev_offset' = [l \in Lane |-> StartPrev(pass', slice')]
  /\ carried' = [l \in Lane |-> memory[<<l, prev_offset'[l]>>]]
  /\ UNCHANGED <<hashed, memory, tag>>

\* The XOR of the last block of every lane.
LastBlocks(m) ==
  LET x[l \in Lane] == IF l = 0 THEN m[<<0, LaneLength - 1>>]
                       ELSE Xor(x[l - 1], m[<<l, LaneLength - 1>>])
  IN x[Lanes - 1]

\* finalize
Finalize ==
  /\ phase = "finalize"
  /\ phase' = "done"
  /\ tag' = LastBlocks(memory)
  /\ UNCHANGED <<hashed, pass, slice, loop, memory>>

Next ==
  \/ FillFirstBlocks
  \/ \E l \in Lane : FillBlock(l)
  \/ NextSlice
  \/ Finalize
  \/ phase = "done" /\ UNCHANGED vars

Spec == Init /\ [][Next]_vars

-----------------------------------------------------------------------------
Active(l) == phase = "fill" /\ index[l] < SegmentLength

\* No block that fill_segment reads lies in a segment another lane is writing in
\* the same slice, and the block it writes is neither its predecessor nor the
\* block it refers to (the exclusive `&mut Block` of fill_segment).
ReadsAreSettled ==
  \A l \in Lane : Active(l) =>
    /\ RefLane(l) # l => ~InSlice(RefCell(l)[2], slice)
    /\ RefCell(l) # <<l, CurrIndex(At(l))>>
    /\ Rotated(l) # CurrIndex(At(l))

\* The registers hold the block the lane's previous iteration stored, XORed where
\* the pass XORs, and prev_offset points at it: across the wrap-around at the
\* start of a lane, where prev_offset is rotated and state is not reloaded.
CarriedIsPrevious ==
  \A l \in Lane : Active(l) =>
    /\ Rotated(l) = PrevIndex(At(l))
    /\ carried[l] = memory[<<l, Rotated(l)>>]

\* The same for every number the address source could have produced: the block
\* referred to is one of the window the comments describe, and the window is
\* used oldest block first, in the order the quadratic mapping prescribes.
Age(i, p, s) ==
  IF p = 0 THEN i ELSE (i + LaneLength - (s + 1) * SegmentLength) % LaneLength

WindowFollowed ==
  \A l \in Lane : Active(l) =>
    \A j1 \in 0 .. Word - 1, same \in {TRUE, slice = 0 /\ pass = 0} :
      LET window == ReferenceWindow(At(l), same)
          ref    == index_alpha(At(l), j1, same)
          older  == {i \in window : Age(i, pass, slice) < Age(ref, pass, slice)}
          size   == Cardinality(window)
      IN /\ ref \in window
         /\ Cardinality(older) = size - 1 - (size * ((j1 * j1) \div Word)) \div Word

\* The sequential nest of fill_memory_blocks_traced, with the block referred to
\* taken from the window by age: the matrix after n blocks.
WindowPick(window, k, p, s) ==
  CHOOSE i \in window :
    Cardinality({j \in window : Age(j, p, s) < Age(i, p, s)}) = k

PositionOf(n) ==
  [pass  |-> n \div (SegmentLength * Lanes * SyncPoints),
   slice |-> (n \div (SegmentLength * Lanes)) % SyncPoints,
   lane  |-> (n \div SegmentLength) % Lanes,
   index |-> n % SegmentLength]

NextMatrix(m, pos) ==
  LET last == <<pos.lane, PrevIndex(pos)>>
      curr == <<pos.lane, CurrIndex(pos)>>
      rand == IF DataIndependent(pos.pass, pos.slice)
              THEN Address(pos.pass, pos.lane, pos.slice,
                           pos.index \div AddressesInBlock + 1,
                           pos.index % AddressesInBlock)
              ELSE m[last]
      from == IF pos.pass = 0 /\ pos.slice = 0 THEN pos.lane
              ELSE High(rand) % Lanes
      window == ReferenceWindow(pos, from = pos.lane)
      size == Cardinality(window)
      back == (size * ((Low(rand) * Low(rand)) \div Word)) \div Word
      ref  == <<from, WindowPick(window, size - 1 - back, pos.pass, pos.slice)>>
      new  == Mix(m[last], m[ref])
  IN [m EXCEPT ![curr] = IF WithXor(pos.pass) THEN Xor(@, new) ELSE new]

TotalBlocks == Passes * LaneLength * Lanes

Matrix[n \in 0 .. TotalBlocks] ==
  IF n = 0
  THEN [c \in Cell |-> IF c[2] < 2 THEN FirstBlock(seed, c[1], c[2]) ELSE 0]
  ELSE IF Visited(PositionOf(n - 1)) THEN NextMatrix(Matrix[n - 1], PositionOf(n - 1))
  ELSE Matrix[n - 1]

SequentialMatrix == Matrix[TotalBlocks]

\* The tag is a function of the inputs: neither the interleaving of the lanes nor
\* what an earlier hash left in a pooled arena changes a block of the result.
TagIsDeterministic ==
  phase = "done" =>
    memory = SequentialMatrix /\ tag = LastBlocks(SequentialMatrix)
=============================================================================
