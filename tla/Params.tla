------------------------------- MODULE Params -------------------------------
(***************************************************************************)
(* The cost parameters of src/src/params.rs: which are legal, in which     *)
(* order the checks are made (it decides the error that is reported), and  *)
(* the layout of the matrix they give.                                     *)
(*                                                                         *)
(* Values are u32 and wrap at Word.  Lengths are usize in the code and     *)
(* compared with bounds of u32.                                            *)
(***************************************************************************)
EXTENDS Integers

CONSTANTS
  Word,       \* 2^32 in the code
  MaxLanes    \* MAX_LANES and MAX_THREADS, 2^24 - 1 in the code

SyncPoints == 4
MinMemory == 2 * SyncPoints
MinOutLen == 4
MinSaltLen == 8

\* What memory_layout says rules out an overflow.
ASSUME ParamsAssumption ==
  /\ Word \in Nat
  /\ MaxLanes \in Nat \ {0}
  /\ MinMemory * MaxLanes < Word

U32 == 0 .. Word - 1

\* validate_inputs: the first check that fails, in the C's order.  The lengths of
\* the password and the secret are in range at every call that is modelled.
ValidateInputs(outLen, saltLen, adLen, m, t, lanes, threads) ==
  IF outLen < MinOutLen THEN "OutputTooShort"
  ELSE IF outLen >= Word THEN "OutputTooLong"
  ELSE IF saltLen < MinSaltLen THEN "SaltTooShort"
  ELSE IF saltLen >= Word THEN "SaltTooLong"
  ELSE IF adLen >= Word THEN "AdTooLong"
  ELSE IF m < MinMemory THEN "MemoryTooLittle"
  ELSE IF m >= Word THEN "MemoryTooMuch"
  ELSE IF m < (MinMemory * lanes) % Word THEN "MemoryTooLittle"
  ELSE IF t < 1 THEN "TimeTooSmall"
  ELSE IF t >= Word THEN "TimeTooLarge"
  ELSE IF lanes < 1 THEN "LanesTooFew"
  ELSE IF lanes > MaxLanes THEN "LanesTooMany"
  ELSE IF threads < 1 THEN "ThreadsTooFew"
  ELSE IF threads > MaxLanes THEN "ThreadsTooMany"
  ELSE "none"

\* Params: m_cost, t_cost, lanes, threads and output_len.
Params == [m : U32, t : U32, lanes : U32, threads : U32, tag : U32]

\* ParamsBuilder::build: the bounds of what is narrowed, then validate_inputs.
BuildError(p) ==
  IF p.tag >= Word THEN "OutputTooLong"
  ELSE IF p.tag < MinOutLen THEN "OutputTooShort"
  ELSE IF p.m >= Word THEN "MemoryTooMuch"
  ELSE ValidateInputs(p.tag, MinSaltLen, 0, p.m, p.t, p.lanes, p.threads)

EffectiveThreads(p) == IF p.threads > p.lanes THEN p.lanes ELSE p.threads

\* memory_layout
MinBlocks(p) == 2 * SyncPoints * p.lanes
BlocksAsked(p) == IF p.m < MinBlocks(p) THEN MinBlocks(p) ELSE p.m
SegmentLength(p) == BlocksAsked(p) \div (p.lanes * SyncPoints)
MemoryBlocks(p) == SegmentLength(p) * (p.lanes * SyncPoints)
=============================================================================
