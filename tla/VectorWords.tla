---------------------------- MODULE VectorWords ----------------------------
(***************************************************************************)
(* The word arithmetic of every vector kernel: G of the block fill (g1 and *)
(* g2 of sse2.rs, avx2.rs, avx512.rs, neon.rs and wasm128.rs) and G of     *)
(* BLAKE2b (blake2b/), statement by statement, against the scalar ones.    *)
(* Rotations are byte shuffles, shifts, halves exchanged or an addition;   *)
(* the product of low halves is gathered and widened in seven ways.        *)
(*                                                                         *)
(* A word has eight bits here: a byte of the code's is one bit, a half is  *)
(* four, so a rotation by 8n bits is one by n, and the one by 63 is by     *)
(* Bits - 1.  No instruction crosses the 128 bits of two words, so every  *)
(* register stands by two of its lanes.  FillKernels and Blake2bKernels    *)
(* show which words meet in a register; this module, what becomes of them. *)
(***************************************************************************)
EXTENDS Integers, Sequences

CONSTANTS
  Starts,      \* sequences of starting words a, b, c, d for four lanes
  MessageWords     \* the two message words of BLAKE2b's G

Bits == 8
Modulus == 256
HalfModulus == 16

Rows == {"a", "b", "c", "d"}
Octet == 0 .. Modulus - 1

ASSUME WordsAssumption ==
  /\ Starts \subseteq [1 .. 4 -> [Rows -> Octet]]
  /\ MessageWords \in [1 .. 2 -> Octet]

Sets == 0 .. 1
Slot == 1 .. 2

\* How neon.rs multiplies, and whether it rotates by table and by 32 with XAR.
Muls == {"umull", "umlal", "uzp", "uzp pair", "uzp pair mlal"}
NeonKernels == [of : {"neon"}, mul : Muls, tbl : BOOLEAN, xar : BOOLEAN]
PlainKernels == [of : {"sse2", "ssse3", "avx2", "avx512", "wasm128",
                       "blake sse41", "blake avx2", "blake avx512"}]
Blake(k) == k.of \in {"blake sse41", "blake avx2", "blake avx512"}

VARIABLES
  unit,   \* the kernel
  line,   \* the statement of its G that comes next
  given,  \* the words it began with
  reg     \* reg[row][set]: the two lanes of a register

wordVars == <<unit, line, given, reg>>

-----------------------------------------------------------------------------
(* Instructions                                                              *)

BitAt(x, i) == (x \div 2^i) % 2
FromBits(bit) ==
  bit[0] + 2 * bit[1] + 4 * bit[2] + 8 * bit[3]
  + 16 * bit[4] + 32 * bit[5] + 64 * bit[6] + 128 * bit[7]
XorWord(x, y) == FromBits([i \in 0 .. 7 |-> (BitAt(x, i) + BitAt(y, i)) % 2])
Plus(x, y) == (x + y) % Modulus
ShiftR(x, n) == x \div 2^n
ShiftL(x, n) == (x * 2^n) % Modulus
LowHalf(x) == x % HalfModulus

\* SRI: shifts y in below the top n bits of x.
ShiftRInsert(x, y, n) == (x - (x % 2^(Bits - n))) + ShiftR(y, n)

\* Slot by lane.
Each(Op(_), x) == [n \in Slot |-> Op(x[n])]
Both(Op(_, _), x, y) == [n \in Slot |-> Op(x[n], y[n])]
AddLanes(x, y) == Both(Plus, x, y)
XorLanes(x, y) == Both(XorWord, x, y)

\* A byte shuffle: byte j of the result is byte table[j] of the register.
RegisterByte(x, j) == BitAt(x[j \div Bits + 1], j % Bits)
Shuffle8(x, table) ==
  [n \in Slot |-> FromBits([i \in 0 .. 7 |-> RegisterByte(x, table[Bits * (n - 1) + i + 1])])]
R24 == <<3, 4, 5, 6, 7, 0, 1, 2, 11, 12, 13, 14, 15, 8, 9, 10>>
R16 == <<2, 3, 4, 5, 6, 7, 0, 1, 10, 11, 12, 13, 14, 15, 8, 9>>

\* The four 32-bit elements of a register, a register of four elements, and a
\* shuffle of the elements of two.
Elements(x) == <<LowHalf(x[1]), x[1] \div HalfModulus, LowHalf(x[2]), x[2] \div HalfModulus>>
FromElements(e) == <<e[1] + HalfModulus * e[2], e[3] + HalfModulus * e[4]>>
Joined(x, y) == Elements(x) \o Elements(y)
Shuffle32(x, y, sel) == [n \in 1 .. 4 |-> Joined(x, y)[sel[n] + 1]]
Even(x, y) == Shuffle32(x, y, <<0, 2, 4, 6>>)   \* UZP1, i32x4_shuffle

\* The product of two halves fits in a word: 32 by 32 bits in 64.
Products(x, y) == [n \in Slot |-> x[n] * y[n]]   \* UMULL
LowPair(e) == SubSeq(e, 1, 2)
HighPair(e) == SubSeq(e, 3, 4)
MulEpu32(x, y) == Products(Each(LowHalf, x), Each(LowHalf, y))

-----------------------------------------------------------------------------
(* Rotations to the right                                                    *)

\* shift right XOR shift left.
ByShifts(x, n) ==
  XorLanes(Each(LAMBDA w : ShiftR(w, n), x), Each(LAMBDA w : ShiftL(w, Bits - n), x))

\* shift right XOR x + x.
ByDoubling(x) == XorLanes(Each(LAMBDA w : ShiftR(w, Bits - 1), x), AddLanes(x, x))

\* SRI of x into x shifted left.
ByInsert(x, n) == Each(LAMBDA w : ShiftRInsert(ShiftL(w, Bits - n), w, n), x)

\* PSHUFD, VPSHUFD, REV64, i32x4_shuffle: the halves of each word exchanged.
ByHalves(x) == FromElements(Shuffle32(x, x, <<1, 0, 3, 2>>))

\* VPRORQ.
RotateWord(w, n) == ShiftR(w, n) + ShiftL(w, Bits - n)
ByRotate(x, n) == Each(LAMBDA w : RotateWord(w, n), x)

Rot32(x) ==
  CASE unit.of = "sse2"   -> ByShifts(x, 4)
    [] unit.of = "avx512" -> ByRotate(x, 4)
    [] unit.of = "neon"   -> IF unit.xar THEN ByInsert(x, 4) ELSE ByHalves(x)
    [] OTHER              -> ByHalves(x)

ByTableOrShifts(x, table, n) ==
  CASE unit.of = "sse2"   -> ByShifts(x, n)
    [] unit.of = "avx512" -> ByRotate(x, n)
    [] unit.of = "neon"   -> IF unit.tbl THEN Shuffle8(x, table) ELSE ByInsert(x, n)
    [] OTHER              -> Shuffle8(x, table)
Rot24(x) == ByTableOrShifts(x, R24, 3)
Rot16(x) == ByTableOrShifts(x, R16, 2)

Rot63(x) ==
  CASE unit.of = "sse2"                       -> ByShifts(x, Bits - 1)
    [] unit.of \in {"avx512", "blake avx512"} -> ByRotate(x, Bits - 1)
    [] OTHER                                  -> ByDoubling(x)

Rotated(x, by) ==
  CASE by = 32 -> Rot32(x) [] by = 24 -> Rot24(x) [] by = 16 -> Rot16(x) [] by = 63 -> Rot63(x)

-----------------------------------------------------------------------------
(* fBlaMka on the register pairs x and y of the two sets                     *)

PlusTwice(x, y, z) == AddLanes(AddLanes(x, y), AddLanes(z, z))

\* muladd of avx2.rs: a + (b + 2 ml).
Avx2MulAdd(x, y) ==
  LET ml == MulEpu32(x, y) IN AddLanes(x, AddLanes(y, AddLanes(ml, ml)))

\* f_blamka of neon.rs, one pair at a time: XTN, or one UZP1 of x and y.
NeonMulAdd(x, y) ==
  LET u == Even(x, y)
      z == Products(Each(LowHalf, x), Each(LowHalf, y))
  IN CASE unit.mul = "uzp"   -> LET zz == Products(LowPair(u), HighPair(u)) IN PlusTwice(x, y, zz)
       [] unit.mul = "umlal" -> AddLanes(AddLanes(AddLanes(x, y), z), z)
       [] OTHER              -> PlusTwice(x, y, z)

\* A plausible bug, which no specification uses: UMULL where UMULL2 belongs.
SharedMulAddMutant(x, y) ==
  LET z == Products(LowPair(Even(x[0], x[1])), LowPair(Even(y[0], y[1])))
  IN [s \in Sets |-> PlusTwice(x[s], y[s], z)]

\* f_blamka2 of neon.rs and wasm128.rs: one gather of the two xs and one of the
\* two ys; the low halves make the first product, the high ones the second.
SharedMulAdd(x, y) ==
  LET u == Even(x[0], x[1])
      v == Even(y[0], y[1])
      z == [s \in Sets |-> IF s = 0 THEN Products(LowPair(u), LowPair(v))
                           ELSE Products(HighPair(u), HighPair(v))]
  IN [s \in Sets |-> IF unit.of = "neon" /\ unit.mul = "uzp pair mlal"
                     THEN AddLanes(AddLanes(AddLanes(x[s], y[s]), z[s]), z[s])
                     ELSE PlusTwice(x[s], y[s], z[s])]

Shares == unit.of = "wasm128" \/ (unit.of = "neon" /\ unit.mul \in {"uzp pair", "uzp pair mlal"})

fBlaMka(x, y) ==
  IF Shares THEN SharedMulAdd(x, y)
  ELSE [s \in Sets |-> CASE unit.of = "neon" -> NeonMulAdd(x[s], y[s])
                         [] unit.of = "avx2" -> Avx2MulAdd(x[s], y[s])
                         [] OTHER            -> PlusTwice(x[s], y[s], MulEpu32(x[s], y[s]))]

-----------------------------------------------------------------------------
(* The statements of G, on the sets of registers they work on                *)

Statement(op, of, with, sets) == [op |-> op, of |-> of, with |-> with, sets |-> sets]

\* g1 rotates by 32 and 24, g2 by 16 and 63.
HalfG(sets, first, second) ==
  << Statement("muladd", "a", "b", sets), Statement("xor", "d", "a", sets),
     Statement("rotate", "d", first, sets),
     Statement("muladd", "c", "d", sets), Statement("xor", "b", "c", sets),
     Statement("rotate", "b", second, sets) >>

\* avx2.rs finishes one set before the other, the others go by both.
Ordered(first, second) ==
  IF unit.of = "avx2" THEN HalfG({0}, first, second) \o HalfG({1}, first, second)
  ELSE HalfG(Sets, first, second)
FillG == Ordered(32, 24) \o Ordered(16, 63)

\* G of BLAKE2b: SSE4.1 runs it on one pair of rows and then the other; with the
\* wide registers one call does it all.
BlakeG(sets) ==
  << Statement("add", "a", "b", sets), Statement("message", "a", 1, sets),
     Statement("xor", "d", "a", sets), Statement("rotate", "d", 32, sets),
     Statement("add", "c", "d", sets),
     Statement("xor", "b", "c", sets), Statement("rotate", "b", 24, sets),
     Statement("add", "a", "b", sets), Statement("message", "a", 2, sets),
     Statement("xor", "d", "a", sets), Statement("rotate", "d", 16, sets),
     Statement("add", "c", "d", sets),
     Statement("xor", "b", "c", sets), Statement("rotate", "b", 63, sets) >>

Program ==
  IF unit.of = "blake sse41" THEN BlakeG({0}) \o BlakeG({1})
  ELSE IF Blake(unit) THEN BlakeG(Sets)
  ELSE FillG

WordsInit ==
  /\ unit \in NeonKernels \cup PlainKernels
  /\ line = 1
  /\ given \in Starts
  /\ reg = [r \in Rows |-> [s \in Sets |-> [n \in Slot |-> given[2 * s + n][r]]]]

Comes(op) == line <= Len(Program) /\ Program[line].op = op
Put(values) ==
  LET st == Program[line]
  IN /\ reg' = [reg EXCEPT ![st.of] = [s \in Sets |-> IF s \in st.sets THEN values[s] ELSE @[s]]]
     /\ line' = line + 1
     /\ UNCHANGED <<unit, given>>

MulAdd ==
  /\ Comes("muladd")
  /\ Put(fBlaMka(reg[Program[line].of], reg[Program[line].with]))

XorInto ==
  /\ Comes("xor")
  /\ LET st == Program[line] IN Put([s \in Sets |-> XorLanes(reg[st.of][s], reg[st.with][s])])

AddInto ==
  /\ Comes("add")
  /\ LET st == Program[line] IN Put([s \in Sets |-> AddLanes(reg[st.of][s], reg[st.with][s])])

AddMessage ==
  /\ Comes("message")
  /\ LET st == Program[line]
     IN Put([s \in Sets |-> Each(LAMBDA w : Plus(w, MessageWords[st.with]), reg[st.of][s])])

RotateRegister ==
  /\ Comes("rotate")
  /\ LET st == Program[line] IN Put([s \in Sets |-> Rotated(reg[st.of][s], st.with)])

WordsNext == MulAdd \/ XorInto \/ AddInto \/ AddMessage \/ RotateRegister

WordsSpec == WordsInit /\ [][WordsNext]_wordVars

-----------------------------------------------------------------------------
(* The scalar code                                                           *)

ScalarMix(x, y) == (x + y + 2 * (LowHalf(x) * LowHalf(y))) % Modulus

\* g_values of scalar.rs, which combines two words by f_blamka and has no message,
\* and g of blake2b.rs, which adds them, and the message words to a.
ScalarG(q, blake) ==
  LET Combine(x, y) == IF blake THEN Plus(x, y) ELSE ScalarMix(x, y)
      m  == IF blake THEN MessageWords ELSE <<0, 0>>
      a1 == (Combine(q.a, q.b) + m[1]) % Modulus
      d1 == RotateWord(XorWord(q.d, a1), 4)
      c1 == Combine(q.c, d1)
      b1 == RotateWord(XorWord(q.b, c1), 3)
      a2 == (Combine(a1, b1) + m[2]) % Modulus
      d2 == RotateWord(XorWord(d1, a2), 2)
      c2 == Combine(c1, d2)
      b2 == RotateWord(XorWord(b1, c2), 7)
  IN [a |-> a2, b |-> b2, c |-> c2, d |-> d2]

ScalarResult(q) == ScalarG(q, Blake(unit))

\* When a kernel has run its G, every lane of every set of registers holds what
\* the scalar G makes of the four words the lane began with: no spelling of a
\* rotation or of the product differs, no lane takes another's, and the order of
\* the statements does not matter.
WordsAsScalar ==
  line > Len(Program) =>
    \A s \in Sets, n \in Slot :
      [r \in Rows |-> reg[r][s][n]] = ScalarResult(given[2 * s + n])
=============================================================================
