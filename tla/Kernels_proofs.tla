--------------------------- MODULE Kernels_proofs ---------------------------
(***************************************************************************)
(* The vector code of the block fill and of BLAKE2b.  For any words a      *)
(* kernel starts from, its instructions make of every lane what the scalar *)
(* G makes of it (VectorWords); the compression of BLAKE2b in any register *)
(* layout brings together the words and the message words that the scalar  *)
(* one does, in its order (Blake2bKernels); and so does the fill of a      *)
(* block in every vector backend, call after call (FillKernels).           *)
(***************************************************************************)
EXTENDS FillKernels, VectorWords, Blake2bKernels, SequenceTheorems, Numbers, TLAPS

-----------------------------------------------------------------------------
(* Words of the vector kernels, bit by bit                                   *)

\* Halving a number leaves its last bit.
LEMMA HalfOf ==
  ASSUME NEW q \in Nat, NEW half, half = q \div 2
  PROVE  half \in Nat /\ q % 2 \in 0 .. 1 /\ q = 2 * half + (q % 2)
OBVIOUS

\* The number of eight bits.
Eight(b0, b1, b2, b3, b4, b5, b6, b7) ==
  b0 + 2 * b1 + 4 * b2 + 8 * b3 + 16 * b4 + 32 * b5 + 64 * b6 + 128 * b7

\* x is made of eight bits.
HasBits(x, b0, b1, b2, b3, b4, b5, b6, b7) ==
  /\ {b0, b1, b2, b3, b4, b5, b6, b7} \subseteq 0 .. 1
  /\ x = Eight(b0, b1, b2, b3, b4, b5, b6, b7)

\* A word is eight bits.
LEMMA WordHasBits ==
  ASSUME NEW x \in Octet
  PROVE  \E b0, b1, b2, b3, b4, b5, b6, b7 : HasBits(x, b0, b1, b2, b3, b4, b5, b6, b7)
<1>1. PICK q1, q2, q3, q4, q5, q6, q7 :
        /\ q1 = x \div 2 /\ q2 = q1 \div 2 /\ q3 = q2 \div 2 /\ q4 = q3 \div 2
        /\ q5 = q4 \div 2 /\ q6 = q5 \div 2 /\ q7 = q6 \div 2
  OBVIOUS
<1>2. x \in Nat /\ x <= 255
  BY SMTT(30) DEF Octet, Modulus
<1>3. q1 \in Nat /\ x % 2 \in 0 .. 1 /\ x = 2 * q1 + (x % 2)
  BY <1>1, <1>2, HalfOf, ZenonT(60)
<1>4. q2 \in Nat /\ q1 % 2 \in 0 .. 1 /\ q1 = 2 * q2 + (q1 % 2)
  BY <1>1, <1>3, HalfOf, ZenonT(60)
<1>5. q3 \in Nat /\ q2 % 2 \in 0 .. 1 /\ q2 = 2 * q3 + (q2 % 2)
  BY <1>1, <1>4, HalfOf, ZenonT(60)
<1>6. q4 \in Nat /\ q3 % 2 \in 0 .. 1 /\ q3 = 2 * q4 + (q3 % 2)
  BY <1>1, <1>5, HalfOf, ZenonT(60)
<1>7. q5 \in Nat /\ q4 % 2 \in 0 .. 1 /\ q4 = 2 * q5 + (q4 % 2)
  BY <1>1, <1>6, HalfOf, ZenonT(60)
<1>8. q6 \in Nat /\ q5 % 2 \in 0 .. 1 /\ q5 = 2 * q6 + (q5 % 2)
  BY <1>1, <1>7, HalfOf, ZenonT(60)
<1>9. q7 \in Nat /\ q6 % 2 \in 0 .. 1 /\ q6 = 2 * q7 + (q6 % 2)
  BY <1>1, <1>8, HalfOf, ZenonT(60)
<1>10. PICK b0, b1, b2, b3, b4, b5, b6 :
         /\ b0 = x % 2 /\ b1 = q1 % 2 /\ b2 = q2 % 2 /\ b3 = q3 % 2
         /\ b4 = q4 % 2 /\ b5 = q5 % 2 /\ b6 = q6 % 2
  OBVIOUS
<1>11. q7 \in 0 .. 1 /\ x = Eight(b0, b1, b2, b3, b4, b5, b6, q7)
  BY <1>2, <1>3, <1>4, <1>5, <1>6, <1>7, <1>8, <1>9, <1>10 DEF Eight
<1>12. {b0, b1, b2, b3, b4, b5, b6, q7} \subseteq 0 .. 1
  BY <1>3, <1>4, <1>5, <1>6, <1>7, <1>8, <1>9, <1>10, <1>11
<1>13. HasBits(x, b0, b1, b2, b3, b4, b5, b6, q7)
  BY <1>11, <1>12 DEF HasBits
<1> QED BY <1>13

\* ... which BitAt finds again.
LEMMA BitsOfEight ==
  ASSUME NEW b0, NEW b1, NEW b2, NEW b3, NEW b4, NEW b5, NEW b6, NEW b7,
         NEW x, HasBits(x, b0, b1, b2, b3, b4, b5, b6, b7)
  PROVE  /\ x \in Octet
         /\ BitAt(x, 0) = b0 /\ BitAt(x, 1) = b1 /\ BitAt(x, 2) = b2 /\ BitAt(x, 3) = b3
         /\ BitAt(x, 4) = b4 /\ BitAt(x, 5) = b5 /\ BitAt(x, 6) = b6 /\ BitAt(x, 7) = b7
<1>0. /\ b0 \in 0 .. 1 /\ b1 \in 0 .. 1 /\ b2 \in 0 .. 1 /\ b3 \in 0 .. 1
      /\ b4 \in 0 .. 1 /\ b5 \in 0 .. 1 /\ b6 \in 0 .. 1 /\ b7 \in 0 .. 1
      /\ x = Eight(b0, b1, b2, b3, b4, b5, b6, b7)
  BY DEF HasBits
<1>1. x \in Octet
  BY <1>0 DEF Eight, Octet, Modulus
<1>2. BitAt(x, 0) = b0 /\ BitAt(x, 1) = b1 /\ BitAt(x, 2) = b2 /\ BitAt(x, 3) = b3
  BY <1>0 DEF Eight, BitAt
<1>3. BitAt(x, 4) = b4 /\ BitAt(x, 5) = b5 /\ BitAt(x, 6) = b6 /\ BitAt(x, 7) = b7
  BY <1>0 DEF Eight, BitAt
<1> QED BY <1>1, <1>2, <1>3

\* Exclusive or, bit by bit.
LEMMA XorOfEights ==
  ASSUME NEW a0, NEW a1, NEW a2, NEW a3, NEW a4, NEW a5, NEW a6, NEW a7,
         NEW b0, NEW b1, NEW b2, NEW b3, NEW b4, NEW b5, NEW b6, NEW b7,
         NEW x, HasBits(x, a0, a1, a2, a3, a4, a5, a6, a7),
         NEW y, HasBits(y, b0, b1, b2, b3, b4, b5, b6, b7)
  PROVE  XorWord(x, y) = Eight((a0 + b0) % 2, (a1 + b1) % 2, (a2 + b2) % 2, (a3 + b3) % 2,
                               (a4 + b4) % 2, (a5 + b5) % 2, (a6 + b6) % 2, (a7 + b7) % 2)
<1>1. /\ BitAt(x, 0) = a0 /\ BitAt(x, 1) = a1 /\ BitAt(x, 2) = a2 /\ BitAt(x, 3) = a3
      /\ BitAt(x, 4) = a4 /\ BitAt(x, 5) = a5 /\ BitAt(x, 6) = a6 /\ BitAt(x, 7) = a7
  BY BitsOfEight
<1>2. /\ BitAt(y, 0) = b0 /\ BitAt(y, 1) = b1 /\ BitAt(y, 2) = b2 /\ BitAt(y, 3) = b3
      /\ BitAt(y, 4) = b4 /\ BitAt(y, 5) = b5 /\ BitAt(y, 6) = b6 /\ BitAt(y, 7) = b7
  BY BitsOfEight
<1> DEFINE f == [i \in 0 .. 7 |-> (BitAt(x, i) + BitAt(y, i)) % 2]
<1>3. /\ f[0] = (a0 + b0) % 2 /\ f[1] = (a1 + b1) % 2 /\ f[2] = (a2 + b2) % 2
      /\ f[3] = (a3 + b3) % 2 /\ f[4] = (a4 + b4) % 2 /\ f[5] = (a5 + b5) % 2
      /\ f[6] = (a6 + b6) % 2 /\ f[7] = (a7 + b7) % 2
  BY <1>1, <1>2
<1>4. XorWord(x, y) = FromBits(f)
  BY Zenon DEF XorWord
<1> HIDE DEF f
<1> QED BY <1>3, <1>4, Zenon DEF FromBits, Eight

\* ... gives a word.
LEMMA XorIsWord ==
  ASSUME NEW x \in Octet, NEW y \in Octet
  PROVE  XorWord(x, y) \in Octet
<1>1. PICK a0, a1, a2, a3, a4, a5, a6, a7 : HasBits(x, a0, a1, a2, a3, a4, a5, a6, a7)
  BY WordHasBits
<1>2. PICK b0, b1, b2, b3, b4, b5, b6, b7 : HasBits(y, b0, b1, b2, b3, b4, b5, b6, b7)
  BY WordHasBits
<1>3. XorWord(x, y) = Eight((a0 + b0) % 2, (a1 + b1) % 2, (a2 + b2) % 2, (a3 + b3) % 2,
                            (a4 + b4) % 2, (a5 + b5) % 2, (a6 + b6) % 2, (a7 + b7) % 2)
  BY <1>1, <1>2, XorOfEights
<1>4. HasBits(XorWord(x, y), (a0 + b0) % 2, (a1 + b1) % 2, (a2 + b2) % 2, (a3 + b3) % 2,
                             (a4 + b4) % 2, (a5 + b5) % 2, (a6 + b6) % 2, (a7 + b7) % 2)
  BY <1>1, <1>2, <1>3 DEF HasBits
<1> QED BY <1>4, BitsOfEight

\* What a rotation and its two halves do to the bits.
LEMMA Rotates4 ==
  ASSUME NEW b0, NEW b1, NEW b2, NEW b3, NEW b4, NEW b5, NEW b6, NEW b7,
         NEW x, HasBits(x, b0, b1, b2, b3, b4, b5, b6, b7)
  PROVE  /\ ShiftR(x, 4) = Eight(b4, b5, b6, b7, 0, 0, 0, 0)
         /\ ShiftL(x, 4) = Eight(0, 0, 0, 0, b0, b1, b2, b3)
         /\ RotateWord(x, 4) = Eight(b4, b5, b6, b7, b0, b1, b2, b3)
<1>1. ShiftR(x, 4) = Eight(b4, b5, b6, b7, 0, 0, 0, 0)
  BY DEF ShiftR, Eight, HasBits
<1>2. ShiftL(x, 4) = Eight(0, 0, 0, 0, b0, b1, b2, b3)
  BY DEF ShiftL, Eight, Modulus, HasBits
<1> QED BY <1>1, <1>2 DEF RotateWord, Bits, Eight, HasBits

\* ... by 24 bits, three here, ...
LEMMA Rotates3 ==
  ASSUME NEW b0, NEW b1, NEW b2, NEW b3, NEW b4, NEW b5, NEW b6, NEW b7,
         NEW x, HasBits(x, b0, b1, b2, b3, b4, b5, b6, b7)
  PROVE  /\ ShiftR(x, 3) = Eight(b3, b4, b5, b6, b7, 0, 0, 0)
         /\ ShiftL(x, 5) = Eight(0, 0, 0, 0, 0, b0, b1, b2)
         /\ RotateWord(x, 3) = Eight(b3, b4, b5, b6, b7, b0, b1, b2)
<1>1. ShiftR(x, 3) = Eight(b3, b4, b5, b6, b7, 0, 0, 0)
  BY DEF ShiftR, Eight, HasBits
<1>2. ShiftL(x, 5) = Eight(0, 0, 0, 0, 0, b0, b1, b2)
  BY DEF ShiftL, Eight, Modulus, HasBits
<1> QED BY <1>1, <1>2 DEF RotateWord, Bits, Eight, HasBits

\* ... by 16, ...
LEMMA Rotates2 ==
  ASSUME NEW b0, NEW b1, NEW b2, NEW b3, NEW b4, NEW b5, NEW b6, NEW b7,
         NEW x, HasBits(x, b0, b1, b2, b3, b4, b5, b6, b7)
  PROVE  /\ ShiftR(x, 2) = Eight(b2, b3, b4, b5, b6, b7, 0, 0)
         /\ ShiftL(x, 6) = Eight(0, 0, 0, 0, 0, 0, b0, b1)
         /\ RotateWord(x, 2) = Eight(b2, b3, b4, b5, b6, b7, b0, b1)
<1>1. ShiftR(x, 2) = Eight(b2, b3, b4, b5, b6, b7, 0, 0)
  BY DEF ShiftR, Eight, HasBits
<1>2. ShiftL(x, 6) = Eight(0, 0, 0, 0, 0, 0, b0, b1)
  BY DEF ShiftL, Eight, Modulus, HasBits
<1> QED BY <1>1, <1>2 DEF RotateWord, Bits, Eight, HasBits

\* ... and by 63, whose left shift is an addition.
LEMMA Rotates7 ==
  ASSUME NEW b0, NEW b1, NEW b2, NEW b3, NEW b4, NEW b5, NEW b6, NEW b7,
         NEW x, HasBits(x, b0, b1, b2, b3, b4, b5, b6, b7)
  PROVE  /\ ShiftR(x, 7) = Eight(b7, 0, 0, 0, 0, 0, 0, 0)
         /\ ShiftL(x, 1) = Eight(0, b0, b1, b2, b3, b4, b5, b6)
         /\ RotateWord(x, 7) = Eight(b7, b0, b1, b2, b3, b4, b5, b6)
         /\ Plus(x, x) = ShiftL(x, 1)
<1>1. ShiftR(x, 7) = Eight(b7, 0, 0, 0, 0, 0, 0, 0)
  BY DEF ShiftR, Eight, HasBits
<1>2. ShiftL(x, 1) = Eight(0, b0, b1, b2, b3, b4, b5, b6)
  BY DEF ShiftL, Eight, Modulus, HasBits
<1>3. Plus(x, x) = ShiftL(x, 1)
  BY DEF Plus, ShiftL, Eight, HasBits
<1> QED BY <1>1, <1>2, <1>3 DEF RotateWord, Bits, Eight, HasBits

\* A word turned by a shift each way and an exclusive or, which meets no bit twice, ...
LEMMA TurnsByShifts ==
  ASSUME NEW x \in Octet
  PROVE  /\ XorWord(ShiftR(x, 4), ShiftL(x, 4)) = RotateWord(x, 4)
         /\ XorWord(ShiftR(x, 3), ShiftL(x, 5)) = RotateWord(x, 3)
         /\ XorWord(ShiftR(x, 2), ShiftL(x, 6)) = RotateWord(x, 2)
         /\ XorWord(ShiftR(x, 7), ShiftL(x, 1)) = RotateWord(x, 7)
<1>1. PICK b0, b1, b2, b3, b4, b5, b6, b7 : HasBits(x, b0, b1, b2, b3, b4, b5, b6, b7)
  BY WordHasBits
<1>2. /\ b0 \in 0 .. 1 /\ b1 \in 0 .. 1 /\ b2 \in 0 .. 1 /\ b3 \in 0 .. 1
      /\ b4 \in 0 .. 1 /\ b5 \in 0 .. 1 /\ b6 \in 0 .. 1 /\ b7 \in 0 .. 1
  BY <1>1 DEF HasBits
<1>3. /\ (b0 + 0) % 2 = b0 /\ (b1 + 0) % 2 = b1 /\ (b2 + 0) % 2 = b2 /\ (b3 + 0) % 2 = b3
      /\ (b4 + 0) % 2 = b4 /\ (b5 + 0) % 2 = b5 /\ (b6 + 0) % 2 = b6 /\ (b7 + 0) % 2 = b7
      /\ (0 + b0) % 2 = b0 /\ (0 + b1) % 2 = b1 /\ (0 + b2) % 2 = b2 /\ (0 + b3) % 2 = b3
      /\ (0 + b4) % 2 = b4 /\ (0 + b5) % 2 = b5 /\ (0 + b6) % 2 = b6 /\ (0 + b7) % 2 = b7
  BY <1>2
<1>4. XorWord(ShiftR(x, 4), ShiftL(x, 4)) = RotateWord(x, 4)
  <2>1. /\ HasBits(ShiftR(x, 4), b4, b5, b6, b7, 0, 0, 0, 0)
        /\ HasBits(ShiftL(x, 4), 0, 0, 0, 0, b0, b1, b2, b3)
    BY <1>1, <1>2, Rotates4 DEF HasBits
  <2>2. XorWord(ShiftR(x, 4), ShiftL(x, 4)) =
          Eight((b4 + 0) % 2, (b5 + 0) % 2, (b6 + 0) % 2, (b7 + 0) % 2,
                (0 + b0) % 2, (0 + b1) % 2, (0 + b2) % 2, (0 + b3) % 2)
    BY <2>1, XorOfEights
  <2>3. RotateWord(x, 4) = Eight(b4, b5, b6, b7, b0, b1, b2, b3)
    BY <1>1, Rotates4
  <2> QED BY <1>3, <2>2, <2>3, Zenon
<1>5. XorWord(ShiftR(x, 3), ShiftL(x, 5)) = RotateWord(x, 3)
  <2>1. /\ HasBits(ShiftR(x, 3), b3, b4, b5, b6, b7, 0, 0, 0)
        /\ HasBits(ShiftL(x, 5), 0, 0, 0, 0, 0, b0, b1, b2)
    BY <1>1, <1>2, Rotates3 DEF HasBits
  <2>2. XorWord(ShiftR(x, 3), ShiftL(x, 5)) =
          Eight((b3 + 0) % 2, (b4 + 0) % 2, (b5 + 0) % 2, (b6 + 0) % 2,
                (b7 + 0) % 2, (0 + b0) % 2, (0 + b1) % 2, (0 + b2) % 2)
    BY <2>1, XorOfEights
  <2>3. RotateWord(x, 3) = Eight(b3, b4, b5, b6, b7, b0, b1, b2)
    BY <1>1, Rotates3
  <2> QED BY <1>3, <2>2, <2>3, Zenon
<1>6. XorWord(ShiftR(x, 2), ShiftL(x, 6)) = RotateWord(x, 2)
  <2>1. /\ HasBits(ShiftR(x, 2), b2, b3, b4, b5, b6, b7, 0, 0)
        /\ HasBits(ShiftL(x, 6), 0, 0, 0, 0, 0, 0, b0, b1)
    BY <1>1, <1>2, Rotates2 DEF HasBits
  <2>2. XorWord(ShiftR(x, 2), ShiftL(x, 6)) =
          Eight((b2 + 0) % 2, (b3 + 0) % 2, (b4 + 0) % 2, (b5 + 0) % 2,
                (b6 + 0) % 2, (b7 + 0) % 2, (0 + b0) % 2, (0 + b1) % 2)
    BY <2>1, XorOfEights
  <2>3. RotateWord(x, 2) = Eight(b2, b3, b4, b5, b6, b7, b0, b1)
    BY <1>1, Rotates2
  <2> QED BY <1>3, <2>2, <2>3, Zenon
<1>7. XorWord(ShiftR(x, 7), ShiftL(x, 1)) = RotateWord(x, 7)
  <2>1. /\ HasBits(ShiftR(x, 7), b7, 0, 0, 0, 0, 0, 0, 0)
        /\ HasBits(ShiftL(x, 1), 0, b0, b1, b2, b3, b4, b5, b6)
    BY <1>1, <1>2, Rotates7 DEF HasBits
  <2>2. XorWord(ShiftR(x, 7), ShiftL(x, 1)) =
          Eight((b7 + 0) % 2, (0 + b0) % 2, (0 + b1) % 2, (0 + b2) % 2,
                (0 + b3) % 2, (0 + b4) % 2, (0 + b5) % 2, (0 + b6) % 2)
    BY <2>1, XorOfEights
  <2>3. RotateWord(x, 7) = Eight(b7, b0, b1, b2, b3, b4, b5, b6)
    BY <1>1, Rotates7
  <2> QED BY <1>3, <2>2, <2>3, Zenon
<1> QED BY <1>4, <1>5, <1>6, <1>7

\* ... by inserting what one shift drops into the room of the other, ...
LEMMA TurnsByInsert ==
  ASSUME NEW x \in Octet
  PROVE  /\ ShiftRInsert(ShiftL(x, 4), x, 4) = RotateWord(x, 4)
         /\ ShiftRInsert(ShiftL(x, 5), x, 3) = RotateWord(x, 3)
         /\ ShiftRInsert(ShiftL(x, 6), x, 2) = RotateWord(x, 2)
<1>1. x \in 0 .. 255
  BY DEF Octet, Modulus
<1>2. /\ ShiftL(x, 4) \in Nat /\ ShiftL(x, 4) % 16 = 0
      /\ ShiftL(x, 5) \in Nat /\ ShiftL(x, 5) % 32 = 0
      /\ ShiftL(x, 6) \in Nat /\ ShiftL(x, 6) % 64 = 0
  BY <1>1 DEF ShiftL, Modulus
<1>3. Bits - 4 = 4 /\ Bits - 3 = 5 /\ Bits - 2 = 6
  BY DEF Bits
<1>4. 2^4 = 16 /\ 2^5 = 32 /\ 2^6 = 64
  OBVIOUS
<1>5. ShiftR(x, 4) \in Int /\ ShiftR(x, 3) \in Int /\ ShiftR(x, 2) \in Int
  BY <1>1 DEF ShiftR
<1>6. ShiftRInsert(ShiftL(x, 4), x, 4) = RotateWord(x, 4)
  <2>1. ShiftRInsert(ShiftL(x, 4), x, 4) = (ShiftL(x, 4) - (ShiftL(x, 4) % 16)) + ShiftR(x, 4)
    BY <1>3, <1>4, Zenon DEF ShiftRInsert
  <2>2. RotateWord(x, 4) = ShiftR(x, 4) + ShiftL(x, 4)
    BY <1>3, Zenon DEF RotateWord
  <2> QED BY <1>2, <1>5, <2>1, <2>2
<1>7. ShiftRInsert(ShiftL(x, 5), x, 3) = RotateWord(x, 3)
  <2>1. ShiftRInsert(ShiftL(x, 5), x, 3) = (ShiftL(x, 5) - (ShiftL(x, 5) % 32)) + ShiftR(x, 3)
    BY <1>3, <1>4, Zenon DEF ShiftRInsert
  <2>2. RotateWord(x, 3) = ShiftR(x, 3) + ShiftL(x, 5)
    BY <1>3, Zenon DEF RotateWord
  <2> QED BY <1>2, <1>5, <2>1, <2>2
<1>8. ShiftRInsert(ShiftL(x, 6), x, 2) = RotateWord(x, 2)
  <2>1. ShiftRInsert(ShiftL(x, 6), x, 2) = (ShiftL(x, 6) - (ShiftL(x, 6) % 64)) + ShiftR(x, 2)
    BY <1>3, <1>4, Zenon DEF ShiftRInsert
  <2>2. RotateWord(x, 2) = ShiftR(x, 2) + ShiftL(x, 6)
    BY <1>3, Zenon DEF RotateWord
  <2> QED BY <1>2, <1>5, <2>1, <2>2
<1> QED BY <1>6, <1>7, <1>8

\* ... or bit by bit from a table.
LEMMA TurnsByTable ==
  ASSUME NEW x \in Octet
  PROVE  /\ FromBits([i \in 0 .. 7 |-> BitAt(x, (i + 3) % 8)]) = RotateWord(x, 3)
         /\ FromBits([i \in 0 .. 7 |-> BitAt(x, (i + 2) % 8)]) = RotateWord(x, 2)
<1>1. PICK b0, b1, b2, b3, b4, b5, b6, b7 : HasBits(x, b0, b1, b2, b3, b4, b5, b6, b7)
  BY WordHasBits
<1>2. /\ BitAt(x, 0) = b0 /\ BitAt(x, 1) = b1 /\ BitAt(x, 2) = b2 /\ BitAt(x, 3) = b3
      /\ BitAt(x, 4) = b4 /\ BitAt(x, 5) = b5 /\ BitAt(x, 6) = b6 /\ BitAt(x, 7) = b7
  BY <1>1, BitsOfEight
<1>3. FromBits([i \in 0 .. 7 |-> BitAt(x, (i + 3) % 8)]) = Eight(b3, b4, b5, b6, b7, b0, b1, b2)
  BY <1>2 DEF FromBits, Eight
<1>4. FromBits([i \in 0 .. 7 |-> BitAt(x, (i + 2) % 8)]) = Eight(b2, b3, b4, b5, b6, b7, b0, b1)
  BY <1>2 DEF FromBits, Eight
<1> QED BY <1>1, <1>3, <1>4, Rotates3, Rotates2

\* The halves of a word exchanged.
LEMMA TurnsByHalves ==
  ASSUME NEW x \in Octet
  PROVE  (x \div HalfModulus) + HalfModulus * LowHalf(x) = RotateWord(x, 4)
BY DEF Octet, Modulus, HalfModulus, LowHalf, RotateWord, ShiftR, ShiftL, Bits

\* A rotated word is a word.
LEMMA TurnedIsWord ==
  ASSUME NEW x \in Octet, NEW n \in {2, 3, 4, 7}
  PROVE  RotateWord(x, n) \in Octet
<1>1. PICK b0, b1, b2, b3, b4, b5, b6, b7 : HasBits(x, b0, b1, b2, b3, b4, b5, b6, b7)
  BY WordHasBits
<1>2. /\ HasBits(RotateWord(x, 4), b4, b5, b6, b7, b0, b1, b2, b3)
      /\ HasBits(RotateWord(x, 3), b3, b4, b5, b6, b7, b0, b1, b2)
      /\ HasBits(RotateWord(x, 2), b2, b3, b4, b5, b6, b7, b0, b1)
      /\ HasBits(RotateWord(x, 7), b7, b0, b1, b2, b3, b4, b5, b6)
  BY <1>1, Rotates4, Rotates3, Rotates2, Rotates7 DEF HasBits
<1> QED BY <1>2, BitsOfEight

-----------------------------------------------------------------------------
(* Rotations and products of a register                                      *)

Register == [Slot -> Octet]

\* Every way to turn a register turns each of its words.
LEMMA ShiftsTurn ==
  ASSUME NEW x \in Register
  PROVE  /\ ByShifts(x, 4) = ByRotate(x, 4) /\ ByShifts(x, 3) = ByRotate(x, 3)
         /\ ByShifts(x, 2) = ByRotate(x, 2) /\ ByShifts(x, Bits - 1) = ByRotate(x, Bits - 1)
         /\ ByDoubling(x) = ByRotate(x, Bits - 1)
<1>1. \A n \in Slot : x[n] \in Octet
  BY DEF Register
<1>2. Bits - 4 = 4 /\ Bits - 3 = 5 /\ Bits - 2 = 6 /\ Bits - 1 = 7 /\ Bits - 7 = 1
  BY DEF Bits
<1>3. /\ ByShifts(x, 4) = [k \in Slot |-> XorWord(ShiftR(x[k], 4), ShiftL(x[k], 4))]
      /\ ByShifts(x, 3) = [k \in Slot |-> XorWord(ShiftR(x[k], 3), ShiftL(x[k], 5))]
      /\ ByShifts(x, 2) = [k \in Slot |-> XorWord(ShiftR(x[k], 2), ShiftL(x[k], 6))]
      /\ ByShifts(x, 7) = [k \in Slot |-> XorWord(ShiftR(x[k], 7), ShiftL(x[k], 1))]
  BY <1>2 DEF ByShifts, XorLanes, Both, Each
<1>7. /\ ByRotate(x, 4) = [k \in Slot |-> RotateWord(x[k], 4)]
      /\ ByRotate(x, 3) = [k \in Slot |-> RotateWord(x[k], 3)]
      /\ ByRotate(x, 2) = [k \in Slot |-> RotateWord(x[k], 2)]
      /\ ByRotate(x, 7) = [k \in Slot |-> RotateWord(x[k], 7)]
  BY DEF ByRotate, Each
<1>4. ByDoubling(x) = [k \in Slot |-> XorWord(ShiftR(x[k], 7), Plus(x[k], x[k]))]
  BY <1>2, Zenon DEF ByDoubling, XorLanes, AddLanes, Both, Each
<1>5. \A k \in Slot : Plus(x[k], x[k]) = ShiftL(x[k], 1)
  BY <1>1 DEF Plus, ShiftL, Octet, Modulus
<1>6. \A k \in Slot : /\ XorWord(ShiftR(x[k], 4), ShiftL(x[k], 4)) = RotateWord(x[k], 4)
                      /\ XorWord(ShiftR(x[k], 3), ShiftL(x[k], 5)) = RotateWord(x[k], 3)
                      /\ XorWord(ShiftR(x[k], 2), ShiftL(x[k], 6)) = RotateWord(x[k], 2)
                      /\ XorWord(ShiftR(x[k], 7), ShiftL(x[k], 1)) = RotateWord(x[k], 7)
  BY <1>1, TurnsByShifts
<1>8. ByShifts(x, 4) = ByRotate(x, 4) /\ ByShifts(x, 3) = ByRotate(x, 3)
  BY <1>3, <1>6, <1>7
<1>9. ByShifts(x, 2) = ByRotate(x, 2) /\ ByShifts(x, 7) = ByRotate(x, 7)
  BY <1>3, <1>6, <1>7
<1>10. ByDoubling(x) = ByRotate(x, 7)
  BY <1>4, <1>5, <1>6, <1>7
<1> QED BY <1>2, <1>8, <1>9, <1>10

\* Shift and insert do.
LEMMA InsertsTurn ==
  ASSUME NEW x \in Register
  PROVE  /\ ByInsert(x, 4) = ByRotate(x, 4) /\ ByInsert(x, 3) = ByRotate(x, 3)
         /\ ByInsert(x, 2) = ByRotate(x, 2)
<1>1. \A n \in Slot : x[n] \in Octet
  BY DEF Register
<1>2. Bits - 4 = 4 /\ Bits - 3 = 5 /\ Bits - 2 = 6
  BY DEF Bits
<1>3. /\ ByInsert(x, 4) = [k \in Slot |-> ShiftRInsert(ShiftL(x[k], 4), x[k], 4)]
      /\ ByInsert(x, 3) = [k \in Slot |-> ShiftRInsert(ShiftL(x[k], 5), x[k], 3)]
      /\ ByInsert(x, 2) = [k \in Slot |-> ShiftRInsert(ShiftL(x[k], 6), x[k], 2)]
  BY <1>2 DEF ByInsert, Each
<1>4. /\ ByRotate(x, 4) = [k \in Slot |-> RotateWord(x[k], 4)]
      /\ ByRotate(x, 3) = [k \in Slot |-> RotateWord(x[k], 3)]
      /\ ByRotate(x, 2) = [k \in Slot |-> RotateWord(x[k], 2)]
  BY DEF ByRotate, Each
<1>5. \A k \in Slot : /\ ShiftRInsert(ShiftL(x[k], 4), x[k], 4) = RotateWord(x[k], 4)
                      /\ ShiftRInsert(ShiftL(x[k], 5), x[k], 3) = RotateWord(x[k], 3)
                      /\ ShiftRInsert(ShiftL(x[k], 6), x[k], 2) = RotateWord(x[k], 2)
  BY <1>1, TurnsByInsert
<1> QED BY <1>3, <1>4, <1>5

\* The elements of two registers, side by side.
LEMMA JoinedAre ==
  ASSUME NEW x, NEW y, NEW i \in 1 .. 8
  PROVE  Joined(x, y)[i] = IF i <= 4 THEN Elements(x)[i] ELSE Elements(y)[i - 4]
<1> DEFINE u == Elements(x)
           v == Elements(y)
           T == {u[k] : k \in 1 .. 4} \cup {v[k] : k \in 1 .. 4}
<1>1. Len(u) = 4 /\ Len(v) = 4
  BY DEF Elements
<1>2. u \in Seq(T) /\ v \in Seq(T)
  BY DEF Elements
<1>3. PICK S, a, b : /\ a = Elements(x) /\ b = Elements(y) /\ a \in Seq(S) /\ b \in Seq(S)
                       /\ Len(a) = 4 /\ Len(b) = 4
  <2> HIDE DEF T
  <2> QED BY <1>1, <1>2, Zenon
<1> HIDE DEF T, u, v
<1>4. (a \o b)[i] = IF i <= 4 THEN a[i] ELSE b[i - 4]
  <2>1. a \in Seq(S) /\ b \in Seq(S)
    BY <1>3
  <2>2. \A k \in 1 .. Len(a) + Len(b) :
          (a \o b)[k] = IF k <= Len(a) THEN a[k] ELSE b[k - Len(a)]
    BY <2>1, ConcatProperties
  <2>3. i \in 1 .. 4 + 4
    OBVIOUS
  <2> QED BY <1>3, <2>2, <2>3, Zenon
<1>5. Joined(x, y) = a \o b
  BY <1>3, Zenon DEF Joined
<1> QED BY <1>3, <1>4, <1>5, Zenon

\* ... each a half of a word.
LEMMA JoinedElements ==
  ASSUME NEW x, NEW y
  PROVE  /\ Joined(x, y)[1] = LowHalf(x[1]) /\ Joined(x, y)[2] = x[1] \div HalfModulus
         /\ Joined(x, y)[3] = LowHalf(x[2]) /\ Joined(x, y)[4] = x[2] \div HalfModulus
         /\ Joined(x, y)[5] = LowHalf(y[1]) /\ Joined(x, y)[6] = y[1] \div HalfModulus
         /\ Joined(x, y)[7] = LowHalf(y[2]) /\ Joined(x, y)[8] = y[2] \div HalfModulus
<1>1. \A i \in 1 .. 8 :
        Joined(x, y)[i] = IF i <= 4 THEN Elements(x)[i] ELSE Elements(y)[i - 4]
  BY JoinedAre
<1> QED BY <1>1 DEF Elements

\* Exchanging halves does.
LEMMA HalvesTurn ==
  ASSUME NEW x \in Register
  PROVE  ByHalves(x) = ByRotate(x, 4)
<1>1. x[1] \in Octet /\ x[2] \in Octet
  BY DEF Register, Slot
<1> DEFINE e == Shuffle32(x, x, <<1, 0, 3, 2>>)
           w == Joined(x, x)
<1>2. e = [n \in 1 .. 4 |-> w[<<1, 0, 3, 2>>[n] + 1]]
  BY DEF Shuffle32
<1>3. /\ w[2] = x[1] \div HalfModulus /\ w[1] = LowHalf(x[1])
      /\ w[4] = x[2] \div HalfModulus /\ w[3] = LowHalf(x[2])
  BY JoinedElements
<1>4. e[1] = w[2] /\ e[2] = w[1] /\ e[3] = w[4] /\ e[4] = w[3]
  <2> HIDE DEF e, w
  <2> QED BY <1>2
<1>5. /\ e[1] + HalfModulus * e[2] = RotateWord(x[1], 4)
      /\ e[3] + HalfModulus * e[4] = RotateWord(x[2], 4)
  BY <1>1, <1>3, <1>4, TurnsByHalves, Zenon
<1>6. ByHalves(x) = <<e[1] + HalfModulus * e[2], e[3] + HalfModulus * e[4]>>
  BY DEF ByHalves, FromElements
<1>7. ByRotate(x, 4) = [k \in 1 .. 2 |-> RotateWord(x[k], 4)]
  BY DEF ByRotate, Each, Slot
<1> HIDE DEF e, w
<1> QED BY <1>5, <1>6, <1>7

\* The tables of byte shuffles do.
LEMMA TablesTurn ==
  ASSUME NEW x \in Register
  PROVE  Shuffle8(x, R24) = ByRotate(x, 3) /\ Shuffle8(x, R16) = ByRotate(x, 2)
<1>1. x[1] \in Octet /\ x[2] \in Octet
  BY DEF Register, Slot
<1>2. \A i \in 0 .. 7 : /\ R24[8 * (1 - 1) + i + 1] = (i + 3) % 8
                        /\ R24[8 * (2 - 1) + i + 1] = 8 + ((i + 3) % 8)
                        /\ R16[8 * (1 - 1) + i + 1] = (i + 2) % 8
                        /\ R16[8 * (2 - 1) + i + 1] = 8 + ((i + 2) % 8)
  <2> SUFFICES ASSUME NEW i \in {0, 1, 2, 3, 4, 5, 6, 7}
               PROVE  /\ R24[8 * (1 - 1) + i + 1] = (i + 3) % 8
                      /\ R24[8 * (2 - 1) + i + 1] = 8 + ((i + 3) % 8)
                      /\ R16[8 * (1 - 1) + i + 1] = (i + 2) % 8
                      /\ R16[8 * (2 - 1) + i + 1] = 8 + ((i + 2) % 8)
    OBVIOUS
  <2> QED BY DEF R24, R16
<1>3. \A j \in 0 .. 7 : /\ RegisterByte(x, j) = BitAt(x[1], j)
                       /\ RegisterByte(x, 8 + j) = BitAt(x[2], j)
  BY DEF RegisterByte, Bits
<1>4. \A i \in 0 .. 7 : (i + 3) % 8 \in 0 .. 7 /\ (i + 2) % 8 \in 0 .. 7
  OBVIOUS
<1>5. /\ Shuffle8(x, R24) = [n \in Slot |-> FromBits(
              [i \in 0 .. 7 |-> RegisterByte(x, R24[8 * (n - 1) + i + 1])])]
      /\ Shuffle8(x, R16) = [n \in Slot |-> FromBits(
              [i \in 0 .. 7 |-> RegisterByte(x, R16[8 * (n - 1) + i + 1])])]
  BY DEF Shuffle8, Bits
<1>6. /\ [i \in 0 .. 7 |-> RegisterByte(x, R24[8 * (1 - 1) + i + 1])] =
           [i \in 0 .. 7 |-> BitAt(x[1], (i + 3) % 8)]
      /\ [i \in 0 .. 7 |-> RegisterByte(x, R24[8 * (2 - 1) + i + 1])] =
           [i \in 0 .. 7 |-> BitAt(x[2], (i + 3) % 8)]
      /\ [i \in 0 .. 7 |-> RegisterByte(x, R16[8 * (1 - 1) + i + 1])] =
           [i \in 0 .. 7 |-> BitAt(x[1], (i + 2) % 8)]
      /\ [i \in 0 .. 7 |-> RegisterByte(x, R16[8 * (2 - 1) + i + 1])] =
           [i \in 0 .. 7 |-> BitAt(x[2], (i + 2) % 8)]
  BY <1>2, <1>3, <1>4, Zenon
<1>7. /\ ByRotate(x, 3) = [k \in Slot |-> RotateWord(x[k], 3)]
      /\ ByRotate(x, 2) = [k \in Slot |-> RotateWord(x[k], 2)]
  BY DEF ByRotate, Each
<1>8. Slot = {1, 2}
  BY DEF Slot
<1>9. ASSUME NEW n \in Slot
      PROVE  /\ FromBits([i \in 0 .. 7 |-> RegisterByte(x, R24[8 * (n - 1) + i + 1])]) =
                  RotateWord(x[n], 3)
             /\ FromBits([i \in 0 .. 7 |-> RegisterByte(x, R16[8 * (n - 1) + i + 1])]) =
                  RotateWord(x[n], 2)
  <2>1. CASE n = 1
    BY <1>1, <1>6, <2>1, TurnsByTable, Zenon
  <2>2. CASE n = 2
    BY <1>1, <1>6, <2>2, TurnsByTable, Zenon
  <2> QED BY <1>8, <2>1, <2>2
<1>10. Shuffle8(x, R24) = ByRotate(x, 3)
  BY <1>5, <1>7, <1>9
<1>11. Shuffle8(x, R16) = ByRotate(x, 2)
  BY <1>5, <1>7, <1>9
<1> QED BY <1>10, <1>11

\* Whatever the kernel, a rotation of a register is one of each word by as many bits
\* as the scalar code's.
THEOREM EveryRotation ==
  ASSUME NEW x \in Register
  PROVE  /\ Rotated(x, 32) = ByRotate(x, 4) /\ Rotated(x, 24) = ByRotate(x, 3)
         /\ Rotated(x, 16) = ByRotate(x, 2) /\ Rotated(x, 63) = ByRotate(x, Bits - 1)
<1>1. Rot32(x) = ByRotate(x, 4)
  BY ShiftsTurn, InsertsTurn, HalvesTurn DEF Rot32
<1>2. Rot24(x) = ByRotate(x, 3)
  BY ShiftsTurn, InsertsTurn, TablesTurn DEF Rot24, ByTableOrShifts
<1>3. Rot16(x) = ByRotate(x, 2)
  BY ShiftsTurn, InsertsTurn, TablesTurn DEF Rot16, ByTableOrShifts
<1>4. Rot63(x) = ByRotate(x, Bits - 1)
  BY ShiftsTurn DEF Rot63
<1>5. /\ Rotated(x, 32) = Rot32(x) /\ Rotated(x, 24) = Rot24(x)
      /\ Rotated(x, 16) = Rot16(x) /\ Rotated(x, 63) = Rot63(x)
  BY DEF Rotated
<1> QED BY <1>1, <1>2, <1>3, <1>4, <1>5

\* The products of the low halves.
LowProducts(x, y) == [n \in Slot |-> LowHalf(x[n]) * LowHalf(y[n])]

\* A half and a product of halves are numbers.
LEMMA HalfIsSmall ==
  ASSUME NEW x \in Octet, NEW y \in Octet
  PROVE  LowHalf(x) \in 0 .. 15 /\ LowHalf(x) * LowHalf(y) \in Nat
<1>1. \A w \in Octet : LowHalf(w) \in 0 .. 15
  BY DEF Octet, Modulus, LowHalf, HalfModulus
<1>2. PICK a, b : a = LowHalf(x) /\ b = LowHalf(y)
  OBVIOUS
<1>3. a \in Nat /\ b \in Nat
  BY <1>1, <1>2
<1>4. a * b \in Nat
  BY <1>3
<1> QED BY <1>1, <1>2, <1>4

\* Two elements in a row.
LEMMA TwoOf ==
  ASSUME NEW e, NEW m \in {1, 3}
  PROVE  SubSeq(e, m, m + 1) = <<e[m], e[m + 1]>>
<1> DEFINE T == {e[n] : n \in m .. m + 1}
<1>1. m \in Int /\ m + 1 \in Int /\ \A i \in m .. m + 1 : e[i] \in T
  OBVIOUS
<1> HIDE DEF T
<1>2. PICK n : n = m + 1
  OBVIOUS
<1>3. /\ SubSeq(e, m, n) \in Seq(T) /\ Len(SubSeq(e, m, n)) = IF m <= n THEN n - m + 1 ELSE 0
      /\ \A i \in 1 .. n - m + 1 : SubSeq(e, m, n)[i] = e[m + i - 1]
  <2>1. m \in Int /\ n \in Int /\ \A i \in m .. n : e[i] \in T
    BY <1>1, <1>2
  <2> QED BY <2>1, SubSeqProperties
<1>4. PICK f : f = SubSeq(e, m, n)
  OBVIOUS
<1>5. f \in Seq(T) /\ Len(f) = 2 /\ f[1] = e[m] /\ f[2] = e[n]
  BY <1>2, <1>3, <1>4
<1>6. f = <<e[m], e[n]>>
  BY <1>5
<1> QED BY <1>2, <1>4, <1>6

\* They are gathered from two registers into one, ...
LEMMA EvensAre ==
  ASSUME NEW x, NEW y
  PROVE  /\ LowPair(Even(x, y)) = <<LowHalf(x[1]), LowHalf(x[2])>>
         /\ HighPair(Even(x, y)) = <<LowHalf(y[1]), LowHalf(y[2])>>
<1> DEFINE e == Even(x, y)
           w == Joined(x, y)
<1>1. e = [n \in 1 .. 4 |-> w[<<0, 2, 4, 6>>[n] + 1]]
  BY DEF Even, Shuffle32
<1>2. /\ w[1] = LowHalf(x[1]) /\ w[3] = LowHalf(x[2])
      /\ w[5] = LowHalf(y[1]) /\ w[7] = LowHalf(y[2])
  BY JoinedElements
<1>3. /\ e[1] = w[1] /\ e[2] = w[3] /\ e[3] = w[5] /\ e[4] = w[7]
  <2> HIDE DEF e, w
  <2> QED BY <1>1
<1> HIDE DEF e, w
<1>4. SubSeq(e, 1, 1 + 1) = <<e[1], e[1 + 1]>> /\ SubSeq(e, 3, 3 + 1) = <<e[3], e[3 + 1]>>
  BY TwoOf
<1>5. SubSeq(e, 1, 2) = <<e[1], e[2]>> /\ SubSeq(e, 3, 4) = <<e[3], e[4]>>
  <2>1. 1 + 1 = 2 /\ 3 + 1 = 4
    OBVIOUS
  <2> QED BY <1>4, <2>1, Zenon
<1> QED BY <1>2, <1>3, <1>5 DEF LowPair, HighPair, e

\* ... so the product is always that of the low halves.
LEMMA ProductsAre ==
  ASSUME NEW x, NEW y
  PROVE  /\ MulEpu32(x, y) = LowProducts(x, y)
         /\ Products(LowPair(Even(x, y)), HighPair(Even(x, y))) = LowProducts(x, y)
<1>1. MulEpu32(x, y) = LowProducts(x, y)
  BY DEF MulEpu32, Products, LowProducts, Each
<1>2. \A n \in Slot : /\ <<LowHalf(x[1]), LowHalf(x[2])>>[n] = LowHalf(x[n])
                      /\ <<LowHalf(y[1]), LowHalf(y[2])>>[n] = LowHalf(y[n])
  BY DEF Slot
<1> QED BY <1>1, <1>2, EvensAre DEF Products, LowProducts

\* The gather two products share gives the low halves of either.
LEMMA SharedProductsAre ==
  ASSUME NEW x, NEW y, NEW p, NEW q
  PROVE  /\ Products(LowPair(Even(x, p)), LowPair(Even(y, q))) = LowProducts(x, y)
         /\ Products(HighPair(Even(p, x)), HighPair(Even(q, y))) = LowProducts(x, y)
<1>1. \A n \in Slot : /\ <<LowHalf(x[1]), LowHalf(x[2])>>[n] = LowHalf(x[n])
                      /\ <<LowHalf(y[1]), LowHalf(y[2])>>[n] = LowHalf(y[n])
  BY DEF Slot
<1> QED BY <1>1, EvensAre DEF Products, LowProducts

\* Each lane of the sum, in whatever order it is formed.
MixedLanes(x, y) == [n \in Slot |-> ScalarMix(x[n], y[n])]

\* Every order of the additions gives f_blamka.
LEMMA SumsAre ==
  ASSUME NEW x \in Register, NEW y \in Register, NEW z, z = LowProducts(x, y)
  PROVE  /\ PlusTwice(x, y, z) = MixedLanes(x, y)
         /\ AddLanes(AddLanes(AddLanes(x, y), z), z) = MixedLanes(x, y)
         /\ AddLanes(x, AddLanes(y, AddLanes(z, z))) = MixedLanes(x, y)
<1>1. ASSUME NEW n \in Slot
      PROVE  /\ Plus(Plus(x[n], y[n]), Plus(z[n], z[n])) = ScalarMix(x[n], y[n])
             /\ Plus(Plus(Plus(x[n], y[n]), z[n]), z[n]) = ScalarMix(x[n], y[n])
             /\ Plus(x[n], Plus(y[n], Plus(z[n], z[n]))) = ScalarMix(x[n], y[n])
  <2>1. x[n] \in Octet /\ y[n] \in Octet
    BY DEF Register
  <2>2. PICK a, b, c : a = x[n] /\ b = y[n] /\ c = z[n]
    OBVIOUS
  <2>3. c = LowHalf(a) * LowHalf(b) /\ c \in Nat
    BY <2>1, <2>2, HalfIsSmall DEF LowProducts
  <2>4. a \in Nat /\ b \in Nat
    BY <2>1, <2>2 DEF Octet, Modulus
  <2>5. ScalarMix(a, b) = (a + b + 2 * c) % 256
    BY <2>3 DEF ScalarMix, Modulus
  <2>6. /\ Plus(Plus(a, b), Plus(c, c)) = (a + b + 2 * c) % 256
        /\ Plus(Plus(Plus(a, b), c), c) = (a + b + 2 * c) % 256
        /\ Plus(a, Plus(b, Plus(c, c))) = (a + b + 2 * c) % 256
    <3> HIDE <2>3
    <3>1. c \in Nat
      BY <2>3
    <3> QED BY <2>4, <3>1 DEF Plus, Modulus
  <2> QED BY <2>2, <2>5, <2>6
<1>2. /\ PlusTwice(x, y, z) = [n \in Slot |-> Plus(Plus(x[n], y[n]), Plus(z[n], z[n]))]
      /\ AddLanes(AddLanes(AddLanes(x, y), z), z) =
           [n \in Slot |-> Plus(Plus(Plus(x[n], y[n]), z[n]), z[n])]
      /\ AddLanes(x, AddLanes(y, AddLanes(z, z))) =
           [n \in Slot |-> Plus(x[n], Plus(y[n], Plus(z[n], z[n])))]
  BY DEF PlusTwice, AddLanes, Both
<1> QED BY <1>1, <1>2 DEF MixedLanes

\* Whatever the kernel, its f_blamka is the scalar one in each lane.
THEOREM EveryMulAdd ==
  ASSUME NEW x \in [Sets -> Register], NEW y \in [Sets -> Register]
  PROVE  fBlaMka(x, y) = [s \in Sets |-> MixedLanes(x[s], y[s])]
<1>1. \A s \in Sets : x[s] \in Register /\ y[s] \in Register
  OBVIOUS
<1>2. CASE Shares
  <2> DEFINE u == Even(x[0], x[1])
             v == Even(y[0], y[1])
             z == [s \in Sets |-> IF s = 0 THEN Products(LowPair(u), LowPair(v))
                                  ELSE Products(HighPair(u), HighPair(v))]
  <2>1. \A s \in Sets : z[s] = LowProducts(x[s], y[s])
    BY SharedProductsAre DEF Sets
  <2>2. SharedMulAdd(x, y) =
          [s \in Sets |-> IF unit.of = "neon" /\ unit.mul = "uzp pair mlal"
                          THEN AddLanes(AddLanes(AddLanes(x[s], y[s]), z[s]), z[s])
                          ELSE PlusTwice(x[s], y[s], z[s])]
    BY DEF SharedMulAdd
  <2> HIDE DEF z
  <2>3. \A s \in Sets : /\ AddLanes(AddLanes(AddLanes(x[s], y[s]), z[s]), z[s]) = MixedLanes(x[s], y[s])
                        /\ PlusTwice(x[s], y[s], z[s]) = MixedLanes(x[s], y[s])
    BY <1>1, <2>1, SumsAre
  <2>4. fBlaMka(x, y) = SharedMulAdd(x, y)
    BY <1>2 DEF fBlaMka
  <2> QED BY <2>2, <2>3, <2>4
<1>3. CASE ~Shares
  <2>1. ASSUME NEW s \in Sets
        PROVE  /\ NeonMulAdd(x[s], y[s]) = MixedLanes(x[s], y[s])
               /\ Avx2MulAdd(x[s], y[s]) = MixedLanes(x[s], y[s])
               /\ PlusTwice(x[s], y[s], MulEpu32(x[s], y[s])) = MixedLanes(x[s], y[s])
    <3>1. PICK a, b, z : a = x[s] /\ b = y[s] /\ z = LowProducts(a, b)
      OBVIOUS
    <3>2. /\ MulEpu32(a, b) = z /\ Products(Each(LowHalf, a), Each(LowHalf, b)) = z
          /\ Products(LowPair(Even(a, b)), HighPair(Even(a, b))) = z
      BY <3>1, ProductsAre DEF MulEpu32
    <3>3. /\ PlusTwice(a, b, z) = MixedLanes(a, b)
          /\ AddLanes(AddLanes(AddLanes(a, b), z), z) = MixedLanes(a, b)
          /\ AddLanes(a, AddLanes(b, AddLanes(z, z))) = MixedLanes(a, b)
      BY <1>1, <3>1, SumsAre
    <3>4. NeonMulAdd(a, b) = MixedLanes(a, b)
      BY <3>2, <3>3 DEF NeonMulAdd
    <3>5. Avx2MulAdd(a, b) = MixedLanes(a, b)
      BY <3>2, <3>3 DEF Avx2MulAdd
    <3> QED BY <3>1, <3>2, <3>3, <3>4, <3>5
  <2> QED BY <1>3, <2>1 DEF fBlaMka
<1> QED BY <1>2, <1>3

-----------------------------------------------------------------------------
(* The statements, a lane at a time                                          *)

\* The words of a lane, and a lane of the registers.
Words == [Rows -> Octet]
LaneOf(s, n) == [r \in Rows |-> reg[r][s][n]]

\* The bits of a rotation, in words of eight.
Amount(by) == IF by = 32 THEN 4 ELSE IF by = 24 THEN 3 ELSE IF by = 16 THEN 2 ELSE 7

\* What a statement makes of the words of a lane.
Worked(op, x, y, with) ==
  IF op = "muladd" THEN ScalarMix(x, y)
  ELSE IF op = "xor" THEN XorWord(x, y)
  ELSE IF op = "add" THEN Plus(x, y)
  ELSE IF op = "message" THEN Plus(x, MessageWords[with])
  ELSE RotateWord(x, Amount(with))
Applied(st, w) == [w EXCEPT ![st.of] = Worked(st.op, w[st.of], w[st.with], st.with)]

\* The statements there are.
Legal(st) ==
  /\ st.of \in Rows /\ st.sets \subseteq Sets
  /\ \/ st.op \in {"muladd", "xor", "add"} /\ st.with \in Rows
     \/ st.op = "message" /\ st.with \in 1 .. 2
     \/ st.op = "rotate" /\ st.with \in {32, 24, 16, 63}

\* Sums and products of words are words, ...
LEMMA WordsMix ==
  ASSUME NEW x \in Octet, NEW y \in Octet
  PROVE  ScalarMix(x, y) \in Octet /\ Plus(x, y) \in Octet
<1>1. PICK z : z = LowHalf(x) * LowHalf(y)
  OBVIOUS
<1>2. z \in Nat
  BY <1>1, HalfIsSmall
<1>3. x \in Nat /\ y \in Nat
  BY DEF Octet, Modulus
<1>4. (x + y + 2 * z) % 256 \in 0 .. 255 /\ (x + y) % 256 \in 0 .. 255
  <2> HIDE <1>1
  <2> QED BY <1>2, <1>3
<1>5. Octet = 0 .. 255
  BY DEF Octet, Modulus
<1>6. ScalarMix(x, y) = (x + y + 2 * z) % 256 /\ Plus(x, y) = (x + y) % 256
  BY <1>1 DEF ScalarMix, Plus, Modulus
<1> QED BY <1>4, <1>5, <1>6, Zenon

\* ... so what a statement makes is a word.
LEMMA WorkedIsWord ==
  ASSUME NEW st, Legal(st), NEW w \in Words
  PROVE  Worked(st.op, w[st.of], w[st.with], st.with) \in Octet
<1>1. \A x, y \in Octet : ScalarMix(x, y) \in Octet /\ Plus(x, y) \in Octet
  BY WordsMix
<1>2. w[st.of] \in Octet
  BY DEF Legal, Words
<1>3. CASE st.op \in {"muladd", "xor", "add"} /\ st.with \in Rows
  <2>1. w[st.with] \in Octet
    BY <1>3 DEF Words
  <2> QED BY <1>1, <1>2, <1>3, <2>1, XorIsWord DEF Worked
<1>4. CASE st.op = "message" /\ st.with \in 1 .. 2
  <2>1. MessageWords[st.with] \in Octet
    BY <1>4, WordsAssumption
  <2> QED BY <1>1, <1>2, <1>4, <2>1 DEF Worked
<1>5. CASE st.op = "rotate" /\ st.with \in {32, 24, 16, 63}
  <2>1. Amount(st.with) \in {2, 3, 4, 7}
    BY <1>5 DEF Amount
  <2> QED BY <1>2, <1>5, <2>1, TurnedIsWord DEF Worked
<1> QED BY <1>3, <1>4, <1>5 DEF Legal

\* A statement maps four words to four words, and changes one.
LEMMA AppliedIsWords ==
  ASSUME NEW st, Legal(st), NEW w \in Words
  PROVE  /\ Applied(st, w) \in Words
         /\ \A r \in Rows : Applied(st, w)[r] =
              IF r = st.of THEN Worked(st.op, w[st.of], w[st.with], st.with) ELSE w[r]
<1>1. Worked(st.op, w[st.of], w[st.with], st.with) \in Octet /\ st.of \in Rows
  BY WorkedIsWord DEF Legal
<1> QED BY <1>1 DEF Applied, Words

\* What a statement writes, by set and slot.
WorkedSets(st) ==
  [s \in Sets |-> [n \in Slot |-> Worked(st.op, reg[st.of][s][n], reg[st.with][s][n], st.with)]]

\* Writing that to a row does so to its lanes, in the sets of the statement.
LEMMA PutLanes ==
  ASSUME reg \in [Rows -> [Sets -> Register]], NEW st, st = Program[line], Legal(st),
         Put(WorkedSets(st))
  PROVE  /\ reg' \in [Rows -> [Sets -> Register]]
         /\ line' = line + 1 /\ unit' = unit /\ given' = given
         /\ \A s \in Sets, n \in Slot :
              LaneOf(s, n)' = IF s \in st.sets THEN Applied(st, LaneOf(s, n)) ELSE LaneOf(s, n)
<1>1. st.of \in Rows
  BY DEF Legal
<1>2. PICK values : values = WorkedSets(st)
  OBVIOUS
<1>3. reg' = [reg EXCEPT ![st.of] = [s \in Sets |-> IF s \in st.sets THEN values[s]
                                                     ELSE reg[st.of][s]]]
  BY <1>1, <1>2 DEF Put
<1>4. \A s \in Sets, n \in Slot : LaneOf(s, n) \in Words
  BY DEF LaneOf, Words, Register
<1>5. ASSUME NEW s \in Sets, NEW n \in Slot
      PROVE  values[s][n] = Worked(st.op, LaneOf(s, n)[st.of], LaneOf(s, n)[st.with], st.with)
  <2>1. values[s][n] = Worked(st.op, reg[st.of][s][n], reg[st.with][s][n], st.with)
    BY <1>2 DEF WorkedSets
  <2>2. LaneOf(s, n)[st.of] = reg[st.of][s][n]
    BY <1>1 DEF LaneOf
  <2>3. CASE st.with \in Rows
    <3>1. LaneOf(s, n)[st.with] = reg[st.with][s][n]
      BY <2>3 DEF LaneOf
    <3> QED BY <2>1, <2>2, <3>1, Zenon
  <2>4. CASE st.op \in {"message", "rotate"}
    BY <2>1, <2>2, <2>4 DEF Worked
  <2> QED BY <2>3, <2>4 DEF Legal
<1>6. \A s \in Sets : values[s] \in Register
  <2> SUFFICES ASSUME NEW s \in Sets PROVE values[s] \in Register
    OBVIOUS
  <2>1. ASSUME NEW n \in Slot PROVE values[s][n] \in Octet
    BY <1>4, <1>5, WorkedIsWord, Zenon
  <2>2. values[s] = [n \in Slot |-> values[s][n]]
    BY <1>2 DEF WorkedSets
  <2> QED BY <2>1, <2>2 DEF Register
<1>7. reg' \in [Rows -> [Sets -> Register]]
  BY <1>1, <1>3, <1>6
<1>8. ASSUME NEW s \in Sets, NEW n \in Slot
      PROVE  LaneOf(s, n)' = IF s \in st.sets THEN Applied(st, LaneOf(s, n)) ELSE LaneOf(s, n)
  <2>1. LaneOf(s, n)' = [r \in Rows |-> reg'[r][s][n]]
    BY DEF LaneOf
  <2>2. \A r \in Rows : reg'[r][s] = IF r = st.of /\ s \in st.sets THEN values[s] ELSE reg[r][s]
    BY <1>1, <1>3
  <2>3. CASE s \in st.sets
    <3>1. LaneOf(s, n) \in Words
      BY <1>4
    <3>2. \A r \in Rows : LaneOf(s, n)[r] = reg[r][s][n]
      BY DEF LaneOf
    <3>3. PICK w : w = LaneOf(s, n)
      OBVIOUS
    <3>4. \A r \in Rows : reg'[r][s][n] = Applied(st, w)[r]
      <4>1. /\ Applied(st, w) \in Words
            /\ \A r \in Rows : Applied(st, w)[r] =
                 IF r = st.of THEN Worked(st.op, w[st.of], w[st.with], st.with) ELSE w[r]
        BY <3>1, <3>3, AppliedIsWords
      <4>2. values[s][n] = Worked(st.op, w[st.of], w[st.with], st.with)
        BY <1>5, <3>3
      <4>3. \A r \in Rows : w[r] = reg[r][s][n]
        BY <3>2, <3>3
      <4> HIDE <3>2, <3>3
      <4> QED BY <2>2, <2>3, <4>1, <4>2, <4>3
    <3>5. Applied(st, w) \in Words
      BY <3>1, <3>3, AppliedIsWords
    <3>6. LaneOf(s, n)' = Applied(st, w)
      BY <2>1, <3>4, <3>5 DEF Words
    <3> QED BY <2>3, <3>3, <3>6
  <2>4. CASE s \notin st.sets
    BY <2>1, <2>2, <2>4 DEF LaneOf
  <2> QED BY <2>3, <2>4
<1>9. line' = line + 1 /\ unit' = unit /\ given' = given
  BY DEF Put
<1> QED BY <1>7, <1>8, <1>9

\* Every action does what its statement says.
LEMMA PutsWorked ==
  ASSUME reg \in [Rows -> [Sets -> Register]], NEW st, st = Program[line], Legal(st), WordsNext
  PROVE  line <= Len(Program) /\ Put(WorkedSets(st))
<1>1. \A r \in Rows : reg[r] \in [Sets -> Register]
  OBVIOUS
<1>2. st.of \in Rows
  BY DEF Legal
<1>3. CASE MulAdd
  <2>1. st.op = "muladd" /\ st.with \in Rows /\ line <= Len(Program)
    BY <1>3 DEF MulAdd, Comes, Legal
  <2>2. Put(fBlaMka(reg[st.of], reg[st.with]))
    BY <1>3 DEF MulAdd
  <2>3. fBlaMka(reg[st.of], reg[st.with]) =
        [s \in Sets |-> MixedLanes(reg[st.of][s], reg[st.with][s])]
    BY <1>1, <1>2, <2>1, EveryMulAdd
  <2>4. [s \in Sets |-> MixedLanes(reg[st.of][s], reg[st.with][s])] = WorkedSets(st)
    BY <2>1 DEF MixedLanes, WorkedSets, Worked
  <2>5. fBlaMka(reg[st.of], reg[st.with]) = WorkedSets(st)
    BY <2>3, <2>4, Zenon
  <2> QED BY <2>1, <2>2, <2>5, Zenon
<1>4. CASE XorInto
  <2>1. st.op = "xor" /\ st.with \in Rows /\ line <= Len(Program)
    BY <1>4 DEF XorInto, Comes, Legal
  <2>2. Put([s \in Sets |-> XorLanes(reg[st.of][s], reg[st.with][s])])
    BY <1>4 DEF XorInto
  <2>3. [s \in Sets |-> XorLanes(reg[st.of][s], reg[st.with][s])] = WorkedSets(st)
    BY <2>1 DEF XorLanes, Both, WorkedSets, Worked
  <2> QED BY <2>1, <2>2, <2>3, Zenon
<1>5. CASE AddInto
  <2>1. st.op = "add" /\ st.with \in Rows /\ line <= Len(Program)
    BY <1>5 DEF AddInto, Comes, Legal
  <2>2. Put([s \in Sets |-> AddLanes(reg[st.of][s], reg[st.with][s])])
    BY <1>5 DEF AddInto
  <2>3. [s \in Sets |-> AddLanes(reg[st.of][s], reg[st.with][s])] = WorkedSets(st)
    BY <2>1 DEF AddLanes, Both, WorkedSets, Worked
  <2> QED BY <2>1, <2>2, <2>3, Zenon
<1>6. CASE AddMessage
  <2>1. st.op = "message" /\ line <= Len(Program)
    BY <1>6 DEF AddMessage, Comes, Legal
  <2>2. Put([s \in Sets |-> Each(LAMBDA w : Plus(w, MessageWords[st.with]), reg[st.of][s])])
    BY <1>6 DEF AddMessage
  <2>3. [s \in Sets |-> Each(LAMBDA w : Plus(w, MessageWords[st.with]), reg[st.of][s])]
        = WorkedSets(st)
    BY <2>1 DEF Each, WorkedSets, Worked
  <2> QED BY <2>1, <2>2, <2>3, Zenon
<1>7. CASE RotateRegister
  <2>1. st.op = "rotate" /\ st.with \in {32, 24, 16, 63} /\ line <= Len(Program)
    BY <1>7 DEF RotateRegister, Comes, Legal
  <2>2. Put([s \in Sets |-> Rotated(reg[st.of][s], st.with)])
    BY <1>7 DEF RotateRegister
  <2>3. \A s \in Sets : reg[st.of][s] \in Register
    BY <1>1, <1>2
  <2>4. \A s \in Sets : Rotated(reg[st.of][s], st.with) = ByRotate(reg[st.of][s], Amount(st.with))
    <3>1. Bits - 1 = 7
      BY DEF Bits
    <3> QED BY <2>1, <2>3, <3>1, EveryRotation DEF Amount
  <2>5. [s \in Sets |-> Rotated(reg[st.of][s], st.with)] =
        [s \in Sets |-> ByRotate(reg[st.of][s], Amount(st.with))]
    BY <2>4, Zenon
  <2>6. [s \in Sets |-> ByRotate(reg[st.of][s], Amount(st.with))] = WorkedSets(st)
    BY <2>1 DEF ByRotate, Each, WorkedSets, Worked
  <2> QED BY <2>1, <2>2, <2>5, <2>6, Zenon
<1> QED BY <1>3, <1>4, <1>5, <1>6, <1>7 DEF WordsNext

\* A step of the specification is a statement, on every lane of its sets.
LEMMA StepsLanes ==
  ASSUME reg \in [Rows -> [Sets -> Register]], NEW st, st = Program[line], Legal(st), WordsNext
  PROVE  /\ line <= Len(Program)
         /\ reg' \in [Rows -> [Sets -> Register]]
         /\ line' = line + 1 /\ unit' = unit /\ given' = given
         /\ \A s \in Sets, n \in Slot :
              LaneOf(s, n)' = IF s \in st.sets THEN Applied(st, LaneOf(s, n)) ELSE LaneOf(s, n)
<1>1. line <= Len(Program) /\ Put(WorkedSets(st))
  BY PutsWorked
<1> QED BY <1>1, PutLanes

-----------------------------------------------------------------------------
(* The statements a kernel comes to                                          *)

\* The kernels modelled.
Kernel(k) == k \in NeonKernels \cup PlainKernels

\* A kernel is of one of four shapes.
Shape ==
  IF unit.of = "blake sse41" THEN "pairs"
  ELSE IF unit.of \in {"blake avx2", "blake avx512"} THEN "blake"
  ELSE IF unit.of = "avx2" THEN "sets" ELSE "both"

\* The statements of a program.
Statements == {st \in [op : {"muladd", "xor", "add", "message", "rotate"}, of : Rows,
                       with : Rows \cup (1 .. 2) \cup {32, 24, 16, 63}, sets : SUBSET Sets] :
                 Legal(st)}

\* The program of each shape.
LEMMA ShapesAre ==
  ASSUME Kernel(unit)
  PROVE  /\ Shape = "pairs" => Program = BlakeG({0}) \o BlakeG({1}) /\ Blake(unit)
         /\ Shape = "blake" => Program = BlakeG(Sets) /\ Blake(unit)
         /\ Shape = "sets" =>
              /\ Program = (HalfG({0}, 32, 24) \o HalfG({1}, 32, 24))
                             \o (HalfG({0}, 16, 63) \o HalfG({1}, 16, 63))
              /\ ~Blake(unit)
         /\ Shape = "both" => Program = HalfG(Sets, 32, 24) \o HalfG(Sets, 16, 63) /\ ~Blake(unit)
<1>1. CASE unit.of = "blake sse41"
  BY <1>1 DEF Shape, Program, Blake
<1>2. CASE unit.of \in {"blake avx2", "blake avx512"}
  BY <1>2 DEF Shape, Program, Blake
<1>3. CASE unit.of = "avx2"
  BY <1>3 DEF Shape, Program, Blake, FillG, Ordered
<1>4. CASE unit.of \notin {"blake sse41", "blake avx2", "blake avx512", "avx2"}
  BY <1>4 DEF Shape, Program, Blake, FillG, Ordered
<1> QED BY <1>1, <1>2, <1>3, <1>4

\* They follow one another.
Chained(p, a, b) == p = a \o b

\* p is a, of length m, and then b, of length k.
Follows(p, a, b, m, k) ==
  /\ Chained(p, a, b)
  /\ a \in Seq(Statements) /\ b \in Seq(Statements)
  /\ m \in Nat /\ k \in Nat /\ Len(a) = m /\ Len(b) = k

\* Statement by statement.
OneThenOther(p, a, b, m, k) ==
  /\ p \in Seq(Statements) /\ Len(p) = m + k
  /\ \A i \in 1 .. m : p[i] = a[i]
  /\ \A i \in 1 .. k : p[m + i] = b[i]

\* The second program begins where the first ends.
LEMMA OneAfterAnother ==
  ASSUME NEW a, NEW b, NEW m, NEW k, NEW p, Follows(p, a, b, m, k)
  PROVE  OneThenOther(p, a, b, m, k)
<1>1. /\ a \o b \in Seq(Statements)
      /\ Len(a \o b) = Len(a) + Len(b)
      /\ \A i \in 1 .. Len(a) + Len(b) : (a \o b)[i] = IF i <= Len(a) THEN a[i] ELSE b[i - Len(a)]
  <2>1. a \in Seq(Statements) /\ b \in Seq(Statements)
    BY DEF Follows
  <2> QED BY <2>1, ConcatProperties
<1>2. /\ p \in Seq(Statements) /\ Len(p) = m + k
      /\ \A i \in 1 .. m + k : p[i] = IF i <= m THEN a[i] ELSE b[i - m]
  <2>1. p = a \o b /\ Len(a) = m /\ Len(b) = k
    BY Zenon DEF Follows, Chained
  <2> QED BY <1>1, <2>1, Zenon
<1>0. m \in Nat /\ k \in Nat
  BY DEF Follows
<1>3. ASSUME NEW i \in 1 .. k PROVE p[m + i] = b[i]
  <2>1. m + i \in 1 .. m + k /\ ~(m + i <= m) /\ (m + i) - m = i
    BY <1>0
  <2> QED BY <1>2, <2>1, Zenon
<1>4. ASSUME NEW i \in 1 .. m PROVE p[i] = a[i]
  <2>1. i \in 1 .. m + k /\ i <= m
    BY <1>0
  <2> QED BY <1>2, <2>1, Zenon
<1> QED BY <1>2, <1>3, <1>4 DEF OneThenOther

\* Lengths of programs.
LEMMA SmallNat == 6 \in Nat /\ 12 \in Nat /\ 14 \in Nat
OBVIOUS

\* Half of a G, statement by statement.
LEMMA HalfGIs ==
  ASSUME NEW sets \in SUBSET Sets, NEW first \in {32, 16}, NEW second \in {24, 63}
  PROVE  /\ HalfG(sets, first, second) \in Seq(Statements) /\ Len(HalfG(sets, first, second)) = 6
         /\ \A i \in 1 .. 6 : /\ Legal(HalfG(sets, first, second)[i])
                              /\ HalfG(sets, first, second)[i].sets = sets
<1>1. PICK s1, s2, s3, s4, s5, s6 :
        /\ s1 = Statement("muladd", "a", "b", sets) /\ s2 = Statement("xor", "d", "a", sets)
        /\ s3 = Statement("rotate", "d", first, sets) /\ s4 = Statement("muladd", "c", "d", sets)
        /\ s5 = Statement("xor", "b", "c", sets) /\ s6 = Statement("rotate", "b", second, sets)
  OBVIOUS
<1>2. \A s \in {s1, s2, s3, s4, s5, s6} : s \in Statements /\ Legal(s) /\ s.sets = sets
  BY <1>1 DEF Statement, Statements, Legal, Rows
<1>3. HalfG(sets, first, second) = <<s1, s2, s3, s4, s5, s6>>
  BY <1>1 DEF HalfG
<1> HIDE <1>1
<1> QED BY <1>2, <1>3

\* The G of BLAKE2b, statement by statement.
LEMMA BlakeGIs ==
  ASSUME NEW sets \in SUBSET Sets
  PROVE  /\ BlakeG(sets) \in Seq(Statements) /\ Len(BlakeG(sets)) = 14
         /\ \A i \in 1 .. 14 : Legal(BlakeG(sets)[i]) /\ BlakeG(sets)[i].sets = sets
<1>1. PICK s1, s2, s3, s4, s5, s6, s7, s8, s9, s10, s11, s12, s13, s14 :
        /\ s1 = Statement("add", "a", "b", sets) /\ s2 = Statement("message", "a", 1, sets)
        /\ s3 = Statement("xor", "d", "a", sets) /\ s4 = Statement("rotate", "d", 32, sets)
        /\ s5 = Statement("add", "c", "d", sets)
        /\ s6 = Statement("xor", "b", "c", sets) /\ s7 = Statement("rotate", "b", 24, sets)
        /\ s8 = Statement("add", "a", "b", sets) /\ s9 = Statement("message", "a", 2, sets)
        /\ s10 = Statement("xor", "d", "a", sets) /\ s11 = Statement("rotate", "d", 16, sets)
        /\ s12 = Statement("add", "c", "d", sets)
        /\ s13 = Statement("xor", "b", "c", sets) /\ s14 = Statement("rotate", "b", 63, sets)
  OBVIOUS
<1>2. \A s \in {s1, s2, s3, s4, s5, s6, s7, s8, s9, s10, s11, s12, s13, s14} :
        s \in Statements /\ Legal(s) /\ s.sets = sets
  BY <1>1 DEF Statement, Statements, Legal, Rows
<1>3. BlakeG(sets) = <<s1, s2, s3, s4, s5, s6, s7, s8, s9, s10, s11, s12, s13, s14>>
  BY <1>1, Zenon DEF BlakeG
<1> HIDE <1>1
<1> QED BY <1>2, <1>3

\* A stretch of a program: the statements of part from line from + 1 on.
Stretch(p, from, part, n) == \A i \in 1 .. n : p[from + i] = part[i]

\* What stands where in the program of each shape.
LEMMA ProgramIs ==
  ASSUME Kernel(unit)
  PROVE  /\ Program \in Seq(Statements)
         /\ Shape = "pairs" => /\ Len(Program) = 28 /\ Blake(unit)
                               /\ Stretch(Program, 0, BlakeG({0}), 14)
                               /\ Stretch(Program, 14, BlakeG({1}), 14)
         /\ Shape = "blake" => /\ Len(Program) = 14 /\ Blake(unit)
                               /\ Stretch(Program, 0, BlakeG(Sets), 14)
         /\ Shape = "sets" => /\ Len(Program) = 24 /\ ~Blake(unit)
                              /\ Stretch(Program, 0, HalfG({0}, 32, 24), 6)
                              /\ Stretch(Program, 6, HalfG({1}, 32, 24), 6)
                              /\ Stretch(Program, 12, HalfG({0}, 16, 63), 6)
                              /\ Stretch(Program, 18, HalfG({1}, 16, 63), 6)
         /\ Shape = "both" => /\ Len(Program) = 12 /\ ~Blake(unit)
                              /\ Stretch(Program, 0, HalfG(Sets, 32, 24), 6)
                              /\ Stretch(Program, 6, HalfG(Sets, 16, 63), 6)
<1>1. {0} \in SUBSET Sets /\ {1} \in SUBSET Sets /\ Sets \in SUBSET Sets
  BY DEF Sets
<1>2. CASE Shape = "pairs"
  <2>1. PICK a, b : a = BlakeG({0}) /\ b = BlakeG({1})
    OBVIOUS
  <2>2. a \in Seq(Statements) /\ b \in Seq(Statements) /\ Len(a) = 14 /\ Len(b) = 14
    BY <1>1, <2>1, BlakeGIs
  <2>3. PICK p : p = Program
    OBVIOUS
  <2>4. Chained(p, a, b) /\ Blake(unit)
    BY <1>2, <2>1, <2>3, ShapesAre DEF Chained
  <2>5. /\ p \in Seq(Statements) /\ Len(p) = 14 + 14
        /\ \A i \in 1 .. 14 : p[i] = a[i]
        /\ \A i \in 1 .. 14 : p[14 + i] = b[i]
    <3>1. Follows(p, a, b, 14, 14)
      BY <2>2, <2>4, SmallNat, Zenon DEF Follows
    <3>2. OneThenOther(p, a, b, 14, 14)
      BY <3>1, OneAfterAnother
    <3> QED BY <3>2 DEF OneThenOther
  <2>6. Stretch(p, 0, a, 14) /\ Stretch(p, 14, b, 14) /\ Len(p) = 28
    BY <2>5 DEF Stretch
  <2> QED BY <1>2, <2>1, <2>3, <2>4, <2>5, <2>6, Zenon
<1>3. CASE Shape = "blake"
  <2>1. Program = BlakeG(Sets) /\ Blake(unit)
    BY <1>3, ShapesAre
  <2>2. BlakeG(Sets) \in Seq(Statements) /\ Len(BlakeG(Sets)) = 14
    BY <1>1, BlakeGIs
  <2>3. Stretch(Program, 0, BlakeG(Sets), 14)
    BY <2>1 DEF Stretch
  <2> QED BY <1>3, <2>1, <2>2, <2>3, Zenon
<1>4. CASE Shape = "sets"
  <2>1. PICK a, b, c, d : a = HalfG({0}, 32, 24) /\ b = HalfG({1}, 32, 24)
                           /\ c = HalfG({0}, 16, 63) /\ d = HalfG({1}, 16, 63)
    OBVIOUS
  <2>2. /\ a \in Seq(Statements) /\ b \in Seq(Statements) /\ Len(a) = 6 /\ Len(b) = 6
        /\ c \in Seq(Statements) /\ d \in Seq(Statements) /\ Len(c) = 6 /\ Len(d) = 6
    BY <1>1, <2>1, HalfGIs
  <2>3. PICK p, x, y : p = Program /\ Chained(x, a, b) /\ Chained(y, c, d)
    BY Zenon DEF Chained
  <2>4. Chained(p, x, y) /\ ~Blake(unit)
    BY <1>4, <2>1, <2>3, ShapesAre DEF Chained
  <2>5. /\ x \in Seq(Statements) /\ Len(x) = 6 + 6
        /\ \A i \in 1 .. 6 : x[i] = a[i]
        /\ \A i \in 1 .. 6 : x[6 + i] = b[i]
    <3>1. Follows(x, a, b, 6, 6)
      BY <2>2, <2>3, SmallNat, Zenon DEF Follows
    <3>2. OneThenOther(x, a, b, 6, 6)
      BY <3>1, OneAfterAnother
    <3> QED BY <3>2 DEF OneThenOther
  <2>6. /\ y \in Seq(Statements) /\ Len(y) = 6 + 6
        /\ \A i \in 1 .. 6 : y[i] = c[i]
        /\ \A i \in 1 .. 6 : y[6 + i] = d[i]
    <3>1. Follows(y, c, d, 6, 6)
      BY <2>2, <2>3, SmallNat, Zenon DEF Follows
    <3>2. OneThenOther(y, c, d, 6, 6)
      BY <3>1, OneAfterAnother
    <3> QED BY <3>2 DEF OneThenOther
  <2>7. /\ p \in Seq(Statements) /\ Len(p) = 12 + 12
        /\ \A i \in 1 .. 12 : p[i] = x[i]
        /\ \A i \in 1 .. 12 : p[12 + i] = y[i]
    <3>1. Len(x) = 12 /\ Len(y) = 12
      BY <2>5, <2>6
    <3>2. Follows(p, x, y, 12, 12)
      BY <2>4, <2>5, <2>6, <3>1, SmallNat, Zenon DEF Follows
    <3>3. OneThenOther(p, x, y, 12, 12)
      BY <3>2, OneAfterAnother
    <3> QED BY <3>3 DEF OneThenOther
  <2>8. Len(p) = 24 /\ Stretch(p, 0, a, 6) /\ Stretch(p, 6, b, 6)
          /\ Stretch(p, 12, c, 6) /\ Stretch(p, 18, d, 6)
    <3>1. Len(p) = 24
      BY <2>7
    <3> HIDE <2>3, <2>4
    <3>2. ASSUME NEW i \in 1 .. 6
          PROVE  p[0 + i] = a[i] /\ p[6 + i] = b[i] /\ p[12 + i] = c[i] /\ p[18 + i] = d[i]
      <4>1. 0 + i = i /\ i \in 1 .. 12 /\ 6 + i \in 1 .. 12 /\ 12 + (6 + i) = 18 + i
        OBVIOUS
      <4>2. p[i] = x[i] /\ p[6 + i] = x[6 + i] /\ p[12 + i] = y[i] /\ p[12 + (6 + i)] = y[6 + i]
        BY <2>7, <4>1
      <4>3. x[i] = a[i] /\ x[6 + i] = b[i] /\ y[i] = c[i] /\ y[6 + i] = d[i]
        BY <2>5, <2>6
      <4> QED BY <4>1, <4>2, <4>3, Zenon
    <3> QED BY <3>1, <3>2 DEF Stretch
  <2> QED BY <1>4, <2>1, <2>3, <2>4, <2>7, <2>8, Zenon
<1>5. CASE Shape = "both"
  <2>1. PICK a, b : a = HalfG(Sets, 32, 24) /\ b = HalfG(Sets, 16, 63)
    OBVIOUS
  <2>2. a \in Seq(Statements) /\ b \in Seq(Statements) /\ Len(a) = 6 /\ Len(b) = 6
    BY <1>1, <2>1, HalfGIs
  <2>3. PICK p : p = Program
    OBVIOUS
  <2>4. Chained(p, a, b) /\ ~Blake(unit)
    BY <1>5, <2>1, <2>3, ShapesAre DEF Chained
  <2>5. /\ p \in Seq(Statements) /\ Len(p) = 6 + 6
        /\ \A i \in 1 .. 6 : p[i] = a[i]
        /\ \A i \in 1 .. 6 : p[6 + i] = b[i]
    <3>1. Follows(p, a, b, 6, 6)
      BY <2>2, <2>4, SmallNat, Zenon DEF Follows
    <3>2. OneThenOther(p, a, b, 6, 6)
      BY <3>1, OneAfterAnother
    <3> QED BY <3>2 DEF OneThenOther
  <2>6. Stretch(p, 0, a, 6) /\ Stretch(p, 6, b, 6) /\ Len(p) = 12
    BY <2>5 DEF Stretch
  <2> QED BY <1>5, <2>1, <2>3, <2>4, <2>5, <2>6, Zenon
<1> QED BY <1>2, <1>3, <1>4, <1>5 DEF Shape

\* A program has legal statements only.
LEMMA ProgramIsLegal ==
  ASSUME Kernel(unit)
  PROVE  Len(Program) \in Nat /\ \A k \in 1 .. Len(Program) : Legal(Program[k])
<1>1. PICK p : p = Program /\ p \in Seq(Statements)
  BY ProgramIs, Zenon
<1>2. Len(p) \in Nat /\ \A k \in 1 .. Len(p) : p[k] \in Statements
  BY <1>1
<1> QED BY <1>1, <1>2, Zenon DEF Statements

-----------------------------------------------------------------------------
(* What the statements make of a lane, run one after another                 *)

\* One statement after another, for a lane of the set s.
StatementStep(s) ==
  [kw \in (1 .. Len(Program)) \X Words |->
     IF s \in Program[kw[1]].sets THEN Applied(Program[kw[1]], kw[2]) ELSE kw[2]]

\* The words after each statement.
Ran(s, q) == CHOOSE g : Iterates(g, Len(Program), Words, q, StatementStep(s))

\* g runs through the program from the words q.
RunsFrom(g, s, q) ==
  /\ g[0] = q
  /\ \A k \in 0 .. Len(Program) : g[k] \in Words
  /\ \A k \in 1 .. Len(Program) :
       g[k] = IF s \in Program[k].sets THEN Applied(Program[k], g[k - 1]) ELSE g[k - 1]

\* Running is defined, and goes from statement to statement.
LEMMA RanIs ==
  ASSUME Kernel(unit), NEW s \in Sets, NEW q \in Words
  PROVE  RunsFrom(Ran(s, q), s, q)
<1>1. PICK p, n : p = Program /\ n = Len(p)
  OBVIOUS
<1>2. n \in Nat /\ \A k \in 1 .. n : Legal(p[k])
  BY <1>1, ProgramIsLegal
<1>3. PICK one : one = StatementStep(s)
  OBVIOUS
<1>4. one = [kw \in (1 .. n) \X Words |->
                IF s \in p[kw[1]].sets THEN Applied(p[kw[1]], kw[2]) ELSE kw[2]]
  BY <1>1, <1>3 DEF StatementStep
<1>5. \A k \in 1 .. n, w \in Words :
        /\ Applied(p[k], w) \in Words
        /\ one[<<k, w>>] = IF s \in p[k].sets THEN Applied(p[k], w) ELSE w
  BY <1>2, <1>4, AppliedIsWords
<1>6. one \in [(1 .. n) \X Words -> Words]
  BY <1>4, <1>5
<1>7. \E g : Iterates(g, n, Words, q, one)
  BY <1>2, <1>6, IterationExists
<1>8. PICK g : g = Ran(s, q)
  OBVIOUS
<1>9. g = CHOOSE f : Iterates(f, n, Words, q, one)
  BY <1>1, <1>3, <1>8, Zenon DEF Ran
<1>10. Iterates(g, n, Words, q, one)
  BY <1>7, <1>9, Zenon
<1>11. /\ g \in [0 .. n -> Words] /\ g[0] = q
       /\ \A k \in 1 .. n : g[k] = one[<<k, g[k - 1]>>]
  BY <1>10 DEF Iterates
<1>12. \A k \in 0 .. n : g[k] \in Words
  BY <1>11
<1>13. ASSUME NEW k \in 1 .. n
       PROVE  g[k] = IF s \in p[k].sets THEN Applied(p[k], g[k - 1]) ELSE g[k - 1]
  <2>1. k - 1 \in 0 .. n
    BY <1>2
  <2>2. g[k - 1] \in Words
    BY <1>12, <2>1
  <2>3. one[<<k, g[k - 1]>>] = IF s \in p[k].sets THEN Applied(p[k], g[k - 1]) ELSE g[k - 1]
    BY <1>5, <2>2
  <2> QED BY <1>11, <2>3, Zenon
<1> QED BY <1>1, <1>8, <1>11, <1>12, <1>13, Zenon DEF RunsFrom

\* A statement of a stretch does to the lane what it says.
Obeys(g, s, from, i, st) ==
  /\ Legal(st) /\ g[from + (i - 1)] \in Words /\ g[from + i] \in Words
  /\ g[from + i] = IF s \in st.sets THEN Applied(st, g[from + (i - 1)]) ELSE g[from + (i - 1)]

\* The stretch is within the program.
Within(from, part, n) ==
  /\ n \in Nat /\ from \in Nat /\ from + n <= Len(Program)
  /\ Stretch(Program, from, part, n)

\* Running a stretch obeys its statements.
LEMMA RunsOne ==
  ASSUME Kernel(unit), NEW s \in Sets, NEW q \in Words, NEW part, NEW n, NEW from,
         Within(from, part, n), NEW i \in 1 .. n
  PROVE  Obeys(Ran(s, q), s, from, i, part[i])
<1>1. Len(Program) \in Nat
  BY ProgramIsLegal
<1>2. /\ from + i \in 1 .. Len(Program) /\ (from + i) - 1 = from + (i - 1)
      /\ from + i \in 0 .. Len(Program) /\ from + (i - 1) \in 0 .. Len(Program)
  BY <1>1 DEF Within
<1>3. Program[from + i] = part[i]
  BY Zenon DEF Stretch, Within
<1>4. Legal(part[i])
  BY <1>2, <1>3, ProgramIsLegal, Zenon
<1>5. PICK g : g = Ran(s, q) /\ RunsFrom(g, s, q)
  BY RanIs, Zenon
<1>6. \A k \in 1 .. Len(Program) :
        g[k] = IF s \in Program[k].sets THEN Applied(Program[k], g[k - 1]) ELSE g[k - 1]
  BY <1>5, Zenon DEF RunsFrom
<1>7. g[from + i] = IF s \in part[i].sets THEN Applied(part[i], g[from + (i - 1)])
                    ELSE g[from + (i - 1)]
  BY <1>2, <1>3, <1>6, Zenon
<1>8. g[from + (i - 1)] \in Words /\ g[from + i] \in Words
  BY <1>2, <1>5, Zenon DEF RunsFrom
<1> QED BY <1>4, <1>5, <1>7, <1>8, Zenon DEF Obeys

\* Those of the other set leave the lane alone.
LEMMA RunsPast ==
  ASSUME Kernel(unit), NEW s \in Sets, NEW q \in Words, NEW part, NEW n, NEW from,
         Within(from, part, n), \A i \in 1 .. n : s \notin part[i].sets
  PROVE  Ran(s, q)[from + n] = Ran(s, q)[from]
<1>0. n \in Nat /\ from \in Nat
  BY DEF Within
<1>1. PICK g : g = Ran(s, q)
  OBVIOUS
<1>2. ASSUME NEW i \in 1 .. n PROVE g[from + i] = g[from + (i - 1)]
  <2>1. s \notin part[i].sets
    OBVIOUS
  <2>2. Obeys(Ran(s, q), s, from, i, part[i])
    BY RunsOne, Zenon
  <2> QED BY <1>1, <2>1, <2>2, Zenon DEF Obeys
<1> DEFINE T == {k \in Nat : k <= n => g[from + k] = g[from]}
<1>3. 0 \in T
  BY <1>0
<1>4. ASSUME NEW k \in Nat, k \in T PROVE k + 1 \in T
  <2>1. CASE k + 1 <= n
    <3>1. k + 1 \in 1 .. n /\ (k + 1) - 1 = k /\ k <= n
      BY <1>0, <2>1
    <3>2. g[from + (k + 1)] = g[from + k]
      BY <1>2, <3>1
    <3>3. g[from + k] = g[from]
      BY <1>4, <3>1
    <3> QED BY <3>2, <3>3
  <2>2. CASE ~(k + 1 <= n)
    BY <2>2
  <2> QED BY <2>1, <2>2
<1>5. Nat \subseteq T
  <2> HIDE DEF T
  <2> QED BY <1>3, <1>4, SetInduction
<1> QED BY <1>0, <1>1, <1>5

\* The four words of a lane.
Four(a, b, c, d) ==
  [r \in Rows |-> IF r = "a" THEN a ELSE IF r = "b" THEN b ELSE IF r = "c" THEN c ELSE d]

\* Any words are four.
LEMMA WordsAreFour ==
  ASSUME NEW w \in Words
  PROVE  w = Four(w["a"], w["b"], w["c"], w["d"])
BY DEF Four, Rows, Words

\* What a statement makes of them.
Makes(v, op, of, with, w) == v = [w EXCEPT ![of] = Worked(op, w[of], w[with], with)]

\* Statement by statement.
LEMMA MakesOfFour ==
  ASSUME NEW a, NEW b, NEW c, NEW d, NEW n, NEW v
  PROVE  /\ Makes(v, "muladd", "a", "b", Four(a, b, c, d)) =>
              v = Four(ScalarMix(a, b), b, c, d)
         /\ Makes(v, "xor", "d", "a", Four(a, b, c, d)) =>
              v = Four(a, b, c, XorWord(d, a))
         /\ Makes(v, "rotate", "d", n, Four(a, b, c, d)) =>
              v = Four(a, b, c, RotateWord(d, Amount(n)))
         /\ Makes(v, "muladd", "c", "d", Four(a, b, c, d)) =>
              v = Four(a, b, ScalarMix(c, d), d)
         /\ Makes(v, "xor", "b", "c", Four(a, b, c, d)) =>
              v = Four(a, XorWord(b, c), c, d)
         /\ Makes(v, "rotate", "b", n, Four(a, b, c, d)) =>
              v = Four(a, RotateWord(b, Amount(n)), c, d)
         /\ Makes(v, "add", "a", "b", Four(a, b, c, d)) =>
              v = Four(Plus(a, b), b, c, d)
         /\ Makes(v, "message", "a", n, Four(a, b, c, d)) =>
              v = Four(Plus(a, MessageWords[n]), b, c, d)
         /\ Makes(v, "add", "c", "d", Four(a, b, c, d)) =>
              v = Four(a, b, Plus(c, d), d)
<1>1. Makes(v, "muladd", "a", "b", Four(a, b, c, d)) =>
        v = Four(ScalarMix(a, b), b, c, d)
  BY DEF Makes, Worked, Four, Rows
<1>2. Makes(v, "xor", "d", "a", Four(a, b, c, d)) =>
        v = Four(a, b, c, XorWord(d, a))
  BY DEF Makes, Worked, Four, Rows
<1>3. Makes(v, "rotate", "d", n, Four(a, b, c, d)) =>
        v = Four(a, b, c, RotateWord(d, Amount(n)))
  BY DEF Makes, Worked, Four, Rows
<1>4. Makes(v, "muladd", "c", "d", Four(a, b, c, d)) =>
        v = Four(a, b, ScalarMix(c, d), d)
  BY DEF Makes, Worked, Four, Rows
<1>5. Makes(v, "xor", "b", "c", Four(a, b, c, d)) =>
        v = Four(a, XorWord(b, c), c, d)
  BY DEF Makes, Worked, Four, Rows
<1>6. Makes(v, "rotate", "b", n, Four(a, b, c, d)) =>
        v = Four(a, RotateWord(b, Amount(n)), c, d)
  BY DEF Makes, Worked, Four, Rows
<1>7. Makes(v, "add", "a", "b", Four(a, b, c, d)) =>
        v = Four(Plus(a, b), b, c, d)
  BY DEF Makes, Worked, Four, Rows
<1>8. Makes(v, "message", "a", n, Four(a, b, c, d)) =>
        v = Four(Plus(a, MessageWords[n]), b, c, d)
  BY DEF Makes, Worked, Four, Rows
<1>9. Makes(v, "add", "c", "d", Four(a, b, c, d)) =>
        v = Four(a, b, Plus(c, d), d)
  BY DEF Makes, Worked, Four, Rows
<1> QED BY <1>1, <1>2, <1>3, <1>4, <1>5, <1>6, <1>7, <1>8, <1>9

\* ... when it is the statement of the program that is obeyed.
LEMMA ObeyedMakes ==
  ASSUME NEW g, NEW s, NEW from, NEW i, NEW op, NEW of, NEW with, NEW sets, s \in sets,
         NEW st, st = Statement(op, of, with, sets), Obeys(g, s, from, i, st),
         NEW w, w = g[from + (i - 1)]
  PROVE  Makes(g[from + i], op, of, with, w) /\ w \in Words
BY Zenon DEF Obeys, Makes, Applied, Statement

\* Half of the G of the block fill.
HalfMix(w, first, second) ==
  LET a == w["a"]
      b == w["b"]
      c == w["c"]
      d == w["d"]
      a1 == ScalarMix(a, b)
      d1 == XorWord(d, a1)
      d2 == RotateWord(d1, Amount(first))
      c1 == ScalarMix(c, d2)
      b1 == XorWord(b, c1)
      b2 == RotateWord(b1, Amount(second))
  IN Four(a1, b2, c1, d2)

\* The six statements of a half amount to it.
LEMMA HalfRuns ==
  ASSUME Kernel(unit), NEW s \in Sets, NEW q \in Words, NEW sets \in SUBSET Sets, s \in sets,
         NEW from, NEW first, NEW second, Within(from, HalfG(sets, first, second), 6)
  PROVE  Ran(s, q)[from + 6] = HalfMix(Ran(s, q)[from], first, second)
<1>1. PICK g, part : g = Ran(s, q) /\ part = HalfG(sets, first, second)
  OBVIOUS
<1>2. \A i \in 1 .. 6 : Obeys(g, s, from, i, part[i])
  BY <1>1, RunsOne, Zenon
<1>3. /\ part[1] = Statement("muladd", "a", "b", sets)
      /\ part[2] = Statement("xor", "d", "a", sets)
      /\ part[3] = Statement("rotate", "d", first, sets)
      /\ part[4] = Statement("muladd", "c", "d", sets)
      /\ part[5] = Statement("xor", "b", "c", sets)
      /\ part[6] = Statement("rotate", "b", second, sets)
  BY <1>1 DEF HalfG
<1>4. PICK w0, w1, w2, w3, w4, w5, w6 :
         /\ w0 = g[from]
         /\ w1 = g[from + 1]
         /\ w2 = g[from + 2]
         /\ w3 = g[from + 3]
         /\ w4 = g[from + 4]
         /\ w5 = g[from + 5]
         /\ w6 = g[from + 6]
  BY Zenon
<1>5. Makes(w1, "muladd", "a", "b", w0) /\ w0 \in Words
  <2>1. Obeys(g, s, from, 1, part[1])
    BY <1>2
  <2>2. w0 = g[from + (1 - 1)]
    BY <1>4 DEF Within
  <2>3. part[1] = Statement("muladd", "a", "b", sets) /\ w1 = g[from + 1]
    BY <1>3, <1>4, Zenon
  <2>4. Makes(g[from + 1], "muladd", "a", "b", w0) /\ w0 \in Words
    BY <2>1, <2>2, <2>3, ObeyedMakes, Zenon
  <2> QED BY <2>3, <2>4, Zenon
<1>6. Makes(w2, "xor", "d", "a", w1) /\ w1 \in Words
  <2>1. Obeys(g, s, from, 2, part[2])
    BY <1>2
  <2>2. w1 = g[from + (2 - 1)]
    BY <1>4 DEF Within
  <2>3. part[2] = Statement("xor", "d", "a", sets) /\ w2 = g[from + 2]
    BY <1>3, <1>4, Zenon
  <2>4. Makes(g[from + 2], "xor", "d", "a", w1) /\ w1 \in Words
    BY <2>1, <2>2, <2>3, ObeyedMakes, Zenon
  <2> QED BY <2>3, <2>4, Zenon
<1>7. Makes(w3, "rotate", "d", first, w2) /\ w2 \in Words
  <2>1. Obeys(g, s, from, 3, part[3])
    BY <1>2
  <2>2. w2 = g[from + (3 - 1)]
    BY <1>4 DEF Within
  <2>3. part[3] = Statement("rotate", "d", first, sets) /\ w3 = g[from + 3]
    BY <1>3, <1>4, Zenon
  <2>4. Makes(g[from + 3], "rotate", "d", first, w2) /\ w2 \in Words
    BY <2>1, <2>2, <2>3, ObeyedMakes, Zenon
  <2> QED BY <2>3, <2>4, Zenon
<1>8. Makes(w4, "muladd", "c", "d", w3) /\ w3 \in Words
  <2>1. Obeys(g, s, from, 4, part[4])
    BY <1>2
  <2>2. w3 = g[from + (4 - 1)]
    BY <1>4 DEF Within
  <2>3. part[4] = Statement("muladd", "c", "d", sets) /\ w4 = g[from + 4]
    BY <1>3, <1>4, Zenon
  <2>4. Makes(g[from + 4], "muladd", "c", "d", w3) /\ w3 \in Words
    BY <2>1, <2>2, <2>3, ObeyedMakes, Zenon
  <2> QED BY <2>3, <2>4, Zenon
<1>9. Makes(w5, "xor", "b", "c", w4) /\ w4 \in Words
  <2>1. Obeys(g, s, from, 5, part[5])
    BY <1>2
  <2>2. w4 = g[from + (5 - 1)]
    BY <1>4 DEF Within
  <2>3. part[5] = Statement("xor", "b", "c", sets) /\ w5 = g[from + 5]
    BY <1>3, <1>4, Zenon
  <2>4. Makes(g[from + 5], "xor", "b", "c", w4) /\ w4 \in Words
    BY <2>1, <2>2, <2>3, ObeyedMakes, Zenon
  <2> QED BY <2>3, <2>4, Zenon
<1>10. Makes(w6, "rotate", "b", second, w5) /\ w5 \in Words
  <2>1. Obeys(g, s, from, 6, part[6])
    BY <1>2
  <2>2. w5 = g[from + (6 - 1)]
    BY <1>4 DEF Within
  <2>3. part[6] = Statement("rotate", "b", second, sets) /\ w6 = g[from + 6]
    BY <1>3, <1>4, Zenon
  <2>4. Makes(g[from + 6], "rotate", "b", second, w5) /\ w5 \in Words
    BY <2>1, <2>2, <2>3, ObeyedMakes, Zenon
  <2> QED BY <2>3, <2>4, Zenon
<1>11. PICK a, b, c, d : a = w0["a"] /\ b = w0["b"] /\ c = w0["c"] /\ d = w0["d"]
  OBVIOUS
<1>12. w0 = Four(a, b, c, d)
  BY <1>5, <1>11, WordsAreFour, Zenon
<1>13. PICK a1, d1, d2, c1, b1, b2 :
         /\ a1 = ScalarMix(a, b)
         /\ d1 = XorWord(d, a1)
         /\ d2 = RotateWord(d1, Amount(first))
         /\ c1 = ScalarMix(c, d2)
         /\ b1 = XorWord(b, c1)
         /\ b2 = RotateWord(b1, Amount(second))
  BY Zenon
<1>14. w1 = Four(a1, b, c, d)
  <2>1. Makes(w1, "muladd", "a", "b", Four(a, b, c, d))
    BY <1>5, <1>12, Zenon
  <2>2. w1 = Four(ScalarMix(a, b), b, c, d)
    BY <2>1, MakesOfFour, Zenon
  <2>3. a1 = ScalarMix(a, b)
    BY <1>13, Zenon
  <2> QED BY <2>2, <2>3, Zenon
<1>15. w2 = Four(a1, b, c, d1)
  <2>1. Makes(w2, "xor", "d", "a", Four(a1, b, c, d))
    BY <1>6, <1>14, Zenon
  <2>2. w2 = Four(a1, b, c, XorWord(d, a1))
    BY <2>1, MakesOfFour, Zenon
  <2>3. d1 = XorWord(d, a1)
    BY <1>13, Zenon
  <2> QED BY <2>2, <2>3, Zenon
<1>16. w3 = Four(a1, b, c, d2)
  <2>1. Makes(w3, "rotate", "d", first, Four(a1, b, c, d1))
    BY <1>7, <1>15, Zenon
  <2>2. w3 = Four(a1, b, c, RotateWord(d1, Amount(first)))
    BY <2>1, MakesOfFour, Zenon
  <2>3. d2 = RotateWord(d1, Amount(first))
    BY <1>13, Zenon
  <2> QED BY <2>2, <2>3, Zenon
<1>17. w4 = Four(a1, b, c1, d2)
  <2>1. Makes(w4, "muladd", "c", "d", Four(a1, b, c, d2))
    BY <1>8, <1>16, Zenon
  <2>2. w4 = Four(a1, b, ScalarMix(c, d2), d2)
    BY <2>1, MakesOfFour, Zenon
  <2>3. c1 = ScalarMix(c, d2)
    BY <1>13, Zenon
  <2> QED BY <2>2, <2>3, Zenon
<1>18. w5 = Four(a1, b1, c1, d2)
  <2>1. Makes(w5, "xor", "b", "c", Four(a1, b, c1, d2))
    BY <1>9, <1>17, Zenon
  <2>2. w5 = Four(a1, XorWord(b, c1), c1, d2)
    BY <2>1, MakesOfFour, Zenon
  <2>3. b1 = XorWord(b, c1)
    BY <1>13, Zenon
  <2> QED BY <2>2, <2>3, Zenon
<1>19. w6 = Four(a1, b2, c1, d2)
  <2>1. Makes(w6, "rotate", "b", second, Four(a1, b1, c1, d2))
    BY <1>10, <1>18, Zenon
  <2>2. w6 = Four(a1, RotateWord(b1, Amount(second)), c1, d2)
    BY <2>1, MakesOfFour, Zenon
  <2>3. b2 = RotateWord(b1, Amount(second))
    BY <1>13, Zenon
  <2> QED BY <2>2, <2>3, Zenon
<1>20. HalfMix(w0, first, second) = Four(a1, b2, c1, d2)
  BY <1>11, <1>13, Zenon DEF HalfMix
<1> QED BY <1>1, <1>4, <1>19, <1>20, Zenon

\* Half of the G of BLAKE2b, and the whole.
BlakeHalf(w, k, first, second) ==
  LET a == w["a"]
      b == w["b"]
      c == w["c"]
      d == w["d"]
      a1 == Plus(a, b)
      a2 == Plus(a1, MessageWords[k])
      d1 == XorWord(d, a2)
      d2 == RotateWord(d1, Amount(first))
      c1 == Plus(c, d2)
      b1 == XorWord(b, c1)
      b2 == RotateWord(b1, Amount(second))
  IN Four(a2, b2, c1, d2)

BlakeMix(w) == BlakeHalf(BlakeHalf(w, 1, 32, 24), 2, 16, 63)

\* BLAKE2b's statements are two such halves.
LEMMA BlakeRuns ==
  ASSUME Kernel(unit), NEW s \in Sets, NEW q \in Words, NEW sets \in SUBSET Sets, s \in sets,
         NEW from, Within(from, BlakeG(sets), 14)
  PROVE  Ran(s, q)[from + 14] = BlakeMix(Ran(s, q)[from])
<1>1. PICK g, part : g = Ran(s, q) /\ part = BlakeG(sets)
  OBVIOUS
<1>2. \A i \in 1 .. 14 : Obeys(g, s, from, i, part[i])
  BY <1>1, RunsOne, Zenon
<1>3. /\ part[1] = Statement("add", "a", "b", sets)
      /\ part[2] = Statement("message", "a", 1, sets)
      /\ part[3] = Statement("xor", "d", "a", sets)
      /\ part[4] = Statement("rotate", "d", 32, sets)
      /\ part[5] = Statement("add", "c", "d", sets)
      /\ part[6] = Statement("xor", "b", "c", sets)
      /\ part[7] = Statement("rotate", "b", 24, sets)
      /\ part[8] = Statement("add", "a", "b", sets)
      /\ part[9] = Statement("message", "a", 2, sets)
      /\ part[10] = Statement("xor", "d", "a", sets)
      /\ part[11] = Statement("rotate", "d", 16, sets)
      /\ part[12] = Statement("add", "c", "d", sets)
      /\ part[13] = Statement("xor", "b", "c", sets)
      /\ part[14] = Statement("rotate", "b", 63, sets)
  BY <1>1 DEF BlakeG
<1>4. PICK w0, w1, w2, w3, w4, w5, w6, w7, w8, w9, w10, w11, w12, w13, w14 :
         /\ w0 = g[from]
         /\ w1 = g[from + 1]
         /\ w2 = g[from + 2]
         /\ w3 = g[from + 3]
         /\ w4 = g[from + 4]
         /\ w5 = g[from + 5]
         /\ w6 = g[from + 6]
         /\ w7 = g[from + 7]
         /\ w8 = g[from + 8]
         /\ w9 = g[from + 9]
         /\ w10 = g[from + 10]
         /\ w11 = g[from + 11]
         /\ w12 = g[from + 12]
         /\ w13 = g[from + 13]
         /\ w14 = g[from + 14]
  BY Zenon
<1>5. Makes(w1, "add", "a", "b", w0) /\ w0 \in Words
  <2>1. Obeys(g, s, from, 1, part[1])
    BY <1>2
  <2>2. w0 = g[from + (1 - 1)]
    BY <1>4 DEF Within
  <2>3. part[1] = Statement("add", "a", "b", sets) /\ w1 = g[from + 1]
    BY <1>3, <1>4, Zenon
  <2>4. Makes(g[from + 1], "add", "a", "b", w0) /\ w0 \in Words
    BY <2>1, <2>2, <2>3, ObeyedMakes, Zenon
  <2> QED BY <2>3, <2>4, Zenon
<1>6. Makes(w2, "message", "a", 1, w1) /\ w1 \in Words
  <2>1. Obeys(g, s, from, 2, part[2])
    BY <1>2
  <2>2. w1 = g[from + (2 - 1)]
    BY <1>4 DEF Within
  <2>3. part[2] = Statement("message", "a", 1, sets) /\ w2 = g[from + 2]
    BY <1>3, <1>4, Zenon
  <2>4. Makes(g[from + 2], "message", "a", 1, w1) /\ w1 \in Words
    BY <2>1, <2>2, <2>3, ObeyedMakes, Zenon
  <2> QED BY <2>3, <2>4, Zenon
<1>7. Makes(w3, "xor", "d", "a", w2) /\ w2 \in Words
  <2>1. Obeys(g, s, from, 3, part[3])
    BY <1>2
  <2>2. w2 = g[from + (3 - 1)]
    BY <1>4 DEF Within
  <2>3. part[3] = Statement("xor", "d", "a", sets) /\ w3 = g[from + 3]
    BY <1>3, <1>4, Zenon
  <2>4. Makes(g[from + 3], "xor", "d", "a", w2) /\ w2 \in Words
    BY <2>1, <2>2, <2>3, ObeyedMakes, Zenon
  <2> QED BY <2>3, <2>4, Zenon
<1>8. Makes(w4, "rotate", "d", 32, w3) /\ w3 \in Words
  <2>1. Obeys(g, s, from, 4, part[4])
    BY <1>2
  <2>2. w3 = g[from + (4 - 1)]
    BY <1>4 DEF Within
  <2>3. part[4] = Statement("rotate", "d", 32, sets) /\ w4 = g[from + 4]
    BY <1>3, <1>4, Zenon
  <2>4. Makes(g[from + 4], "rotate", "d", 32, w3) /\ w3 \in Words
    BY <2>1, <2>2, <2>3, ObeyedMakes, Zenon
  <2> QED BY <2>3, <2>4, Zenon
<1>9. Makes(w5, "add", "c", "d", w4) /\ w4 \in Words
  <2>1. Obeys(g, s, from, 5, part[5])
    BY <1>2
  <2>2. w4 = g[from + (5 - 1)]
    BY <1>4 DEF Within
  <2>3. part[5] = Statement("add", "c", "d", sets) /\ w5 = g[from + 5]
    BY <1>3, <1>4, Zenon
  <2>4. Makes(g[from + 5], "add", "c", "d", w4) /\ w4 \in Words
    BY <2>1, <2>2, <2>3, ObeyedMakes, Zenon
  <2> QED BY <2>3, <2>4, Zenon
<1>10. Makes(w6, "xor", "b", "c", w5) /\ w5 \in Words
  <2>1. Obeys(g, s, from, 6, part[6])
    BY <1>2
  <2>2. w5 = g[from + (6 - 1)]
    BY <1>4 DEF Within
  <2>3. part[6] = Statement("xor", "b", "c", sets) /\ w6 = g[from + 6]
    BY <1>3, <1>4, Zenon
  <2>4. Makes(g[from + 6], "xor", "b", "c", w5) /\ w5 \in Words
    BY <2>1, <2>2, <2>3, ObeyedMakes, Zenon
  <2> QED BY <2>3, <2>4, Zenon
<1>11. Makes(w7, "rotate", "b", 24, w6) /\ w6 \in Words
  <2>1. Obeys(g, s, from, 7, part[7])
    BY <1>2
  <2>2. w6 = g[from + (7 - 1)]
    BY <1>4 DEF Within
  <2>3. part[7] = Statement("rotate", "b", 24, sets) /\ w7 = g[from + 7]
    BY <1>3, <1>4, Zenon
  <2>4. Makes(g[from + 7], "rotate", "b", 24, w6) /\ w6 \in Words
    BY <2>1, <2>2, <2>3, ObeyedMakes, Zenon
  <2> QED BY <2>3, <2>4, Zenon
<1>12. Makes(w8, "add", "a", "b", w7) /\ w7 \in Words
  <2>1. Obeys(g, s, from, 8, part[8])
    BY <1>2
  <2>2. w7 = g[from + (8 - 1)]
    BY <1>4 DEF Within
  <2>3. part[8] = Statement("add", "a", "b", sets) /\ w8 = g[from + 8]
    BY <1>3, <1>4, Zenon
  <2>4. Makes(g[from + 8], "add", "a", "b", w7) /\ w7 \in Words
    BY <2>1, <2>2, <2>3, ObeyedMakes, Zenon
  <2> QED BY <2>3, <2>4, Zenon
<1>13. Makes(w9, "message", "a", 2, w8) /\ w8 \in Words
  <2>1. Obeys(g, s, from, 9, part[9])
    BY <1>2
  <2>2. w8 = g[from + (9 - 1)]
    BY <1>4 DEF Within
  <2>3. part[9] = Statement("message", "a", 2, sets) /\ w9 = g[from + 9]
    BY <1>3, <1>4, Zenon
  <2>4. Makes(g[from + 9], "message", "a", 2, w8) /\ w8 \in Words
    BY <2>1, <2>2, <2>3, ObeyedMakes, Zenon
  <2> QED BY <2>3, <2>4, Zenon
<1>14. Makes(w10, "xor", "d", "a", w9) /\ w9 \in Words
  <2>1. Obeys(g, s, from, 10, part[10])
    BY <1>2
  <2>2. w9 = g[from + (10 - 1)]
    BY <1>4 DEF Within
  <2>3. part[10] = Statement("xor", "d", "a", sets) /\ w10 = g[from + 10]
    BY <1>3, <1>4, Zenon
  <2>4. Makes(g[from + 10], "xor", "d", "a", w9) /\ w9 \in Words
    BY <2>1, <2>2, <2>3, ObeyedMakes, Zenon
  <2> QED BY <2>3, <2>4, Zenon
<1>15. Makes(w11, "rotate", "d", 16, w10) /\ w10 \in Words
  <2>1. Obeys(g, s, from, 11, part[11])
    BY <1>2
  <2>2. w10 = g[from + (11 - 1)]
    BY <1>4 DEF Within
  <2>3. part[11] = Statement("rotate", "d", 16, sets) /\ w11 = g[from + 11]
    BY <1>3, <1>4, Zenon
  <2>4. Makes(g[from + 11], "rotate", "d", 16, w10) /\ w10 \in Words
    BY <2>1, <2>2, <2>3, ObeyedMakes, Zenon
  <2> QED BY <2>3, <2>4, Zenon
<1>16. Makes(w12, "add", "c", "d", w11) /\ w11 \in Words
  <2>1. Obeys(g, s, from, 12, part[12])
    BY <1>2
  <2>2. w11 = g[from + (12 - 1)]
    BY <1>4 DEF Within
  <2>3. part[12] = Statement("add", "c", "d", sets) /\ w12 = g[from + 12]
    BY <1>3, <1>4, Zenon
  <2>4. Makes(g[from + 12], "add", "c", "d", w11) /\ w11 \in Words
    BY <2>1, <2>2, <2>3, ObeyedMakes, Zenon
  <2> QED BY <2>3, <2>4, Zenon
<1>17. Makes(w13, "xor", "b", "c", w12) /\ w12 \in Words
  <2>1. Obeys(g, s, from, 13, part[13])
    BY <1>2
  <2>2. w12 = g[from + (13 - 1)]
    BY <1>4 DEF Within
  <2>3. part[13] = Statement("xor", "b", "c", sets) /\ w13 = g[from + 13]
    BY <1>3, <1>4, Zenon
  <2>4. Makes(g[from + 13], "xor", "b", "c", w12) /\ w12 \in Words
    BY <2>1, <2>2, <2>3, ObeyedMakes, Zenon
  <2> QED BY <2>3, <2>4, Zenon
<1>18. Makes(w14, "rotate", "b", 63, w13) /\ w13 \in Words
  <2>1. Obeys(g, s, from, 14, part[14])
    BY <1>2
  <2>2. w13 = g[from + (14 - 1)]
    BY <1>4 DEF Within
  <2>3. part[14] = Statement("rotate", "b", 63, sets) /\ w14 = g[from + 14]
    BY <1>3, <1>4, Zenon
  <2>4. Makes(g[from + 14], "rotate", "b", 63, w13) /\ w13 \in Words
    BY <2>1, <2>2, <2>3, ObeyedMakes, Zenon
  <2> QED BY <2>3, <2>4, Zenon
<1>19. PICK a, b, c, d : a = w0["a"] /\ b = w0["b"] /\ c = w0["c"] /\ d = w0["d"]
  OBVIOUS
<1>20. w0 = Four(a, b, c, d)
  BY <1>5, <1>19, WordsAreFour, Zenon
<1>21. PICK a1, a2, d1, d2, c1, b1, b2, a3, a4, d3, d4, c2, b3, b4 :
         /\ a1 = Plus(a, b)
         /\ a2 = Plus(a1, MessageWords[1])
         /\ d1 = XorWord(d, a2)
         /\ d2 = RotateWord(d1, Amount(32))
         /\ c1 = Plus(c, d2)
         /\ b1 = XorWord(b, c1)
         /\ b2 = RotateWord(b1, Amount(24))
         /\ a3 = Plus(a2, b2)
         /\ a4 = Plus(a3, MessageWords[2])
         /\ d3 = XorWord(d2, a4)
         /\ d4 = RotateWord(d3, Amount(16))
         /\ c2 = Plus(c1, d4)
         /\ b3 = XorWord(b2, c2)
         /\ b4 = RotateWord(b3, Amount(63))
  BY Zenon
<1>22. w1 = Four(a1, b, c, d)
  <2>1. Makes(w1, "add", "a", "b", Four(a, b, c, d))
    BY <1>5, <1>20, Zenon
  <2>2. w1 = Four(Plus(a, b), b, c, d)
    BY <2>1, MakesOfFour, Zenon
  <2>3. a1 = Plus(a, b)
    BY <1>21, Zenon
  <2> QED BY <2>2, <2>3, Zenon
<1>23. w2 = Four(a2, b, c, d)
  <2>1. Makes(w2, "message", "a", 1, Four(a1, b, c, d))
    BY <1>6, <1>22, Zenon
  <2>2. w2 = Four(Plus(a1, MessageWords[1]), b, c, d)
    BY <2>1, MakesOfFour, Zenon
  <2>3. a2 = Plus(a1, MessageWords[1])
    BY <1>21, Zenon
  <2> QED BY <2>2, <2>3, Zenon
<1>24. w3 = Four(a2, b, c, d1)
  <2>1. Makes(w3, "xor", "d", "a", Four(a2, b, c, d))
    BY <1>7, <1>23, Zenon
  <2>2. w3 = Four(a2, b, c, XorWord(d, a2))
    BY <2>1, MakesOfFour, Zenon
  <2>3. d1 = XorWord(d, a2)
    BY <1>21, Zenon
  <2> QED BY <2>2, <2>3, Zenon
<1>25. w4 = Four(a2, b, c, d2)
  <2>1. Makes(w4, "rotate", "d", 32, Four(a2, b, c, d1))
    BY <1>8, <1>24, Zenon
  <2>2. w4 = Four(a2, b, c, RotateWord(d1, Amount(32)))
    BY <2>1, MakesOfFour, Zenon
  <2>3. d2 = RotateWord(d1, Amount(32))
    BY <1>21, Zenon
  <2> QED BY <2>2, <2>3, Zenon
<1>26. w5 = Four(a2, b, c1, d2)
  <2>1. Makes(w5, "add", "c", "d", Four(a2, b, c, d2))
    BY <1>9, <1>25, Zenon
  <2>2. w5 = Four(a2, b, Plus(c, d2), d2)
    BY <2>1, MakesOfFour, Zenon
  <2>3. c1 = Plus(c, d2)
    BY <1>21, Zenon
  <2> QED BY <2>2, <2>3, Zenon
<1>27. w6 = Four(a2, b1, c1, d2)
  <2>1. Makes(w6, "xor", "b", "c", Four(a2, b, c1, d2))
    BY <1>10, <1>26, Zenon
  <2>2. w6 = Four(a2, XorWord(b, c1), c1, d2)
    BY <2>1, MakesOfFour, Zenon
  <2>3. b1 = XorWord(b, c1)
    BY <1>21, Zenon
  <2> QED BY <2>2, <2>3, Zenon
<1>28. w7 = Four(a2, b2, c1, d2)
  <2>1. Makes(w7, "rotate", "b", 24, Four(a2, b1, c1, d2))
    BY <1>11, <1>27, Zenon
  <2>2. w7 = Four(a2, RotateWord(b1, Amount(24)), c1, d2)
    BY <2>1, MakesOfFour, Zenon
  <2>3. b2 = RotateWord(b1, Amount(24))
    BY <1>21, Zenon
  <2> QED BY <2>2, <2>3, Zenon
<1>29. w8 = Four(a3, b2, c1, d2)
  <2>1. Makes(w8, "add", "a", "b", Four(a2, b2, c1, d2))
    BY <1>12, <1>28, Zenon
  <2>2. w8 = Four(Plus(a2, b2), b2, c1, d2)
    BY <2>1, MakesOfFour, Zenon
  <2>3. a3 = Plus(a2, b2)
    BY <1>21, Zenon
  <2> QED BY <2>2, <2>3, Zenon
<1>30. w9 = Four(a4, b2, c1, d2)
  <2>1. Makes(w9, "message", "a", 2, Four(a3, b2, c1, d2))
    BY <1>13, <1>29, Zenon
  <2>2. w9 = Four(Plus(a3, MessageWords[2]), b2, c1, d2)
    BY <2>1, MakesOfFour, Zenon
  <2>3. a4 = Plus(a3, MessageWords[2])
    BY <1>21, Zenon
  <2> QED BY <2>2, <2>3, Zenon
<1>31. w10 = Four(a4, b2, c1, d3)
  <2>1. Makes(w10, "xor", "d", "a", Four(a4, b2, c1, d2))
    BY <1>14, <1>30, Zenon
  <2>2. w10 = Four(a4, b2, c1, XorWord(d2, a4))
    BY <2>1, MakesOfFour, Zenon
  <2>3. d3 = XorWord(d2, a4)
    BY <1>21, Zenon
  <2> QED BY <2>2, <2>3, Zenon
<1>32. w11 = Four(a4, b2, c1, d4)
  <2>1. Makes(w11, "rotate", "d", 16, Four(a4, b2, c1, d3))
    BY <1>15, <1>31, Zenon
  <2>2. w11 = Four(a4, b2, c1, RotateWord(d3, Amount(16)))
    BY <2>1, MakesOfFour, Zenon
  <2>3. d4 = RotateWord(d3, Amount(16))
    BY <1>21, Zenon
  <2> QED BY <2>2, <2>3, Zenon
<1>33. w12 = Four(a4, b2, c2, d4)
  <2>1. Makes(w12, "add", "c", "d", Four(a4, b2, c1, d4))
    BY <1>16, <1>32, Zenon
  <2>2. w12 = Four(a4, b2, Plus(c1, d4), d4)
    BY <2>1, MakesOfFour, Zenon
  <2>3. c2 = Plus(c1, d4)
    BY <1>21, Zenon
  <2> QED BY <2>2, <2>3, Zenon
<1>34. w13 = Four(a4, b3, c2, d4)
  <2>1. Makes(w13, "xor", "b", "c", Four(a4, b2, c2, d4))
    BY <1>17, <1>33, Zenon
  <2>2. w13 = Four(a4, XorWord(b2, c2), c2, d4)
    BY <2>1, MakesOfFour, Zenon
  <2>3. b3 = XorWord(b2, c2)
    BY <1>21, Zenon
  <2> QED BY <2>2, <2>3, Zenon
<1>35. w14 = Four(a4, b4, c2, d4)
  <2>1. Makes(w14, "rotate", "b", 63, Four(a4, b3, c2, d4))
    BY <1>18, <1>34, Zenon
  <2>2. w14 = Four(a4, RotateWord(b3, Amount(63)), c2, d4)
    BY <2>1, MakesOfFour, Zenon
  <2>3. b4 = RotateWord(b3, Amount(63))
    BY <1>21, Zenon
  <2> QED BY <2>2, <2>3, Zenon
<1>36. BlakeHalf(w0, 1, 32, 24) = Four(a2, b2, c1, d2)
  BY <1>19, <1>21, Zenon DEF BlakeHalf
<1>37. BlakeHalf(Four(a2, b2, c1, d2), 2, 16, 63) = Four(a4, b4, c2, d4)
  <2>1. /\ a3 = Plus(a2, b2)
        /\ a4 = Plus(a3, MessageWords[2])
        /\ d3 = XorWord(d2, a4)
        /\ d4 = RotateWord(d3, Amount(16))
        /\ c2 = Plus(c1, d4)
        /\ b3 = XorWord(b2, c2)
        /\ b4 = RotateWord(b3, Amount(63))
    BY <1>21, Zenon
  <2>2. PICK w : w = Four(a2, b2, c1, d2)
    OBVIOUS
  <2>3. w["a"] = a2 /\ w["b"] = b2 /\ w["c"] = c1 /\ w["d"] = d2
    BY <2>2 DEF Four, Rows
  <2>4. BlakeHalf(w, 2, 16, 63) = Four(a4, b4, c2, d4)
    BY <2>1, <2>3, Zenon DEF BlakeHalf
  <2> QED BY <2>2, <2>4, Zenon
<1>38. BlakeMix(w0) = Four(a4, b4, c2, d4)
  BY <1>36, <1>37, Zenon DEF BlakeMix
<1> QED BY <1>1, <1>4, <1>35, <1>38, Zenon

-----------------------------------------------------------------------------
(* The scalar G                                                              *)

\* A function of the rows is a record.
LEMMA FourIsRecord ==
  ASSUME NEW a, NEW b, NEW c, NEW d
  PROVE  Four(a, b, c, d) = [a |-> a, b |-> b, c |-> c, d |-> d]
BY DEF Four, Rows

\* The scalar G of a kernel of BLAKE2b, ...
LEMMA BlakeIsTrue ==
  ASSUME NEW q, Blake(unit) PROVE ScalarResult(q) = ScalarG(q, TRUE)
<1>1. Blake(unit) = TRUE
  BY DEF Blake
<1> QED BY <1>1, Zenon DEF ScalarResult

\* ... and that of one of the block fill, ...
LEMMA BlakeIsFalse ==
  ASSUME NEW q, ~Blake(unit) PROVE ScalarResult(q) = ScalarG(q, FALSE)
<1>1. (unit.of \in {"blake sse41", "blake avx2", "blake avx512"}) \in BOOLEAN
  BY SMT
<1>2. Blake(unit) \in BOOLEAN
  BY <1>1, Zenon DEF Blake
<1>3. Blake(unit) = FALSE
  BY <1>2
<1> QED BY <1>3, Zenon DEF ScalarResult

\* ... which adds no message word.
LEMMA MixedAgain ==
  ASSUME NEW x \in Octet, NEW y \in Octet
  PROVE  (ScalarMix(x, y) + 0) % Modulus = ScalarMix(x, y)
<1>1. ScalarMix(x, y) \in Octet
  BY WordsMix
<1>2. PICK z : z = ScalarMix(x, y) /\ z \in Octet
  BY <1>1
<1>3. (z + 0) % Modulus = z
  <2> HIDE <1>1
  <2>1. z \in Octet
    BY <1>2
  <2> HIDE <1>2
  <2> QED BY <2>1 DEF Octet, Modulus
<1> QED BY <1>2, <1>3, Zenon

\* The G of the block fill mixes its two halves, ...
LEMMA ScalarOfFill ==
  ASSUME NEW q \in Words
  PROVE  ScalarG(q, FALSE) = HalfMix(HalfMix(q, 32, 24), 16, 63)
<1>1. PICK a, b, c, d : a = q.a /\ b = q.b /\ c = q.c /\ d = q.d
  OBVIOUS
<1>2. /\ a = q["a"] /\ b = q["b"] /\ c = q["c"] /\ d = q["d"]
      /\ a \in Octet /\ b \in Octet /\ c \in Octet /\ d \in Octet
  BY <1>1 DEF Words, Rows
<1>3. PICK a1, d1, d2, c1, b1, b2 :
        /\ a1 = ScalarMix(a, b) /\ d1 = XorWord(d, a1) /\ d2 = RotateWord(d1, 4)
        /\ c1 = ScalarMix(c, d2) /\ b1 = XorWord(b, c1) /\ b2 = RotateWord(b1, 3)
  BY Zenon
<1>4. PICK a3, d3, d4, c2, b3, b4 :
        /\ a3 = ScalarMix(a1, b2) /\ d3 = XorWord(d2, a3) /\ d4 = RotateWord(d3, 2)
        /\ c2 = ScalarMix(c1, d4) /\ b3 = XorWord(b2, c2) /\ b4 = RotateWord(b3, 7)
  BY Zenon
<1>5. a1 \in Octet /\ c1 \in Octet /\ b2 \in Octet /\ d2 \in Octet
  <2>1. a1 \in Octet
    BY <1>2, <1>3, WordsMix
  <2>2. d1 \in Octet
    BY <1>2, <1>3, <2>1, XorIsWord
  <2>3. d2 \in Octet
    BY <1>3, <2>2, TurnedIsWord
  <2>4. c1 \in Octet
    BY <1>2, <1>3, <2>3, WordsMix
  <2>5. b1 \in Octet
    BY <1>2, <1>3, <2>4, XorIsWord
  <2>6. b2 \in Octet
    BY <1>3, <2>5, TurnedIsWord
  <2> QED BY <2>1, <2>3, <2>4, <2>6
<1>6. a1 = (ScalarMix(a, b) + 0) % Modulus /\ a3 = (ScalarMix(a1, b2) + 0) % Modulus
  BY <1>2, <1>3, <1>4, <1>5, MixedAgain, ZenonT(60)
<1>7. ScalarG(q, FALSE) = [a |-> a3, b |-> b4, c |-> c2, d |-> d4]
  <2>1. <<0, 0>>[1] = 0 /\ <<0, 0>>[2] = 0
    OBVIOUS
  <2> QED BY <1>1, <1>3, <1>4, <1>6, <2>1, ZenonT(60) DEF ScalarG
<1>8. Amount(32) = 4 /\ Amount(24) = 3 /\ Amount(16) = 2 /\ Amount(63) = 7
  BY DEF Amount
<1>9. HalfMix(q, 32, 24) = Four(a1, b2, c1, d2)
  BY <1>2, <1>3, <1>8, Zenon DEF HalfMix
<1>10. HalfMix(Four(a1, b2, c1, d2), 16, 63) = Four(a3, b4, c2, d4)
  <2>1. PICK w : w = Four(a1, b2, c1, d2)
    OBVIOUS
  <2>2. w["a"] = a1 /\ w["b"] = b2 /\ w["c"] = c1 /\ w["d"] = d2
    BY <2>1 DEF Four, Rows
  <2>3. HalfMix(w, 16, 63) = Four(a3, b4, c2, d4)
    BY <1>4, <1>8, <2>2, Zenon DEF HalfMix
  <2> QED BY <2>1, <2>3, Zenon
<1>11. Four(a3, b4, c2, d4) = [a |-> a3, b |-> b4, c |-> c2, d |-> d4]
  BY FourIsRecord
<1> QED BY <1>7, <1>9, <1>10, <1>11, Zenon

\* ... and so does that of BLAKE2b.
LEMMA ScalarOfBlake ==
  ASSUME NEW q \in Words
  PROVE  ScalarG(q, TRUE) = BlakeMix(q)
<1>1. PICK a, b, c, d : a = q.a /\ b = q.b /\ c = q.c /\ d = q.d
  OBVIOUS
<1>2. a = q["a"] /\ b = q["b"] /\ c = q["c"] /\ d = q["d"]
  BY <1>1 DEF Words, Rows
<1>3. PICK a1, a2, d1, d2, c1, b1, b2 :
        /\ a1 = Plus(a, b) /\ a2 = Plus(a1, MessageWords[1])
        /\ d1 = XorWord(d, a2) /\ d2 = RotateWord(d1, 4)
        /\ c1 = Plus(c, d2) /\ b1 = XorWord(b, c1) /\ b2 = RotateWord(b1, 3)
  BY Zenon
<1>4. PICK a3, a4, d3, d4, c2, b3, b4 :
        /\ a3 = Plus(a2, b2) /\ a4 = Plus(a3, MessageWords[2])
        /\ d3 = XorWord(d2, a4) /\ d4 = RotateWord(d3, 2)
        /\ c2 = Plus(c1, d4) /\ b3 = XorWord(b2, c2) /\ b4 = RotateWord(b3, 7)
  BY Zenon
<1>6. /\ a2 = (Plus(a, b) + MessageWords[1]) % Modulus
      /\ a4 = (Plus(a2, b2) + MessageWords[2]) % Modulus
  <2>1. a2 = (a1 + MessageWords[1]) % Modulus /\ a4 = (a3 + MessageWords[2]) % Modulus
    BY <1>3, <1>4, Zenon DEF Plus
  <2> QED BY <1>3, <1>4, <2>1, Zenon
<1>7. ScalarG(q, TRUE) = [a |-> a4, b |-> b4, c |-> c2, d |-> d4]
  <2>1. /\ d2 = RotateWord(XorWord(q.d, a2), 4)
        /\ c1 = Plus(q.c, d2) /\ b2 = RotateWord(XorWord(q.b, c1), 3)
        /\ d4 = RotateWord(XorWord(d2, a4), 2)
        /\ c2 = Plus(c1, d4) /\ b4 = RotateWord(XorWord(b2, c2), 7)
    BY <1>1, <1>3, <1>4, Zenon
  <2>2. /\ a2 = (Plus(q.a, q.b) + MessageWords[1]) % Modulus
        /\ a4 = (Plus(a2, b2) + MessageWords[2]) % Modulus
    BY <1>1, <1>6, Zenon
  <2> HIDE <1>1, <1>3, <1>4, <1>6
  <2> QED BY <2>1, <2>2, Zenon DEF ScalarG
<1>8. Amount(32) = 4 /\ Amount(24) = 3 /\ Amount(16) = 2 /\ Amount(63) = 7
  BY DEF Amount
<1>9. BlakeHalf(q, 1, 32, 24) = Four(a2, b2, c1, d2)
  BY <1>2, <1>3, <1>8, Zenon DEF BlakeHalf
<1>10. BlakeHalf(Four(a2, b2, c1, d2), 2, 16, 63) = Four(a4, b4, c2, d4)
  <2>1. PICK w : w = Four(a2, b2, c1, d2)
    OBVIOUS
  <2>2. w["a"] = a2 /\ w["b"] = b2 /\ w["c"] = c1 /\ w["d"] = d2
    BY <2>1 DEF Four, Rows
  <2>3. BlakeHalf(w, 2, 16, 63) = Four(a4, b4, c2, d4)
    BY <1>4, <1>8, <2>2, Zenon DEF BlakeHalf
  <2> QED BY <2>1, <2>3, Zenon
<1>11. Four(a4, b4, c2, d4) = [a |-> a4, b |-> b4, c |-> c2, d |-> d4]
  BY FourIsRecord
<1> QED BY <1>7, <1>9, <1>10, <1>11, Zenon DEF BlakeMix

\* A lane that has been through the whole program.
LEMMA RanThrough ==
  ASSUME Kernel(unit), NEW s \in Sets, NEW q \in Words
  PROVE  Ran(s, q)[Len(Program)] = ScalarResult(q)
<1>1. PICK g : g = Ran(s, q)
  OBVIOUS
<1>2. g[0] = q
  BY <1>1, RanIs, Zenon DEF RunsFrom
<1>3. {0} \in SUBSET Sets /\ {1} \in SUBSET Sets /\ Sets \in SUBSET Sets /\ s \in {0, 1}
  BY DEF Sets
<1>4. CASE Shape = "pairs"
  <2>1. /\ Len(Program) = 28 /\ Blake(unit)
        /\ Stretch(Program, 0, BlakeG({0}), 14) /\ Stretch(Program, 14, BlakeG({1}), 14)
    BY <1>4, ProgramIs
  <2>2. Within(0, BlakeG({0}), 14) /\ Within(14, BlakeG({1}), 14)
    BY <2>1 DEF Within
  <2>3. CASE s = 0
    <3>1. g[0 + 14] = BlakeMix(g[0])
      BY <1>1, <1>3, <2>2, <2>3, BlakeRuns
    <3>2. \A i \in 1 .. 14 : s \notin BlakeG({1})[i].sets
      <4>1. \A i \in 1 .. 14 : BlakeG({1})[i].sets = {1}
        BY <1>3, BlakeGIs
      <4> QED BY <2>3, <4>1
    <3>3. g[14 + 14] = g[14]
      BY <1>1, <2>2, <3>2, RunsPast
    <3>4. 0 + 14 = 14 /\ 14 + 14 = 28
      OBVIOUS
    <3> QED BY <1>1, <1>2, <2>1, <3>1, <3>3, <3>4, ScalarOfBlake, BlakeIsTrue, Zenon
  <2>4. CASE s = 1
    <3>1. g[14 + 14] = BlakeMix(g[14])
      BY <1>1, <1>3, <2>2, <2>4, BlakeRuns
    <3>2. \A i \in 1 .. 14 : s \notin BlakeG({0})[i].sets
      <4>1. \A i \in 1 .. 14 : BlakeG({0})[i].sets = {0}
        BY <1>3, BlakeGIs
      <4> QED BY <2>4, <4>1
    <3>3. g[0 + 14] = g[0]
      BY <1>1, <2>2, <3>2, RunsPast
    <3>4. 0 + 14 = 14 /\ 14 + 14 = 28
      OBVIOUS
    <3> QED BY <1>1, <1>2, <2>1, <3>1, <3>3, <3>4, ScalarOfBlake, BlakeIsTrue, Zenon
  <2> QED BY <1>3, <2>3, <2>4
<1>5. CASE Shape = "blake"
  <2>1. Len(Program) = 14 /\ Blake(unit) /\ Stretch(Program, 0, BlakeG(Sets), 14)
    BY <1>5, ProgramIs
  <2>2. Within(0, BlakeG(Sets), 14)
    BY <2>1 DEF Within
  <2>3. g[0 + 14] = BlakeMix(g[0])
    BY <1>1, <1>3, <2>2, BlakeRuns
  <2>4. 0 + 14 = 14
    OBVIOUS
  <2> QED BY <1>1, <1>2, <2>1, <2>3, <2>4, ScalarOfBlake, BlakeIsTrue, Zenon
<1>6. CASE Shape = "sets"
  <2>1. /\ Len(Program) = 24 /\ ~Blake(unit)
        /\ Stretch(Program, 0, HalfG({0}, 32, 24), 6) /\ Stretch(Program, 6, HalfG({1}, 32, 24), 6)
        /\ Stretch(Program, 12, HalfG({0}, 16, 63), 6) /\ Stretch(Program, 18, HalfG({1}, 16, 63), 6)
    BY <1>6, ProgramIs
  <2>2. /\ Within(0, HalfG({0}, 32, 24), 6) /\ Within(6, HalfG({1}, 32, 24), 6)
        /\ Within(12, HalfG({0}, 16, 63), 6) /\ Within(18, HalfG({1}, 16, 63), 6)
    BY <2>1 DEF Within
  <2>3. 0 + 6 = 6 /\ 6 + 6 = 12 /\ 12 + 6 = 18 /\ 18 + 6 = 24
    OBVIOUS
  <2>4. CASE s = 0
    <3>1. g[0 + 6] = HalfMix(g[0], 32, 24) /\ g[12 + 6] = HalfMix(g[12], 16, 63)
      BY <1>1, <1>3, <2>2, <2>4, HalfRuns
    <3>2. \A i \in 1 .. 6 :
            s \notin HalfG({1}, 32, 24)[i].sets /\ s \notin HalfG({1}, 16, 63)[i].sets
      <4>1. \A i \in 1 .. 6 : HalfG({1}, 32, 24)[i].sets = {1} /\ HalfG({1}, 16, 63)[i].sets = {1}
        BY <1>3, HalfGIs
      <4> QED BY <2>4, <4>1
    <3>3. g[6 + 6] = g[6] /\ g[18 + 6] = g[18]
      BY <1>1, <2>2, <3>2, RunsPast
    <3>4. /\ g[6] = HalfMix(g[0], 32, 24) /\ g[12] = g[6]
          /\ g[18] = HalfMix(g[12], 16, 63) /\ g[24] = g[18]
      BY <3>1, <3>3
    <3>5. g[24] = HalfMix(HalfMix(g[0], 32, 24), 16, 63)
      BY <3>4, Zenon
    <3> QED BY <1>1, <1>2, <2>1, <3>5, ScalarOfFill, BlakeIsFalse, Zenon
  <2>5. CASE s = 1
    <3>1. g[6 + 6] = HalfMix(g[6], 32, 24) /\ g[18 + 6] = HalfMix(g[18], 16, 63)
      BY <1>1, <1>3, <2>2, <2>5, HalfRuns
    <3>2. \A i \in 1 .. 6 :
            s \notin HalfG({0}, 32, 24)[i].sets /\ s \notin HalfG({0}, 16, 63)[i].sets
      <4>1. \A i \in 1 .. 6 : HalfG({0}, 32, 24)[i].sets = {0} /\ HalfG({0}, 16, 63)[i].sets = {0}
        BY <1>3, HalfGIs
      <4> QED BY <2>5, <4>1
    <3>3. g[0 + 6] = g[0] /\ g[12 + 6] = g[12]
      BY <1>1, <2>2, <3>2, RunsPast
    <3>4. /\ g[6] = g[0] /\ g[12] = HalfMix(g[6], 32, 24)
          /\ g[18] = g[12] /\ g[24] = HalfMix(g[18], 16, 63)
      BY <3>1, <3>3
    <3>5. g[24] = HalfMix(HalfMix(g[0], 32, 24), 16, 63)
      BY <3>4, Zenon
    <3> QED BY <1>1, <1>2, <2>1, <3>5, ScalarOfFill, BlakeIsFalse, Zenon
  <2> QED BY <1>3, <2>4, <2>5
<1>7. CASE Shape = "both"
  <2>1. /\ Len(Program) = 12 /\ ~Blake(unit)
        /\ Stretch(Program, 0, HalfG(Sets, 32, 24), 6) /\ Stretch(Program, 6, HalfG(Sets, 16, 63), 6)
    BY <1>7, ProgramIs
  <2>2. Within(0, HalfG(Sets, 32, 24), 6) /\ Within(6, HalfG(Sets, 16, 63), 6)
    BY <2>1 DEF Within
  <2>3. g[0 + 6] = HalfMix(g[0], 32, 24) /\ g[6 + 6] = HalfMix(g[6], 16, 63)
    BY <1>1, <1>3, <2>2, HalfRuns
  <2>4. 0 + 6 = 6 /\ 6 + 6 = 12
    OBVIOUS
  <2> QED BY <1>1, <1>2, <2>1, <2>3, <2>4, ScalarOfFill, BlakeIsFalse, ZenonT(60)
<1> QED BY <1>4, <1>5, <1>6, <1>7 DEF Shape

-----------------------------------------------------------------------------
(* The inductive invariant                                                   *)

\* Each lane holds what the statements behind it make of the words it began with.
WordsInv ==
  /\ Kernel(unit) /\ given \in Starts
  /\ line \in 1 .. Len(Program) + 1
  /\ reg \in [Rows -> [Sets -> Register]]
  /\ \A s \in Sets, n \in Slot : LaneOf(s, n) = Ran(s, given[2 * s + n])[line - 1]

\* The lanes begin with words.
LEMMA GivenAreWords ==
  ASSUME given \in Starts, NEW s \in Sets, NEW n \in Slot
  PROVE  given[2 * s + n] \in Words
<1>1. 2 * s + n \in 1 .. 4
  BY DEF Sets, Slot
<1>2. given \in [1 .. 4 -> Words]
  BY WordsAssumption DEF Words
<1> QED BY <1>1, <1>2

\* The invariant holds at the start, ...
LEMMA WordsBegin == WordsInit => WordsInv
<1> SUFFICES ASSUME WordsInit PROVE WordsInv
  OBVIOUS
<1>1. Kernel(unit) /\ given \in Starts /\ line = 1
  BY DEF WordsInit, Kernel
<1>2. Len(Program) \in Nat
  BY <1>1, ProgramIsLegal
<1>3. reg = [r \in Rows |-> [s \in Sets |-> [n \in Slot |-> given[2 * s + n][r]]]]
  BY DEF WordsInit
<1>4. \A s \in Sets, n \in Slot : given[2 * s + n] \in Words
  BY <1>1, GivenAreWords
<1>5. reg \in [Rows -> [Sets -> Register]]
  <2>1. \A s \in Sets, n \in Slot, r \in Rows : given[2 * s + n][r] \in Octet
    BY <1>4 DEF Words
  <2> QED BY <1>3, <2>1 DEF Register
<1>6. ASSUME NEW s \in Sets, NEW n \in Slot PROVE LaneOf(s, n) = Ran(s, given[2 * s + n])[line - 1]
  <2>1. PICK q : q = given[2 * s + n] /\ q \in Words
    BY <1>4
  <2>2. LaneOf(s, n) = [r \in Rows |-> q[r]]
    BY <1>3, <2>1 DEF LaneOf
  <2>3. LaneOf(s, n) = q
    BY <2>1, <2>2 DEF Words
  <2>4. Ran(s, q)[0] = q
    BY <1>1, <2>1, RanIs, Zenon DEF RunsFrom
  <2>5. line - 1 = 0
    BY <1>1
  <2> QED BY <2>1, <2>3, <2>4, <2>5, Zenon
<1> QED BY <1>1, <1>2, <1>5, <1>6 DEF WordsInv

\* ... and after each statement.
LEMMA WordsStep ==
  ASSUME WordsInv, WordsNext
  PROVE  WordsInv'
<1>1. /\ Kernel(unit) /\ given \in Starts /\ line \in 1 .. Len(Program) + 1
      /\ reg \in [Rows -> [Sets -> Register]]
  BY DEF WordsInv
<1>2. Len(Program) \in Nat /\ \A k \in 1 .. Len(Program) : Legal(Program[k])
  BY <1>1, ProgramIsLegal
<1>3. line <= Len(Program)
  BY DEF WordsNext, MulAdd, XorInto, AddInto, AddMessage, RotateRegister, Comes
<1>4. line \in 1 .. Len(Program)
  BY <1>1, <1>2, <1>3
<1>5. PICK st : st = Program[line] /\ Legal(st)
  BY <1>2, <1>4
<1>6. /\ reg' \in [Rows -> [Sets -> Register]]
      /\ line' = line + 1 /\ unit' = unit /\ given' = given
      /\ \A s \in Sets, n \in Slot :
           LaneOf(s, n)' = IF s \in st.sets THEN Applied(st, LaneOf(s, n)) ELSE LaneOf(s, n)
  BY <1>1, <1>5, StepsLanes
<1>7. Program' = Program
  BY <1>6 DEF Program, FillG, Ordered, Blake
<1>8. \A s, q : Ran(s, q)' = Ran(s, q)
  BY <1>7 DEF Ran, StatementStep
<1>9. Kernel(unit)' /\ (given \in Starts)' /\ (line \in 1 .. Len(Program) + 1)'
  BY <1>1, <1>2, <1>4, <1>6, <1>7 DEF Kernel
<1>10. ASSUME NEW s \in Sets, NEW n \in Slot
       PROVE  LaneOf(s, n)' = Ran(s, given[2 * s + n])'[(line - 1)']
  <2>1. PICK q : q = given[2 * s + n] /\ q \in Words
    BY <1>1, GivenAreWords
  <2>2. PICK g : g = Ran(s, q) /\ RunsFrom(g, s, q)
    BY <1>1, <2>1, RanIs, Zenon
  <2>3. g[line] = IF s \in st.sets THEN Applied(st, g[line - 1]) ELSE g[line - 1]
    BY <1>4, <1>5, <2>2, Zenon DEF RunsFrom
  <2>4. LaneOf(s, n) = g[line - 1]
    BY <2>1, <2>2, Zenon DEF WordsInv
  <2>5. LaneOf(s, n)' = g[line]
    BY <1>6, <2>3, <2>4, Zenon
  <2>6. (line - 1)' = line
    BY <1>4, <1>6
  <2>7. Ran(s, given[2 * s + n])' = g
    BY <1>6, <1>8, <2>1, <2>2
  <2> QED BY <2>5, <2>6, <2>7, Zenon
<1> QED BY <1>6, <1>9, <1>10 DEF WordsInv

\* Whatever words a kernel starts from and whatever the message, every spelling of
\* its rotations and of its product, and every order of its statements, leaves in
\* each lane what the scalar G of the block fill or of BLAKE2b makes of that lane.
THEOREM KernelsComputeScalar == WordsSpec => []WordsAsScalar
<1>1. WordsInit => WordsInv
  BY WordsBegin
<1>2. WordsInv /\ [WordsNext]_wordVars => WordsInv'
  <2>1. ASSUME WordsInv, WordsNext PROVE WordsInv'
    BY <2>1, WordsStep
  <2>2. ASSUME WordsInv, UNCHANGED wordVars PROVE WordsInv'
    <3>1. unit' = unit /\ line' = line /\ given' = given /\ reg' = reg
      BY <2>2 DEF wordVars
    <3>2. Program' = Program
      BY <3>1 DEF Program, FillG, Ordered, Blake
    <3>3. \A s, q : Ran(s, q)' = Ran(s, q)
      BY <3>2 DEF Ran, StatementStep
    <3>4. \A s, n : LaneOf(s, n)' = LaneOf(s, n)
      BY <3>1 DEF LaneOf
    <3>5. \A s \in Sets, n \in Slot : LaneOf(s, n)' = Ran(s, given[2 * s + n])'[(line - 1)']
      <4>1. (line - 1)' = line - 1
        BY <3>1
      <4>2. \A s \in Sets, n \in Slot : LaneOf(s, n) = Ran(s, given[2 * s + n])[line - 1]
        BY <2>2 DEF WordsInv
      <4> QED BY <3>1, <3>3, <3>4, <4>1, <4>2, Zenon
    <3>6. Kernel(unit)' /\ (given \in Starts)' /\ (line \in 1 .. Len(Program) + 1)'
            /\ (reg \in [Rows -> [Sets -> Register]])'
      BY <2>2, <3>1, <3>2 DEF WordsInv, Kernel
    <3> QED BY <3>5, <3>6 DEF WordsInv
  <2> QED BY <2>1, <2>2
<1>3. WordsInv => WordsAsScalar
  <2> SUFFICES ASSUME WordsInv, line > Len(Program), NEW s \in Sets, NEW n \in Slot
               PROVE  [r \in Rows |-> reg[r][s][n]] = ScalarResult(given[2 * s + n])
    BY DEF WordsAsScalar
  <2>1. Kernel(unit) /\ given \in Starts /\ line \in 1 .. Len(Program) + 1
    BY DEF WordsInv
  <2>2. Len(Program) \in Nat
    BY <2>1, ProgramIsLegal
  <2>3. line - 1 = Len(Program)
    BY <2>1, <2>2
  <2>4. LaneOf(s, n) = Ran(s, given[2 * s + n])[line - 1]
    BY DEF WordsInv
  <2>5. Ran(s, given[2 * s + n])[Len(Program)] = ScalarResult(given[2 * s + n])
    BY <2>1, GivenAreWords, RanThrough
  <2> QED BY <2>3, <2>4, <2>5, Zenon DEF LaneOf
<1> QED BY <1>1, <1>2, <1>3, PTL DEF WordsSpec

-----------------------------------------------------------------------------
(* Blake2bKernels: the rows                                                  *)

HomeRows ==
  [a |-> RowRegisters(0), b |-> RowRegisters(4), c |-> RowRegisters(8), d |-> RowRegisters(12)]

\* What b, c and d hold when they have been rotated; the scalar code rotates nothing.
DiagonalRows ==
  IF compress = "scalar" THEN HomeRows
  ELSE IF compress = "sse41"
  THEN [a |-> << <<0, 1>>, <<2, 3>> >>, b |-> << <<5, 6>>, <<7, 4>> >>,
        c |-> << <<10, 11>>, <<8, 9>> >>, d |-> << <<15, 12>>, <<13, 14>> >>]
  ELSE [a |-> << <<0, 1, 2, 3>> >>, b |-> << <<5, 6, 7, 4>> >>,
        c |-> << <<10, 11, 8, 9>> >>, d |-> << <<15, 12, 13, 14>> >>]

\* The rows before a rotation, for registers in pairs and for whole ones.
LEMMA HomePairs ==
  ASSUME compress = "sse41"
  PROVE  HomeRows = [a |-> << <<0, 1>>, <<2, 3>> >>, b |-> << <<4, 5>>, <<6, 7>> >>,
                     c |-> << <<8, 9>>, <<10, 11>> >>, d |-> << <<12, 13>>, <<14, 15>> >>]
BY DEF HomeRows, RowRegisters

LEMMA HomeWhole ==
  ASSUME compress # "sse41"
  PROVE  HomeRows = [a |-> << <<0, 1, 2, 3>> >>, b |-> << <<4, 5, 6, 7>> >>,
                     c |-> << <<8, 9, 10, 11>> >>, d |-> << <<12, 13, 14, 15>> >>]
BY DEF HomeRows, RowRegisters

\* Rotating rows makes diagonals of columns, ...
LEMMA RowsToDiagonals ==
  ASSUME compress \in Compressors, compress # "scalar"
  PROVE  DiagonalRows = IF compress = "sse41" THEN DiagonalizePair(HomeRows)
                        ELSE DiagonalizeRow(HomeRows)
<1>1. CASE compress = "sse41"
  <2>1. PICK r : r = HomeRows
    OBVIOUS
  <2>2. r = [a |-> << <<0, 1>>, <<2, 3>> >>, b |-> << <<4, 5>>, <<6, 7>> >>,
             c |-> << <<8, 9>>, <<10, 11>> >>, d |-> << <<12, 13>>, <<14, 15>> >>]
    BY <1>1, <2>1, HomePairs
  <2>3. DiagonalizePair(r) = 
         [a |-> << <<0, 1>>, <<2, 3>> >>, b |-> << <<5, 6>>, <<7, 4>> >>,
          c |-> << <<10, 11>>, <<8, 9>> >>, d |-> << <<15, 12>>, <<13, 14>> >>]
    <3>1. r.b = << <<4, 5>>, <<6, 7>> >> /\ r.c = << <<8, 9>>, <<10, 11>> >> /\ r.d = << <<12, 13>>, <<14, 15>> >>
      BY <2>2
    <3>2. /\ <<Align(r.b[2], r.b[1]), Align(r.b[1], r.b[2])>> = << <<5, 6>>, <<7, 4>> >>
          /\ <<r.c[2], r.c[1]>> = << <<10, 11>>, <<8, 9>> >>
          /\ <<Align(r.d[1], r.d[2]), Align(r.d[2], r.d[1])>> = << <<15, 12>>, <<13, 14>> >>
      BY <3>1 DEF Align
    <3>3. DiagonalizePair(r) = [r EXCEPT !.b = << <<5, 6>>, <<7, 4>> >>, !.c = << <<10, 11>>, <<8, 9>> >>,
                                !.d = << <<15, 12>>, <<13, 14>> >>]
      BY <3>2, Zenon DEF DiagonalizePair
    <3> QED BY <2>2, <3>3
  <2> QED BY <1>1, <2>1, <2>3 DEF DiagonalRows
<1>2. CASE compress # "sse41"
  <2>1. PICK r : r = HomeRows
    OBVIOUS
  <2>2. r = [a |-> << <<0, 1, 2, 3>> >>, b |-> << <<4, 5, 6, 7>> >>,
             c |-> << <<8, 9, 10, 11>> >>, d |-> << <<12, 13, 14, 15>> >>]
    BY <1>2, <2>1, HomeWhole
  <2>3. DiagonalizeRow(r) =
         [a |-> << <<0, 1, 2, 3>> >>, b |-> << <<5, 6, 7, 4>> >>,
          c |-> << <<10, 11, 8, 9>> >>, d |-> << <<15, 12, 13, 14>> >>]
    <3>1. r.b = << <<4, 5, 6, 7>> >> /\ r.c = << <<8, 9, 10, 11>> >> /\ r.d = << <<12, 13, 14, 15>> >>
      BY <2>2
    <3>2. /\ <<Left(r.b[1], 1)>> = << <<5, 6, 7, 4>> >>
          /\ <<Left(r.c[1], 2)>> = << <<10, 11, 8, 9>> >>
          /\ <<Left(r.d[1], 3)>> = << <<15, 12, 13, 14>> >>
      BY <3>1 DEF Left
    <3>3. DiagonalizeRow(r) = [r EXCEPT !.b = << <<5, 6, 7, 4>> >>, !.c = << <<10, 11, 8, 9>> >>,
                                !.d = << <<15, 12, 13, 14>> >>]
      BY <3>2, Zenon DEF DiagonalizeRow
    <3> QED BY <2>2, <3>3
  <2> QED BY <1>2, <2>1, <2>3 DEF DiagonalRows
<1> QED BY <1>1, <1>2

\* ... and rotating back makes rows again.
LEMMA DiagonalsToRows ==
  ASSUME compress \in Compressors, compress # "scalar"
  PROVE  HomeRows = IF compress = "sse41" THEN UndiagonalizePair(DiagonalRows)
                    ELSE UndiagonalizeRow(DiagonalRows)
<1>1. CASE compress = "sse41"
  <2>1. PICK r : r = DiagonalRows
    OBVIOUS
  <2>2. r = [a |-> << <<0, 1>>, <<2, 3>> >>, b |-> << <<5, 6>>, <<7, 4>> >>,
             c |-> << <<10, 11>>, <<8, 9>> >>, d |-> << <<15, 12>>, <<13, 14>> >>]
    BY <1>1, <2>1 DEF DiagonalRows
  <2>3. UndiagonalizePair(r) =
         [a |-> << <<0, 1>>, <<2, 3>> >>, b |-> << <<4, 5>>, <<6, 7>> >>,
          c |-> << <<8, 9>>, <<10, 11>> >>, d |-> << <<12, 13>>, <<14, 15>> >>]
    <3>1. r.b = << <<5, 6>>, <<7, 4>> >> /\ r.c = << <<10, 11>>, <<8, 9>> >> /\ r.d = << <<15, 12>>, <<13, 14>> >>
      BY <2>2
    <3>2. /\ <<Align(r.b[1], r.b[2]), Align(r.b[2], r.b[1])>> = << <<4, 5>>, <<6, 7>> >>
          /\ <<r.c[2], r.c[1]>> = << <<8, 9>>, <<10, 11>> >>
          /\ <<Align(r.d[2], r.d[1]), Align(r.d[1], r.d[2])>> = << <<12, 13>>, <<14, 15>> >>
      BY <3>1 DEF Align
    <3>3. UndiagonalizePair(r) = [r EXCEPT !.b = << <<4, 5>>, <<6, 7>> >>, !.c = << <<8, 9>>, <<10, 11>> >>,
                                !.d = << <<12, 13>>, <<14, 15>> >>]
      BY <3>2, Zenon DEF UndiagonalizePair
    <3> QED BY <2>2, <3>3
  <2> QED BY <1>1, <2>1, <2>3, HomePairs
<1>2. CASE compress # "sse41"
  <2>1. PICK r : r = DiagonalRows
    OBVIOUS
  <2>2. r = [a |-> << <<0, 1, 2, 3>> >>, b |-> << <<5, 6, 7, 4>> >>,
             c |-> << <<10, 11, 8, 9>> >>, d |-> << <<15, 12, 13, 14>> >>]
    BY <1>2, <2>1 DEF DiagonalRows
  <2>3. UndiagonalizeRow(r) =
         [a |-> << <<0, 1, 2, 3>> >>, b |-> << <<4, 5, 6, 7>> >>,
          c |-> << <<8, 9, 10, 11>> >>, d |-> << <<12, 13, 14, 15>> >>]
    <3>1. r.b = << <<5, 6, 7, 4>> >> /\ r.c = << <<10, 11, 8, 9>> >> /\ r.d = << <<15, 12, 13, 14>> >>
      BY <2>2
    <3>2. /\ <<Left(r.b[1], 3)>> = << <<4, 5, 6, 7>> >>
          /\ <<Left(r.c[1], 2)>> = << <<8, 9, 10, 11>> >>
          /\ <<Left(r.d[1], 1)>> = << <<12, 13, 14, 15>> >>
      BY <3>1 DEF Left
    <3>3. UndiagonalizeRow(r) = [r EXCEPT !.b = << <<4, 5, 6, 7>> >>, !.c = << <<8, 9, 10, 11>> >>,
                                !.d = << <<12, 13, 14, 15>> >>]
      BY <3>2, Zenon DEF UndiagonalizeRow
    <3> QED BY <2>2, <3>3
  <2> QED BY <1>2, <2>1, <2>3, HomeWhole
<1> QED BY <1>1, <1>2

\* The words of every call of G of a half-round are a column of the scalar code.
LEMMA QuadsOfPairs ==
  ASSUME compress = "sse41", NEW j \in 1 .. 2, NEW k \in 1 .. 2
  PROVE  /\ Quad(HomeRows, j, k) = ScalarColumns[2 * (j - 1) + k]
         /\ Quad(DiagonalRows, j, k) = ScalarColumns[4 + 2 * (j - 1) + k]
<1>1. Quad(HomeRows, j, k) = ScalarColumns[2 * (j - 1) + k]
  BY HomePairs DEF Quad, ScalarColumns
<1>2. Quad(DiagonalRows, j, k) = ScalarColumns[4 + 2 * (j - 1) + k]
  BY DEF DiagonalRows, Quad, ScalarColumns
<1> QED BY <1>1, <1>2

LEMMA QuadsOfWhole ==
  ASSUME compress \notin {"scalar", "sse41"}, NEW k \in 1 .. 4
  PROVE  /\ Quad(HomeRows, 1, k) = ScalarColumns[k]
         /\ Quad(DiagonalRows, 1, k) = ScalarColumns[4 + k]
<1>1. Quad(HomeRows, 1, k) = ScalarColumns[k]
  BY HomeWhole DEF Quad, ScalarColumns
<1>2. Quad(DiagonalRows, 1, k) = ScalarColumns[4 + k]
  BY DEF DiagonalRows, Quad, ScalarColumns
<1> QED BY <1>1, <1>2

-----------------------------------------------------------------------------
(* The message words                                                         *)

\* The registers of four quarters hold the words a row of SIGMA names.
Names(s, quarters) ==
  \A half \in 0 .. 1, j \in 1 .. 2, k \in 1 .. 2 :
    /\ quarters[2 * half + 1][j][k] = s[8 * half + 4 * (j - 1) + 2 * (k - 1) + 1]
    /\ quarters[2 * half + 2][j][k] = s[8 * half + 4 * (j - 1) + 2 * (k - 1) + 2]

\* The shuffles of SSE4.1, round by round.
LEMMA QuartersAre ==
  ASSUME NEW r \in 1 .. 10
  PROVE  Names(Schedule[r], QuarterTable[r])
<1>1. Names(Schedule[1], QuarterTable[1])
  BY DEF Names, Schedule, QuarterTable, Lo, Hi, Align8, BlendHi, Swap, Whole
<1>2. Names(Schedule[2], QuarterTable[2])
  BY DEF Names, Schedule, QuarterTable, Lo, Hi, Align8, BlendHi, Swap, Whole
<1>3. Names(Schedule[3], QuarterTable[3])
  BY DEF Names, Schedule, QuarterTable, Lo, Hi, Align8, BlendHi, Swap, Whole
<1>4. Names(Schedule[4], QuarterTable[4])
  BY DEF Names, Schedule, QuarterTable, Lo, Hi, Align8, BlendHi, Swap, Whole
<1>5. Names(Schedule[5], QuarterTable[5])
  BY DEF Names, Schedule, QuarterTable, Lo, Hi, Align8, BlendHi, Swap, Whole
<1>6. Names(Schedule[6], QuarterTable[6])
  BY DEF Names, Schedule, QuarterTable, Lo, Hi, Align8, BlendHi, Swap, Whole
<1>7. Names(Schedule[7], QuarterTable[7])
  BY DEF Names, Schedule, QuarterTable, Lo, Hi, Align8, BlendHi, Swap, Whole
<1>8. Names(Schedule[8], QuarterTable[8])
  BY DEF Names, Schedule, QuarterTable, Lo, Hi, Align8, BlendHi, Swap, Whole
<1>9. Names(Schedule[9], QuarterTable[9])
  BY DEF Names, Schedule, QuarterTable, Lo, Hi, Align8, BlendHi, Swap, Whole
<1>10. Names(Schedule[10], QuarterTable[10])
  BY DEF Names, Schedule, QuarterTable, Lo, Hi, Align8, BlendHi, Swap, Whole
<1> QED BY <1>1, <1>2, <1>3, <1>4, <1>5, <1>6, <1>7, <1>8, <1>9, <1>10

\* Rounds 10 and 11 are those of rows 0 and 1.
LEMMA MessageIsSigma ==
  ASSUME NEW r \in 0 .. 11, NEW half \in 0 .. 1, NEW j \in 1 .. 2, NEW k \in 1 .. 2
  PROVE  /\ Message(r, 2 * half)[j][k] = Sigma(r, 8 * half + 4 * (j - 1) + 2 * (k - 1))
         /\ Message(r, 2 * half + 1)[j][k] = Sigma(r, 8 * half + 4 * (j - 1) + 2 * (k - 1) + 1)
<1>1. PICK n, s, q : /\ n = (IF r < 10 THEN r ELSE r - 10) + 1
                     /\ s = Schedule[n] /\ q = QuarterTable[n]
  OBVIOUS
<1>2. n \in 1 .. 10
  BY <1>1
<1>3. Schedule[r + 1] = s
  <2>1. CASE r < 10
    BY <1>1, <2>1
  <2>2. CASE r = 10
    BY <1>1, <2>2 DEF Schedule
  <2>3. CASE r = 11
    BY <1>1, <2>3 DEF Schedule
  <2> QED BY <2>1, <2>2, <2>3
<1>4. Names(s, q)
  BY <1>1, <1>2, QuartersAre
<1>5. /\ q[2 * half + 1][j][k] = s[8 * half + 4 * (j - 1) + 2 * (k - 1) + 1]
      /\ q[2 * half + 2][j][k] = s[8 * half + 4 * (j - 1) + 2 * (k - 1) + 2]
  BY <1>4 DEF Names
<1>6. Message(r, 2 * half) = q[2 * half + 1] /\ Message(r, 2 * half + 1) = q[2 * half + 2]
  <2>1. (2 * half + 1) + 1 = 2 * half + 2
    OBVIOUS
  <2> QED BY <1>1, <2>1 DEF Message
<1>7. \A m \in 0 .. 15 : Sigma(r, m) = s[m + 1]
  BY <1>3 DEF Sigma
<1>8. PICK m : m = 8 * half + 4 * (j - 1) + 2 * (k - 1) /\ m \in 0 .. 14
  OBVIOUS
<1>9. Sigma(r, m) = s[m + 1] /\ Sigma(r, m + 1) = s[m + 2]
  <2>1. m \in 0 .. 15 /\ m + 1 \in 0 .. 15 /\ (m + 1) + 1 = m + 2
    BY <1>8
  <2> QED BY <1>7, <2>1
<1> QED BY <1>5, <1>6, <1>8, <1>9

-----------------------------------------------------------------------------
(* The calls of a half-round                                                 *)

\* Two calls, one of each of the pairs, or all four as one: always the scalar ones.
LEMMA PairsCallAsScalar ==
  ASSUME compress = "sse41", NEW r \in 0 .. 11, NEW half \in 0 .. 1,
         rows = IF half = 0 THEN HomeRows ELSE DiagonalRows
  PROVE  PairCalls(r, half) = ScalarCalls(r, half)
<1> DEFINE nth(i) == Call(ScalarColumns[i + 1], Sigma(r, 2 * i), Sigma(r, 2 * i + 1))
<1>1. ASSUME NEW j \in 1 .. 2, NEW k \in 1 .. 2
      PROVE  Call(Quad(rows, j, k), Message(r, 2 * half)[j][k], Message(r, 2 * half + 1)[j][k])
             = nth(4 * half + 2 * (j - 1) + (k - 1))
  <2>1. PICK i : i = 4 * half + 2 * (j - 1) + (k - 1)
    OBVIOUS
  <2>2. /\ 2 * i = 8 * half + 4 * (j - 1) + 2 * (k - 1)
        /\ 2 * i + 1 = 8 * half + 4 * (j - 1) + 2 * (k - 1) + 1
    BY <2>1
  <2>3. Message(r, 2 * half)[j][k] = Sigma(r, 2 * i)
    BY <2>2, MessageIsSigma
  <2>4. Message(r, 2 * half + 1)[j][k] = Sigma(r, 2 * i + 1)
    BY <2>2, MessageIsSigma
  <2>5. Quad(rows, j, k) = ScalarColumns[i + 1]
    <3>1. CASE half = 0
      <4>1. i + 1 = 2 * (j - 1) + k
        BY <2>1, <3>1
      <4> QED BY <3>1, <4>1, QuadsOfPairs
    <3>2. CASE half = 1
      <4>1. i + 1 = 4 + 2 * (j - 1) + k
        BY <2>1, <3>2
      <4> QED BY <3>2, <4>1, QuadsOfPairs
    <3> QED BY <3>1, <3>2
  <2> QED BY <2>1, <2>3, <2>4, <2>5, Zenon
<1>2. \A j \in 1 .. 2, k \in 1 .. 2 :
        4 * half + 2 * (j - 1) + (k - 1) \in 4 * half .. 4 * half + 3
  OBVIOUS
<1>3. \A i \in 4 * half .. 4 * half + 3 :
        \E j \in 1 .. 2, k \in 1 .. 2 : i = 4 * half + 2 * (j - 1) + (k - 1)
  <2> SUFFICES ASSUME NEW i \in 4 * half .. 4 * half + 3
               PROVE  \E j \in 1 .. 2, k \in 1 .. 2 : i = 4 * half + 2 * (j - 1) + (k - 1)
    OBVIOUS
  <2>1. CASE i = 4 * half
    BY <2>1
  <2>2. CASE i = 4 * half + 1
    BY <2>2
  <2>3. CASE i = 4 * half + 2
    BY <2>3
  <2>4. CASE i = 4 * half + 3
    BY <2>4
  <2> QED BY <2>1, <2>2, <2>3, <2>4
<1>4. ScalarCalls(r, half) = {nth(i) : i \in 4 * half .. 4 * half + 3}
  BY DEF ScalarCalls
<1>5. PairCalls(r, half) =
        {Call(Quad(rows, j, k), Message(r, 2 * half)[j][k], Message(r, 2 * half + 1)[j][k])
           : j \in 1 .. 2, k \in 1 .. 2}
  BY DEF PairCalls
<1> HIDE DEF nth
<1>6. ASSUME NEW c \in PairCalls(r, half)
      PROVE  c \in ScalarCalls(r, half)
  <2>1. PICK j \in 1 .. 2, k \in 1 .. 2 :
          c = Call(Quad(rows, j, k), Message(r, 2 * half)[j][k], Message(r, 2 * half + 1)[j][k])
    BY <1>5
  <2>2. PICK i : i = 4 * half + 2 * (j - 1) + (k - 1)
    OBVIOUS
  <2>3. i \in 4 * half .. 4 * half + 3
    BY <1>2, <2>2
  <2>4. c = nth(i)
    BY <1>1, <2>1, <2>2
  <2> QED BY <1>4, <2>3, <2>4
<1>7. ASSUME NEW c \in ScalarCalls(r, half)
      PROVE  c \in PairCalls(r, half)
  <2>1. PICK i \in 4 * half .. 4 * half + 3 : c = nth(i)
    BY <1>4
  <2>2. PICK j \in 1 .. 2, k \in 1 .. 2 : i = 4 * half + 2 * (j - 1) + (k - 1)
    BY <1>3
  <2>3. c = Call(Quad(rows, j, k), Message(r, 2 * half)[j][k], Message(r, 2 * half + 1)[j][k])
    BY <1>1, <2>1, <2>2
  <2> QED BY <1>5, <2>3
<1> QED BY <1>6, <1>7

LEMMA RowsCallAsScalar ==
  ASSUME compress \notin {"scalar", "sse41"}, NEW r \in 0 .. 11, NEW half \in 0 .. 1,
         rows = IF half = 0 THEN HomeRows ELSE DiagonalRows
  PROVE  RowCalls(r, half) = ScalarCalls(r, half)
<1> DEFINE nth(i) == Call(ScalarColumns[i + 1], Sigma(r, 2 * i), Sigma(r, 2 * i + 1))
<1>1. ASSUME NEW k \in 1 .. 4
      PROVE  Call(Quad(rows, 1, k), Sigma(r, 8 * half + 2 * (k - 1)),
                                    Sigma(r, 8 * half + 2 * (k - 1) + 1))
             = nth(4 * half + (k - 1))
  <2>1. PICK i : i = 4 * half + (k - 1)
    OBVIOUS
  <2>2. 2 * i = 8 * half + 2 * (k - 1)
    BY <2>1
  <2>3. Quad(rows, 1, k) = ScalarColumns[i + 1]
    <3>1. CASE half = 0
      <4>1. i + 1 = k
        BY <2>1, <3>1
      <4> QED BY <3>1, <4>1, QuadsOfWhole
    <3>2. CASE half = 1
      <4>1. i + 1 = 4 + k
        BY <2>1, <3>2
      <4> QED BY <3>2, <4>1, QuadsOfWhole
    <3> QED BY <3>1, <3>2
  <2> QED BY <2>1, <2>2, <2>3, Zenon
<1>2. \A k \in 1 .. 4 : 4 * half + (k - 1) \in 4 * half .. 4 * half + 3
  OBVIOUS
<1>3. \A i \in 4 * half .. 4 * half + 3 : \E k \in 1 .. 4 : i = 4 * half + (k - 1)
  <2> SUFFICES ASSUME NEW i \in 4 * half .. 4 * half + 3
               PROVE  \E k \in 1 .. 4 : i = 4 * half + (k - 1)
    OBVIOUS
  <2>1. i - 4 * half + 1 \in 1 .. 4 /\ i = 4 * half + ((i - 4 * half + 1) - 1)
    OBVIOUS
  <2> QED BY <2>1
<1>4. ScalarCalls(r, half) = {nth(i) : i \in 4 * half .. 4 * half + 3}
  BY DEF ScalarCalls
<1>5. RowCalls(r, half) =
        {Call(Quad(rows, 1, k), Sigma(r, 8 * half + 2 * (k - 1)),
                                Sigma(r, 8 * half + 2 * (k - 1) + 1)) : k \in 1 .. 4}
  BY DEF RowCalls
<1> HIDE DEF nth
<1>6. ASSUME NEW c \in RowCalls(r, half)
      PROVE  c \in ScalarCalls(r, half)
  <2>1. PICK k \in 1 .. 4 :
          c = Call(Quad(rows, 1, k), Sigma(r, 8 * half + 2 * (k - 1)),
                                     Sigma(r, 8 * half + 2 * (k - 1) + 1))
    BY <1>5
  <2>2. PICK i : i = 4 * half + (k - 1)
    OBVIOUS
  <2>3. i \in 4 * half .. 4 * half + 3
    BY <1>2, <2>2
  <2>4. c = nth(i)
    BY <1>1, <2>1, <2>2
  <2> QED BY <1>4, <2>3, <2>4
<1>7. ASSUME NEW c \in ScalarCalls(r, half)
      PROVE  c \in RowCalls(r, half)
  <2>1. PICK i \in 4 * half .. 4 * half + 3 : c = nth(i)
    BY <1>4
  <2>2. PICK k \in 1 .. 4 : i = 4 * half + (k - 1)
    BY <1>3
  <2>3. c = Call(Quad(rows, 1, k), Sigma(r, 8 * half + 2 * (k - 1)),
                                   Sigma(r, 8 * half + 2 * (k - 1) + 1))
    BY <1>1, <2>1, <2>2
  <2> QED BY <1>5, <2>3
<1> QED BY <1>6, <1>7

\* Whatever the backend.
LEMMA CallsAsScalar ==
  ASSUME compress \in Compressors, round \in 0 .. 11, NEW half \in 0 .. 1,
         rows = IF half = 0 THEN HomeRows ELSE DiagonalRows
  PROVE  CallsOf(half) = ScalarCalls(round, half)
<1>1. CASE compress = "scalar"
  BY <1>1 DEF CallsOf
<1>2. CASE compress = "sse41"
  BY <1>2, PairsCallAsScalar DEF CallsOf
<1>3. CASE compress \notin {"scalar", "sse41"}
  BY <1>3, RowsCallAsScalar DEF CallsOf
<1> QED BY <1>1, <1>2, <1>3

\* A word is in one column of each half, ...
LEMMA OneColumn ==
  ASSUME NEW w \in V, NEW half \in 0 .. 1
  PROVE  \E i \in 4 * half .. 4 * half + 3 :
           \A j \in 4 * half .. 4 * half + 3 :
             (\E n \in 1 .. 4 : ScalarColumns[j + 1][n] = w) <=> j = i
<1>1. CASE half = 0
  <2>1. PICK i \in 0 .. 3 : i = w % 4
    BY DEF V
  <2>2. ASSUME NEW j \in 0 .. 3
        PROVE  (\E n \in 1 .. 4 : ScalarColumns[j + 1][n] = w) <=> j = i
    <3>1. ScalarColumns[j + 1] = <<j, j + 4, j + 8, j + 12>>
      BY DEF ScalarColumns
    <3>2. (\E n \in 1 .. 4 : ScalarColumns[j + 1][n] = w) <=> w \in {j, j + 4, j + 8, j + 12}
      BY <3>1
    <3> QED BY <2>1, <3>2 DEF V
  <2> QED BY <1>1, <2>2
<1>2. CASE half = 1
  <2>1. /\ \A x : (\E n \in 1 .. 4 : ScalarColumns[5][n] = x) <=> x \in {0, 5, 10, 15}
        /\ \A x : (\E n \in 1 .. 4 : ScalarColumns[6][n] = x) <=> x \in {1, 6, 11, 12}
        /\ \A x : (\E n \in 1 .. 4 : ScalarColumns[7][n] = x) <=> x \in {2, 7, 8, 13}
        /\ \A x : (\E n \in 1 .. 4 : ScalarColumns[8][n] = x) <=> x \in {3, 4, 9, 14}
    BY DEF ScalarColumns
  <2>2. PICK i \in 4 .. 7 : /\ (w \in {0, 5, 10, 15} <=> i = 4)
                           /\ (w \in {1, 6, 11, 12} <=> i = 5)
                           /\ (w \in {2, 7, 8, 13} <=> i = 6)
                           /\ (w \in {3, 4, 9, 14} <=> i = 7)
    <3>1. w \in {0, 5, 10, 15} \/ w \in {1, 6, 11, 12} \/ w \in {2, 7, 8, 13} \/ w \in {3, 4, 9, 14}
      BY DEF V
    <3> QED BY <3>1
  <2>3. ASSUME NEW j \in 4 .. 7
        PROVE  (\E n \in 1 .. 4 : ScalarColumns[j + 1][n] = w) <=> j = i
    <3>1. CASE j = 4
      <4>1. j + 1 = 5
        BY <3>1
      <4>2. (\E n \in 1 .. 4 : ScalarColumns[5][n] = w) <=> i = 4
        <5>1. (\E n \in 1 .. 4 : ScalarColumns[5][n] = w) <=> w \in {0, 5, 10, 15}
          BY <2>1
        <5>2. (w \in {0, 5, 10, 15} <=> i = 4)
          BY <2>2, Zenon
        <5> QED BY <5>1, <5>2, Zenon
      <4>3. (\E n \in 1 .. 4 : ScalarColumns[j + 1][n] = w) <=> i = 4
        BY <4>1, <4>2, Zenon
      <4> QED BY <3>1, <4>3
    <3>2. CASE j = 5
      <4>1. j + 1 = 6
        BY <3>2
      <4>2. (\E n \in 1 .. 4 : ScalarColumns[6][n] = w) <=> i = 5
        <5>1. (\E n \in 1 .. 4 : ScalarColumns[6][n] = w) <=> w \in {1, 6, 11, 12}
          BY <2>1
        <5>2. (w \in {1, 6, 11, 12} <=> i = 5)
          BY <2>2, Zenon
        <5> QED BY <5>1, <5>2, Zenon
      <4>3. (\E n \in 1 .. 4 : ScalarColumns[j + 1][n] = w) <=> i = 5
        BY <4>1, <4>2, Zenon
      <4> QED BY <3>2, <4>3
    <3>3. CASE j = 6
      <4>1. j + 1 = 7
        BY <3>3
      <4>2. (\E n \in 1 .. 4 : ScalarColumns[7][n] = w) <=> i = 6
        <5>1. (\E n \in 1 .. 4 : ScalarColumns[7][n] = w) <=> w \in {2, 7, 8, 13}
          BY <2>1
        <5>2. (w \in {2, 7, 8, 13} <=> i = 6)
          BY <2>2, Zenon
        <5> QED BY <5>1, <5>2, Zenon
      <4>3. (\E n \in 1 .. 4 : ScalarColumns[j + 1][n] = w) <=> i = 6
        BY <4>1, <4>2, Zenon
      <4> QED BY <3>3, <4>3
    <3>4. CASE j = 7
      <4>1. j + 1 = 8
        BY <3>4
      <4>2. (\E n \in 1 .. 4 : ScalarColumns[8][n] = w) <=> i = 7
        <5>1. (\E n \in 1 .. 4 : ScalarColumns[8][n] = w) <=> w \in {3, 4, 9, 14}
          BY <2>1
        <5>2. (w \in {3, 4, 9, 14} <=> i = 7)
          BY <2>2, Zenon
        <5> QED BY <5>1, <5>2, Zenon
      <4>3. (\E n \in 1 .. 4 : ScalarColumns[j + 1][n] = w) <=> i = 7
        BY <4>1, <4>2, Zenon
      <4> QED BY <3>4, <4>3
    <3> QED BY <3>1, <3>2, <3>3, <3>4
  <2> QED BY <1>2, <2>3
<1> QED BY <1>1, <1>2

\* ... and so in one call.
CallOn(w, r, half) == CHOOSE c \in ScalarCalls(r, half) : \E n \in 1 .. 4 : c.v[n] = w

LEMMA OneCall ==
  ASSUME NEW w \in V, NEW r \in 0 .. 11, NEW half \in 0 .. 1
  PROVE  {c \in ScalarCalls(r, half) : \E n \in 1 .. 4 : c.v[n] = w} = {CallOn(w, r, half)}
<1> DEFINE nth(i) == Call(ScalarColumns[i + 1], Sigma(r, 2 * i), Sigma(r, 2 * i + 1))
           on(c) == \E n \in 1 .. 4 : c.v[n] = w
<1>1. ScalarCalls(r, half) = {nth(i) : i \in 4 * half .. 4 * half + 3}
  BY DEF ScalarCalls
<1>2. \A i : nth(i).v = ScalarColumns[i + 1]
  BY DEF Call
<1>3. PICK i \in 4 * half .. 4 * half + 3 :
        \A j \in 4 * half .. 4 * half + 3 :
          (\E n \in 1 .. 4 : ScalarColumns[j + 1][n] = w) <=> j = i
  BY OneColumn
<1>4. \A j \in 4 * half .. 4 * half + 3 : on(nth(j)) <=> j = i
  BY <1>2, <1>3, Zenon
<1> HIDE DEF nth, on
<1>5. \A c \in ScalarCalls(r, half) : on(c) <=> c = nth(i)
  BY <1>1, <1>3, <1>4
<1>6. nth(i) \in ScalarCalls(r, half)
  BY <1>1
<1>7. CallOn(w, r, half) = CHOOSE c \in ScalarCalls(r, half) : on(c)
  BY DEF CallOn, on
<1>8. CallOn(w, r, half) = nth(i)
  BY <1>5, <1>6, <1>7
<1>9. {c \in ScalarCalls(r, half) : on(c)} = {nth(i)}
  BY <1>5, <1>6
<1> QED BY <1>8, <1>9 DEF on

-----------------------------------------------------------------------------
(* CompressesAsScalar                                                        *)

\* The half-rounds that are over.
CallsDone ==
  CASE stage \in {"diag", "diagonal"} -> 2 * round + 1
    [] stage = "undiag"               -> 2 * round + 2
    [] stage \in {"store", "done"}    -> 24
    [] OTHER                          -> 2 * round

\* What the scalar compression has done to each word after k half-rounds.
HistoryUpTo(k) == [w \in V |-> [n \in 1 .. k |-> CallOn(w, (n - 1) \div 2, (n - 1) % 2)]]

LoadedAsScalar ==
  /\ \A w \in 0 .. 7 : loaded[w] = {<<"h", w>>}
  /\ \A w \in 8 .. 15 : <<"IV", w - 8>> \in loaded[w]
  /\ <<"t", 0>> \in loaded[12] /\ <<"t", 1>> \in loaded[13]
  /\ <<"f", 0>> \in loaded[14] /\ <<"f", 1>> \in loaded[15]

StageOk ==
  /\ compress \in Compressors
  /\ stage \in {"load", "straight", "diag", "diagonal", "undiag", "store", "done"}
  /\ round \in 0 .. 11
  /\ stage = "load" => round = 0
  /\ stage \in {"store", "done"} => round = 11
RowsOk ==
  /\ stage \in {"straight", "diag", "store", "done"} => rows = HomeRows
  /\ stage \in {"diagonal", "undiag"} => rows = DiagonalRows
HashOk ==
  h = IF stage = "done" THEN [i \in 0 .. 7 |-> {<<"h", i>>, <<"v", i>>, <<"v", i + 8>>}]
      ELSE [i \in 0 .. 7 |-> {<<"h", i>>}]

\* Between two steps the rows are where they began or all rotated, and every word
\* has been through as many half-rounds of the scalar code as are over.
CompressInv ==
  /\ StageOk
  /\ RowsOk
  /\ stage # "load" => LoadedAsScalar
  /\ history = HistoryUpTo(CallsDone)
  /\ HashOk

\* One more call.
LEMMA OneMoreCall ==
  ASSUME NEW f, NEW k \in Nat
  PROVE  Append([n \in 1 .. k |-> f[n]], f[k + 1]) = [n \in 1 .. k + 1 |-> f[n]]
<1>1. PICK s : s = [n \in 1 .. k |-> f[n]]
  OBVIOUS
<1>2. s \in Seq({f[n] : n \in 1 .. k + 1}) /\ Len(s) = k
  BY <1>1
<1>3. \A n \in 1 .. k : s[n] = f[n]
  BY <1>1
<1>4. /\ Append(s, f[k + 1]) = [n \in 1 .. k + 1 |-> IF n = k + 1 THEN f[k + 1] ELSE s[n]]
  BY <1>2
<1>5. \A n \in 1 .. k + 1 : (IF n = k + 1 THEN f[k + 1] ELSE s[n]) = f[n]
  BY <1>3
<1> QED BY <1>1, <1>4, <1>5, Zenon

LEMMA HistoryGrows ==
  ASSUME NEW r \in 0 .. 11, NEW half \in 0 .. 1, NEW k, k = 2 * r + half, NEW w \in V
  PROVE  Append(HistoryUpTo(k)[w], CallOn(w, r, half)) = HistoryUpTo(k + 1)[w]
<1> DEFINE f == [n \in Nat |-> CallOn(w, (n - 1) \div 2, (n - 1) % 2)]
<1>1. k \in Nat /\ ((k + 1) - 1) \div 2 = r /\ ((k + 1) - 1) % 2 = half
  OBVIOUS
<1>2. f[k + 1] = CallOn(w, r, half)
  <2>1. k + 1 \in Nat
    BY <1>1
  <2> QED BY <1>1, <2>1, Zenon
<1>3. \A m \in Nat : HistoryUpTo(m)[w] = [n \in 1 .. m |-> f[n]]
  <2> SUFFICES ASSUME NEW m \in Nat
               PROVE  HistoryUpTo(m)[w] = [n \in 1 .. m |-> f[n]]
    OBVIOUS
  <2>1. HistoryUpTo(m)[w] = [n \in 1 .. m |-> CallOn(w, (n - 1) \div 2, (n - 1) % 2)]
    BY Zenon DEF HistoryUpTo
  <2>2. \A n \in 1 .. m : n \in Nat
    OBVIOUS
  <2> QED BY <2>1, <2>2, Zenon
<1>4. k + 1 \in Nat
  BY <1>1
<1> HIDE DEF f
<1>5. Append([n \in 1 .. k |-> f[n]], f[k + 1]) = [n \in 1 .. k + 1 |-> f[n]]
  BY <1>1, OneMoreCall
<1> QED BY <1>1, <1>2, <1>3, <1>4, <1>5, Zenon

LEMMA ScalarHistoryIs == ScalarHistory = HistoryUpTo(24)
BY Zenon DEF ScalarHistory, HistoryUpTo, CallOn

LEMMA CompressInit == LoadInit => CompressInv
<1> SUFFICES ASSUME LoadInit PROVE CompressInv
  OBVIOUS
<1>1. StageOk /\ RowsOk /\ HashOk /\ stage = "load" /\ round = 0
  BY DEF LoadInit, StageOk, RowsOk, HashOk
<1>2. CallsDone = 0
  BY <1>1 DEF CallsDone
<1>3. history = [w \in V |-> <<>>]
  BY DEF LoadInit
<1>4. HistoryUpTo(0) = [w \in V |-> <<>>]
  <2>1. \A w \in V : [n \in 1 .. 0 |-> CallOn(w, (n - 1) \div 2, (n - 1) % 2)] = <<>>
    OBVIOUS
  <2> QED BY <2>1, Zenon DEF HistoryUpTo
<1> QED BY <1>1, <1>2, <1>3, <1>4, Zenon DEF CompressInv

LEMMA LoadStep ==
  ASSUME CompressInv, LoadState PROVE CompressInv'
<1>1. /\ stage = "load" /\ stage' = "straight" /\ round' = round /\ round = 0
      /\ compress' = compress /\ history' = history /\ h' = h
      /\ compress \in Compressors
  BY DEF LoadState, CompressInv, StageOk
<1>2. StageOk'
  BY <1>1 DEF StageOk
<1>3. RowsOk'
  <2>1. rows' = [a |-> RowRegisters(0), b |-> RowRegisters(4), c |-> RowRegisters(8), d |-> RowRegisters(12)]
    BY DEF LoadState
  <2>2. HomeRows' = HomeRows
    BY <1>1 DEF HomeRows, RowRegisters
  <2> QED BY <1>1, <2>1, <2>2 DEF RowsOk, HomeRows
<1>4. LoadedAsScalar'
  <2>1. h = [i \in 0 .. 7 |-> {<<"h", i>>}]
    BY <1>1 DEF CompressInv, HashOk
  <2>2. loaded' = [w \in V |-> CASE w < 8         -> h[w]
                              [] w \in 8 .. 11  -> {<<"IV", w - 8>>}
                              [] w \in 12 .. 15 -> {<<"IV", w - 8>>, InOrder(Flags)[w - 11]}]
    BY DEF LoadState
  <2>3. InOrder(Flags) = << <<"t", 0>>, <<"t", 1>>, <<"f", 0>>, <<"f", 1>> >>
    BY DEF InOrder, Flags
  <2>4. ASSUME NEW w \in 0 .. 7 PROVE loaded'[w] = {<<"h", w>>}
    BY <2>1, <2>2 DEF V
  <2>5. ASSUME NEW w \in 8 .. 15 PROVE <<"IV", w - 8>> \in loaded'[w]
    <3>1. CASE w \in 8 .. 11
      BY <2>2, <3>1 DEF V
    <3>2. CASE w \in 12 .. 15
      BY <2>2, <3>2 DEF V
    <3> QED BY <3>1, <3>2
  <2>6. ASSUME NEW w \in 12 .. 15 PROVE InOrder(Flags)[w - 11] \in loaded'[w]
    BY <2>2 DEF V
  <2>7. /\ InOrder(Flags)[12 - 11] = <<"t", 0>> /\ InOrder(Flags)[13 - 11] = <<"t", 1>>
        /\ InOrder(Flags)[14 - 11] = <<"f", 0>> /\ InOrder(Flags)[15 - 11] = <<"f", 1>>
    BY <2>3
  <2>8. 12 \in 12 .. 15 /\ 13 \in 12 .. 15 /\ 14 \in 12 .. 15 /\ 15 \in 12 .. 15
    OBVIOUS
  <2>9. /\ <<"t", 0>> \in loaded'[12] /\ <<"t", 1>> \in loaded'[13]
        /\ <<"f", 0>> \in loaded'[14] /\ <<"f", 1>> \in loaded'[15]
    BY <2>6, <2>7, <2>8, Zenon
  <2> QED BY <2>4, <2>5, <2>9 DEF LoadedAsScalar
<1>5. (history = HistoryUpTo(CallsDone))'
  <2>1. CallsDone = 0 /\ CallsDone' = 0
    BY <1>1 DEF CallsDone
  <2> QED BY <1>1, <2>1 DEF CompressInv, HistoryUpTo, CallOn, ScalarCalls
<1>6. HashOk'
  BY <1>1 DEF CompressInv, HashOk
<1> QED BY <1>2, <1>3, <1>4, <1>5, <1>6 DEF CompressInv

LEMMA HalfStep ==
  ASSUME CompressInv, HalfRound PROVE CompressInv'
<1>1. /\ compress' = compress /\ round' = round /\ rows' = rows /\ loaded' = loaded /\ h' = h
      /\ stage \in {"straight", "diagonal"}
      /\ stage' = IF stage = "straight" THEN "diag" ELSE "undiag"
      /\ compress \in Compressors /\ round \in 0 .. 11
  BY DEF HalfRound, CompressInv, StageOk
<1>2. PICK half \in 0 .. 1 : half = IF stage = "straight" THEN 0 ELSE 1
  OBVIOUS
<1>3. rows = IF half = 0 THEN HomeRows ELSE DiagonalRows
  BY <1>1, <1>2 DEF CompressInv, RowsOk
<1>4. CallsOf(half) = ScalarCalls(round, half)
  BY <1>1, <1>3, CallsAsScalar
<1>5. PICK k : k = 2 * round + half
  OBVIOUS
<1>6. CallsDone = k /\ CallsDone' = k + 1 /\ k \in 0 .. 23
  <2>1. CASE stage = "straight"
    <3>1. stage' = "diag" /\ half = 0
      BY <1>1, <1>2, <2>1
    <3> QED BY <1>1, <1>5, <2>1, <3>1 DEF CallsDone
  <2>2. CASE stage = "diagonal"
    <3>1. stage' = "undiag" /\ half = 1
      BY <1>1, <1>2, <2>2
    <3> QED BY <1>1, <1>5, <2>2, <3>1 DEF CallsDone
  <2> QED BY <1>1, <2>1, <2>2
<1>7. history' = HistoryUpTo(k + 1)
  <2> DEFINE with(w) ==
               {c \in CallsOf(IF stage = "straight" THEN 0 ELSE 1) : \E n \in 1 .. 4 : c.v[n] = w}
  <2>1. history' = [w \in V |-> IF with(w) = {} THEN history[w]
                              ELSE Append(history[w], CHOOSE c \in with(w) : TRUE)]
    BY Zenon DEF HalfRound
  <2>2. \A w \in V : with(w) = {CallOn(w, round, half)}
    <3>1. CallsOf(IF stage = "straight" THEN 0 ELSE 1) = ScalarCalls(round, half)
      BY <1>2, <1>4
    <3>2. \A w \in V : with(w) = {c \in ScalarCalls(round, half) : \E n \in 1 .. 4 : c.v[n] = w}
      BY <3>1, Zenon
    <3> QED BY <1>1, <3>2, OneCall
  <2> HIDE DEF with
  <2>3. \A w \in V : with(w) # {} /\ (CHOOSE c \in with(w) : TRUE) = CallOn(w, round, half)
    BY <2>2
  <2>4. history = HistoryUpTo(k)
    BY <1>6 DEF CompressInv
  <2>5. \A w \in V : Append(history[w], CallOn(w, round, half)) = HistoryUpTo(k + 1)[w]
    BY <1>1, <1>5, <2>4, HistoryGrows
  <2>6. ASSUME NEW w \in V
        PROVE  (IF with(w) = {} THEN history[w]
                ELSE Append(history[w], CHOOSE c \in with(w) : TRUE)) = HistoryUpTo(k + 1)[w]
    BY <2>3, <2>5
  <2>7. history' = [w \in V |-> HistoryUpTo(k + 1)[w]]
    BY <2>1, <2>6, Zenon
  <2> QED BY <2>7, Zenon DEF HistoryUpTo
<1>8. StageOk'
  BY <1>1 DEF StageOk, CompressInv
<1>9. RowsOk'
  <2>1. HomeRows' = HomeRows /\ DiagonalRows' = DiagonalRows
    BY <1>1 DEF HomeRows, DiagonalRows, RowRegisters
  <2> QED BY <1>1, <2>1 DEF RowsOk, CompressInv
<1>10. LoadedAsScalar'
  BY <1>1 DEF LoadedAsScalar, CompressInv
<1>11. HashOk'
  BY <1>1 DEF HashOk, CompressInv
<1> QED BY <1>6, <1>7, <1>8, <1>9, <1>10, <1>11 DEF CompressInv

LEMMA RotateStep ==
  ASSUME CompressInv, RotateRows PROVE CompressInv'
<1>1. /\ compress' = compress /\ round' = round /\ loaded' = loaded /\ h' = h /\ history' = history
      /\ stage = "diag" /\ stage' = "diagonal"
      /\ compress \in Compressors /\ round \in 0 .. 11
      /\ rows = HomeRows
  BY DEF RotateRows, CompressInv, StageOk, RowsOk
<1>2. rows' = DiagonalRows
  <2>1. CASE compress = "scalar"
    BY <1>1, <2>1 DEF RotateRows, DiagonalRows
  <2>2. CASE compress # "scalar"
    BY <1>1, <2>2, RowsToDiagonals DEF RotateRows
  <2> QED BY <2>1, <2>2
<1>3. StageOk'
  BY <1>1 DEF StageOk, CompressInv
<1>4. RowsOk'
  <2>1. DiagonalRows' = DiagonalRows
    BY <1>1 DEF HomeRows, DiagonalRows, RowRegisters
  <2> QED BY <1>1, <1>2, <2>1 DEF RowsOk
<1>5. LoadedAsScalar'
  BY <1>1 DEF LoadedAsScalar, CompressInv
<1>6. HashOk'
  BY <1>1 DEF HashOk, CompressInv
<1>7. (history = HistoryUpTo(CallsDone))'
  <2>1. CallsDone' = CallsDone
    BY <1>1 DEF CallsDone
  <2> QED BY <1>1, <2>1 DEF CompressInv
<1> QED BY <1>3, <1>4, <1>5, <1>6, <1>7 DEF CompressInv

LEMMA RotateBackStep ==
  ASSUME CompressInv, RotateBack PROVE CompressInv'
<1>1. /\ compress' = compress /\ loaded' = loaded /\ h' = h /\ history' = history
      /\ round' = IF round = 11 THEN round ELSE round + 1
      /\ stage' = IF round = 11 THEN "store" ELSE "straight"
      /\ stage = "undiag"
      /\ compress \in Compressors /\ round \in 0 .. 11
      /\ rows = DiagonalRows
  BY DEF RotateBack, CompressInv, StageOk, RowsOk
<1>2. rows' = HomeRows
  <2>1. CASE compress = "scalar"
    BY <1>1, <2>1 DEF RotateBack, DiagonalRows
  <2>2. CASE compress # "scalar"
    BY <1>1, <2>2, DiagonalsToRows DEF RotateBack
  <2> QED BY <2>1, <2>2
<1>3. StageOk'
  BY <1>1 DEF StageOk
<1>4. RowsOk'
  <2>1. HomeRows' = HomeRows
    BY <1>1 DEF HomeRows, RowRegisters
  <2> QED BY <1>1, <1>2, <2>1 DEF RowsOk
<1>5. LoadedAsScalar'
  BY <1>1 DEF LoadedAsScalar, CompressInv
<1>6. HashOk'
  BY <1>1 DEF HashOk, CompressInv
<1>7. (history = HistoryUpTo(CallsDone))'
  <2>1. CallsDone' = CallsDone
    BY <1>1 DEF CallsDone
  <2> QED BY <1>1, <2>1 DEF CompressInv
<1> QED BY <1>3, <1>4, <1>5, <1>6, <1>7 DEF CompressInv

\* The lanes of a row at home are its words, in one register or two.
LEMMA HomeLanes ==
  /\ InOrder(HomeRows.a) = <<0, 1, 2, 3>> /\ InOrder(HomeRows.b) = <<4, 5, 6, 7>>
  /\ InOrder(HomeRows.c) = <<8, 9, 10, 11>> /\ InOrder(HomeRows.d) = <<12, 13, 14, 15>>
<1>1. CASE compress = "sse41"
  BY <1>1, HomePairs DEF InOrder
<1>2. CASE compress # "sse41"
  BY <1>2, HomeWhole DEF InOrder
<1> QED BY <1>1, <1>2

LEMMA StoreStep ==
  ASSUME CompressInv, StoreState PROVE CompressInv'
<1>1. /\ compress' = compress /\ round' = round /\ loaded' = loaded /\ rows' = rows /\ history' = history
      /\ stage = "store" /\ stage' = "done"
      /\ compress \in Compressors /\ round = 11
      /\ rows = HomeRows
  BY DEF StoreState, CompressInv, StageOk, RowsOk
<1>2. h' = [i \in 0 .. 7 |-> {<<"h", i>>, <<"v", i>>, <<"v", i + 8>>}]
  <2> DEFINE lanes(row) == InOrder(rows[row])
             words(i) == IF i < 4 THEN {lanes("a")[i + 1], lanes("c")[i + 1]}
                         ELSE {lanes("b")[i - 3], lanes("d")[i - 3]}
  <2>1. h' = [i \in 0 .. 7 |-> h[i] \cup {<<"v", w>> : w \in words(i)}]
    BY DEF StoreState
  <2>2. h = [i \in 0 .. 7 |-> {<<"h", i>>}]
    BY <1>1 DEF CompressInv, HashOk
  <2>3. ASSUME NEW i \in 0 .. 7 PROVE words(i) = {i, i + 8}
    <3>1. /\ lanes("a") = <<0, 1, 2, 3>> /\ lanes("b") = <<4, 5, 6, 7>>
          /\ lanes("c") = <<8, 9, 10, 11>> /\ lanes("d") = <<12, 13, 14, 15>>
      BY <1>1, HomeLanes
    <3> HIDE DEF lanes
    <3>2. CASE i < 4
      <4>1. lanes("a")[i + 1] = i /\ lanes("c")[i + 1] = i + 8
        BY <3>1, <3>2
      <4> QED BY <3>2, <4>1
    <3>3. CASE ~(i < 4)
      <4>1. lanes("b")[i - 3] = i /\ lanes("d")[i - 3] = i + 8
        BY <3>1, <3>3
      <4> QED BY <3>3, <4>1
    <3> QED BY <3>2, <3>3
  <2> HIDE DEF words
  <2>4. ASSUME NEW i \in 0 .. 7
        PROVE  h[i] \cup {<<"v", w>> : w \in words(i)} = {<<"h", i>>, <<"v", i>>, <<"v", i + 8>>}
    <3>1. h[i] = {<<"h", i>>}
      BY <2>2
    <3>2. words(i) = {i, i + 8}
      BY <2>3
    <3>3. {<<"v", w>> : w \in words(i)} = {<<"v", i>>, <<"v", i + 8>>}
      BY <3>2
    <3> QED BY <3>1, <3>3
  <2> QED BY <2>1, <2>4, Zenon
<1>3. StageOk'
  BY <1>1 DEF StageOk
<1>4. RowsOk'
  <2>1. HomeRows' = HomeRows
    BY <1>1 DEF HomeRows, RowRegisters
  <2> QED BY <1>1, <2>1 DEF RowsOk
<1>5. LoadedAsScalar'
  BY <1>1 DEF LoadedAsScalar, CompressInv
<1>6. HashOk'
  BY <1>1, <1>2 DEF HashOk
<1>7. (history = HistoryUpTo(CallsDone))'
  <2>1. CallsDone' = CallsDone
    BY <1>1 DEF CallsDone
  <2> QED BY <1>1, <2>1 DEF CompressInv
<1> QED BY <1>3, <1>4, <1>5, <1>6, <1>7 DEF CompressInv

LEMMA UpToIsPrefix ==
  ASSUME NEW k \in 0 .. 24, NEW w \in V
  PROVE  IsPrefix(HistoryUpTo(k)[w], ScalarHistory[w])
<1>1. PICK f, s, t : /\ f = [n \in 1 .. 24 |-> CallOn(w, (n - 1) \div 2, (n - 1) % 2)]
                     /\ s = HistoryUpTo(k)[w] /\ t = ScalarHistory[w]
  OBVIOUS
<1>2. t = [n \in 1 .. 24 |-> f[n]]
  BY <1>1, ScalarHistoryIs, Zenon DEF HistoryUpTo
<1>3. s = [n \in 1 .. k |-> f[n]]
  <2>1. s = [n \in 1 .. k |-> CallOn(w, (n - 1) \div 2, (n - 1) % 2)]
    BY <1>1, Zenon DEF HistoryUpTo
  <2>2. \A n \in 1 .. k : n \in 1 .. 24
    OBVIOUS
  <2> QED BY <1>1, <2>1, <2>2, Zenon
<1>4. Len(s) = k /\ Len(t) = 24
  BY <1>2, <1>3
<1>5. SubSeq(s, 1, k) = SubSeq(t, 1, k)
  BY <1>2, <1>3, <1>4, SMTT(30)
<1> QED BY <1>1, <1>4, <1>5, SMTT(30) DEF IsPrefix

LEMMA InvIsCompresses == CompressInv => CompressesAsScalar
<1> SUFFICES ASSUME CompressInv PROVE CompressesAsScalar
  OBVIOUS
<1>1. CallsDone \in 0 .. 24
  BY DEF CompressInv, StageOk, CallsDone
<1>2. \A w \in V : IsPrefix(history[w], ScalarHistory[w])
  BY <1>1, UpToIsPrefix DEF CompressInv
<1>3. stage # "load" => LoadedAsScalar
  BY DEF CompressInv
<1>4. stage = "done" =>
       /\ history = ScalarHistory
       /\ h = [i \in 0 .. 7 |-> {<<"h", i>>, <<"v", i>>, <<"v", i + 8>>}]
  <2> HAVE stage = "done"
  <2>1. CallsDone = 24
    BY DEF CallsDone
  <2> QED BY <2>1, ScalarHistoryIs DEF CompressInv, HashOk
<1> QED BY <1>2, <1>3, <1>4 DEF CompressesAsScalar, LoadedAsScalar

\* CompressesAsScalar: at every moment of every backend each word of v has been
\* through the calls of G of compress_scalar with the same partners and the same
\* words of the message, from the same start, and each word of h ends with the two
\* words of v it takes.
THEOREM CompressionAsScalar == CompressSpec => []CompressesAsScalar
<1>1. LoadInit => CompressInv
  BY CompressInit
<1>2. CompressInv /\ [CompressNext]_compressVars => CompressInv'
  <2> SUFFICES ASSUME CompressInv, [CompressNext]_compressVars PROVE CompressInv'
    OBVIOUS
  <2>1. CASE LoadState
    BY <2>1, LoadStep
  <2>2. CASE HalfRound
    BY <2>2, HalfStep
  <2>3. CASE RotateRows
    BY <2>3, RotateStep
  <2>4. CASE RotateBack
    BY <2>4, RotateBackStep
  <2>5. CASE StoreState
    BY <2>5, StoreStep
  <2>6. CASE UNCHANGED compressVars
    BY <2>6 DEF compressVars, CompressInv, StageOk, RowsOk, HomeRows, DiagonalRows, RowRegisters,
      LoadedAsScalar, HashOk, CallsDone
  <2> QED BY <2>1, <2>2, <2>3, <2>4, <2>5, <2>6 DEF CompressNext
<1> QED BY <1>1, <1>2, InvIsCompresses, PTL DEF CompressSpec

-----------------------------------------------------------------------------
(* FillKernels: the words of a round                                         *)

\* The kernels whose registers hold two words.
Narrow == Fused \cup {"sse2", "ssse3", "wasm128"}

\* The rounds of the scalar kernel that a group makes.
AtOnce == IF kernel = "avx512" THEN 4 ELSE IF kernel = "avx2" THEN 2 ELSE InFlight
GroupRows == AtOnce * group .. AtOnce * group + AtOnce - 1

\* How the sse2, ssse3, NEON and wasm128 kernels hold a block: two words to a register.
LEMMA NarrowShape ==
  ASSUME kernel \in Narrow
  PROVE  /\ Width = 2 /\ Registers = 0 .. 63 /\ Lane = 1 .. 2 /\ RoundsInPass = 8
         /\ InFlight \in {1, 2, 4} /\ Groups * InFlight = 8 /\ Groups \in {2, 4, 8}
         /\ AtOnce = InFlight
<1>1. Width = 2 /\ AtOnce = InFlight
  BY DEF Width, Narrow, Fused, AtOnce
<1>2. Registers = 0 .. 63 /\ Lane = 1 .. 2 /\ RoundsInPass = 8
  BY <1>1 DEF Registers, Lane, RoundsInPass
<1>3. InFlight \in {1, 2, 4}
  BY DEF InFlight
<1>4. Groups = 8 \div InFlight
  BY <1>2 DEF Groups
<1>5. Groups * InFlight = 8 /\ Groups \in {2, 4, 8}
  BY <1>3, <1>4
<1> QED BY <1>1, <1>2, <1>3, <1>5

\* The AVX2 kernel: four words to a register, two rounds to a pass of the loop.
LEMMA Avx2Shape ==
  ASSUME kernel = "avx2"
  PROVE  /\ Width = 4 /\ Registers = 0 .. 31 /\ Lane = 1 .. 4 /\ RoundsInPass = 4
         /\ InFlight = 1 /\ Groups = 4 /\ AtOnce = 2
<1>1. Width = 4 /\ InFlight = 1 /\ AtOnce = 2
  BY DEF Width, InFlight, AtOnce
<1>2. Registers = 0 .. 31 /\ Lane = 1 .. 4 /\ RoundsInPass = 4
  BY <1>1 DEF Registers, Lane, RoundsInPass
<1> QED BY <1>1, <1>2 DEF Groups

\* The AVX-512 kernel: eight words to a register, four rounds to a pass of the loop.
LEMMA Avx512Shape ==
  ASSUME kernel = "avx512"
  PROVE  /\ Width = 8 /\ Registers = 0 .. 15 /\ Lane = 1 .. 8 /\ RoundsInPass = 2
         /\ InFlight = 1 /\ Groups = 2 /\ AtOnce = 4
<1>1. Width = 8 /\ InFlight = 1 /\ AtOnce = 4
  BY DEF Width, InFlight, AtOnce
<1>2. Registers = 0 .. 15 /\ Lane = 1 .. 8 /\ RoundsInPass = 2
  BY <1>1 DEF Registers, Lane, RoundsInPass
<1> QED BY <1>1, <1>2 DEF Groups

\* Every backend is of one of the three shapes.
LEMMA KernelsAre ==
  ASSUME kernel \in Kernels
  PROVE  kernel \in Narrow \/ kernel = "avx2" \/ kernel = "avx512"
BY DEF Kernels, Narrow

\* A pass is eight rounds of sixteen words; a word has its place in one.
Passes == {"columns", "rows"}
WordOf(p, i, m) == IF p = "columns" THEN ColumnWord(i, m) ELSE RowWord(i, m)
RoundOf(p, w) == IF p = "columns" THEN w \div 16 ELSE (w % 16) \div 2
PlaceIn(p, w) == IF p = "columns" THEN w % 16 ELSE 2 * (w \div 16) + (w % 2)

\* A word has one round and one place in it, in either pass ...
LEMMA PlaceOfWord ==
  ASSUME NEW p \in Passes, NEW w \in Word
  PROVE  /\ RoundOf(p, w) \in 0 .. 7 /\ PlaceIn(p, w) \in 0 .. 15
         /\ WordOf(p, RoundOf(p, w), PlaceIn(p, w)) = w
<1>1. PICK q \in 0 .. 7, r \in 0 .. 15 : q = w \div 16 /\ r = w % 16 /\ w = 16 * q + r
  BY DEF Word
<1>2. PICK q2 \in 0 .. 7, r2 \in 0 .. 1 : q2 = r \div 2 /\ r2 = r % 2 /\ r = 2 * q2 + r2
  OBVIOUS
<1>3. CASE p = "columns"
  BY <1>1, <1>3 DEF RoundOf, PlaceIn, WordOf, ColumnWord
<1>4. CASE p # "columns"
  <2>1. w % 2 = r2
    BY <1>1, <1>2
  <2>2. RoundOf(p, w) = q2 /\ PlaceIn(p, w) = 2 * q + r2
    BY <1>1, <1>2, <1>4, <2>1 DEF RoundOf, PlaceIn
  <2>3. (2 * q + r2) \div 2 = q /\ (2 * q + r2) % 2 = r2
    OBVIOUS
  <2>4. WordOf(p, q2, 2 * q + r2) = 2 * q2 + 16 * q + r2
    BY <1>4, <2>3 DEF WordOf, RowWord
  <2> QED BY <1>1, <1>2, <2>2, <2>4
<1> QED BY <1>3, <1>4

\* ... and every place of every round is the place of one word.
LEMMA WordOfPlace ==
  ASSUME NEW p \in Passes, NEW i \in 0 .. 7, NEW m \in 0 .. 15
  PROVE  /\ WordOf(p, i, m) \in Word
         /\ RoundOf(p, WordOf(p, i, m)) = i /\ PlaceIn(p, WordOf(p, i, m)) = m
<1>1. CASE p = "columns"
  BY <1>1 DEF RoundOf, PlaceIn, WordOf, ColumnWord, Word
<1>2. CASE p # "columns"
  <2>1. PICK q \in 0 .. 7, r \in 0 .. 1 : q = m \div 2 /\ r = m % 2 /\ m = 2 * q + r
    OBVIOUS
  <2>2. PICK w : w = 16 * q + 2 * i + r
    OBVIOUS
  <2>3. WordOf(p, i, m) = w /\ w \in Word
    BY <1>2, <2>1, <2>2 DEF WordOf, RowWord, Word
  <2>4. w \div 16 = q /\ w % 16 = 2 * i + r /\ w % 2 = r
    BY <2>2
  <2>5. (2 * i + r) \div 2 = i
    OBVIOUS
  <2> QED BY <1>2, <2>1, <2>3, <2>4, <2>5 DEF RoundOf, PlaceIn
<1> QED BY <1>1, <1>2

\* The words G takes together in column c, before (0) and after (1) the rotation.
GWords(p, i, c, d) ==
  <<WordOf(p, i, c), WordOf(p, i, 4 + ((c + d) % 4)),
    WordOf(p, i, 8 + ((c + 2 * d) % 4)), WordOf(p, i, 12 + ((c + 3 * d) % 4))>>

\* The column of G that place m of a round is in.
ColumnIn(m, d) == ((m % 4) + d * (4 - (m \div 4))) % 4

\* A place is among the four of a column exactly when the column is its own.
LEMMA ColumnOfPlace ==
  ASSUME NEW m \in 0 .. 15, NEW c \in 0 .. 3, NEW d \in 0 .. 1
  PROVE  m \in {c, 4 + ((c + d) % 4), 8 + ((c + 2 * d) % 4), 12 + ((c + 3 * d) % 4)}
           <=> c = ColumnIn(m, d)
<1>1. CASE d = 0
  <2>1. ColumnIn(m, d) = m % 4
    BY <1>1 DEF ColumnIn
  <2> QED BY <1>1, <2>1
<1>2. CASE d = 1
  <2>1. PICK k \in 0 .. 3, x \in 0 .. 3 : m = 4 * k + x /\ k = m \div 4 /\ x = m % 4
    OBVIOUS
  <2>2. ColumnIn(m, d) = (x + 4 - k) % 4
    BY <1>2, <2>1 DEF ColumnIn
  <2>3. CASE c = 0
    BY <1>2, <2>1, <2>2, <2>3
  <2>4. CASE c = 1
    BY <1>2, <2>1, <2>2, <2>4
  <2>5. CASE c = 2
    BY <1>2, <2>1, <2>2, <2>5
  <2>6. CASE c = 3
    BY <1>2, <2>1, <2>2, <2>6
  <2> QED BY <2>3, <2>4, <2>5, <2>6
<1> QED BY <1>1, <1>2

\* There are four columns.
LEMMA ColumnIsOne ==
  ASSUME NEW m \in 0 .. 15, NEW d \in 0 .. 1
  PROVE  ColumnIn(m, d) \in 0 .. 3
BY DEF ColumnIn

\* A word is in one of them.
LEMMA InOneG ==
  ASSUME NEW p \in Passes, NEW i \in 0 .. 7, NEW c \in 0 .. 3, NEW d \in 0 .. 1, NEW w \in Word
  PROVE  (\E n \in 1 .. 4 : GWords(p, i, c, d)[n] = w)
           <=> i = RoundOf(p, w) /\ c = ColumnIn(PlaceIn(p, w), d)
<1>1. PICK x, y, z : x = 4 + ((c + d) % 4) /\ y = 8 + ((c + 2 * d) % 4) /\ z = 12 + ((c + 3 * d) % 4)
  OBVIOUS
<1>2. c \in 0 .. 15 /\ x \in 0 .. 15 /\ y \in 0 .. 15 /\ z \in 0 .. 15
  BY <1>1
<1>3. GWords(p, i, c, d) = <<WordOf(p, i, c), WordOf(p, i, x), WordOf(p, i, y), WordOf(p, i, z)>>
  BY <1>1, Zenon DEF GWords
<1>4. (\E n \in 1 .. 4 : GWords(p, i, c, d)[n] = w)
        <=> w \in {WordOf(p, i, c), WordOf(p, i, x), WordOf(p, i, y), WordOf(p, i, z)}
  BY <1>3
<1>5. ASSUME NEW m \in 0 .. 15 PROVE w = WordOf(p, i, m) <=> i = RoundOf(p, w) /\ m = PlaceIn(p, w)
  BY PlaceOfWord, WordOfPlace
<1>6. PICK m \in 0 .. 15 : m = PlaceIn(p, w)
  BY PlaceOfWord
<1>7. w \in {WordOf(p, i, c), WordOf(p, i, x), WordOf(p, i, y), WordOf(p, i, z)}
        <=> i = RoundOf(p, w) /\ m \in {c, x, y, z}
  BY <1>2, <1>5, <1>6, Zenon
<1>8. m \in {c, x, y, z} <=> c = ColumnIn(m, d)
  BY <1>1, ColumnOfPlace, Zenon
<1> QED BY <1>4, <1>6, <1>7, <1>8, Zenon

\* It is in the G of its own round and column ...
LEMMA OwnG ==
  ASSUME NEW p \in Passes, NEW d \in 0 .. 1, NEW w \in Word
  PROVE  \E n \in 1 .. 4 : GWords(p, RoundOf(p, w), ColumnIn(PlaceIn(p, w), d), d)[n] = w
<1>1. PICK i \in 0 .. 7, c \in 0 .. 3 : i = RoundOf(p, w) /\ c = ColumnIn(PlaceIn(p, w), d)
  BY PlaceOfWord, ColumnIsOne
<1>2. (\E n \in 1 .. 4 : GWords(p, i, c, d)[n] = w)
        <=> i = RoundOf(p, w) /\ c = ColumnIn(PlaceIn(p, w), d)
  BY <1>1, InOneG, ZenonT(60)
<1>3. \E n \in 1 .. 4 : GWords(p, i, c, d)[n] = w
  BY <1>1, <1>2, Zenon
<1> QED BY <1>1, <1>3, Zenon

\* ... and in no other.
LEMMA OnlyG ==
  ASSUME NEW p \in Passes, NEW i \in 0 .. 7, NEW c \in 0 .. 3, NEW d \in 0 .. 1, NEW w \in Word,
         NEW n \in 1 .. 4, GWords(p, i, c, d)[n] = w
  PROVE  i = RoundOf(p, w) /\ c = ColumnIn(PlaceIn(p, w), d)
<1>1. PICK q : q = GWords(p, i, c, d)
  OBVIOUS
<1>2. \E k \in 1 .. 4 : q[k] = w
  BY <1>1
<1>3. (\E k \in 1 .. 4 : q[k] = w) <=> i = RoundOf(p, w) /\ c = ColumnIn(PlaceIn(p, w), d)
  BY <1>1, InOneG, SMTT(30)
<1> QED BY <1>2, <1>3, Zenon

\* A round e in registers of two words, straight (0) or rotated (1).
Two(r, e, d) ==
  /\ DOMAIN r = Slots
  /\ r.a0 = <<e[0], e[1]>>
  /\ r.a1 = <<e[2], e[3]>>
  /\ d = 0 => /\ r.b0 = <<e[4], e[5]>>
              /\ r.b1 = <<e[6], e[7]>>
              /\ r.c0 = <<e[8], e[9]>>
              /\ r.c1 = <<e[10], e[11]>>
              /\ r.d0 = <<e[12], e[13]>>
              /\ r.d1 = <<e[14], e[15]>>
  /\ d = 1 => /\ r.b0 = <<e[5], e[6]>>
              /\ r.b1 = <<e[7], e[4]>>
              /\ r.c0 = <<e[10], e[11]>>
              /\ r.c1 = <<e[8], e[9]>>
              /\ r.d0 = <<e[15], e[12]>>
              /\ r.d1 = <<e[13], e[14]>>

\* Rounds e and f in AVX2 registers, as the column pass has them: f's in the second of each.
FourInColumns(r, e, f, d) ==
  /\ DOMAIN r = Slots
  /\ r.a0 = <<e[0], e[1], e[2], e[3]>>
  /\ r.a1 = <<f[0], f[1], f[2], f[3]>>
  /\ d = 0 => /\ r.b0 = <<e[4], e[5], e[6], e[7]>>
              /\ r.b1 = <<f[4], f[5], f[6], f[7]>>
              /\ r.c0 = <<e[8], e[9], e[10], e[11]>>
              /\ r.c1 = <<f[8], f[9], f[10], f[11]>>
              /\ r.d0 = <<e[12], e[13], e[14], e[15]>>
              /\ r.d1 = <<f[12], f[13], f[14], f[15]>>
  /\ d = 1 => /\ r.b0 = <<e[5], e[6], e[7], e[4]>>
              /\ r.b1 = <<f[5], f[6], f[7], f[4]>>
              /\ r.c0 = <<e[10], e[11], e[8], e[9]>>
              /\ r.c1 = <<f[10], f[11], f[8], f[9]>>
              /\ r.d0 = <<e[15], e[12], e[13], e[14]>>
              /\ r.d1 = <<f[15], f[12], f[13], f[14]>>

\* The same in the row pass, where a register holds two words of each.
FourInRows(r, e, f, d) ==
  /\ DOMAIN r = Slots
  /\ r.a0 = <<e[0], e[1], f[0], f[1]>>
  /\ r.a1 = <<e[2], e[3], f[2], f[3]>>
  /\ d = 0 => /\ r.b0 = <<e[4], e[5], f[4], f[5]>>
              /\ r.b1 = <<e[6], e[7], f[6], f[7]>>
              /\ r.c0 = <<e[8], e[9], f[8], f[9]>>
              /\ r.c1 = <<e[10], e[11], f[10], f[11]>>
              /\ r.d0 = <<e[12], e[13], f[12], f[13]>>
              /\ r.d1 = <<e[14], e[15], f[14], f[15]>>
  /\ d = 1 => /\ r.b0 = <<e[5], e[6], f[5], f[6]>>
              /\ r.b1 = <<e[7], e[4], f[7], f[4]>>
              /\ r.c0 = <<e[10], e[11], f[10], f[11]>>
              /\ r.c1 = <<e[8], e[9], f[8], f[9]>>
              /\ r.d0 = <<e[15], e[12], f[15], f[12]>>
              /\ r.d1 = <<e[13], e[14], f[13], f[14]>>

\* Rounds e, f, g, k in AVX-512 registers after swap_halves or swap_quarters.
EightInTurn(r, e, f, g, k, d) ==
  /\ DOMAIN r = Slots
  /\ r.a0 = <<e[0], e[1], e[2], e[3], f[0], f[1], f[2], f[3]>>
  /\ r.a1 = <<g[0], g[1], g[2], g[3], k[0], k[1], k[2], k[3]>>
  /\ d = 0 => /\ r.b0 = <<e[4], e[5], e[6], e[7], f[4], f[5], f[6], f[7]>>
              /\ r.b1 = <<g[4], g[5], g[6], g[7], k[4], k[5], k[6], k[7]>>
              /\ r.c0 = <<e[8], e[9], e[10], e[11], f[8], f[9], f[10], f[11]>>
              /\ r.c1 = <<g[8], g[9], g[10], g[11], k[8], k[9], k[10], k[11]>>
              /\ r.d0 = <<e[12], e[13], e[14], e[15], f[12], f[13], f[14], f[15]>>
              /\ r.d1 = <<g[12], g[13], g[14], g[15], k[12], k[13], k[14], k[15]>>
  /\ d = 1 => /\ r.b0 = <<e[5], e[6], e[7], e[4], f[5], f[6], f[7], f[4]>>
              /\ r.b1 = <<g[5], g[6], g[7], g[4], k[5], k[6], k[7], k[4]>>
              /\ r.c0 = <<e[10], e[11], e[8], e[9], f[10], f[11], f[8], f[9]>>
              /\ r.c1 = <<g[10], g[11], g[8], g[9], k[10], k[11], k[8], k[9]>>
              /\ r.d0 = <<e[15], e[12], e[13], e[14], f[15], f[12], f[13], f[14]>>
              /\ r.d1 = <<g[15], g[12], g[13], g[14], k[15], k[12], k[13], k[14]>>

\* palignr, on two words, rotates the rows of a round ...
LEMMA AlignrTurns ==
  ASSUME NEW r, NEW e, Two(r, e, 0)
  PROVE  Two(AlignrDiagonalize(r), e, 1)
<1>1. /\ Alignr(r.b1, r.b0) = <<e[5], e[6]>>
      /\ Alignr(r.b0, r.b1) = <<e[7], e[4]>>
      /\ r.c1 = <<e[10], e[11]>>
      /\ r.c0 = <<e[8], e[9]>>
      /\ Alignr(r.d0, r.d1) = <<e[15], e[12]>>
      /\ Alignr(r.d1, r.d0) = <<e[13], e[14]>>
  BY DEF Two, Alignr
<1>2. AlignrDiagonalize(r) = [r EXCEPT !.b0 = <<e[5], e[6]>>,
                    !.b1 = <<e[7], e[4]>>,
                    !.c0 = <<e[10], e[11]>>,
                    !.c1 = <<e[8], e[9]>>,
                    !.d0 = <<e[15], e[12]>>,
                    !.d1 = <<e[13], e[14]>>]
  BY <1>1, Zenon DEF AlignrDiagonalize
<1> QED BY <1>2 DEF Two, Slots

\* ... and back.
LEMMA AlignrTurnsBack ==
  ASSUME NEW r, NEW e, Two(r, e, 1)
  PROVE  Two(AlignrUndiagonalize(r), e, 0)
<1>1. /\ Alignr(r.b0, r.b1) = <<e[4], e[5]>>
      /\ Alignr(r.b1, r.b0) = <<e[6], e[7]>>
      /\ r.c1 = <<e[8], e[9]>>
      /\ r.c0 = <<e[10], e[11]>>
      /\ Alignr(r.d1, r.d0) = <<e[12], e[13]>>
      /\ Alignr(r.d0, r.d1) = <<e[14], e[15]>>
  BY DEF Two, Alignr
<1>2. AlignrUndiagonalize(r) = [r EXCEPT !.b0 = <<e[4], e[5]>>,
                    !.b1 = <<e[6], e[7]>>,
                    !.c0 = <<e[8], e[9]>>,
                    !.c1 = <<e[10], e[11]>>,
                    !.d0 = <<e[12], e[13]>>,
                    !.d1 = <<e[14], e[15]>>]
  BY <1>1, Zenon DEF AlignrUndiagonalize
<1> QED BY <1>2 DEF Two, Slots

\* unpacklo and unpackhi rotate the rows of a round ...
LEMMA UnpackTurns ==
  ASSUME NEW r, NEW e, Two(r, e, 0)
  PROVE  Two(UnpackDiagonalize(r), e, 1)
<1>1. /\ UnpackHi(r.d1, UnpackLo(r.d0, r.d0)) = <<e[15], e[12]>>
      /\ UnpackHi(r.d0, UnpackLo(r.d1, r.d1)) = <<e[13], e[14]>>
      /\ r.c1 = <<e[10], e[11]>>
      /\ r.c0 = <<e[8], e[9]>>
      /\ UnpackHi(r.b0, UnpackLo(r.b1, r.b1)) = <<e[5], e[6]>>
      /\ UnpackHi(r.b1, UnpackLo(r.b0, r.b0)) = <<e[7], e[4]>>
  BY DEF Two, UnpackHi, UnpackLo
<1>2. UnpackDiagonalize(r) = [r EXCEPT !.d0 = <<e[15], e[12]>>,
                    !.d1 = <<e[13], e[14]>>,
                    !.c0 = <<e[10], e[11]>>,
                    !.c1 = <<e[8], e[9]>>,
                    !.b0 = <<e[5], e[6]>>,
                    !.b1 = <<e[7], e[4]>>]
  BY <1>1, Zenon DEF UnpackDiagonalize
<1> QED BY <1>2 DEF Two, Slots

\* ... and back.
LEMMA UnpackTurnsBack ==
  ASSUME NEW r, NEW e, Two(r, e, 1)
  PROVE  Two(UnpackUndiagonalize(r), e, 0)
<1>1. /\ UnpackHi(r.b1, UnpackLo(r.b0, r.b0)) = <<e[4], e[5]>>
      /\ UnpackHi(r.b0, UnpackLo(r.b1, r.b1)) = <<e[6], e[7]>>
      /\ r.c1 = <<e[8], e[9]>>
      /\ r.c0 = <<e[10], e[11]>>
      /\ UnpackHi(r.d0, UnpackLo(r.d1, r.d1)) = <<e[12], e[13]>>
      /\ UnpackHi(r.d1, UnpackLo(r.d0, r.d0)) = <<e[14], e[15]>>
  BY DEF Two, UnpackHi, UnpackLo
<1>2. UnpackUndiagonalize(r) = [r EXCEPT !.b0 = <<e[4], e[5]>>,
                    !.b1 = <<e[6], e[7]>>,
                    !.c0 = <<e[8], e[9]>>,
                    !.c1 = <<e[10], e[11]>>,
                    !.d0 = <<e[12], e[13]>>,
                    !.d1 = <<e[14], e[15]>>]
  BY <1>1, Zenon DEF UnpackUndiagonalize
<1> QED BY <1>2 DEF Two, Slots

\* The blends and 4x64 permutes of diagonalize_2 rotate both rounds ...
LEMMA BlendTurns ==
  ASSUME NEW r, NEW e, NEW f, FourInRows(r, e, f, 0)
  PROVE  FourInRows(Diagonalize2(r), e, f, 1)
<1>1. /\ Permute(BlendOdd(r.b0, r.b1), Cross) = <<e[7], e[4], f[7], f[4]>>
      /\ Permute(BlendEven(r.b0, r.b1), Cross) = <<e[5], e[6], f[5], f[6]>>
      /\ r.c1 = <<e[10], e[11], f[10], f[11]>>
      /\ r.c0 = <<e[8], e[9], f[8], f[9]>>
      /\ Permute(BlendOdd(r.d0, r.d1), Cross) = <<e[15], e[12], f[15], f[12]>>
      /\ Permute(BlendEven(r.d0, r.d1), Cross) = <<e[13], e[14], f[13], f[14]>>
  BY DEF FourInRows, Permute, BlendOdd, BlendEven, Cross
<1>2. Diagonalize2(r) = [r EXCEPT !.b1 = <<e[7], e[4], f[7], f[4]>>,
                    !.b0 = <<e[5], e[6], f[5], f[6]>>,
                    !.c0 = <<e[10], e[11], f[10], f[11]>>,
                    !.c1 = <<e[8], e[9], f[8], f[9]>>,
                    !.d0 = <<e[15], e[12], f[15], f[12]>>,
                    !.d1 = <<e[13], e[14], f[13], f[14]>>]
  BY <1>1, Zenon DEF Diagonalize2
<1> QED BY <1>2 DEF FourInRows, Slots

\* ... and those of undiagonalize_2 rotate them back.
LEMMA BlendTurnsBack ==
  ASSUME NEW r, NEW e, NEW f, FourInRows(r, e, f, 1)
  PROVE  FourInRows(Undiagonalize2(r), e, f, 0)
<1>1. /\ Permute(BlendOdd(r.b0, r.b1), Cross) = <<e[4], e[5], f[4], f[5]>>
      /\ Permute(BlendEven(r.b0, r.b1), Cross) = <<e[6], e[7], f[6], f[7]>>
      /\ r.c1 = <<e[8], e[9], f[8], f[9]>>
      /\ r.c0 = <<e[10], e[11], f[10], f[11]>>
      /\ Permute(BlendEven(r.d0, r.d1), Cross) = <<e[12], e[13], f[12], f[13]>>
      /\ Permute(BlendOdd(r.d0, r.d1), Cross) = <<e[14], e[15], f[14], f[15]>>
  BY DEF FourInRows, Permute, BlendOdd, BlendEven, Cross
<1>2. Undiagonalize2(r) = [r EXCEPT !.b0 = <<e[4], e[5], f[4], f[5]>>,
                    !.b1 = <<e[6], e[7], f[6], f[7]>>,
                    !.c0 = <<e[8], e[9], f[8], f[9]>>,
                    !.c1 = <<e[10], e[11], f[10], f[11]>>,
                    !.d0 = <<e[12], e[13], f[12], f[13]>>,
                    !.d1 = <<e[14], e[15], f[14], f[15]>>]
  BY <1>1, Zenon DEF Undiagonalize2
<1> QED BY <1>2 DEF FourInRows, Slots

\* The permutations by 1, 2 and 3 of a register of four words.
LEMMA FourLeft ==
  ASSUME NEW x1, NEW x2, NEW x3, NEW x4
  PROVE  /\ Permute(<<x1, x2, x3, x4>>, Left1) = <<x2, x3, x4, x1>>
         /\ Permute(<<x1, x2, x3, x4>>, Left2) = <<x3, x4, x1, x2>>
         /\ Permute(<<x1, x2, x3, x4>>, Left3) = <<x4, x1, x2, x3>>
<1>1. Permute(<<x1, x2, x3, x4>>, Left1) = <<x2, x3, x4, x1>>
  BY DEF Permute, Left1
<1>2. Permute(<<x1, x2, x3, x4>>, Left2) = <<x3, x4, x1, x2>>
  BY DEF Permute, Left2
<1>3. Permute(<<x1, x2, x3, x4>>, Left3) = <<x4, x1, x2, x3>>
  BY DEF Permute, Left3
<1> QED BY <1>1, <1>2, <1>3

\* The permutations of a register of eight words turn each half by itself.
LEMMA EightLeft ==
  ASSUME NEW x1, NEW x2, NEW x3, NEW x4, NEW x5, NEW x6, NEW x7, NEW x8
  PROVE  /\ Permute(<<x1, x2, x3, x4, x5, x6, x7, x8>>, Left1) = <<x2, x3, x4, x1, x6, x7, x8, x5>>
         /\ Permute(<<x1, x2, x3, x4, x5, x6, x7, x8>>, Left2) = <<x3, x4, x1, x2, x7, x8, x5, x6>>
         /\ Permute(<<x1, x2, x3, x4, x5, x6, x7, x8>>, Left3) = <<x4, x1, x2, x3, x8, x5, x6, x7>>
<1>1. Permute(<<x1, x2, x3, x4, x5, x6, x7, x8>>, Left1) = <<x2, x3, x4, x1, x6, x7, x8, x5>>
  BY DEF Permute, Left1
<1>2. Permute(<<x1, x2, x3, x4, x5, x6, x7, x8>>, Left2) = <<x3, x4, x1, x2, x7, x8, x5, x6>>
  BY DEF Permute, Left2
<1>3. Permute(<<x1, x2, x3, x4, x5, x6, x7, x8>>, Left3) = <<x4, x1, x2, x3, x8, x5, x6, x7>>
  BY DEF Permute, Left3
<1> QED BY <1>1, <1>2, <1>3

\* Rotating the registers of the column pass rotates both rounds ...
LEMMA ColumnsTurn ==
  ASSUME NEW r, NEW e, NEW f, FourInColumns(r, e, f, 0)
  PROVE  FourInColumns(Rotate(r, Left1, Left2, Left3), e, f, 1)
<1>1. /\ r.b0 = <<e[4], e[5], e[6], e[7]>>
      /\ r.b1 = <<f[4], f[5], f[6], f[7]>>
      /\ r.c0 = <<e[8], e[9], e[10], e[11]>>
      /\ r.c1 = <<f[8], f[9], f[10], f[11]>>
      /\ r.d0 = <<e[12], e[13], e[14], e[15]>>
      /\ r.d1 = <<f[12], f[13], f[14], f[15]>>
  BY DEF FourInColumns
<1>2. /\ Permute(r.b0, Left1) = <<e[5], e[6], e[7], e[4]>>
      /\ Permute(r.b1, Left1) = <<f[5], f[6], f[7], f[4]>>
      /\ Permute(r.c0, Left2) = <<e[10], e[11], e[8], e[9]>>
      /\ Permute(r.c1, Left2) = <<f[10], f[11], f[8], f[9]>>
      /\ Permute(r.d0, Left3) = <<e[15], e[12], e[13], e[14]>>
      /\ Permute(r.d1, Left3) = <<f[15], f[12], f[13], f[14]>>
  BY <1>1, FourLeft
<1>3. Rotate(r, Left1, Left2, Left3) = [r EXCEPT !.b0 = <<e[5], e[6], e[7], e[4]>>,
                    !.b1 = <<f[5], f[6], f[7], f[4]>>,
                    !.c0 = <<e[10], e[11], e[8], e[9]>>,
                    !.c1 = <<f[10], f[11], f[8], f[9]>>,
                    !.d0 = <<e[15], e[12], e[13], e[14]>>,
                    !.d1 = <<f[15], f[12], f[13], f[14]>>]
  BY <1>2, Zenon DEF Rotate
<1> QED BY <1>3 DEF FourInColumns, Slots

\* ... and back.
LEMMA ColumnsTurnBack ==
  ASSUME NEW r, NEW e, NEW f, FourInColumns(r, e, f, 1)
  PROVE  FourInColumns(Rotate(r, Left3, Left2, Left1), e, f, 0)
<1>1. /\ r.b0 = <<e[5], e[6], e[7], e[4]>>
      /\ r.b1 = <<f[5], f[6], f[7], f[4]>>
      /\ r.c0 = <<e[10], e[11], e[8], e[9]>>
      /\ r.c1 = <<f[10], f[11], f[8], f[9]>>
      /\ r.d0 = <<e[15], e[12], e[13], e[14]>>
      /\ r.d1 = <<f[15], f[12], f[13], f[14]>>
  BY DEF FourInColumns
<1>2. /\ Permute(r.b0, Left3) = <<e[4], e[5], e[6], e[7]>>
      /\ Permute(r.b1, Left3) = <<f[4], f[5], f[6], f[7]>>
      /\ Permute(r.c0, Left2) = <<e[8], e[9], e[10], e[11]>>
      /\ Permute(r.c1, Left2) = <<f[8], f[9], f[10], f[11]>>
      /\ Permute(r.d0, Left1) = <<e[12], e[13], e[14], e[15]>>
      /\ Permute(r.d1, Left1) = <<f[12], f[13], f[14], f[15]>>
  BY <1>1, FourLeft
<1>3. Rotate(r, Left3, Left2, Left1) = [r EXCEPT !.b0 = <<e[4], e[5], e[6], e[7]>>,
                    !.b1 = <<f[4], f[5], f[6], f[7]>>,
                    !.c0 = <<e[8], e[9], e[10], e[11]>>,
                    !.c1 = <<f[8], f[9], f[10], f[11]>>,
                    !.d0 = <<e[12], e[13], e[14], e[15]>>,
                    !.d1 = <<f[12], f[13], f[14], f[15]>>]
  BY <1>2, Zenon DEF Rotate
<1> QED BY <1>3 DEF FourInColumns, Slots

\* The same with four rounds to a register ...
LEMMA EightsTurn ==
  ASSUME NEW r, NEW e, NEW f, NEW g, NEW k, EightInTurn(r, e, f, g, k, 0)
  PROVE  EightInTurn(Rotate(r, Left1, Left2, Left3), e, f, g, k, 1)
<1>1. /\ r.b0 = <<e[4], e[5], e[6], e[7], f[4], f[5], f[6], f[7]>>
      /\ r.b1 = <<g[4], g[5], g[6], g[7], k[4], k[5], k[6], k[7]>>
      /\ r.c0 = <<e[8], e[9], e[10], e[11], f[8], f[9], f[10], f[11]>>
      /\ r.c1 = <<g[8], g[9], g[10], g[11], k[8], k[9], k[10], k[11]>>
      /\ r.d0 = <<e[12], e[13], e[14], e[15], f[12], f[13], f[14], f[15]>>
      /\ r.d1 = <<g[12], g[13], g[14], g[15], k[12], k[13], k[14], k[15]>>
  BY DEF EightInTurn
<1>2. /\ Permute(r.b0, Left1) = <<e[5], e[6], e[7], e[4], f[5], f[6], f[7], f[4]>>
      /\ Permute(r.b1, Left1) = <<g[5], g[6], g[7], g[4], k[5], k[6], k[7], k[4]>>
      /\ Permute(r.c0, Left2) = <<e[10], e[11], e[8], e[9], f[10], f[11], f[8], f[9]>>
      /\ Permute(r.c1, Left2) = <<g[10], g[11], g[8], g[9], k[10], k[11], k[8], k[9]>>
      /\ Permute(r.d0, Left3) = <<e[15], e[12], e[13], e[14], f[15], f[12], f[13], f[14]>>
      /\ Permute(r.d1, Left3) = <<g[15], g[12], g[13], g[14], k[15], k[12], k[13], k[14]>>
  BY <1>1, EightLeft
<1>3. Rotate(r, Left1, Left2, Left3) = [r EXCEPT !.b0 = <<e[5], e[6], e[7], e[4], f[5], f[6], f[7], f[4]>>,
                    !.b1 = <<g[5], g[6], g[7], g[4], k[5], k[6], k[7], k[4]>>,
                    !.c0 = <<e[10], e[11], e[8], e[9], f[10], f[11], f[8], f[9]>>,
                    !.c1 = <<g[10], g[11], g[8], g[9], k[10], k[11], k[8], k[9]>>,
                    !.d0 = <<e[15], e[12], e[13], e[14], f[15], f[12], f[13], f[14]>>,
                    !.d1 = <<g[15], g[12], g[13], g[14], k[15], k[12], k[13], k[14]>>]
  BY <1>2, Zenon DEF Rotate
<1> QED BY <1>3 DEF EightInTurn, Slots

\* ... and back.
LEMMA EightsTurnBack ==
  ASSUME NEW r, NEW e, NEW f, NEW g, NEW k, EightInTurn(r, e, f, g, k, 1)
  PROVE  EightInTurn(Rotate(r, Left3, Left2, Left1), e, f, g, k, 0)
<1>1. /\ r.b0 = <<e[5], e[6], e[7], e[4], f[5], f[6], f[7], f[4]>>
      /\ r.b1 = <<g[5], g[6], g[7], g[4], k[5], k[6], k[7], k[4]>>
      /\ r.c0 = <<e[10], e[11], e[8], e[9], f[10], f[11], f[8], f[9]>>
      /\ r.c1 = <<g[10], g[11], g[8], g[9], k[10], k[11], k[8], k[9]>>
      /\ r.d0 = <<e[15], e[12], e[13], e[14], f[15], f[12], f[13], f[14]>>
      /\ r.d1 = <<g[15], g[12], g[13], g[14], k[15], k[12], k[13], k[14]>>
  BY DEF EightInTurn
<1>2. /\ Permute(r.b0, Left3) = <<e[4], e[5], e[6], e[7], f[4], f[5], f[6], f[7]>>
      /\ Permute(r.b1, Left3) = <<g[4], g[5], g[6], g[7], k[4], k[5], k[6], k[7]>>
      /\ Permute(r.c0, Left2) = <<e[8], e[9], e[10], e[11], f[8], f[9], f[10], f[11]>>
      /\ Permute(r.c1, Left2) = <<g[8], g[9], g[10], g[11], k[8], k[9], k[10], k[11]>>
      /\ Permute(r.d0, Left1) = <<e[12], e[13], e[14], e[15], f[12], f[13], f[14], f[15]>>
      /\ Permute(r.d1, Left1) = <<g[12], g[13], g[14], g[15], k[12], k[13], k[14], k[15]>>
  BY <1>1, EightLeft
<1>3. Rotate(r, Left3, Left2, Left1) = [r EXCEPT !.b0 = <<e[4], e[5], e[6], e[7], f[4], f[5], f[6], f[7]>>,
                    !.b1 = <<g[4], g[5], g[6], g[7], k[4], k[5], k[6], k[7]>>,
                    !.c0 = <<e[8], e[9], e[10], e[11], f[8], f[9], f[10], f[11]>>,
                    !.c1 = <<g[8], g[9], g[10], g[11], k[8], k[9], k[10], k[11]>>,
                    !.d0 = <<e[12], e[13], e[14], e[15], f[12], f[13], f[14], f[15]>>,
                    !.d1 = <<g[12], g[13], g[14], g[15], k[12], k[13], k[14], k[15]>>]
  BY <1>2, Zenon DEF Rotate
<1> QED BY <1>3 DEF EightInTurn, Slots

\* A sequence of four, or of eight.
LEMMA Listed ==
  ASSUME NEW S, NEW z \in Seq(S)
  PROVE  /\ Len(z) = 4 => z = <<z[1], z[2], z[3], z[4]>>
         /\ Len(z) = 8 => z = <<z[1], z[2], z[3], z[4], z[5], z[6], z[7], z[8]>>
<1>1. z = [i \in 1 .. Len(z) |-> z[i]]
  OBVIOUS
<1>2. [i \in 1 .. 4 |-> z[i]] = <<z[1], z[2], z[3], z[4]>>
  OBVIOUS
<1>3. [i \in 1 .. 8 |-> z[i]] = <<z[1], z[2], z[3], z[4], z[5], z[6], z[7], z[8]>>
  OBVIOUS
<1>4. ASSUME Len(z) = 4 PROVE z = <<z[1], z[2], z[3], z[4]>>
  BY <1>1, <1>2, <1>4
<1>5. ASSUME Len(z) = 8 PROVE z = <<z[1], z[2], z[3], z[4], z[5], z[6], z[7], z[8]>>
  BY <1>1, <1>3, <1>5
<1> QED BY <1>4, <1>5

\* Two sequences in one.
Joined8(s, t) == s \o t

\* Two sequences of four, joined.
LEMMA JoinFour ==
  ASSUME NEW S, NEW s \in Seq(S), NEW t \in Seq(S), Len(s) = 4, Len(t) = 4
  PROVE  Joined8(s, t) = <<s[1], s[2], s[3], s[4], t[1], t[2], t[3], t[4]>>
<1>1. /\ Joined8(s, t) \in Seq(S) /\ Len(Joined8(s, t)) = Len(s) + Len(t)
      /\ \A i \in 1 .. Len(s) + Len(t) :
           Joined8(s, t)[i] = IF i <= Len(s) THEN s[i] ELSE t[i - Len(s)]
  BY ConcatProperties, Zenon DEF Joined8
<1>2. PICK z : z = Joined8(s, t)
  OBVIOUS
<1>3. z \in Seq(S) /\ Len(z) = 8
  BY <1>1, <1>2
<1>4. z = <<z[1], z[2], z[3], z[4], z[5], z[6], z[7], z[8]>>
  BY <1>3, Listed
<1>5. \A i \in 1 .. 8 : z[i] = IF i <= 4 THEN s[i] ELSE t[i - 4]
  BY <1>1, <1>2
<1>6. /\ z[1] = s[1] /\ z[2] = s[2] /\ z[3] = s[3] /\ z[4] = s[4]
      /\ z[5] = t[1] /\ z[6] = t[2] /\ z[7] = t[3] /\ z[8] = t[4]
  BY <1>5
<1> QED BY <1>2, <1>4, <1>6

\* What swap_halves makes of two registers.
LEMMA SwappedHalves ==
  ASSUME NEW S, NEW x \in Seq(S), NEW y \in Seq(S), Len(x) = 8, Len(y) = 8
  PROVE  SwapHalves(x, y) = << <<x[1], x[2], x[3], x[4], y[1], y[2], y[3], y[4]>>,
                               <<x[5], x[6], x[7], x[8], y[5], y[6], y[7], y[8]>> >>
<1>1. ASSUME NEW u \in Seq(S), Len(u) = 8
      PROVE  /\ SubSeq(u, 1, 4) \in Seq(S) /\ Len(SubSeq(u, 1, 4)) = 4
             /\ \A i \in 1 .. 4 : SubSeq(u, 1, 4)[i] = u[i]
             /\ SubSeq(u, 5, 8) \in Seq(S) /\ Len(SubSeq(u, 5, 8)) = 4
             /\ \A i \in 1 .. 4 : SubSeq(u, 5, 8)[i] = u[4 + i]
  <2>1. \A i \in 1 .. 8 : u[i] \in S
    BY <1>1, ElementOfSeq
  <2>2. /\ SubSeq(u, 1, 4) \in Seq(S) /\ Len(SubSeq(u, 1, 4)) = 4
        /\ \A i \in 1 .. 4 : SubSeq(u, 1, 4)[i] = u[1 + i - 1]
    <3>1. \A i \in 1 .. 4 : u[i] \in S
      BY <2>1
    <3> QED BY <3>1, SubSeqProperties
  <2>3. /\ SubSeq(u, 5, 8) \in Seq(S) /\ Len(SubSeq(u, 5, 8)) = 4
        /\ \A i \in 1 .. 4 : SubSeq(u, 5, 8)[i] = u[5 + i - 1]
    <3>1. \A i \in 5 .. 8 : u[i] \in S
      BY <2>1
    <3> QED BY <3>1, SubSeqProperties
  <2> QED BY <2>2, <2>3
<1>2. PICK x1, x2, y1, y2 : /\ x1 = SubSeq(x, 1, 4) /\ x2 = SubSeq(x, 5, 8)
                            /\ y1 = SubSeq(y, 1, 4) /\ y2 = SubSeq(y, 5, 8)
  OBVIOUS
<1>3. /\ x1 \in Seq(S) /\ Len(x1) = 4 /\ x1[1] = x[1] /\ x1[2] = x[2] /\ x1[3] = x[3] /\ x1[4] = x[4]
      /\ x2 \in Seq(S) /\ Len(x2) = 4 /\ x2[1] = x[5] /\ x2[2] = x[6] /\ x2[3] = x[7] /\ x2[4] = x[8]
  BY <1>1, <1>2
<1>4. /\ y1 \in Seq(S) /\ Len(y1) = 4 /\ y1[1] = y[1] /\ y1[2] = y[2] /\ y1[3] = y[3] /\ y1[4] = y[4]
      /\ y2 \in Seq(S) /\ Len(y2) = 4 /\ y2[1] = y[5] /\ y2[2] = y[6] /\ y2[3] = y[7] /\ y2[4] = y[8]
  BY <1>1, <1>2
<1>5. /\ Joined8(x1, y1) = <<x1[1], x1[2], x1[3], x1[4], y1[1], y1[2], y1[3], y1[4]>>
      /\ Joined8(x2, y2) = <<x2[1], x2[2], x2[3], x2[4], y2[1], y2[2], y2[3], y2[4]>>
  BY <1>3, <1>4, JoinFour
<1>6. SwapHalves(x, y) = <<Joined8(x1, y1), Joined8(x2, y2)>>
  BY <1>2, Zenon DEF SwapHalves, Joined8
<1> QED BY <1>3, <1>4, <1>5, <1>6

\* The four rounds as the column pass loads them ...
EightInColumns(r, e, f, g, k) ==
  /\ DOMAIN r = Slots
  /\ r.a0 = <<e[0], e[1], e[2], e[3], e[4], e[5], e[6], e[7]>>
  /\ r.a1 = <<g[0], g[1], g[2], g[3], g[4], g[5], g[6], g[7]>>
  /\ r.b0 = <<f[0], f[1], f[2], f[3], f[4], f[5], f[6], f[7]>>
  /\ r.b1 = <<k[0], k[1], k[2], k[3], k[4], k[5], k[6], k[7]>>
  /\ r.c0 = <<e[8], e[9], e[10], e[11], e[12], e[13], e[14], e[15]>>
  /\ r.c1 = <<g[8], g[9], g[10], g[11], g[12], g[13], g[14], g[15]>>
  /\ r.d0 = <<f[8], f[9], f[10], f[11], f[12], f[13], f[14], f[15]>>
  /\ r.d1 = <<k[8], k[9], k[10], k[11], k[12], k[13], k[14], k[15]>>

\* ... and as the row pass does.
EightInRows(r, e, f, g, k) ==
  /\ DOMAIN r = Slots
  /\ r.a0 = <<e[0], e[1], f[0], f[1], g[0], g[1], k[0], k[1]>>
  /\ r.a1 = <<e[2], e[3], f[2], f[3], g[2], g[3], k[2], k[3]>>
  /\ r.b0 = <<e[4], e[5], f[4], f[5], g[4], g[5], k[4], k[5]>>
  /\ r.b1 = <<e[6], e[7], f[6], f[7], g[6], g[7], k[6], k[7]>>
  /\ r.c0 = <<e[8], e[9], f[8], f[9], g[8], g[9], k[8], k[9]>>
  /\ r.c1 = <<e[10], e[11], f[10], f[11], g[10], g[11], k[10], k[11]>>
  /\ r.d0 = <<e[12], e[13], f[12], f[13], g[12], g[13], k[12], k[13]>>
  /\ r.d1 = <<e[14], e[15], f[14], f[15], g[14], g[15], k[14], k[15]>>

\* What swap_quarters makes of two registers.
LEMMA SwappedQuarters ==
  ASSUME NEW S, NEW x \in Seq(S), NEW y \in Seq(S), Len(x) = 8, Len(y) = 8
  PROVE  SwapQuarters(x, y) = << <<x[1], x[2], y[1], y[2], x[3], x[4], y[3], y[4]>>,
                                 <<x[5], x[6], y[5], y[6], x[7], x[8], y[7], y[8]>> >>
<1>1. PICK t : t = SwapHalves(x, y)
  OBVIOUS
<1>2. t = << <<x[1], x[2], x[3], x[4], y[1], y[2], y[3], y[4]>>,
             <<x[5], x[6], x[7], x[8], y[5], y[6], y[7], y[8]>> >>
  BY <1>1, SwappedHalves
<1>3. <<Quarters(t[1]), Quarters(t[2])>>
        = << <<x[1], x[2], y[1], y[2], x[3], x[4], y[3], y[4]>>,
             <<x[5], x[6], y[5], y[6], x[7], x[8], y[7], y[8]>> >>
  BY <1>2 DEF Quarters
<1> QED BY <1>1, <1>3, Zenon DEF SwapQuarters

\* What unswap_quarters makes of two registers.
LEMMA UnswappedQuarters ==
  ASSUME NEW S, NEW x \in Seq(S), NEW y \in Seq(S), Len(x) = 8, Len(y) = 8
  PROVE  UnswapQuarters(x, y) = << <<x[1], x[2], x[5], x[6], y[1], y[2], y[5], y[6]>>,
                                   <<x[3], x[4], x[7], x[8], y[3], y[4], y[7], y[8]>> >>
<1>1. PICK u, v : u = Quarters(x) /\ v = Quarters(y)
  OBVIOUS
<1>2. \A i \in 1 .. 8 : x[i] \in S /\ y[i] \in S
  BY ElementOfSeq
<1>3. u = <<x[1], x[2], x[5], x[6], x[3], x[4], x[7], x[8]>>
      /\ v = <<y[1], y[2], y[5], y[6], y[3], y[4], y[7], y[8]>>
  BY <1>1 DEF Quarters
<1>4. u \in Seq(S) /\ v \in Seq(S) /\ Len(u) = 8 /\ Len(v) = 8
  BY <1>2, <1>3
<1>5. SwapHalves(u, v) = << <<u[1], u[2], u[3], u[4], v[1], v[2], v[3], v[4]>>,
                            <<u[5], u[6], u[7], u[8], v[5], v[6], v[7], v[8]>> >>
  BY <1>4, SwappedHalves
<1>6. UnswapQuarters(x, y) = SwapHalves(u, v)
  BY <1>1, Zenon DEF UnswapQuarters
<1> QED BY <1>3, <1>5, <1>6

\* The pair of registers that s is swapped in.
PairOf(p, s) == CHOOSE ij \in p : s \in {ij[1], ij[2]}

\* The pairs that swap_halves is called on.
LEMMA HalfPair ==
  ASSUME NEW s \in Slots
  PROVE  PairOf(HalfPairs, s) =
           IF s \in {"a0", "b0"} THEN <<"a0", "b0">> ELSE
           IF s \in {"c0", "d0"} THEN <<"c0", "d0">> ELSE
           IF s \in {"a1", "b1"} THEN <<"a1", "b1">> ELSE
           <<"c1", "d1">>
BY DEF PairOf, HalfPairs, Slots

\* swap_halves on every pair of a round.
LEMMA SwapHalvesPairwise ==
  ASSUME NEW r, NEW q, q = Pairwise(r, SwapHalves, HalfPairs)
  PROVE  /\ DOMAIN q = Slots
         /\ q.a0 = SwapHalves(r.a0, r.b0)[1] /\ q.b0 = SwapHalves(r.a0, r.b0)[2]
         /\ q.c0 = SwapHalves(r.c0, r.d0)[1] /\ q.d0 = SwapHalves(r.c0, r.d0)[2]
         /\ q.a1 = SwapHalves(r.a1, r.b1)[1] /\ q.b1 = SwapHalves(r.a1, r.b1)[2]
         /\ q.c1 = SwapHalves(r.c1, r.d1)[1] /\ q.d1 = SwapHalves(r.c1, r.d1)[2]
<1>1. q = [s \in Slots |->
             LET t == SwapHalves(r[PairOf(HalfPairs, s)[1]], r[PairOf(HalfPairs, s)[2]])
             IN IF s = PairOf(HalfPairs, s)[1] THEN t[1] ELSE t[2]]
  BY Zenon DEF Pairwise, PairOf
<1>2. DOMAIN q = Slots
  BY <1>1
<1>3. \A s \in Slots :
        q[s] = IF s = PairOf(HalfPairs, s)[1]
               THEN SwapHalves(r[PairOf(HalfPairs, s)[1]], r[PairOf(HalfPairs, s)[2]])[1]
               ELSE SwapHalves(r[PairOf(HalfPairs, s)[1]], r[PairOf(HalfPairs, s)[2]])[2]
  BY <1>1, Zenon
<1>4. q.a0 = SwapHalves(r.a0, r.b0)[1] /\ q.b0 = SwapHalves(r.a0, r.b0)[2]
  <2>1. /\ "a0" \in Slots /\ PairOf(HalfPairs, "a0") = <<"a0", "b0">>
        /\ "b0" \in Slots /\ PairOf(HalfPairs, "b0") = <<"a0", "b0">>
    BY HalfPair DEF Slots
  <2>2. /\ PairOf(HalfPairs, "a0")[1] = "a0" /\ PairOf(HalfPairs, "a0")[2] = "b0"
        /\ PairOf(HalfPairs, "b0")[1] = "a0" /\ PairOf(HalfPairs, "b0")[2] = "b0"
    BY <2>1
  <2>3. /\ q["a0"] = SwapHalves(r["a0"], r["b0"])[1]
        /\ q["b0"] = SwapHalves(r["a0"], r["b0"])[2]
    BY <1>3, <2>1, <2>2
  <2> QED BY <2>3
<1>5. q.c0 = SwapHalves(r.c0, r.d0)[1] /\ q.d0 = SwapHalves(r.c0, r.d0)[2]
  <2>1. /\ "c0" \in Slots /\ PairOf(HalfPairs, "c0") = <<"c0", "d0">>
        /\ "d0" \in Slots /\ PairOf(HalfPairs, "d0") = <<"c0", "d0">>
    BY HalfPair DEF Slots
  <2>2. /\ PairOf(HalfPairs, "c0")[1] = "c0" /\ PairOf(HalfPairs, "c0")[2] = "d0"
        /\ PairOf(HalfPairs, "d0")[1] = "c0" /\ PairOf(HalfPairs, "d0")[2] = "d0"
    BY <2>1
  <2>3. /\ q["c0"] = SwapHalves(r["c0"], r["d0"])[1]
        /\ q["d0"] = SwapHalves(r["c0"], r["d0"])[2]
    BY <1>3, <2>1, <2>2
  <2> QED BY <2>3
<1>6. q.a1 = SwapHalves(r.a1, r.b1)[1] /\ q.b1 = SwapHalves(r.a1, r.b1)[2]
  <2>1. /\ "a1" \in Slots /\ PairOf(HalfPairs, "a1") = <<"a1", "b1">>
        /\ "b1" \in Slots /\ PairOf(HalfPairs, "b1") = <<"a1", "b1">>
    BY HalfPair DEF Slots
  <2>2. /\ PairOf(HalfPairs, "a1")[1] = "a1" /\ PairOf(HalfPairs, "a1")[2] = "b1"
        /\ PairOf(HalfPairs, "b1")[1] = "a1" /\ PairOf(HalfPairs, "b1")[2] = "b1"
    BY <2>1
  <2>3. /\ q["a1"] = SwapHalves(r["a1"], r["b1"])[1]
        /\ q["b1"] = SwapHalves(r["a1"], r["b1"])[2]
    BY <1>3, <2>1, <2>2
  <2> QED BY <2>3
<1>7. q.c1 = SwapHalves(r.c1, r.d1)[1] /\ q.d1 = SwapHalves(r.c1, r.d1)[2]
  <2>1. /\ "c1" \in Slots /\ PairOf(HalfPairs, "c1") = <<"c1", "d1">>
        /\ "d1" \in Slots /\ PairOf(HalfPairs, "d1") = <<"c1", "d1">>
    BY HalfPair DEF Slots
  <2>2. /\ PairOf(HalfPairs, "c1")[1] = "c1" /\ PairOf(HalfPairs, "c1")[2] = "d1"
        /\ PairOf(HalfPairs, "d1")[1] = "c1" /\ PairOf(HalfPairs, "d1")[2] = "d1"
    BY <2>1
  <2>3. /\ q["c1"] = SwapHalves(r["c1"], r["d1"])[1]
        /\ q["d1"] = SwapHalves(r["c1"], r["d1"])[2]
    BY <1>3, <2>1, <2>2
  <2> QED BY <2>3
<1> QED BY <1>2, <1>4, <1>5, <1>6, <1>7

\* The pairs that swap_quarters is called on.
LEMMA QuarterPair ==
  ASSUME NEW s \in Slots
  PROVE  PairOf(QuarterPairs, s) =
           IF s \in {"a0", "a1"} THEN <<"a0", "a1">> ELSE
           IF s \in {"b0", "b1"} THEN <<"b0", "b1">> ELSE
           IF s \in {"c0", "c1"} THEN <<"c0", "c1">> ELSE
           <<"d0", "d1">>
BY DEF PairOf, QuarterPairs, Slots

\* swap_quarters on every pair of a round.
LEMMA SwapQuartersPairwise ==
  ASSUME NEW r, NEW q, q = Pairwise(r, SwapQuarters, QuarterPairs)
  PROVE  /\ DOMAIN q = Slots
         /\ q.a0 = SwapQuarters(r.a0, r.a1)[1] /\ q.a1 = SwapQuarters(r.a0, r.a1)[2]
         /\ q.b0 = SwapQuarters(r.b0, r.b1)[1] /\ q.b1 = SwapQuarters(r.b0, r.b1)[2]
         /\ q.c0 = SwapQuarters(r.c0, r.c1)[1] /\ q.c1 = SwapQuarters(r.c0, r.c1)[2]
         /\ q.d0 = SwapQuarters(r.d0, r.d1)[1] /\ q.d1 = SwapQuarters(r.d0, r.d1)[2]
<1>1. q = [s \in Slots |->
             LET t == SwapQuarters(r[PairOf(QuarterPairs, s)[1]], r[PairOf(QuarterPairs, s)[2]])
             IN IF s = PairOf(QuarterPairs, s)[1] THEN t[1] ELSE t[2]]
  BY Zenon DEF Pairwise, PairOf
<1>2. DOMAIN q = Slots
  BY <1>1
<1>3. \A s \in Slots :
        q[s] = IF s = PairOf(QuarterPairs, s)[1]
               THEN SwapQuarters(r[PairOf(QuarterPairs, s)[1]], r[PairOf(QuarterPairs, s)[2]])[1]
               ELSE SwapQuarters(r[PairOf(QuarterPairs, s)[1]], r[PairOf(QuarterPairs, s)[2]])[2]
  BY <1>1, Zenon
<1>4. q.a0 = SwapQuarters(r.a0, r.a1)[1] /\ q.a1 = SwapQuarters(r.a0, r.a1)[2]
  <2>1. /\ "a0" \in Slots /\ PairOf(QuarterPairs, "a0") = <<"a0", "a1">>
        /\ "a1" \in Slots /\ PairOf(QuarterPairs, "a1") = <<"a0", "a1">>
    BY QuarterPair DEF Slots
  <2>2. /\ PairOf(QuarterPairs, "a0")[1] = "a0" /\ PairOf(QuarterPairs, "a0")[2] = "a1"
        /\ PairOf(QuarterPairs, "a1")[1] = "a0" /\ PairOf(QuarterPairs, "a1")[2] = "a1"
    BY <2>1
  <2>3. /\ q["a0"] = SwapQuarters(r["a0"], r["a1"])[1]
        /\ q["a1"] = SwapQuarters(r["a0"], r["a1"])[2]
    BY <1>3, <2>1, <2>2
  <2> QED BY <2>3
<1>5. q.b0 = SwapQuarters(r.b0, r.b1)[1] /\ q.b1 = SwapQuarters(r.b0, r.b1)[2]
  <2>1. /\ "b0" \in Slots /\ PairOf(QuarterPairs, "b0") = <<"b0", "b1">>
        /\ "b1" \in Slots /\ PairOf(QuarterPairs, "b1") = <<"b0", "b1">>
    BY QuarterPair DEF Slots
  <2>2. /\ PairOf(QuarterPairs, "b0")[1] = "b0" /\ PairOf(QuarterPairs, "b0")[2] = "b1"
        /\ PairOf(QuarterPairs, "b1")[1] = "b0" /\ PairOf(QuarterPairs, "b1")[2] = "b1"
    BY <2>1
  <2>3. /\ q["b0"] = SwapQuarters(r["b0"], r["b1"])[1]
        /\ q["b1"] = SwapQuarters(r["b0"], r["b1"])[2]
    BY <1>3, <2>1, <2>2
  <2> QED BY <2>3
<1>6. q.c0 = SwapQuarters(r.c0, r.c1)[1] /\ q.c1 = SwapQuarters(r.c0, r.c1)[2]
  <2>1. /\ "c0" \in Slots /\ PairOf(QuarterPairs, "c0") = <<"c0", "c1">>
        /\ "c1" \in Slots /\ PairOf(QuarterPairs, "c1") = <<"c0", "c1">>
    BY QuarterPair DEF Slots
  <2>2. /\ PairOf(QuarterPairs, "c0")[1] = "c0" /\ PairOf(QuarterPairs, "c0")[2] = "c1"
        /\ PairOf(QuarterPairs, "c1")[1] = "c0" /\ PairOf(QuarterPairs, "c1")[2] = "c1"
    BY <2>1
  <2>3. /\ q["c0"] = SwapQuarters(r["c0"], r["c1"])[1]
        /\ q["c1"] = SwapQuarters(r["c0"], r["c1"])[2]
    BY <1>3, <2>1, <2>2
  <2> QED BY <2>3
<1>7. q.d0 = SwapQuarters(r.d0, r.d1)[1] /\ q.d1 = SwapQuarters(r.d0, r.d1)[2]
  <2>1. /\ "d0" \in Slots /\ PairOf(QuarterPairs, "d0") = <<"d0", "d1">>
        /\ "d1" \in Slots /\ PairOf(QuarterPairs, "d1") = <<"d0", "d1">>
    BY QuarterPair DEF Slots
  <2>2. /\ PairOf(QuarterPairs, "d0")[1] = "d0" /\ PairOf(QuarterPairs, "d0")[2] = "d1"
        /\ PairOf(QuarterPairs, "d1")[1] = "d0" /\ PairOf(QuarterPairs, "d1")[2] = "d1"
    BY <2>1
  <2>3. /\ q["d0"] = SwapQuarters(r["d0"], r["d1"])[1]
        /\ q["d1"] = SwapQuarters(r["d0"], r["d1"])[2]
    BY <1>3, <2>1, <2>2
  <2> QED BY <2>3
<1> QED BY <1>2, <1>4, <1>5, <1>6, <1>7

\* unswap_quarters on every pair of a round.
LEMMA UnswapQuartersPairwise ==
  ASSUME NEW r, NEW q, q = Pairwise(r, UnswapQuarters, QuarterPairs)
  PROVE  /\ DOMAIN q = Slots
         /\ q.a0 = UnswapQuarters(r.a0, r.a1)[1] /\ q.a1 = UnswapQuarters(r.a0, r.a1)[2]
         /\ q.b0 = UnswapQuarters(r.b0, r.b1)[1] /\ q.b1 = UnswapQuarters(r.b0, r.b1)[2]
         /\ q.c0 = UnswapQuarters(r.c0, r.c1)[1] /\ q.c1 = UnswapQuarters(r.c0, r.c1)[2]
         /\ q.d0 = UnswapQuarters(r.d0, r.d1)[1] /\ q.d1 = UnswapQuarters(r.d0, r.d1)[2]
<1>1. q = [s \in Slots |->
             LET t == UnswapQuarters(r[PairOf(QuarterPairs, s)[1]], r[PairOf(QuarterPairs, s)[2]])
             IN IF s = PairOf(QuarterPairs, s)[1] THEN t[1] ELSE t[2]]
  BY Zenon DEF Pairwise, PairOf
<1>2. DOMAIN q = Slots
  BY <1>1
<1>3. \A s \in Slots :
        q[s] = IF s = PairOf(QuarterPairs, s)[1]
               THEN UnswapQuarters(r[PairOf(QuarterPairs, s)[1]], r[PairOf(QuarterPairs, s)[2]])[1]
               ELSE UnswapQuarters(r[PairOf(QuarterPairs, s)[1]], r[PairOf(QuarterPairs, s)[2]])[2]
  BY <1>1, Zenon
<1>4. q.a0 = UnswapQuarters(r.a0, r.a1)[1] /\ q.a1 = UnswapQuarters(r.a0, r.a1)[2]
  <2>1. /\ "a0" \in Slots /\ PairOf(QuarterPairs, "a0") = <<"a0", "a1">>
        /\ "a1" \in Slots /\ PairOf(QuarterPairs, "a1") = <<"a0", "a1">>
    BY QuarterPair DEF Slots
  <2>2. /\ PairOf(QuarterPairs, "a0")[1] = "a0" /\ PairOf(QuarterPairs, "a0")[2] = "a1"
        /\ PairOf(QuarterPairs, "a1")[1] = "a0" /\ PairOf(QuarterPairs, "a1")[2] = "a1"
    BY <2>1
  <2>3. /\ q["a0"] = UnswapQuarters(r["a0"], r["a1"])[1]
        /\ q["a1"] = UnswapQuarters(r["a0"], r["a1"])[2]
    BY <1>3, <2>1, <2>2
  <2> QED BY <2>3
<1>5. q.b0 = UnswapQuarters(r.b0, r.b1)[1] /\ q.b1 = UnswapQuarters(r.b0, r.b1)[2]
  <2>1. /\ "b0" \in Slots /\ PairOf(QuarterPairs, "b0") = <<"b0", "b1">>
        /\ "b1" \in Slots /\ PairOf(QuarterPairs, "b1") = <<"b0", "b1">>
    BY QuarterPair DEF Slots
  <2>2. /\ PairOf(QuarterPairs, "b0")[1] = "b0" /\ PairOf(QuarterPairs, "b0")[2] = "b1"
        /\ PairOf(QuarterPairs, "b1")[1] = "b0" /\ PairOf(QuarterPairs, "b1")[2] = "b1"
    BY <2>1
  <2>3. /\ q["b0"] = UnswapQuarters(r["b0"], r["b1"])[1]
        /\ q["b1"] = UnswapQuarters(r["b0"], r["b1"])[2]
    BY <1>3, <2>1, <2>2
  <2> QED BY <2>3
<1>6. q.c0 = UnswapQuarters(r.c0, r.c1)[1] /\ q.c1 = UnswapQuarters(r.c0, r.c1)[2]
  <2>1. /\ "c0" \in Slots /\ PairOf(QuarterPairs, "c0") = <<"c0", "c1">>
        /\ "c1" \in Slots /\ PairOf(QuarterPairs, "c1") = <<"c0", "c1">>
    BY QuarterPair DEF Slots
  <2>2. /\ PairOf(QuarterPairs, "c0")[1] = "c0" /\ PairOf(QuarterPairs, "c0")[2] = "c1"
        /\ PairOf(QuarterPairs, "c1")[1] = "c0" /\ PairOf(QuarterPairs, "c1")[2] = "c1"
    BY <2>1
  <2>3. /\ q["c0"] = UnswapQuarters(r["c0"], r["c1"])[1]
        /\ q["c1"] = UnswapQuarters(r["c0"], r["c1"])[2]
    BY <1>3, <2>1, <2>2
  <2> QED BY <2>3
<1>7. q.d0 = UnswapQuarters(r.d0, r.d1)[1] /\ q.d1 = UnswapQuarters(r.d0, r.d1)[2]
  <2>1. /\ "d0" \in Slots /\ PairOf(QuarterPairs, "d0") = <<"d0", "d1">>
        /\ "d1" \in Slots /\ PairOf(QuarterPairs, "d1") = <<"d0", "d1">>
    BY QuarterPair DEF Slots
  <2>2. /\ PairOf(QuarterPairs, "d0")[1] = "d0" /\ PairOf(QuarterPairs, "d0")[2] = "d1"
        /\ PairOf(QuarterPairs, "d1")[1] = "d0" /\ PairOf(QuarterPairs, "d1")[2] = "d1"
    BY <2>1
  <2>3. /\ q["d0"] = UnswapQuarters(r["d0"], r["d1"])[1]
        /\ q["d1"] = UnswapQuarters(r["d0"], r["d1"])[2]
    BY <1>3, <2>1, <2>2
  <2> QED BY <2>3
<1> QED BY <1>2, <1>4, <1>5, <1>6, <1>7

\* swap_halves brings the rows of four loaded rounds together ...
LEMMA HalvesIn ==
  ASSUME NEW S, NEW e \in [0 .. 15 -> S], NEW f \in [0 .. 15 -> S],
         NEW g \in [0 .. 15 -> S], NEW k \in [0 .. 15 -> S], NEW r, EightInColumns(r, e, f, g, k)
  PROVE  EightInTurn(Pairwise(r, SwapHalves, HalfPairs), e, f, g, k, 0)
<1>1. PICK q : q = Pairwise(r, SwapHalves, HalfPairs)
  OBVIOUS
<1>2. /\ q.a0 = <<e[0], e[1], e[2], e[3], f[0], f[1], f[2], f[3]>>
      /\ q.b0 = <<e[4], e[5], e[6], e[7], f[4], f[5], f[6], f[7]>>
  <2>1. PICK x, y, z : x = r.a0 /\ y = r.b0 /\ z = SwapHalves(x, y)
    OBVIOUS
  <2>2. /\ x = <<e[0], e[1], e[2], e[3], e[4], e[5], e[6], e[7]>>
        /\ y = <<f[0], f[1], f[2], f[3], f[4], f[5], f[6], f[7]>>
    BY <2>1 DEF EightInColumns
  <2>3. x \in Seq(S) /\ y \in Seq(S) /\ Len(x) = 8 /\ Len(y) = 8
    BY <2>2
  <2>4. q.a0 = z[1] /\ q.b0 = z[2]
    BY <1>1, <2>1, SwapHalvesPairwise
  <2>5. z = << <<x[1], x[2], x[3], x[4], y[1], y[2], y[3], y[4]>>,
             <<x[5], x[6], x[7], x[8], y[5], y[6], y[7], y[8]>> >>
    BY <2>1, <2>3, SwappedHalves
  <2> QED BY <2>2, <2>4, <2>5
<1>3. /\ q.c0 = <<e[8], e[9], e[10], e[11], f[8], f[9], f[10], f[11]>>
      /\ q.d0 = <<e[12], e[13], e[14], e[15], f[12], f[13], f[14], f[15]>>
  <2>1. PICK x, y, z : x = r.c0 /\ y = r.d0 /\ z = SwapHalves(x, y)
    OBVIOUS
  <2>2. /\ x = <<e[8], e[9], e[10], e[11], e[12], e[13], e[14], e[15]>>
        /\ y = <<f[8], f[9], f[10], f[11], f[12], f[13], f[14], f[15]>>
    BY <2>1 DEF EightInColumns
  <2>3. x \in Seq(S) /\ y \in Seq(S) /\ Len(x) = 8 /\ Len(y) = 8
    BY <2>2
  <2>4. q.c0 = z[1] /\ q.d0 = z[2]
    BY <1>1, <2>1, SwapHalvesPairwise
  <2>5. z = << <<x[1], x[2], x[3], x[4], y[1], y[2], y[3], y[4]>>,
             <<x[5], x[6], x[7], x[8], y[5], y[6], y[7], y[8]>> >>
    BY <2>1, <2>3, SwappedHalves
  <2> QED BY <2>2, <2>4, <2>5
<1>4. /\ q.a1 = <<g[0], g[1], g[2], g[3], k[0], k[1], k[2], k[3]>>
      /\ q.b1 = <<g[4], g[5], g[6], g[7], k[4], k[5], k[6], k[7]>>
  <2>1. PICK x, y, z : x = r.a1 /\ y = r.b1 /\ z = SwapHalves(x, y)
    OBVIOUS
  <2>2. /\ x = <<g[0], g[1], g[2], g[3], g[4], g[5], g[6], g[7]>>
        /\ y = <<k[0], k[1], k[2], k[3], k[4], k[5], k[6], k[7]>>
    BY <2>1 DEF EightInColumns
  <2>3. x \in Seq(S) /\ y \in Seq(S) /\ Len(x) = 8 /\ Len(y) = 8
    BY <2>2
  <2>4. q.a1 = z[1] /\ q.b1 = z[2]
    BY <1>1, <2>1, SwapHalvesPairwise
  <2>5. z = << <<x[1], x[2], x[3], x[4], y[1], y[2], y[3], y[4]>>,
             <<x[5], x[6], x[7], x[8], y[5], y[6], y[7], y[8]>> >>
    BY <2>1, <2>3, SwappedHalves
  <2> QED BY <2>2, <2>4, <2>5
<1>5. /\ q.c1 = <<g[8], g[9], g[10], g[11], k[8], k[9], k[10], k[11]>>
      /\ q.d1 = <<g[12], g[13], g[14], g[15], k[12], k[13], k[14], k[15]>>
  <2>1. PICK x, y, z : x = r.c1 /\ y = r.d1 /\ z = SwapHalves(x, y)
    OBVIOUS
  <2>2. /\ x = <<g[8], g[9], g[10], g[11], g[12], g[13], g[14], g[15]>>
        /\ y = <<k[8], k[9], k[10], k[11], k[12], k[13], k[14], k[15]>>
    BY <2>1 DEF EightInColumns
  <2>3. x \in Seq(S) /\ y \in Seq(S) /\ Len(x) = 8 /\ Len(y) = 8
    BY <2>2
  <2>4. q.c1 = z[1] /\ q.d1 = z[2]
    BY <1>1, <2>1, SwapHalvesPairwise
  <2>5. z = << <<x[1], x[2], x[3], x[4], y[1], y[2], y[3], y[4]>>,
             <<x[5], x[6], x[7], x[8], y[5], y[6], y[7], y[8]>> >>
    BY <2>1, <2>3, SwappedHalves
  <2> QED BY <2>2, <2>4, <2>5
<1>6. DOMAIN q = Slots
  BY <1>1, SwapHalvesPairwise
<1> QED BY <1>1, <1>2, <1>3, <1>4, <1>5, <1>6 DEF EightInTurn

\* ... and takes them apart again.
LEMMA HalvesOut ==
  ASSUME NEW S, NEW e \in [0 .. 15 -> S], NEW f \in [0 .. 15 -> S],
         NEW g \in [0 .. 15 -> S], NEW k \in [0 .. 15 -> S], NEW r, EightInTurn(r, e, f, g, k, 0)
  PROVE  EightInColumns(Pairwise(r, SwapHalves, HalfPairs), e, f, g, k)
<1>1. PICK q : q = Pairwise(r, SwapHalves, HalfPairs)
  OBVIOUS
<1>2. /\ q.a0 = <<e[0], e[1], e[2], e[3], e[4], e[5], e[6], e[7]>>
      /\ q.b0 = <<f[0], f[1], f[2], f[3], f[4], f[5], f[6], f[7]>>
  <2>1. PICK x, y, z : x = r.a0 /\ y = r.b0 /\ z = SwapHalves(x, y)
    OBVIOUS
  <2>2. /\ x = <<e[0], e[1], e[2], e[3], f[0], f[1], f[2], f[3]>>
        /\ y = <<e[4], e[5], e[6], e[7], f[4], f[5], f[6], f[7]>>
    BY <2>1 DEF EightInTurn
  <2>3. x \in Seq(S) /\ y \in Seq(S) /\ Len(x) = 8 /\ Len(y) = 8
    BY <2>2
  <2>4. q.a0 = z[1] /\ q.b0 = z[2]
    BY <1>1, <2>1, SwapHalvesPairwise
  <2>5. z = << <<x[1], x[2], x[3], x[4], y[1], y[2], y[3], y[4]>>,
             <<x[5], x[6], x[7], x[8], y[5], y[6], y[7], y[8]>> >>
    BY <2>1, <2>3, SwappedHalves
  <2> QED BY <2>2, <2>4, <2>5
<1>3. /\ q.c0 = <<e[8], e[9], e[10], e[11], e[12], e[13], e[14], e[15]>>
      /\ q.d0 = <<f[8], f[9], f[10], f[11], f[12], f[13], f[14], f[15]>>
  <2>1. PICK x, y, z : x = r.c0 /\ y = r.d0 /\ z = SwapHalves(x, y)
    OBVIOUS
  <2>2. /\ x = <<e[8], e[9], e[10], e[11], f[8], f[9], f[10], f[11]>>
        /\ y = <<e[12], e[13], e[14], e[15], f[12], f[13], f[14], f[15]>>
    BY <2>1 DEF EightInTurn
  <2>3. x \in Seq(S) /\ y \in Seq(S) /\ Len(x) = 8 /\ Len(y) = 8
    BY <2>2
  <2>4. q.c0 = z[1] /\ q.d0 = z[2]
    BY <1>1, <2>1, SwapHalvesPairwise
  <2>5. z = << <<x[1], x[2], x[3], x[4], y[1], y[2], y[3], y[4]>>,
             <<x[5], x[6], x[7], x[8], y[5], y[6], y[7], y[8]>> >>
    BY <2>1, <2>3, SwappedHalves
  <2> QED BY <2>2, <2>4, <2>5
<1>4. /\ q.a1 = <<g[0], g[1], g[2], g[3], g[4], g[5], g[6], g[7]>>
      /\ q.b1 = <<k[0], k[1], k[2], k[3], k[4], k[5], k[6], k[7]>>
  <2>1. PICK x, y, z : x = r.a1 /\ y = r.b1 /\ z = SwapHalves(x, y)
    OBVIOUS
  <2>2. /\ x = <<g[0], g[1], g[2], g[3], k[0], k[1], k[2], k[3]>>
        /\ y = <<g[4], g[5], g[6], g[7], k[4], k[5], k[6], k[7]>>
    BY <2>1 DEF EightInTurn
  <2>3. x \in Seq(S) /\ y \in Seq(S) /\ Len(x) = 8 /\ Len(y) = 8
    BY <2>2
  <2>4. q.a1 = z[1] /\ q.b1 = z[2]
    BY <1>1, <2>1, SwapHalvesPairwise
  <2>5. z = << <<x[1], x[2], x[3], x[4], y[1], y[2], y[3], y[4]>>,
             <<x[5], x[6], x[7], x[8], y[5], y[6], y[7], y[8]>> >>
    BY <2>1, <2>3, SwappedHalves
  <2> QED BY <2>2, <2>4, <2>5
<1>5. /\ q.c1 = <<g[8], g[9], g[10], g[11], g[12], g[13], g[14], g[15]>>
      /\ q.d1 = <<k[8], k[9], k[10], k[11], k[12], k[13], k[14], k[15]>>
  <2>1. PICK x, y, z : x = r.c1 /\ y = r.d1 /\ z = SwapHalves(x, y)
    OBVIOUS
  <2>2. /\ x = <<g[8], g[9], g[10], g[11], k[8], k[9], k[10], k[11]>>
        /\ y = <<g[12], g[13], g[14], g[15], k[12], k[13], k[14], k[15]>>
    BY <2>1 DEF EightInTurn
  <2>3. x \in Seq(S) /\ y \in Seq(S) /\ Len(x) = 8 /\ Len(y) = 8
    BY <2>2
  <2>4. q.c1 = z[1] /\ q.d1 = z[2]
    BY <1>1, <2>1, SwapHalvesPairwise
  <2>5. z = << <<x[1], x[2], x[3], x[4], y[1], y[2], y[3], y[4]>>,
             <<x[5], x[6], x[7], x[8], y[5], y[6], y[7], y[8]>> >>
    BY <2>1, <2>3, SwappedHalves
  <2> QED BY <2>2, <2>4, <2>5
<1>6. DOMAIN q = Slots
  BY <1>1, SwapHalvesPairwise
<1> QED BY <1>1, <1>2, <1>3, <1>4, <1>5, <1>6 DEF EightInColumns

\* swap_quarters does so in the row pass ...
LEMMA QuartersIn ==
  ASSUME NEW S, NEW e \in [0 .. 15 -> S], NEW f \in [0 .. 15 -> S],
         NEW g \in [0 .. 15 -> S], NEW k \in [0 .. 15 -> S], NEW r, EightInRows(r, e, f, g, k)
  PROVE  EightInTurn(Pairwise(r, SwapQuarters, QuarterPairs), e, f, g, k, 0)
<1>1. PICK q : q = Pairwise(r, SwapQuarters, QuarterPairs)
  OBVIOUS
<1>2. /\ q.a0 = <<e[0], e[1], e[2], e[3], f[0], f[1], f[2], f[3]>>
      /\ q.a1 = <<g[0], g[1], g[2], g[3], k[0], k[1], k[2], k[3]>>
  <2>1. PICK x, y, z : x = r.a0 /\ y = r.a1 /\ z = SwapQuarters(x, y)
    OBVIOUS
  <2>2. /\ x = <<e[0], e[1], f[0], f[1], g[0], g[1], k[0], k[1]>>
        /\ y = <<e[2], e[3], f[2], f[3], g[2], g[3], k[2], k[3]>>
    BY <2>1 DEF EightInRows
  <2>3. x \in Seq(S) /\ y \in Seq(S) /\ Len(x) = 8 /\ Len(y) = 8
    BY <2>2
  <2>4. q.a0 = z[1] /\ q.a1 = z[2]
    BY <1>1, <2>1, SwapQuartersPairwise
  <2>5. z = << <<x[1], x[2], y[1], y[2], x[3], x[4], y[3], y[4]>>,
             <<x[5], x[6], y[5], y[6], x[7], x[8], y[7], y[8]>> >>
    BY <2>1, <2>3, SwappedQuarters
  <2> QED BY <2>2, <2>4, <2>5
<1>3. /\ q.b0 = <<e[4], e[5], e[6], e[7], f[4], f[5], f[6], f[7]>>
      /\ q.b1 = <<g[4], g[5], g[6], g[7], k[4], k[5], k[6], k[7]>>
  <2>1. PICK x, y, z : x = r.b0 /\ y = r.b1 /\ z = SwapQuarters(x, y)
    OBVIOUS
  <2>2. /\ x = <<e[4], e[5], f[4], f[5], g[4], g[5], k[4], k[5]>>
        /\ y = <<e[6], e[7], f[6], f[7], g[6], g[7], k[6], k[7]>>
    BY <2>1 DEF EightInRows
  <2>3. x \in Seq(S) /\ y \in Seq(S) /\ Len(x) = 8 /\ Len(y) = 8
    BY <2>2
  <2>4. q.b0 = z[1] /\ q.b1 = z[2]
    BY <1>1, <2>1, SwapQuartersPairwise
  <2>5. z = << <<x[1], x[2], y[1], y[2], x[3], x[4], y[3], y[4]>>,
             <<x[5], x[6], y[5], y[6], x[7], x[8], y[7], y[8]>> >>
    BY <2>1, <2>3, SwappedQuarters
  <2> QED BY <2>2, <2>4, <2>5
<1>4. /\ q.c0 = <<e[8], e[9], e[10], e[11], f[8], f[9], f[10], f[11]>>
      /\ q.c1 = <<g[8], g[9], g[10], g[11], k[8], k[9], k[10], k[11]>>
  <2>1. PICK x, y, z : x = r.c0 /\ y = r.c1 /\ z = SwapQuarters(x, y)
    OBVIOUS
  <2>2. /\ x = <<e[8], e[9], f[8], f[9], g[8], g[9], k[8], k[9]>>
        /\ y = <<e[10], e[11], f[10], f[11], g[10], g[11], k[10], k[11]>>
    BY <2>1 DEF EightInRows
  <2>3. x \in Seq(S) /\ y \in Seq(S) /\ Len(x) = 8 /\ Len(y) = 8
    BY <2>2
  <2>4. q.c0 = z[1] /\ q.c1 = z[2]
    BY <1>1, <2>1, SwapQuartersPairwise
  <2>5. z = << <<x[1], x[2], y[1], y[2], x[3], x[4], y[3], y[4]>>,
             <<x[5], x[6], y[5], y[6], x[7], x[8], y[7], y[8]>> >>
    BY <2>1, <2>3, SwappedQuarters
  <2> QED BY <2>2, <2>4, <2>5
<1>5. /\ q.d0 = <<e[12], e[13], e[14], e[15], f[12], f[13], f[14], f[15]>>
      /\ q.d1 = <<g[12], g[13], g[14], g[15], k[12], k[13], k[14], k[15]>>
  <2>1. PICK x, y, z : x = r.d0 /\ y = r.d1 /\ z = SwapQuarters(x, y)
    OBVIOUS
  <2>2. /\ x = <<e[12], e[13], f[12], f[13], g[12], g[13], k[12], k[13]>>
        /\ y = <<e[14], e[15], f[14], f[15], g[14], g[15], k[14], k[15]>>
    BY <2>1 DEF EightInRows
  <2>3. x \in Seq(S) /\ y \in Seq(S) /\ Len(x) = 8 /\ Len(y) = 8
    BY <2>2
  <2>4. q.d0 = z[1] /\ q.d1 = z[2]
    BY <1>1, <2>1, SwapQuartersPairwise
  <2>5. z = << <<x[1], x[2], y[1], y[2], x[3], x[4], y[3], y[4]>>,
             <<x[5], x[6], y[5], y[6], x[7], x[8], y[7], y[8]>> >>
    BY <2>1, <2>3, SwappedQuarters
  <2> QED BY <2>2, <2>4, <2>5
<1>6. DOMAIN q = Slots
  BY <1>1, SwapQuartersPairwise
<1> QED BY <1>1, <1>2, <1>3, <1>4, <1>5, <1>6 DEF EightInTurn

\* ... and unswap_quarters undoes it.
LEMMA QuartersOut ==
  ASSUME NEW S, NEW e \in [0 .. 15 -> S], NEW f \in [0 .. 15 -> S],
         NEW g \in [0 .. 15 -> S], NEW k \in [0 .. 15 -> S], NEW r, EightInTurn(r, e, f, g, k, 0)
  PROVE  EightInRows(Pairwise(r, UnswapQuarters, QuarterPairs), e, f, g, k)
<1>1. PICK q : q = Pairwise(r, UnswapQuarters, QuarterPairs)
  OBVIOUS
<1>2. /\ q.a0 = <<e[0], e[1], f[0], f[1], g[0], g[1], k[0], k[1]>>
      /\ q.a1 = <<e[2], e[3], f[2], f[3], g[2], g[3], k[2], k[3]>>
  <2>1. PICK x, y, z : x = r.a0 /\ y = r.a1 /\ z = UnswapQuarters(x, y)
    OBVIOUS
  <2>2. /\ x = <<e[0], e[1], e[2], e[3], f[0], f[1], f[2], f[3]>>
        /\ y = <<g[0], g[1], g[2], g[3], k[0], k[1], k[2], k[3]>>
    BY <2>1 DEF EightInTurn
  <2>3. x \in Seq(S) /\ y \in Seq(S) /\ Len(x) = 8 /\ Len(y) = 8
    BY <2>2
  <2>4. q.a0 = z[1] /\ q.a1 = z[2]
    BY <1>1, <2>1, UnswapQuartersPairwise
  <2>5. z = << <<x[1], x[2], x[5], x[6], y[1], y[2], y[5], y[6]>>,
             <<x[3], x[4], x[7], x[8], y[3], y[4], y[7], y[8]>> >>
    BY <2>1, <2>3, UnswappedQuarters
  <2> QED BY <2>2, <2>4, <2>5
<1>3. /\ q.b0 = <<e[4], e[5], f[4], f[5], g[4], g[5], k[4], k[5]>>
      /\ q.b1 = <<e[6], e[7], f[6], f[7], g[6], g[7], k[6], k[7]>>
  <2>1. PICK x, y, z : x = r.b0 /\ y = r.b1 /\ z = UnswapQuarters(x, y)
    OBVIOUS
  <2>2. /\ x = <<e[4], e[5], e[6], e[7], f[4], f[5], f[6], f[7]>>
        /\ y = <<g[4], g[5], g[6], g[7], k[4], k[5], k[6], k[7]>>
    BY <2>1 DEF EightInTurn
  <2>3. x \in Seq(S) /\ y \in Seq(S) /\ Len(x) = 8 /\ Len(y) = 8
    BY <2>2
  <2>4. q.b0 = z[1] /\ q.b1 = z[2]
    BY <1>1, <2>1, UnswapQuartersPairwise
  <2>5. z = << <<x[1], x[2], x[5], x[6], y[1], y[2], y[5], y[6]>>,
             <<x[3], x[4], x[7], x[8], y[3], y[4], y[7], y[8]>> >>
    BY <2>1, <2>3, UnswappedQuarters
  <2> QED BY <2>2, <2>4, <2>5
<1>4. /\ q.c0 = <<e[8], e[9], f[8], f[9], g[8], g[9], k[8], k[9]>>
      /\ q.c1 = <<e[10], e[11], f[10], f[11], g[10], g[11], k[10], k[11]>>
  <2>1. PICK x, y, z : x = r.c0 /\ y = r.c1 /\ z = UnswapQuarters(x, y)
    OBVIOUS
  <2>2. /\ x = <<e[8], e[9], e[10], e[11], f[8], f[9], f[10], f[11]>>
        /\ y = <<g[8], g[9], g[10], g[11], k[8], k[9], k[10], k[11]>>
    BY <2>1 DEF EightInTurn
  <2>3. x \in Seq(S) /\ y \in Seq(S) /\ Len(x) = 8 /\ Len(y) = 8
    BY <2>2
  <2>4. q.c0 = z[1] /\ q.c1 = z[2]
    BY <1>1, <2>1, UnswapQuartersPairwise
  <2>5. z = << <<x[1], x[2], x[5], x[6], y[1], y[2], y[5], y[6]>>,
             <<x[3], x[4], x[7], x[8], y[3], y[4], y[7], y[8]>> >>
    BY <2>1, <2>3, UnswappedQuarters
  <2> QED BY <2>2, <2>4, <2>5
<1>5. /\ q.d0 = <<e[12], e[13], f[12], f[13], g[12], g[13], k[12], k[13]>>
      /\ q.d1 = <<e[14], e[15], f[14], f[15], g[14], g[15], k[14], k[15]>>
  <2>1. PICK x, y, z : x = r.d0 /\ y = r.d1 /\ z = UnswapQuarters(x, y)
    OBVIOUS
  <2>2. /\ x = <<e[12], e[13], e[14], e[15], f[12], f[13], f[14], f[15]>>
        /\ y = <<g[12], g[13], g[14], g[15], k[12], k[13], k[14], k[15]>>
    BY <2>1 DEF EightInTurn
  <2>3. x \in Seq(S) /\ y \in Seq(S) /\ Len(x) = 8 /\ Len(y) = 8
    BY <2>2
  <2>4. q.d0 = z[1] /\ q.d1 = z[2]
    BY <1>1, <2>1, UnswapQuartersPairwise
  <2>5. z = << <<x[1], x[2], x[5], x[6], y[1], y[2], y[5], y[6]>>,
             <<x[3], x[4], x[7], x[8], y[3], y[4], y[7], y[8]>> >>
    BY <2>1, <2>3, UnswappedQuarters
  <2> QED BY <2>2, <2>4, <2>5
<1>6. DOMAIN q = Slots
  BY <1>1, UnswapQuartersPairwise
<1> QED BY <1>1, <1>2, <1>3, <1>4, <1>5, <1>6 DEF EightInRows

-----------------------------------------------------------------------------
(* FillKernels: what a round holds                                           *)

\* The sixteen words of a round of the scalar kernel.
RowOf(p, i) == [m \in 0 .. 15 |-> WordOf(p, i, m)]

\* A round is of the block's words.
LEMMA RowOfWords ==
  ASSUME NEW p \in Passes, NEW i \in 0 .. 7
  PROVE  RowOf(p, i) \in [0 .. 15 -> Word]
BY WordOfPlace DEF RowOf

\* The registers of round i, before (0) and after (1) the rotation.
LaidAs(k, p, r, i, d) ==
  IF k = "avx512"
  THEN EightInTurn(r, RowOf(p, 4 * i), RowOf(p, 4 * i + 1),
                      RowOf(p, 4 * i + 2), RowOf(p, 4 * i + 3), d)
  ELSE IF k = "avx2"
  THEN IF p = "columns" THEN FourInColumns(r, RowOf(p, 2 * i), RowOf(p, 2 * i + 1), d)
       ELSE FourInRows(r, RowOf(p, 2 * i), RowOf(p, 2 * i + 1), d)
  ELSE Two(r, RowOf(p, i), d)
Laid(r, i, d) == LaidAs(kernel, pass, r, i, d)

\* The registers as they lie in state.
AtHome(r, i) ==
  /\ DOMAIN r = Slots
  /\ \A s \in Slots : r[s] = Home(RegisterOf(i, s))

\* The words a register of the block holds, by the width of the registers.
LEMMA HomesAre ==
  ASSUME NEW j \in Nat
  PROVE  /\ kernel \in Narrow => Home(j) = <<2 * j, 2 * j + 1>>
         /\ kernel = "avx2" => Home(j) = <<4 * j, 4 * j + 1, 4 * j + 2, 4 * j + 3>>
         /\ kernel = "avx512" => Home(j) = <<8 * j, 8 * j + 1, 8 * j + 2, 8 * j + 3,
                                             8 * j + 4, 8 * j + 5, 8 * j + 6, 8 * j + 7>>
<1>1. ASSUME kernel \in Narrow PROVE Home(j) = <<2 * j, 2 * j + 1>>
  BY <1>1, NarrowShape DEF Home, Place
<1>2. ASSUME kernel = "avx2" PROVE Home(j) = <<4 * j, 4 * j + 1, 4 * j + 2, 4 * j + 3>>
  BY <1>2, Avx2Shape DEF Home, Place
<1>3. ASSUME kernel = "avx512"
      PROVE  Home(j) = <<8 * j, 8 * j + 1, 8 * j + 2, 8 * j + 3,
                         8 * j + 4, 8 * j + 5, 8 * j + 6, 8 * j + 7>>
  BY <1>3, Avx512Shape DEF Home, Place
<1> QED BY <1>1, <1>2, <1>3

\* The words of a round of each pass, by number.
LEMMA RowsAre ==
  ASSUME NEW i \in 0 .. 7, NEW m \in 0 .. 15
  PROVE  /\ RowOf("columns", i)[m] = 16 * i + m
         /\ RowOf("rows", i)[m] = 2 * i + 16 * (m \div 2) + (m % 2)
BY DEF RowOf, WordOf, ColumnWord, RowWord

\* The registers of two words that the column pass takes are those of its round ...
LEMMA NarrowColumnsHomes ==
  ASSUME kernel \in Narrow, pass = "columns", NEW i \in 0 .. 7, NEW e,
         e = RowOf("columns", i)
  PROVE  /\ Home(RegisterOf(i, "a0")) = <<e[0], e[1]>>
         /\ Home(RegisterOf(i, "a1")) = <<e[2], e[3]>>
         /\ Home(RegisterOf(i, "b0")) = <<e[4], e[5]>>
         /\ Home(RegisterOf(i, "b1")) = <<e[6], e[7]>>
         /\ Home(RegisterOf(i, "c0")) = <<e[8], e[9]>>
         /\ Home(RegisterOf(i, "c1")) = <<e[10], e[11]>>
         /\ Home(RegisterOf(i, "d0")) = <<e[12], e[13]>>
         /\ Home(RegisterOf(i, "d1")) = <<e[14], e[15]>>
<1>1. /\ RegisterOf(i, "a0") = 8 * i + 0
      /\ RegisterOf(i, "a1") = 8 * i + 1
      /\ RegisterOf(i, "b0") = 8 * i + 2
      /\ RegisterOf(i, "b1") = 8 * i + 3
      /\ RegisterOf(i, "c0") = 8 * i + 4
      /\ RegisterOf(i, "c1") = 8 * i + 5
      /\ RegisterOf(i, "d0") = 8 * i + 6
      /\ RegisterOf(i, "d1") = 8 * i + 7
  BY DEF RegisterOf, Octets, Nth, Narrow, Fused
<1>2. /\ \A m \in 0 .. 15 : e[m] = 16 * (i) + m
  BY RowsAre
<1>3. PICK home : home = [n \in 0 .. 7 |-> Home(8 * i + n)]
  OBVIOUS
<1>4. ASSUME NEW n \in 0 .. 7
      PROVE  home[n] = <<e[2 * n], e[2 * n + 1]>>
  <2>1. PICK j \in Nat : j = 8 * i + n
    OBVIOUS
  <2>2. home[n] = <<2 * j, 2 * j + 1>>
    BY <1>3, <2>1, HomesAre
  <2>4. /\ e[2 * n] = 2 * j + 0
        /\ e[2 * n + 1] = 2 * j + 1
    BY <1>2, <2>1
  <2> QED BY <2>2, <2>4
<1>5. /\ home[0] = <<e[0], e[1]>>
      /\ home[1] = <<e[2], e[3]>>
      /\ home[2] = <<e[4], e[5]>>
      /\ home[3] = <<e[6], e[7]>>
      /\ home[4] = <<e[8], e[9]>>
      /\ home[5] = <<e[10], e[11]>>
      /\ home[6] = <<e[12], e[13]>>
      /\ home[7] = <<e[14], e[15]>>
  BY <1>4
<1>6. /\ Home(RegisterOf(i, "a0")) = home[0]
      /\ Home(RegisterOf(i, "a1")) = home[1]
      /\ Home(RegisterOf(i, "b0")) = home[2]
      /\ Home(RegisterOf(i, "b1")) = home[3]
      /\ Home(RegisterOf(i, "c0")) = home[4]
      /\ Home(RegisterOf(i, "c1")) = home[5]
      /\ Home(RegisterOf(i, "d0")) = home[6]
      /\ Home(RegisterOf(i, "d1")) = home[7]
  BY <1>1, <1>3
<1> QED BY <1>5, <1>6

\* ... and those the row pass takes.
LEMMA NarrowRowsHomes ==
  ASSUME kernel \in Narrow, pass = "rows", NEW i \in 0 .. 7, NEW e,
         e = RowOf("rows", i)
  PROVE  /\ Home(RegisterOf(i, "a0")) = <<e[0], e[1]>>
         /\ Home(RegisterOf(i, "a1")) = <<e[2], e[3]>>
         /\ Home(RegisterOf(i, "b0")) = <<e[4], e[5]>>
         /\ Home(RegisterOf(i, "b1")) = <<e[6], e[7]>>
         /\ Home(RegisterOf(i, "c0")) = <<e[8], e[9]>>
         /\ Home(RegisterOf(i, "c1")) = <<e[10], e[11]>>
         /\ Home(RegisterOf(i, "d0")) = <<e[12], e[13]>>
         /\ Home(RegisterOf(i, "d1")) = <<e[14], e[15]>>
<1>1. /\ RegisterOf(i, "a0") = 0 + i
      /\ RegisterOf(i, "a1") = 8 + i
      /\ RegisterOf(i, "b0") = 16 + i
      /\ RegisterOf(i, "b1") = 24 + i
      /\ RegisterOf(i, "c0") = 32 + i
      /\ RegisterOf(i, "c1") = 40 + i
      /\ RegisterOf(i, "d0") = 48 + i
      /\ RegisterOf(i, "d1") = 56 + i
  BY DEF RegisterOf, Octets, Nth, Narrow, Fused
<1>2. /\ \A m \in 0 .. 15 : e[m] = 2 * (i) + 16 * (m \div 2) + (m % 2)
  BY RowsAre
<1>3. PICK home : home = [n \in 0 .. 7 |-> Home(8 * n + i)]
  OBVIOUS
<1>4. ASSUME NEW n \in 0 .. 7
      PROVE  home[n] = <<e[2 * n], e[2 * n + 1]>>
  <2>1. PICK j \in Nat : j = 8 * n + i
    OBVIOUS
  <2>2. home[n] = <<2 * j, 2 * j + 1>>
    BY <1>3, <2>1, HomesAre
  <2>3. (2 * n) \div 2 = n /\ (2 * n) % 2 = 0 /\ (2 * n + 1) \div 2 = n /\ (2 * n + 1) % 2 = 1
    OBVIOUS
  <2>4. /\ e[2 * n] = 2 * j + 0
        /\ e[2 * n + 1] = 2 * j + 1
    BY <1>2, <2>1, <2>3
  <2> QED BY <2>2, <2>4
<1>5. /\ home[0] = <<e[0], e[1]>>
      /\ home[1] = <<e[2], e[3]>>
      /\ home[2] = <<e[4], e[5]>>
      /\ home[3] = <<e[6], e[7]>>
      /\ home[4] = <<e[8], e[9]>>
      /\ home[5] = <<e[10], e[11]>>
      /\ home[6] = <<e[12], e[13]>>
      /\ home[7] = <<e[14], e[15]>>
  BY <1>4
<1>6. /\ Home(RegisterOf(i, "a0")) = home[0]
      /\ Home(RegisterOf(i, "a1")) = home[1]
      /\ Home(RegisterOf(i, "b0")) = home[2]
      /\ Home(RegisterOf(i, "b1")) = home[3]
      /\ Home(RegisterOf(i, "c0")) = home[4]
      /\ Home(RegisterOf(i, "c1")) = home[5]
      /\ Home(RegisterOf(i, "d0")) = home[6]
      /\ Home(RegisterOf(i, "d1")) = home[7]
  BY <1>1, <1>3
<1> QED BY <1>5, <1>6

\* The AVX2 registers of the column pass's two rounds ...
LEMMA Avx2ColumnsHomes ==
  ASSUME kernel = "avx2", pass = "columns", NEW i \in 0 .. 3, NEW e, NEW f,
         e = RowOf("columns", 2 * i), f = RowOf("columns", 2 * i + 1)
  PROVE  /\ Home(RegisterOf(i, "a0")) = <<e[0], e[1], e[2], e[3]>>
         /\ Home(RegisterOf(i, "a1")) = <<f[0], f[1], f[2], f[3]>>
         /\ Home(RegisterOf(i, "b0")) = <<e[4], e[5], e[6], e[7]>>
         /\ Home(RegisterOf(i, "b1")) = <<f[4], f[5], f[6], f[7]>>
         /\ Home(RegisterOf(i, "c0")) = <<e[8], e[9], e[10], e[11]>>
         /\ Home(RegisterOf(i, "c1")) = <<f[8], f[9], f[10], f[11]>>
         /\ Home(RegisterOf(i, "d0")) = <<e[12], e[13], e[14], e[15]>>
         /\ Home(RegisterOf(i, "d1")) = <<f[12], f[13], f[14], f[15]>>
<1>1. /\ RegisterOf(i, "a0") = 8 * i + 0
      /\ RegisterOf(i, "a1") = 8 * i + 4
      /\ RegisterOf(i, "b0") = 8 * i + 1
      /\ RegisterOf(i, "b1") = 8 * i + 5
      /\ RegisterOf(i, "c0") = 8 * i + 2
      /\ RegisterOf(i, "c1") = 8 * i + 6
      /\ RegisterOf(i, "d0") = 8 * i + 3
      /\ RegisterOf(i, "d1") = 8 * i + 7
  BY DEF RegisterOf, Avx2Registers, Nth
<1>2. /\ 2 * i \in 0 .. 7
      /\ 2 * i + 1 \in 0 .. 7
  OBVIOUS
<1>3. /\ \A m \in 0 .. 15 : e[m] = 16 * (2 * i) + m
      /\ \A m \in 0 .. 15 : f[m] = 16 * (2 * i + 1) + m
  BY <1>2, RowsAre
<1>4. PICK home : home = [n \in 0 .. 7 |-> Home(8 * i + n)]
  OBVIOUS
<1>5. ASSUME NEW n \in 0 .. 7
      PROVE  /\ n < 4 => home[n] = <<e[4 * n], e[4 * n + 1], e[4 * n + 2], e[4 * n + 3]>>
             /\ n >= 4 => home[n] = <<f[4 * n - 16], f[4 * n - 15], f[4 * n - 14], f[4 * n - 13]>>
  <2>1. PICK j \in Nat : j = 8 * i + n
    OBVIOUS
  <2>2. home[n] = <<4 * j, 4 * j + 1, 4 * j + 2, 4 * j + 3>>
    BY <1>4, <2>1, HomesAre
  <2>3. ASSUME n < 4 PROVE e[4 * n] = 4 * j + 0 /\ e[4 * n + 1] = 4 * j + 1 /\ e[4 * n + 2] = 4 * j + 2 /\ e[4 * n + 3] = 4 * j + 3
    BY <1>3, <2>1, <2>3
  <2>4. ASSUME n >= 4 PROVE f[4 * n - 16] = 4 * j + 0 /\ f[4 * n - 15] = 4 * j + 1 /\ f[4 * n - 14] = 4 * j + 2 /\ f[4 * n - 13] = 4 * j + 3
    BY <1>3, <2>1, <2>4
  <2> QED BY <2>2, <2>3, <2>4
<1>6. /\ home[0] = <<e[0], e[1], e[2], e[3]>>
      /\ home[4] = <<f[0], f[1], f[2], f[3]>>
      /\ home[1] = <<e[4], e[5], e[6], e[7]>>
      /\ home[5] = <<f[4], f[5], f[6], f[7]>>
      /\ home[2] = <<e[8], e[9], e[10], e[11]>>
      /\ home[6] = <<f[8], f[9], f[10], f[11]>>
      /\ home[3] = <<e[12], e[13], e[14], e[15]>>
      /\ home[7] = <<f[12], f[13], f[14], f[15]>>
  BY <1>5
<1>7. /\ Home(RegisterOf(i, "a0")) = home[0]
      /\ Home(RegisterOf(i, "a1")) = home[4]
      /\ Home(RegisterOf(i, "b0")) = home[1]
      /\ Home(RegisterOf(i, "b1")) = home[5]
      /\ Home(RegisterOf(i, "c0")) = home[2]
      /\ Home(RegisterOf(i, "c1")) = home[6]
      /\ Home(RegisterOf(i, "d0")) = home[3]
      /\ Home(RegisterOf(i, "d1")) = home[7]
  BY <1>1, <1>4
<1> QED BY <1>6, <1>7

\* ... and of the row pass's.
LEMMA Avx2RowsHomes ==
  ASSUME kernel = "avx2", pass = "rows", NEW i \in 0 .. 3, NEW e, NEW f,
         e = RowOf("rows", 2 * i), f = RowOf("rows", 2 * i + 1)
  PROVE  /\ Home(RegisterOf(i, "a0")) = <<e[0], e[1], f[0], f[1]>>
         /\ Home(RegisterOf(i, "a1")) = <<e[2], e[3], f[2], f[3]>>
         /\ Home(RegisterOf(i, "b0")) = <<e[4], e[5], f[4], f[5]>>
         /\ Home(RegisterOf(i, "b1")) = <<e[6], e[7], f[6], f[7]>>
         /\ Home(RegisterOf(i, "c0")) = <<e[8], e[9], f[8], f[9]>>
         /\ Home(RegisterOf(i, "c1")) = <<e[10], e[11], f[10], f[11]>>
         /\ Home(RegisterOf(i, "d0")) = <<e[12], e[13], f[12], f[13]>>
         /\ Home(RegisterOf(i, "d1")) = <<e[14], e[15], f[14], f[15]>>
<1>1. /\ RegisterOf(i, "a0") = 0 + i
      /\ RegisterOf(i, "a1") = 4 + i
      /\ RegisterOf(i, "b0") = 8 + i
      /\ RegisterOf(i, "b1") = 12 + i
      /\ RegisterOf(i, "c0") = 16 + i
      /\ RegisterOf(i, "c1") = 20 + i
      /\ RegisterOf(i, "d0") = 24 + i
      /\ RegisterOf(i, "d1") = 28 + i
  BY DEF RegisterOf, Avx2Registers, Nth
<1>2. /\ 2 * i \in 0 .. 7
      /\ 2 * i + 1 \in 0 .. 7
  OBVIOUS
<1>3. /\ \A m \in 0 .. 15 : e[m] = 2 * (2 * i) + 16 * (m \div 2) + (m % 2)
      /\ \A m \in 0 .. 15 : f[m] = 2 * (2 * i + 1) + 16 * (m \div 2) + (m % 2)
  BY <1>2, RowsAre
<1>4. PICK home : home = [n \in 0 .. 7 |-> Home(4 * n + i)]
  OBVIOUS
<1>5. ASSUME NEW n \in 0 .. 7
      PROVE  home[n] = <<e[2 * n], e[2 * n + 1], f[2 * n], f[2 * n + 1]>>
  <2>1. PICK j \in Nat : j = 4 * n + i
    OBVIOUS
  <2>2. home[n] = <<4 * j, 4 * j + 1, 4 * j + 2, 4 * j + 3>>
    BY <1>4, <2>1, HomesAre
  <2>3. (2 * n) \div 2 = n /\ (2 * n) % 2 = 0 /\ (2 * n + 1) \div 2 = n /\ (2 * n + 1) % 2 = 1
    OBVIOUS
  <2>4. /\ e[2 * n] = 4 * j + 0
        /\ e[2 * n + 1] = 4 * j + 1
        /\ f[2 * n] = 4 * j + 2
        /\ f[2 * n + 1] = 4 * j + 3
    BY <1>3, <2>1, <2>3
  <2> QED BY <2>2, <2>4
<1>6. /\ home[0] = <<e[0], e[1], f[0], f[1]>>
      /\ home[1] = <<e[2], e[3], f[2], f[3]>>
      /\ home[2] = <<e[4], e[5], f[4], f[5]>>
      /\ home[3] = <<e[6], e[7], f[6], f[7]>>
      /\ home[4] = <<e[8], e[9], f[8], f[9]>>
      /\ home[5] = <<e[10], e[11], f[10], f[11]>>
      /\ home[6] = <<e[12], e[13], f[12], f[13]>>
      /\ home[7] = <<e[14], e[15], f[14], f[15]>>
  BY <1>5
<1>7. /\ Home(RegisterOf(i, "a0")) = home[0]
      /\ Home(RegisterOf(i, "a1")) = home[1]
      /\ Home(RegisterOf(i, "b0")) = home[2]
      /\ Home(RegisterOf(i, "b1")) = home[3]
      /\ Home(RegisterOf(i, "c0")) = home[4]
      /\ Home(RegisterOf(i, "c1")) = home[5]
      /\ Home(RegisterOf(i, "d0")) = home[6]
      /\ Home(RegisterOf(i, "d1")) = home[7]
  BY <1>1, <1>4
<1> QED BY <1>6, <1>7

\* The AVX-512 registers of the column pass's four rounds ...
LEMMA Avx512ColumnsHomes ==
  ASSUME kernel = "avx512", pass = "columns", NEW i \in 0 .. 1, NEW e, NEW f, NEW g, NEW k,
         e = RowOf("columns", 4 * i), f = RowOf("columns", 4 * i + 1), g = RowOf("columns", 4 * i + 2), k = RowOf("columns", 4 * i + 3)
  PROVE  /\ Home(RegisterOf(i, "a0")) = <<e[0], e[1], e[2], e[3], e[4], e[5], e[6], e[7]>>
         /\ Home(RegisterOf(i, "a1")) = <<g[0], g[1], g[2], g[3], g[4], g[5], g[6], g[7]>>
         /\ Home(RegisterOf(i, "b0")) = <<f[0], f[1], f[2], f[3], f[4], f[5], f[6], f[7]>>
         /\ Home(RegisterOf(i, "b1")) = <<k[0], k[1], k[2], k[3], k[4], k[5], k[6], k[7]>>
         /\ Home(RegisterOf(i, "c0")) = <<e[8], e[9], e[10], e[11], e[12], e[13], e[14], e[15]>>
         /\ Home(RegisterOf(i, "c1")) = <<g[8], g[9], g[10], g[11], g[12], g[13], g[14], g[15]>>
         /\ Home(RegisterOf(i, "d0")) = <<f[8], f[9], f[10], f[11], f[12], f[13], f[14], f[15]>>
         /\ Home(RegisterOf(i, "d1")) = <<k[8], k[9], k[10], k[11], k[12], k[13], k[14], k[15]>>
<1>1. /\ RegisterOf(i, "a0") = 8 * i + 0
      /\ RegisterOf(i, "a1") = 8 * i + 4
      /\ RegisterOf(i, "b0") = 8 * i + 2
      /\ RegisterOf(i, "b1") = 8 * i + 6
      /\ RegisterOf(i, "c0") = 8 * i + 1
      /\ RegisterOf(i, "c1") = 8 * i + 5
      /\ RegisterOf(i, "d0") = 8 * i + 3
      /\ RegisterOf(i, "d1") = 8 * i + 7
  BY DEF RegisterOf, Avx512Registers, Nth
<1>2. /\ 4 * i \in 0 .. 7
      /\ 4 * i + 1 \in 0 .. 7
      /\ 4 * i + 2 \in 0 .. 7
      /\ 4 * i + 3 \in 0 .. 7
  OBVIOUS
<1>3. /\ \A m \in 0 .. 15 : e[m] = 16 * (4 * i) + m
      /\ \A m \in 0 .. 15 : f[m] = 16 * (4 * i + 1) + m
      /\ \A m \in 0 .. 15 : g[m] = 16 * (4 * i + 2) + m
      /\ \A m \in 0 .. 15 : k[m] = 16 * (4 * i + 3) + m
  BY <1>2, RowsAre
<1>4. PICK home : home = [n \in 0 .. 7 |-> Home(8 * i + n)]
  OBVIOUS
<1>5. ASSUME NEW n \in 0 .. 7
      PROVE  /\ n = 0 => home[n] = <<e[0], e[1], e[2], e[3], e[4], e[5], e[6], e[7]>>
             /\ n = 1 => home[n] = <<e[8], e[9], e[10], e[11], e[12], e[13], e[14], e[15]>>
             /\ n = 2 => home[n] = <<f[0], f[1], f[2], f[3], f[4], f[5], f[6], f[7]>>
             /\ n = 3 => home[n] = <<f[8], f[9], f[10], f[11], f[12], f[13], f[14], f[15]>>
             /\ n = 4 => home[n] = <<g[0], g[1], g[2], g[3], g[4], g[5], g[6], g[7]>>
             /\ n = 5 => home[n] = <<g[8], g[9], g[10], g[11], g[12], g[13], g[14], g[15]>>
             /\ n = 6 => home[n] = <<k[0], k[1], k[2], k[3], k[4], k[5], k[6], k[7]>>
             /\ n = 7 => home[n] = <<k[8], k[9], k[10], k[11], k[12], k[13], k[14], k[15]>>
  <2>1. PICK j \in Nat : j = 8 * i + n
    OBVIOUS
  <2>2. home[n] = <<8 * j, 8 * j + 1, 8 * j + 2, 8 * j + 3, 8 * j + 4, 8 * j + 5, 8 * j + 6, 8 * j + 7>>
    BY <1>4, <2>1, HomesAre
  <2>3. ASSUME n = 0 PROVE e[0] = 8 * j + 0 /\ e[1] = 8 * j + 1 /\ e[2] = 8 * j + 2 /\ e[3] = 8 * j + 3 /\ e[4] = 8 * j + 4 /\ e[5] = 8 * j + 5 /\ e[6] = 8 * j + 6 /\ e[7] = 8 * j + 7
    BY <1>3, <2>1, <2>3
  <2>4. ASSUME n = 1 PROVE e[8] = 8 * j + 0 /\ e[9] = 8 * j + 1 /\ e[10] = 8 * j + 2 /\ e[11] = 8 * j + 3 /\ e[12] = 8 * j + 4 /\ e[13] = 8 * j + 5 /\ e[14] = 8 * j + 6 /\ e[15] = 8 * j + 7
    BY <1>3, <2>1, <2>4
  <2>5. ASSUME n = 2 PROVE f[0] = 8 * j + 0 /\ f[1] = 8 * j + 1 /\ f[2] = 8 * j + 2 /\ f[3] = 8 * j + 3 /\ f[4] = 8 * j + 4 /\ f[5] = 8 * j + 5 /\ f[6] = 8 * j + 6 /\ f[7] = 8 * j + 7
    BY <1>3, <2>1, <2>5
  <2>6. ASSUME n = 3 PROVE f[8] = 8 * j + 0 /\ f[9] = 8 * j + 1 /\ f[10] = 8 * j + 2 /\ f[11] = 8 * j + 3 /\ f[12] = 8 * j + 4 /\ f[13] = 8 * j + 5 /\ f[14] = 8 * j + 6 /\ f[15] = 8 * j + 7
    BY <1>3, <2>1, <2>6
  <2>7. ASSUME n = 4 PROVE g[0] = 8 * j + 0 /\ g[1] = 8 * j + 1 /\ g[2] = 8 * j + 2 /\ g[3] = 8 * j + 3 /\ g[4] = 8 * j + 4 /\ g[5] = 8 * j + 5 /\ g[6] = 8 * j + 6 /\ g[7] = 8 * j + 7
    BY <1>3, <2>1, <2>7
  <2>8. ASSUME n = 5 PROVE g[8] = 8 * j + 0 /\ g[9] = 8 * j + 1 /\ g[10] = 8 * j + 2 /\ g[11] = 8 * j + 3 /\ g[12] = 8 * j + 4 /\ g[13] = 8 * j + 5 /\ g[14] = 8 * j + 6 /\ g[15] = 8 * j + 7
    BY <1>3, <2>1, <2>8
  <2>9. ASSUME n = 6 PROVE k[0] = 8 * j + 0 /\ k[1] = 8 * j + 1 /\ k[2] = 8 * j + 2 /\ k[3] = 8 * j + 3 /\ k[4] = 8 * j + 4 /\ k[5] = 8 * j + 5 /\ k[6] = 8 * j + 6 /\ k[7] = 8 * j + 7
    BY <1>3, <2>1, <2>9
  <2>10. ASSUME n = 7 PROVE k[8] = 8 * j + 0 /\ k[9] = 8 * j + 1 /\ k[10] = 8 * j + 2 /\ k[11] = 8 * j + 3 /\ k[12] = 8 * j + 4 /\ k[13] = 8 * j + 5 /\ k[14] = 8 * j + 6 /\ k[15] = 8 * j + 7
    BY <1>3, <2>1, <2>10
  <2> QED BY <2>2, <2>3, <2>4, <2>5, <2>6, <2>7, <2>8, <2>9, <2>10
<1>6. /\ home[0] = <<e[0], e[1], e[2], e[3], e[4], e[5], e[6], e[7]>>
      /\ home[4] = <<g[0], g[1], g[2], g[3], g[4], g[5], g[6], g[7]>>
      /\ home[2] = <<f[0], f[1], f[2], f[3], f[4], f[5], f[6], f[7]>>
      /\ home[6] = <<k[0], k[1], k[2], k[3], k[4], k[5], k[6], k[7]>>
      /\ home[1] = <<e[8], e[9], e[10], e[11], e[12], e[13], e[14], e[15]>>
      /\ home[5] = <<g[8], g[9], g[10], g[11], g[12], g[13], g[14], g[15]>>
      /\ home[3] = <<f[8], f[9], f[10], f[11], f[12], f[13], f[14], f[15]>>
      /\ home[7] = <<k[8], k[9], k[10], k[11], k[12], k[13], k[14], k[15]>>
  BY <1>5
<1>7. /\ Home(RegisterOf(i, "a0")) = home[0]
      /\ Home(RegisterOf(i, "a1")) = home[4]
      /\ Home(RegisterOf(i, "b0")) = home[2]
      /\ Home(RegisterOf(i, "b1")) = home[6]
      /\ Home(RegisterOf(i, "c0")) = home[1]
      /\ Home(RegisterOf(i, "c1")) = home[5]
      /\ Home(RegisterOf(i, "d0")) = home[3]
      /\ Home(RegisterOf(i, "d1")) = home[7]
  BY <1>1, <1>4
<1> QED BY <1>6, <1>7

\* ... and of the row pass's.
LEMMA Avx512RowsHomes ==
  ASSUME kernel = "avx512", pass = "rows", NEW i \in 0 .. 1, NEW e, NEW f, NEW g, NEW k,
         e = RowOf("rows", 4 * i), f = RowOf("rows", 4 * i + 1), g = RowOf("rows", 4 * i + 2), k = RowOf("rows", 4 * i + 3)
  PROVE  /\ Home(RegisterOf(i, "a0")) = <<e[0], e[1], f[0], f[1], g[0], g[1], k[0], k[1]>>
         /\ Home(RegisterOf(i, "a1")) = <<e[2], e[3], f[2], f[3], g[2], g[3], k[2], k[3]>>
         /\ Home(RegisterOf(i, "b0")) = <<e[4], e[5], f[4], f[5], g[4], g[5], k[4], k[5]>>
         /\ Home(RegisterOf(i, "b1")) = <<e[6], e[7], f[6], f[7], g[6], g[7], k[6], k[7]>>
         /\ Home(RegisterOf(i, "c0")) = <<e[8], e[9], f[8], f[9], g[8], g[9], k[8], k[9]>>
         /\ Home(RegisterOf(i, "c1")) = <<e[10], e[11], f[10], f[11], g[10], g[11], k[10], k[11]>>
         /\ Home(RegisterOf(i, "d0")) = <<e[12], e[13], f[12], f[13], g[12], g[13], k[12], k[13]>>
         /\ Home(RegisterOf(i, "d1")) = <<e[14], e[15], f[14], f[15], g[14], g[15], k[14], k[15]>>
<1>1. /\ RegisterOf(i, "a0") = 0 + i
      /\ RegisterOf(i, "a1") = 2 + i
      /\ RegisterOf(i, "b0") = 4 + i
      /\ RegisterOf(i, "b1") = 6 + i
      /\ RegisterOf(i, "c0") = 8 + i
      /\ RegisterOf(i, "c1") = 10 + i
      /\ RegisterOf(i, "d0") = 12 + i
      /\ RegisterOf(i, "d1") = 14 + i
  BY DEF RegisterOf, Avx512Registers, Nth
<1>2. /\ 4 * i \in 0 .. 7
      /\ 4 * i + 1 \in 0 .. 7
      /\ 4 * i + 2 \in 0 .. 7
      /\ 4 * i + 3 \in 0 .. 7
  OBVIOUS
<1>3. /\ \A m \in 0 .. 15 : e[m] = 2 * (4 * i) + 16 * (m \div 2) + (m % 2)
      /\ \A m \in 0 .. 15 : f[m] = 2 * (4 * i + 1) + 16 * (m \div 2) + (m % 2)
      /\ \A m \in 0 .. 15 : g[m] = 2 * (4 * i + 2) + 16 * (m \div 2) + (m % 2)
      /\ \A m \in 0 .. 15 : k[m] = 2 * (4 * i + 3) + 16 * (m \div 2) + (m % 2)
  BY <1>2, RowsAre
<1>4. PICK home : home = [n \in 0 .. 7 |-> Home(2 * n + i)]
  OBVIOUS
<1>5. ASSUME NEW n \in 0 .. 7
      PROVE  home[n] = <<e[2 * n], e[2 * n + 1], f[2 * n], f[2 * n + 1], g[2 * n], g[2 * n + 1], k[2 * n], k[2 * n + 1]>>
  <2>1. PICK j \in Nat : j = 2 * n + i
    OBVIOUS
  <2>2. home[n] = <<8 * j, 8 * j + 1, 8 * j + 2, 8 * j + 3, 8 * j + 4, 8 * j + 5, 8 * j + 6, 8 * j + 7>>
    BY <1>4, <2>1, HomesAre
  <2>3. (2 * n) \div 2 = n /\ (2 * n) % 2 = 0 /\ (2 * n + 1) \div 2 = n /\ (2 * n + 1) % 2 = 1
    OBVIOUS
  <2>4. /\ e[2 * n] = 8 * j + 0
        /\ e[2 * n + 1] = 8 * j + 1
        /\ f[2 * n] = 8 * j + 2
        /\ f[2 * n + 1] = 8 * j + 3
        /\ g[2 * n] = 8 * j + 4
        /\ g[2 * n + 1] = 8 * j + 5
        /\ k[2 * n] = 8 * j + 6
        /\ k[2 * n + 1] = 8 * j + 7
    BY <1>3, <2>1, <2>3
  <2> QED BY <2>2, <2>4
<1>6. /\ home[0] = <<e[0], e[1], f[0], f[1], g[0], g[1], k[0], k[1]>>
      /\ home[1] = <<e[2], e[3], f[2], f[3], g[2], g[3], k[2], k[3]>>
      /\ home[2] = <<e[4], e[5], f[4], f[5], g[4], g[5], k[4], k[5]>>
      /\ home[3] = <<e[6], e[7], f[6], f[7], g[6], g[7], k[6], k[7]>>
      /\ home[4] = <<e[8], e[9], f[8], f[9], g[8], g[9], k[8], k[9]>>
      /\ home[5] = <<e[10], e[11], f[10], f[11], g[10], g[11], k[10], k[11]>>
      /\ home[6] = <<e[12], e[13], f[12], f[13], g[12], g[13], k[12], k[13]>>
      /\ home[7] = <<e[14], e[15], f[14], f[15], g[14], g[15], k[14], k[15]>>
  BY <1>5
<1>7. /\ Home(RegisterOf(i, "a0")) = home[0]
      /\ Home(RegisterOf(i, "a1")) = home[1]
      /\ Home(RegisterOf(i, "b0")) = home[2]
      /\ Home(RegisterOf(i, "b1")) = home[3]
      /\ Home(RegisterOf(i, "c0")) = home[4]
      /\ Home(RegisterOf(i, "c1")) = home[5]
      /\ Home(RegisterOf(i, "d0")) = home[6]
      /\ Home(RegisterOf(i, "d1")) = home[7]
  BY <1>1, <1>4
<1> QED BY <1>6, <1>7

\* The rounds of a kernel, and which rounds of the scalar kernel they are.
RoundsOf(i) ==
  IF kernel = "avx512" THEN 4 * i .. 4 * i + 3
  ELSE IF kernel = "avx2" THEN 2 * i .. 2 * i + 1 ELSE {i}

\* Loading and swapping bring the words of a round into its lanes, ...
LEMMA TakesRound ==
  ASSUME kernel \in Kernels, pass \in Passes, NEW i \in 0 .. RoundsInPass - 1,
         NEW r, AtHome(r, i)
  PROVE  Laid(Swapped(r), i, 0)
<1>1. CASE kernel \in Narrow
  <2>1. i \in 0 .. 7
    BY <1>1, NarrowShape
  <2>2. PICK e : e = RowOf(pass, i)
    OBVIOUS
  <2>3. Two(r, e, 0)
    <3>1. CASE pass = "columns"
      BY <1>1, <2>1, <2>2, <3>1, NarrowColumnsHomes DEF AtHome, Two, Slots
    <3>2. CASE pass = "rows"
      BY <1>1, <2>1, <2>2, <3>2, NarrowRowsHomes DEF AtHome, Two, Slots
    <3> QED BY <3>1, <3>2 DEF Passes
  <2> QED BY <1>1, <2>2, <2>3 DEF Swapped, Laid, LaidAs, Narrow, Fused
<1>2. CASE kernel = "avx2"
  <2>1. i \in 0 .. 3
    BY <1>2, Avx2Shape
  <2>2. PICK e, f : e = RowOf(pass, 2 * i) /\ f = RowOf(pass, 2 * i + 1)
    OBVIOUS
  <2>3. CASE pass = "columns"
    <3>1. FourInColumns(r, e, f, 0)
      BY <1>2, <2>1, <2>2, <2>3, Avx2ColumnsHomes DEF AtHome, FourInColumns, Slots
    <3> QED BY <1>2, <2>2, <2>3, <3>1 DEF Swapped, Laid, LaidAs
  <2>4. CASE pass = "rows"
    <3>1. FourInRows(r, e, f, 0)
      BY <1>2, <2>1, <2>2, <2>4, Avx2RowsHomes DEF AtHome, FourInRows, Slots
    <3> QED BY <1>2, <2>2, <2>4, <3>1 DEF Swapped, Laid, LaidAs
  <2> QED BY <2>3, <2>4 DEF Passes
<1>3. CASE kernel = "avx512"
  <2>1. i \in 0 .. 1
    BY <1>3, Avx512Shape
  <2>2. PICK e, f, g, k : /\ e = RowOf(pass, 4 * i) /\ f = RowOf(pass, 4 * i + 1)
                          /\ g = RowOf(pass, 4 * i + 2) /\ k = RowOf(pass, 4 * i + 3)
    OBVIOUS
  <2>3. /\ e \in [0 .. 15 -> Word] /\ f \in [0 .. 15 -> Word]
        /\ g \in [0 .. 15 -> Word] /\ k \in [0 .. 15 -> Word]
    BY <2>1, <2>2, RowOfWords
  <2>4. CASE pass = "columns"
    <3>1. EightInColumns(r, e, f, g, k)
      BY <1>3, <2>1, <2>2, <2>4, Avx512ColumnsHomes DEF AtHome, EightInColumns, Slots
    <3>2. EightInTurn(Pairwise(r, SwapHalves, HalfPairs), e, f, g, k, 0)
      BY <2>3, <3>1, HalvesIn
    <3>3. Swapped(r) = Pairwise(r, SwapHalves, HalfPairs)
      BY <1>3, <2>4, Zenon DEF Swapped
    <3> QED BY <1>3, <2>2, <3>2, <3>3 DEF Laid, LaidAs
  <2>5. CASE pass = "rows"
    <3>1. EightInRows(r, e, f, g, k)
      BY <1>3, <2>1, <2>2, <2>5, Avx512RowsHomes DEF AtHome, EightInRows, Slots
    <3>2. EightInTurn(Pairwise(r, SwapQuarters, QuarterPairs), e, f, g, k, 0)
      BY <2>3, <3>1, QuartersIn
    <3>3. Swapped(r) = Pairwise(r, SwapQuarters, QuarterPairs)
      <4>1. pass # "columns"
        BY <2>5
      <4> QED BY <1>3, <4>1, Zenon DEF Swapped
    <3> QED BY <1>3, <2>2, <3>2, <3>3 DEF Laid, LaidAs
  <2> QED BY <2>4, <2>5 DEF Passes
<1> QED BY <1>1, <1>2, <1>3, KernelsAre

\* ... the shuffle between the halves of a round rotates them, ...
LEMMA TurnsRound ==
  ASSUME kernel \in Kernels, pass \in Passes, NEW i, NEW r, Laid(r, i, 0)
  PROVE  Laid(Diagonalized(r), i, 1)
<1>1. CASE kernel \in Narrow
  <2>1. PICK e : e = RowOf(pass, i)
    OBVIOUS
  <2>2. Two(r, e, 0)
    BY <1>1, <2>1 DEF Laid, LaidAs, Narrow, Fused
  <2>3. Two(Diagonalized(r), e, 1)
    <3>1. CASE kernel = "sse2"
      BY <2>2, <3>1, UnpackTurns DEF Diagonalized
    <3>2. CASE kernel # "sse2"
      BY <1>1, <2>2, <3>2, AlignrTurns DEF Diagonalized, Narrow, Fused
    <3> QED BY <3>1, <3>2
  <2> QED BY <1>1, <2>1, <2>3 DEF Laid, LaidAs, Narrow, Fused
<1>2. CASE kernel = "avx2"
  <2>1. PICK e, f : e = RowOf(pass, 2 * i) /\ f = RowOf(pass, 2 * i + 1)
    OBVIOUS
  <2>2. CASE pass = "columns"
    <3>1. FourInColumns(r, e, f, 0)
      BY <1>2, <2>1, <2>2 DEF Laid, LaidAs
    <3>2. FourInColumns(Diagonalized(r), e, f, 1)
      BY <1>2, <2>2, <3>1, ColumnsTurn DEF Diagonalized
    <3> QED BY <1>2, <2>1, <2>2, <3>2 DEF Laid, LaidAs
  <2>3. CASE pass = "rows"
    <3>1. FourInRows(r, e, f, 0)
      BY <1>2, <2>1, <2>3 DEF Laid, LaidAs
    <3>2. FourInRows(Diagonalized(r), e, f, 1)
      BY <1>2, <2>3, <3>1, BlendTurns DEF Diagonalized
    <3> QED BY <1>2, <2>1, <2>3, <3>2 DEF Laid, LaidAs
  <2> QED BY <2>2, <2>3 DEF Passes
<1>3. CASE kernel = "avx512"
  <2>1. PICK e, f, g, k : /\ e = RowOf(pass, 4 * i) /\ f = RowOf(pass, 4 * i + 1)
                          /\ g = RowOf(pass, 4 * i + 2) /\ k = RowOf(pass, 4 * i + 3)
    OBVIOUS
  <2>2. EightInTurn(r, e, f, g, k, 0)
    BY <1>3, <2>1 DEF Laid, LaidAs
  <2>3. EightInTurn(Diagonalized(r), e, f, g, k, 1)
    BY <1>3, <2>2, EightsTurn DEF Diagonalized
  <2> QED BY <1>3, <2>1, <2>3 DEF Laid, LaidAs
<1> QED BY <1>1, <1>2, <1>3, KernelsAre

\* ... the one after the second half undoes that, ...
LEMMA TurnsRoundBack ==
  ASSUME kernel \in Kernels, pass \in Passes, NEW i, NEW r, Laid(r, i, 1)
  PROVE  Laid(Undiagonalized(r), i, 0)
<1>1. CASE kernel \in Narrow
  <2>1. PICK e : e = RowOf(pass, i)
    OBVIOUS
  <2>2. Two(r, e, 1)
    BY <1>1, <2>1 DEF Laid, LaidAs, Narrow, Fused
  <2>3. Two(Undiagonalized(r), e, 0)
    <3>1. CASE kernel = "sse2"
      BY <2>2, <3>1, UnpackTurnsBack DEF Undiagonalized
    <3>2. CASE kernel # "sse2"
      BY <1>1, <2>2, <3>2, AlignrTurnsBack DEF Undiagonalized, Narrow, Fused
    <3> QED BY <3>1, <3>2
  <2> QED BY <1>1, <2>1, <2>3 DEF Laid, LaidAs, Narrow, Fused
<1>2. CASE kernel = "avx2"
  <2>1. PICK e, f : e = RowOf(pass, 2 * i) /\ f = RowOf(pass, 2 * i + 1)
    OBVIOUS
  <2>2. CASE pass = "columns"
    <3>1. FourInColumns(r, e, f, 1)
      BY <1>2, <2>1, <2>2 DEF Laid, LaidAs
    <3>2. FourInColumns(Undiagonalized(r), e, f, 0)
      BY <1>2, <2>2, <3>1, ColumnsTurnBack DEF Undiagonalized
    <3> QED BY <1>2, <2>1, <2>2, <3>2 DEF Laid, LaidAs
  <2>3. CASE pass = "rows"
    <3>1. FourInRows(r, e, f, 1)
      BY <1>2, <2>1, <2>3 DEF Laid, LaidAs
    <3>2. FourInRows(Undiagonalized(r), e, f, 0)
      BY <1>2, <2>3, <3>1, BlendTurnsBack DEF Undiagonalized
    <3> QED BY <1>2, <2>1, <2>3, <3>2 DEF Laid, LaidAs
  <2> QED BY <2>2, <2>3 DEF Passes
<1>3. CASE kernel = "avx512"
  <2>1. PICK e, f, g, k : /\ e = RowOf(pass, 4 * i) /\ f = RowOf(pass, 4 * i + 1)
                          /\ g = RowOf(pass, 4 * i + 2) /\ k = RowOf(pass, 4 * i + 3)
    OBVIOUS
  <2>2. EightInTurn(r, e, f, g, k, 1)
    BY <1>3, <2>1 DEF Laid, LaidAs
  <2>3. EightInTurn(Undiagonalized(r), e, f, g, k, 0)
    BY <1>3, <2>2, EightsTurnBack DEF Undiagonalized
  <2> QED BY <1>3, <2>1, <2>3 DEF Laid, LaidAs
<1> QED BY <1>1, <1>2, <1>3, KernelsAre

\* The eight registers of a round, one by one.
LEMMA HomeOfEach ==
  ASSUME NEW r, NEW i, DOMAIN r = Slots,
         r.a0 = Home(RegisterOf(i, "a0")),
         r.a1 = Home(RegisterOf(i, "a1")),
         r.b0 = Home(RegisterOf(i, "b0")),
         r.b1 = Home(RegisterOf(i, "b1")),
         r.c0 = Home(RegisterOf(i, "c0")),
         r.c1 = Home(RegisterOf(i, "c1")),
         r.d0 = Home(RegisterOf(i, "d0")),
         r.d1 = Home(RegisterOf(i, "d1"))
  PROVE  AtHome(r, i)
<1>1. ASSUME NEW s \in Slots PROVE r[s] = Home(RegisterOf(i, s))
  BY <1>1, Zenon DEF Slots
<1> QED BY <1>1, Zenon DEF AtHome

\* ... and swapping back gives the registers as they came.
LEMMA PutsRound ==
  ASSUME kernel \in Kernels, pass \in Passes, NEW i \in 0 .. RoundsInPass - 1,
         NEW r, Laid(r, i, 0)
  PROVE  AtHome(Unswapped(r), i)
<1>1. CASE kernel \in Narrow
  <2>1. i \in 0 .. 7
    BY <1>1, NarrowShape
  <2>2. PICK e : e = RowOf(pass, i)
    OBVIOUS
  <2>3. Two(r, e, 0)
    BY <1>1, <2>2 DEF Laid, LaidAs, Narrow, Fused
  <2>4. AtHome(r, i)
    <3>1. CASE pass = "columns"
      <4>1. DOMAIN r = Slots
        BY <2>3 DEF Two
      <4>2. /\ Home(RegisterOf(i, "a0")) = <<e[0], e[1]>>
            /\ Home(RegisterOf(i, "a1")) = <<e[2], e[3]>>
            /\ Home(RegisterOf(i, "b0")) = <<e[4], e[5]>>
            /\ Home(RegisterOf(i, "b1")) = <<e[6], e[7]>>
            /\ Home(RegisterOf(i, "c0")) = <<e[8], e[9]>>
            /\ Home(RegisterOf(i, "c1")) = <<e[10], e[11]>>
            /\ Home(RegisterOf(i, "d0")) = <<e[12], e[13]>>
            /\ Home(RegisterOf(i, "d1")) = <<e[14], e[15]>>
        BY <1>1, <2>1, <2>2, <3>1, NarrowColumnsHomes
      <4>3. /\ r.a0 = <<e[0], e[1]>>
            /\ r.a1 = <<e[2], e[3]>>
            /\ r.b0 = <<e[4], e[5]>>
            /\ r.b1 = <<e[6], e[7]>>
            /\ r.c0 = <<e[8], e[9]>>
            /\ r.c1 = <<e[10], e[11]>>
            /\ r.d0 = <<e[12], e[13]>>
            /\ r.d1 = <<e[14], e[15]>>
        BY <2>3 DEF Two
      <4>4. /\ r.a0 = Home(RegisterOf(i, "a0"))
            /\ r.a1 = Home(RegisterOf(i, "a1"))
            /\ r.b0 = Home(RegisterOf(i, "b0"))
            /\ r.b1 = Home(RegisterOf(i, "b1"))
            /\ r.c0 = Home(RegisterOf(i, "c0"))
            /\ r.c1 = Home(RegisterOf(i, "c1"))
            /\ r.d0 = Home(RegisterOf(i, "d0"))
            /\ r.d1 = Home(RegisterOf(i, "d1"))
        BY <4>2, <4>3, Zenon
      <4> QED BY <4>1, <4>4, HomeOfEach
    <3>2. CASE pass = "rows"
      <4>1. DOMAIN r = Slots
        BY <2>3 DEF Two
      <4>2. /\ Home(RegisterOf(i, "a0")) = <<e[0], e[1]>>
            /\ Home(RegisterOf(i, "a1")) = <<e[2], e[3]>>
            /\ Home(RegisterOf(i, "b0")) = <<e[4], e[5]>>
            /\ Home(RegisterOf(i, "b1")) = <<e[6], e[7]>>
            /\ Home(RegisterOf(i, "c0")) = <<e[8], e[9]>>
            /\ Home(RegisterOf(i, "c1")) = <<e[10], e[11]>>
            /\ Home(RegisterOf(i, "d0")) = <<e[12], e[13]>>
            /\ Home(RegisterOf(i, "d1")) = <<e[14], e[15]>>
        BY <1>1, <2>1, <2>2, <3>2, NarrowRowsHomes
      <4>3. /\ r.a0 = <<e[0], e[1]>>
            /\ r.a1 = <<e[2], e[3]>>
            /\ r.b0 = <<e[4], e[5]>>
            /\ r.b1 = <<e[6], e[7]>>
            /\ r.c0 = <<e[8], e[9]>>
            /\ r.c1 = <<e[10], e[11]>>
            /\ r.d0 = <<e[12], e[13]>>
            /\ r.d1 = <<e[14], e[15]>>
        BY <2>3 DEF Two
      <4>4. /\ r.a0 = Home(RegisterOf(i, "a0"))
            /\ r.a1 = Home(RegisterOf(i, "a1"))
            /\ r.b0 = Home(RegisterOf(i, "b0"))
            /\ r.b1 = Home(RegisterOf(i, "b1"))
            /\ r.c0 = Home(RegisterOf(i, "c0"))
            /\ r.c1 = Home(RegisterOf(i, "c1"))
            /\ r.d0 = Home(RegisterOf(i, "d0"))
            /\ r.d1 = Home(RegisterOf(i, "d1"))
        BY <4>2, <4>3, Zenon
      <4> QED BY <4>1, <4>4, HomeOfEach
    <3> QED BY <3>1, <3>2 DEF Passes
  <2> QED BY <1>1, <2>4 DEF Unswapped, Narrow, Fused
<1>2. CASE kernel = "avx2"
  <2>1. i \in 0 .. 3
    BY <1>2, Avx2Shape
  <2>2. PICK e, f : e = RowOf(pass, 2 * i) /\ f = RowOf(pass, 2 * i + 1)
    OBVIOUS
  <2>3. CASE pass = "columns"
    <3>1. FourInColumns(r, e, f, 0)
      BY <1>2, <2>2, <2>3 DEF Laid, LaidAs
    <3>2. AtHome(r, i)
      <4>1. DOMAIN r = Slots
        BY <1>2, <2>1, <2>2, <2>3, <3>1 DEF FourInColumns
      <4>2. /\ Home(RegisterOf(i, "a0")) = <<e[0], e[1], e[2], e[3]>>
            /\ Home(RegisterOf(i, "a1")) = <<f[0], f[1], f[2], f[3]>>
            /\ Home(RegisterOf(i, "b0")) = <<e[4], e[5], e[6], e[7]>>
            /\ Home(RegisterOf(i, "b1")) = <<f[4], f[5], f[6], f[7]>>
            /\ Home(RegisterOf(i, "c0")) = <<e[8], e[9], e[10], e[11]>>
            /\ Home(RegisterOf(i, "c1")) = <<f[8], f[9], f[10], f[11]>>
            /\ Home(RegisterOf(i, "d0")) = <<e[12], e[13], e[14], e[15]>>
            /\ Home(RegisterOf(i, "d1")) = <<f[12], f[13], f[14], f[15]>>
        BY <1>2, <2>1, <2>2, <2>3, Avx2ColumnsHomes
      <4>3. /\ r.a0 = <<e[0], e[1], e[2], e[3]>>
            /\ r.a1 = <<f[0], f[1], f[2], f[3]>>
            /\ r.b0 = <<e[4], e[5], e[6], e[7]>>
            /\ r.b1 = <<f[4], f[5], f[6], f[7]>>
            /\ r.c0 = <<e[8], e[9], e[10], e[11]>>
            /\ r.c1 = <<f[8], f[9], f[10], f[11]>>
            /\ r.d0 = <<e[12], e[13], e[14], e[15]>>
            /\ r.d1 = <<f[12], f[13], f[14], f[15]>>
        BY <3>1 DEF FourInColumns
      <4>4. /\ r.a0 = Home(RegisterOf(i, "a0"))
            /\ r.a1 = Home(RegisterOf(i, "a1"))
            /\ r.b0 = Home(RegisterOf(i, "b0"))
            /\ r.b1 = Home(RegisterOf(i, "b1"))
            /\ r.c0 = Home(RegisterOf(i, "c0"))
            /\ r.c1 = Home(RegisterOf(i, "c1"))
            /\ r.d0 = Home(RegisterOf(i, "d0"))
            /\ r.d1 = Home(RegisterOf(i, "d1"))
        BY <4>2, <4>3, Zenon
      <4> QED BY <4>1, <4>4, HomeOfEach
    <3> QED BY <1>2, <3>2 DEF Unswapped
  <2>4. CASE pass = "rows"
    <3>1. FourInRows(r, e, f, 0)
      BY <1>2, <2>2, <2>4 DEF Laid, LaidAs
    <3>2. AtHome(r, i)
      <4>1. DOMAIN r = Slots
        BY <1>2, <2>1, <2>2, <2>4, <3>1 DEF FourInRows
      <4>2. /\ Home(RegisterOf(i, "a0")) = <<e[0], e[1], f[0], f[1]>>
            /\ Home(RegisterOf(i, "a1")) = <<e[2], e[3], f[2], f[3]>>
            /\ Home(RegisterOf(i, "b0")) = <<e[4], e[5], f[4], f[5]>>
            /\ Home(RegisterOf(i, "b1")) = <<e[6], e[7], f[6], f[7]>>
            /\ Home(RegisterOf(i, "c0")) = <<e[8], e[9], f[8], f[9]>>
            /\ Home(RegisterOf(i, "c1")) = <<e[10], e[11], f[10], f[11]>>
            /\ Home(RegisterOf(i, "d0")) = <<e[12], e[13], f[12], f[13]>>
            /\ Home(RegisterOf(i, "d1")) = <<e[14], e[15], f[14], f[15]>>
        BY <1>2, <2>1, <2>2, <2>4, Avx2RowsHomes
      <4>3. /\ r.a0 = <<e[0], e[1], f[0], f[1]>>
            /\ r.a1 = <<e[2], e[3], f[2], f[3]>>
            /\ r.b0 = <<e[4], e[5], f[4], f[5]>>
            /\ r.b1 = <<e[6], e[7], f[6], f[7]>>
            /\ r.c0 = <<e[8], e[9], f[8], f[9]>>
            /\ r.c1 = <<e[10], e[11], f[10], f[11]>>
            /\ r.d0 = <<e[12], e[13], f[12], f[13]>>
            /\ r.d1 = <<e[14], e[15], f[14], f[15]>>
        BY <3>1 DEF FourInRows
      <4>4. /\ r.a0 = Home(RegisterOf(i, "a0"))
            /\ r.a1 = Home(RegisterOf(i, "a1"))
            /\ r.b0 = Home(RegisterOf(i, "b0"))
            /\ r.b1 = Home(RegisterOf(i, "b1"))
            /\ r.c0 = Home(RegisterOf(i, "c0"))
            /\ r.c1 = Home(RegisterOf(i, "c1"))
            /\ r.d0 = Home(RegisterOf(i, "d0"))
            /\ r.d1 = Home(RegisterOf(i, "d1"))
        BY <4>2, <4>3, Zenon
      <4> QED BY <4>1, <4>4, HomeOfEach
    <3> QED BY <1>2, <3>2 DEF Unswapped
  <2> QED BY <2>3, <2>4 DEF Passes
<1>3. CASE kernel = "avx512"
  <2>1. i \in 0 .. 1
    BY <1>3, Avx512Shape
  <2>2. PICK e, f, g, k : /\ e = RowOf(pass, 4 * i) /\ f = RowOf(pass, 4 * i + 1)
                          /\ g = RowOf(pass, 4 * i + 2) /\ k = RowOf(pass, 4 * i + 3)
    OBVIOUS
  <2>3. /\ e \in [0 .. 15 -> Word] /\ f \in [0 .. 15 -> Word]
        /\ g \in [0 .. 15 -> Word] /\ k \in [0 .. 15 -> Word]
    BY <2>1, <2>2, RowOfWords
  <2>4. EightInTurn(r, e, f, g, k, 0)
    BY <1>3, <2>2 DEF Laid, LaidAs
  <2>5. PICK q : q = Unswapped(r)
    OBVIOUS
  <2>6. CASE pass = "columns"
    <3>1. EightInColumns(Pairwise(r, SwapHalves, HalfPairs), e, f, g, k)
      BY <2>3, <2>4, HalvesOut
    <3>2. Unswapped(r) = Pairwise(r, SwapHalves, HalfPairs)
      BY <1>3, <2>6, Zenon DEF Unswapped
    <3>3. EightInColumns(q, e, f, g, k)
      BY <2>5, <3>1, <3>2, Zenon
    <3>4. AtHome(q, i)
      <4>1. DOMAIN q = Slots
        BY <1>3, <2>1, <2>2, <2>6, <3>3 DEF EightInColumns
      <4>2. /\ q.a0 = Home(RegisterOf(i, "a0"))
            /\ q.a1 = Home(RegisterOf(i, "a1"))
            /\ q.b0 = Home(RegisterOf(i, "b0"))
            /\ q.b1 = Home(RegisterOf(i, "b1"))
            /\ q.c0 = Home(RegisterOf(i, "c0"))
            /\ q.c1 = Home(RegisterOf(i, "c1"))
            /\ q.d0 = Home(RegisterOf(i, "d0"))
            /\ q.d1 = Home(RegisterOf(i, "d1"))
        BY <1>3, <2>1, <2>2, <2>6, <3>3, Avx512ColumnsHomes DEF EightInColumns
      <4> QED BY <4>1, <4>2, HomeOfEach
    <3> QED BY <2>5, <3>4
  <2>7. CASE pass = "rows"
    <3>1. EightInRows(Pairwise(r, UnswapQuarters, QuarterPairs), e, f, g, k)
      BY <2>3, <2>4, QuartersOut
    <3>2. Unswapped(r) = Pairwise(r, UnswapQuarters, QuarterPairs)
      <4>1. pass # "columns"
        BY <2>7
      <4> QED BY <1>3, <4>1, Zenon DEF Unswapped
    <3>3. EightInRows(q, e, f, g, k)
      BY <2>5, <3>1, <3>2, Zenon
    <3>4. AtHome(q, i)
      <4>1. DOMAIN q = Slots
        BY <1>3, <2>1, <2>2, <2>7, <3>3 DEF EightInRows
      <4>2. /\ q.a0 = Home(RegisterOf(i, "a0"))
            /\ q.a1 = Home(RegisterOf(i, "a1"))
            /\ q.b0 = Home(RegisterOf(i, "b0"))
            /\ q.b1 = Home(RegisterOf(i, "b1"))
            /\ q.c0 = Home(RegisterOf(i, "c0"))
            /\ q.c1 = Home(RegisterOf(i, "c1"))
            /\ q.d0 = Home(RegisterOf(i, "d0"))
            /\ q.d1 = Home(RegisterOf(i, "d1"))
        BY <1>3, <2>1, <2>2, <2>7, <3>3, Avx512RowsHomes DEF EightInRows
      <4> QED BY <4>1, <4>2, HomeOfEach
    <3> QED BY <2>5, <3>4
  <2> QED BY <2>6, <2>7 DEF Passes
<1> QED BY <1>1, <1>2, <1>3, KernelsAre

-----------------------------------------------------------------------------
(* FillKernels: what a round mixes                                           *)

\* The words g1 and g2 take from a round of the scalar kernel.
FourG(e, d) ==
  IF d = 0
  THEN {<<e[0], e[4], e[8], e[12]>>,
        <<e[1], e[5], e[9], e[13]>>,
        <<e[2], e[6], e[10], e[14]>>,
        <<e[3], e[7], e[11], e[15]>>}
  ELSE {<<e[0], e[5], e[10], e[15]>>,
        <<e[1], e[6], e[11], e[12]>>,
        <<e[2], e[7], e[8], e[13]>>,
        <<e[3], e[4], e[9], e[14]>>}

\* The four G of a round are its four columns.
LEMMA FourGOfRow ==
  ASSUME NEW p, NEW i, NEW d \in 0 .. 1
  PROVE  FourG(RowOf(p, i), d) = {GWords(p, i, c, d) : c \in 0 .. 3}
<1>1. PICK e : e = RowOf(p, i)
  OBVIOUS
<1>2. \A m \in 0 .. 15 : e[m] = WordOf(p, i, m)
  BY <1>1 DEF RowOf
<1>3. {GWords(p, i, c, d) : c \in 0 .. 3} =
        {GWords(p, i, 0, d), GWords(p, i, 1, d), GWords(p, i, 2, d), GWords(p, i, 3, d)}
  BY DEF GWords
<1>4. CASE d = 0
  <2>1. GWords(p, i, 0, d) = <<e[0], e[4], e[8], e[12]>>
    <3>1. GWords(p, i, 0, d) = <<WordOf(p, i, 0), WordOf(p, i, 4), WordOf(p, i, 8), WordOf(p, i, 12)>>
      BY <1>4 DEF GWords
    <3> QED BY <1>2, <3>1
  <2>2. GWords(p, i, 1, d) = <<e[1], e[5], e[9], e[13]>>
    <3>1. GWords(p, i, 1, d) = <<WordOf(p, i, 1), WordOf(p, i, 5), WordOf(p, i, 9), WordOf(p, i, 13)>>
      BY <1>4 DEF GWords
    <3> QED BY <1>2, <3>1
  <2>3. GWords(p, i, 2, d) = <<e[2], e[6], e[10], e[14]>>
    <3>1. GWords(p, i, 2, d) = <<WordOf(p, i, 2), WordOf(p, i, 6), WordOf(p, i, 10), WordOf(p, i, 14)>>
      BY <1>4 DEF GWords
    <3> QED BY <1>2, <3>1
  <2>4. GWords(p, i, 3, d) = <<e[3], e[7], e[11], e[15]>>
    <3>1. GWords(p, i, 3, d) = <<WordOf(p, i, 3), WordOf(p, i, 7), WordOf(p, i, 11), WordOf(p, i, 15)>>
      BY <1>4 DEF GWords
    <3> QED BY <1>2, <3>1
  <2> QED BY <1>1, <1>3, <1>4, <2>1, <2>2, <2>3, <2>4 DEF FourG
<1>5. CASE d = 1
  <2>1. GWords(p, i, 0, d) = <<e[0], e[5], e[10], e[15]>>
    <3>1. GWords(p, i, 0, d) = <<WordOf(p, i, 0), WordOf(p, i, 5), WordOf(p, i, 10), WordOf(p, i, 15)>>
      BY <1>5 DEF GWords
    <3> QED BY <1>2, <3>1
  <2>2. GWords(p, i, 1, d) = <<e[1], e[6], e[11], e[12]>>
    <3>1. GWords(p, i, 1, d) = <<WordOf(p, i, 1), WordOf(p, i, 6), WordOf(p, i, 11), WordOf(p, i, 12)>>
      BY <1>5 DEF GWords
    <3> QED BY <1>2, <3>1
  <2>3. GWords(p, i, 2, d) = <<e[2], e[7], e[8], e[13]>>
    <3>1. GWords(p, i, 2, d) = <<WordOf(p, i, 2), WordOf(p, i, 7), WordOf(p, i, 8), WordOf(p, i, 13)>>
      BY <1>5 DEF GWords
    <3> QED BY <1>2, <3>1
  <2>4. GWords(p, i, 3, d) = <<e[3], e[4], e[9], e[14]>>
    <3>1. GWords(p, i, 3, d) = <<WordOf(p, i, 3), WordOf(p, i, 4), WordOf(p, i, 9), WordOf(p, i, 14)>>
      BY <1>5 DEF GWords
    <3> QED BY <1>2, <3>1
  <2> QED BY <1>1, <1>3, <1>5, <2>1, <2>2, <2>3, <2>4 DEF FourG
<1> QED BY <1>4, <1>5

\* The lanes of two-word registers make the four G of their round.
LEMMA TwoMixes ==
  ASSUME Lane = 1 .. 2, NEW r, NEW e, NEW d \in 0 .. 1, Two(r, e, d)
  PROVE  Quads(r) = FourG(e, d)
<1>1. PICK lo : lo = [n \in 1 .. 2 |-> <<r.a0[n], r.b0[n], r.c0[n], r.d0[n]>>]
  OBVIOUS
<1>2. PICK hi : hi = [n \in 1 .. 2 |-> <<r.a1[n], r.b1[n], r.c1[n], r.d1[n]>>]
  OBVIOUS
<1>3. \A q : q \in Quads(r) <=> \E n \in 1 .. 2 : q = lo[n] \/ q = hi[n]
  BY <1>1, <1>2 DEF Quads
<1>4. Quads(r) = {lo[1], lo[2],
                  hi[1], hi[2]}
  BY <1>3
<1>5. CASE d = 0
  <2>1. /\ lo[1] = <<r.a0[1], r.b0[1], r.c0[1], r.d0[1]>>
        /\ lo[2] = <<r.a0[2], r.b0[2], r.c0[2], r.d0[2]>>
        /\ hi[1] = <<r.a1[1], r.b1[1], r.c1[1], r.d1[1]>>
        /\ hi[2] = <<r.a1[2], r.b1[2], r.c1[2], r.d1[2]>>
    BY <1>1, <1>2
  <2>2. /\ r.a0 = <<e[0], e[1]>>
        /\ r.a1 = <<e[2], e[3]>>
        /\ r.b0 = <<e[4], e[5]>>
        /\ r.b1 = <<e[6], e[7]>>
        /\ r.c0 = <<e[8], e[9]>>
        /\ r.c1 = <<e[10], e[11]>>
        /\ r.d0 = <<e[12], e[13]>>
        /\ r.d1 = <<e[14], e[15]>>
    BY <1>5 DEF Two
  <2>3. /\ r.a0[1] = e[0] /\ r.a0[2] = e[1]
        /\ r.a1[1] = e[2] /\ r.a1[2] = e[3]
        /\ r.b0[1] = e[4] /\ r.b0[2] = e[5]
        /\ r.b1[1] = e[6] /\ r.b1[2] = e[7]
        /\ r.c0[1] = e[8] /\ r.c0[2] = e[9]
        /\ r.c1[1] = e[10] /\ r.c1[2] = e[11]
        /\ r.d0[1] = e[12] /\ r.d0[2] = e[13]
        /\ r.d1[1] = e[14] /\ r.d1[2] = e[15]
    BY <2>2
  <2>4. /\ lo[1] = <<e[0], e[4], e[8], e[12]>>
        /\ lo[2] = <<e[1], e[5], e[9], e[13]>>
        /\ hi[1] = <<e[2], e[6], e[10], e[14]>>
        /\ hi[2] = <<e[3], e[7], e[11], e[15]>>
    BY <2>1, <2>3
  <2>5. /\ FourG(e, d) = {lo[1], lo[2], hi[1], hi[2]}
    BY <1>5, <2>4 DEF FourG
  <2> QED BY <1>4, <2>5
<1>6. CASE d = 1
  <2>1. /\ lo[1] = <<r.a0[1], r.b0[1], r.c0[1], r.d0[1]>>
        /\ lo[2] = <<r.a0[2], r.b0[2], r.c0[2], r.d0[2]>>
        /\ hi[1] = <<r.a1[1], r.b1[1], r.c1[1], r.d1[1]>>
        /\ hi[2] = <<r.a1[2], r.b1[2], r.c1[2], r.d1[2]>>
    BY <1>1, <1>2
  <2>2. /\ r.a0 = <<e[0], e[1]>>
        /\ r.a1 = <<e[2], e[3]>>
        /\ r.b0 = <<e[5], e[6]>>
        /\ r.b1 = <<e[7], e[4]>>
        /\ r.c0 = <<e[10], e[11]>>
        /\ r.c1 = <<e[8], e[9]>>
        /\ r.d0 = <<e[15], e[12]>>
        /\ r.d1 = <<e[13], e[14]>>
    BY <1>6 DEF Two
  <2>3. /\ r.a0[1] = e[0] /\ r.a0[2] = e[1]
        /\ r.a1[1] = e[2] /\ r.a1[2] = e[3]
        /\ r.b0[1] = e[5] /\ r.b0[2] = e[6]
        /\ r.b1[1] = e[7] /\ r.b1[2] = e[4]
        /\ r.c0[1] = e[10] /\ r.c0[2] = e[11]
        /\ r.c1[1] = e[8] /\ r.c1[2] = e[9]
        /\ r.d0[1] = e[15] /\ r.d0[2] = e[12]
        /\ r.d1[1] = e[13] /\ r.d1[2] = e[14]
    BY <2>2
  <2>4. /\ lo[1] = <<e[0], e[5], e[10], e[15]>>
        /\ lo[2] = <<e[1], e[6], e[11], e[12]>>
        /\ hi[1] = <<e[2], e[7], e[8], e[13]>>
        /\ hi[2] = <<e[3], e[4], e[9], e[14]>>
    BY <2>1, <2>3
  <2>5. /\ FourG(e, d) = {lo[1], lo[2], hi[1], hi[2]}
    BY <1>6, <2>4 DEF FourG
  <2> QED BY <1>4, <2>5
<1> QED BY <1>5, <1>6

\* The lanes of AVX2's column pass make the G of both of its rounds ...
LEMMA ColumnsMix ==
  ASSUME Lane = 1 .. 4, NEW r, NEW e, NEW f, NEW d \in 0 .. 1, FourInColumns(r, e, f, d)
  PROVE  Quads(r) = FourG(e, d) \cup FourG(f, d)
<1>1. PICK lo : lo = [n \in 1 .. 4 |-> <<r.a0[n], r.b0[n], r.c0[n], r.d0[n]>>]
  OBVIOUS
<1>2. PICK hi : hi = [n \in 1 .. 4 |-> <<r.a1[n], r.b1[n], r.c1[n], r.d1[n]>>]
  OBVIOUS
<1>3. \A q : q \in Quads(r) <=> \E n \in 1 .. 4 : q = lo[n] \/ q = hi[n]
  BY <1>1, <1>2 DEF Quads
<1>4. Quads(r) = {lo[1], lo[2], lo[3], lo[4],
                  hi[1], hi[2], hi[3], hi[4]}
  BY <1>3
<1>5. CASE d = 0
  <2>1. /\ lo[1] = <<r.a0[1], r.b0[1], r.c0[1], r.d0[1]>>
        /\ lo[2] = <<r.a0[2], r.b0[2], r.c0[2], r.d0[2]>>
        /\ lo[3] = <<r.a0[3], r.b0[3], r.c0[3], r.d0[3]>>
        /\ lo[4] = <<r.a0[4], r.b0[4], r.c0[4], r.d0[4]>>
        /\ hi[1] = <<r.a1[1], r.b1[1], r.c1[1], r.d1[1]>>
        /\ hi[2] = <<r.a1[2], r.b1[2], r.c1[2], r.d1[2]>>
        /\ hi[3] = <<r.a1[3], r.b1[3], r.c1[3], r.d1[3]>>
        /\ hi[4] = <<r.a1[4], r.b1[4], r.c1[4], r.d1[4]>>
    BY <1>1, <1>2
  <2>2. /\ r.a0 = <<e[0], e[1], e[2], e[3]>>
        /\ r.a1 = <<f[0], f[1], f[2], f[3]>>
        /\ r.b0 = <<e[4], e[5], e[6], e[7]>>
        /\ r.b1 = <<f[4], f[5], f[6], f[7]>>
        /\ r.c0 = <<e[8], e[9], e[10], e[11]>>
        /\ r.c1 = <<f[8], f[9], f[10], f[11]>>
        /\ r.d0 = <<e[12], e[13], e[14], e[15]>>
        /\ r.d1 = <<f[12], f[13], f[14], f[15]>>
    BY <1>5 DEF FourInColumns
  <2>3. /\ r.a0[1] = e[0] /\ r.a0[2] = e[1] /\ r.a0[3] = e[2] /\ r.a0[4] = e[3]
        /\ r.a1[1] = f[0] /\ r.a1[2] = f[1] /\ r.a1[3] = f[2] /\ r.a1[4] = f[3]
        /\ r.b0[1] = e[4] /\ r.b0[2] = e[5] /\ r.b0[3] = e[6] /\ r.b0[4] = e[7]
        /\ r.b1[1] = f[4] /\ r.b1[2] = f[5] /\ r.b1[3] = f[6] /\ r.b1[4] = f[7]
        /\ r.c0[1] = e[8] /\ r.c0[2] = e[9] /\ r.c0[3] = e[10] /\ r.c0[4] = e[11]
        /\ r.c1[1] = f[8] /\ r.c1[2] = f[9] /\ r.c1[3] = f[10] /\ r.c1[4] = f[11]
        /\ r.d0[1] = e[12] /\ r.d0[2] = e[13] /\ r.d0[3] = e[14] /\ r.d0[4] = e[15]
        /\ r.d1[1] = f[12] /\ r.d1[2] = f[13] /\ r.d1[3] = f[14] /\ r.d1[4] = f[15]
    BY <2>2
  <2>4. /\ lo[1] = <<e[0], e[4], e[8], e[12]>>
        /\ lo[2] = <<e[1], e[5], e[9], e[13]>>
        /\ lo[3] = <<e[2], e[6], e[10], e[14]>>
        /\ lo[4] = <<e[3], e[7], e[11], e[15]>>
        /\ hi[1] = <<f[0], f[4], f[8], f[12]>>
        /\ hi[2] = <<f[1], f[5], f[9], f[13]>>
        /\ hi[3] = <<f[2], f[6], f[10], f[14]>>
        /\ hi[4] = <<f[3], f[7], f[11], f[15]>>
    BY <2>1, <2>3
  <2>5. /\ FourG(e, d) = {lo[1], lo[2], lo[3], lo[4]}
        /\ FourG(f, d) = {hi[1], hi[2], hi[3], hi[4]}
    BY <1>5, <2>4 DEF FourG
  <2> QED BY <1>4, <2>5
<1>6. CASE d = 1
  <2>1. /\ lo[1] = <<r.a0[1], r.b0[1], r.c0[1], r.d0[1]>>
        /\ lo[2] = <<r.a0[2], r.b0[2], r.c0[2], r.d0[2]>>
        /\ lo[3] = <<r.a0[3], r.b0[3], r.c0[3], r.d0[3]>>
        /\ lo[4] = <<r.a0[4], r.b0[4], r.c0[4], r.d0[4]>>
        /\ hi[1] = <<r.a1[1], r.b1[1], r.c1[1], r.d1[1]>>
        /\ hi[2] = <<r.a1[2], r.b1[2], r.c1[2], r.d1[2]>>
        /\ hi[3] = <<r.a1[3], r.b1[3], r.c1[3], r.d1[3]>>
        /\ hi[4] = <<r.a1[4], r.b1[4], r.c1[4], r.d1[4]>>
    BY <1>1, <1>2
  <2>2. /\ r.a0 = <<e[0], e[1], e[2], e[3]>>
        /\ r.a1 = <<f[0], f[1], f[2], f[3]>>
        /\ r.b0 = <<e[5], e[6], e[7], e[4]>>
        /\ r.b1 = <<f[5], f[6], f[7], f[4]>>
        /\ r.c0 = <<e[10], e[11], e[8], e[9]>>
        /\ r.c1 = <<f[10], f[11], f[8], f[9]>>
        /\ r.d0 = <<e[15], e[12], e[13], e[14]>>
        /\ r.d1 = <<f[15], f[12], f[13], f[14]>>
    BY <1>6 DEF FourInColumns
  <2>3. /\ r.a0[1] = e[0] /\ r.a0[2] = e[1] /\ r.a0[3] = e[2] /\ r.a0[4] = e[3]
        /\ r.a1[1] = f[0] /\ r.a1[2] = f[1] /\ r.a1[3] = f[2] /\ r.a1[4] = f[3]
        /\ r.b0[1] = e[5] /\ r.b0[2] = e[6] /\ r.b0[3] = e[7] /\ r.b0[4] = e[4]
        /\ r.b1[1] = f[5] /\ r.b1[2] = f[6] /\ r.b1[3] = f[7] /\ r.b1[4] = f[4]
        /\ r.c0[1] = e[10] /\ r.c0[2] = e[11] /\ r.c0[3] = e[8] /\ r.c0[4] = e[9]
        /\ r.c1[1] = f[10] /\ r.c1[2] = f[11] /\ r.c1[3] = f[8] /\ r.c1[4] = f[9]
        /\ r.d0[1] = e[15] /\ r.d0[2] = e[12] /\ r.d0[3] = e[13] /\ r.d0[4] = e[14]
        /\ r.d1[1] = f[15] /\ r.d1[2] = f[12] /\ r.d1[3] = f[13] /\ r.d1[4] = f[14]
    BY <2>2
  <2>4. /\ lo[1] = <<e[0], e[5], e[10], e[15]>>
        /\ lo[2] = <<e[1], e[6], e[11], e[12]>>
        /\ lo[3] = <<e[2], e[7], e[8], e[13]>>
        /\ lo[4] = <<e[3], e[4], e[9], e[14]>>
        /\ hi[1] = <<f[0], f[5], f[10], f[15]>>
        /\ hi[2] = <<f[1], f[6], f[11], f[12]>>
        /\ hi[3] = <<f[2], f[7], f[8], f[13]>>
        /\ hi[4] = <<f[3], f[4], f[9], f[14]>>
    BY <2>1, <2>3
  <2>5. /\ FourG(e, d) = {lo[1], lo[2], lo[3], lo[4]}
        /\ FourG(f, d) = {hi[1], hi[2], hi[3], hi[4]}
    BY <1>6, <2>4 DEF FourG
  <2> QED BY <1>4, <2>5
<1> QED BY <1>5, <1>6

\* ... and so do those of its row pass.
LEMMA RowsMix ==
  ASSUME Lane = 1 .. 4, NEW r, NEW e, NEW f, NEW d \in 0 .. 1, FourInRows(r, e, f, d)
  PROVE  Quads(r) = FourG(e, d) \cup FourG(f, d)
<1>1. PICK lo : lo = [n \in 1 .. 4 |-> <<r.a0[n], r.b0[n], r.c0[n], r.d0[n]>>]
  OBVIOUS
<1>2. PICK hi : hi = [n \in 1 .. 4 |-> <<r.a1[n], r.b1[n], r.c1[n], r.d1[n]>>]
  OBVIOUS
<1>3. \A q : q \in Quads(r) <=> \E n \in 1 .. 4 : q = lo[n] \/ q = hi[n]
  BY <1>1, <1>2 DEF Quads
<1>4. Quads(r) = {lo[1], lo[2], lo[3], lo[4],
                  hi[1], hi[2], hi[3], hi[4]}
  BY <1>3
<1>5. CASE d = 0
  <2>1. /\ lo[1] = <<r.a0[1], r.b0[1], r.c0[1], r.d0[1]>>
        /\ lo[2] = <<r.a0[2], r.b0[2], r.c0[2], r.d0[2]>>
        /\ lo[3] = <<r.a0[3], r.b0[3], r.c0[3], r.d0[3]>>
        /\ lo[4] = <<r.a0[4], r.b0[4], r.c0[4], r.d0[4]>>
        /\ hi[1] = <<r.a1[1], r.b1[1], r.c1[1], r.d1[1]>>
        /\ hi[2] = <<r.a1[2], r.b1[2], r.c1[2], r.d1[2]>>
        /\ hi[3] = <<r.a1[3], r.b1[3], r.c1[3], r.d1[3]>>
        /\ hi[4] = <<r.a1[4], r.b1[4], r.c1[4], r.d1[4]>>
    BY <1>1, <1>2
  <2>2. /\ r.a0 = <<e[0], e[1], f[0], f[1]>>
        /\ r.a1 = <<e[2], e[3], f[2], f[3]>>
        /\ r.b0 = <<e[4], e[5], f[4], f[5]>>
        /\ r.b1 = <<e[6], e[7], f[6], f[7]>>
        /\ r.c0 = <<e[8], e[9], f[8], f[9]>>
        /\ r.c1 = <<e[10], e[11], f[10], f[11]>>
        /\ r.d0 = <<e[12], e[13], f[12], f[13]>>
        /\ r.d1 = <<e[14], e[15], f[14], f[15]>>
    BY <1>5 DEF FourInRows
  <2>3. /\ r.a0[1] = e[0] /\ r.a0[2] = e[1] /\ r.a0[3] = f[0] /\ r.a0[4] = f[1]
        /\ r.a1[1] = e[2] /\ r.a1[2] = e[3] /\ r.a1[3] = f[2] /\ r.a1[4] = f[3]
        /\ r.b0[1] = e[4] /\ r.b0[2] = e[5] /\ r.b0[3] = f[4] /\ r.b0[4] = f[5]
        /\ r.b1[1] = e[6] /\ r.b1[2] = e[7] /\ r.b1[3] = f[6] /\ r.b1[4] = f[7]
        /\ r.c0[1] = e[8] /\ r.c0[2] = e[9] /\ r.c0[3] = f[8] /\ r.c0[4] = f[9]
        /\ r.c1[1] = e[10] /\ r.c1[2] = e[11] /\ r.c1[3] = f[10] /\ r.c1[4] = f[11]
        /\ r.d0[1] = e[12] /\ r.d0[2] = e[13] /\ r.d0[3] = f[12] /\ r.d0[4] = f[13]
        /\ r.d1[1] = e[14] /\ r.d1[2] = e[15] /\ r.d1[3] = f[14] /\ r.d1[4] = f[15]
    BY <2>2
  <2>4. /\ lo[1] = <<e[0], e[4], e[8], e[12]>>
        /\ lo[2] = <<e[1], e[5], e[9], e[13]>>
        /\ lo[3] = <<f[0], f[4], f[8], f[12]>>
        /\ lo[4] = <<f[1], f[5], f[9], f[13]>>
        /\ hi[1] = <<e[2], e[6], e[10], e[14]>>
        /\ hi[2] = <<e[3], e[7], e[11], e[15]>>
        /\ hi[3] = <<f[2], f[6], f[10], f[14]>>
        /\ hi[4] = <<f[3], f[7], f[11], f[15]>>
    BY <2>1, <2>3
  <2>5. /\ FourG(e, d) = {lo[1], lo[2], hi[1], hi[2]}
        /\ FourG(f, d) = {lo[3], lo[4], hi[3], hi[4]}
    BY <1>5, <2>4 DEF FourG
  <2> QED BY <1>4, <2>5
<1>6. CASE d = 1
  <2>1. /\ lo[1] = <<r.a0[1], r.b0[1], r.c0[1], r.d0[1]>>
        /\ lo[2] = <<r.a0[2], r.b0[2], r.c0[2], r.d0[2]>>
        /\ lo[3] = <<r.a0[3], r.b0[3], r.c0[3], r.d0[3]>>
        /\ lo[4] = <<r.a0[4], r.b0[4], r.c0[4], r.d0[4]>>
        /\ hi[1] = <<r.a1[1], r.b1[1], r.c1[1], r.d1[1]>>
        /\ hi[2] = <<r.a1[2], r.b1[2], r.c1[2], r.d1[2]>>
        /\ hi[3] = <<r.a1[3], r.b1[3], r.c1[3], r.d1[3]>>
        /\ hi[4] = <<r.a1[4], r.b1[4], r.c1[4], r.d1[4]>>
    BY <1>1, <1>2
  <2>2. /\ r.a0 = <<e[0], e[1], f[0], f[1]>>
        /\ r.a1 = <<e[2], e[3], f[2], f[3]>>
        /\ r.b0 = <<e[5], e[6], f[5], f[6]>>
        /\ r.b1 = <<e[7], e[4], f[7], f[4]>>
        /\ r.c0 = <<e[10], e[11], f[10], f[11]>>
        /\ r.c1 = <<e[8], e[9], f[8], f[9]>>
        /\ r.d0 = <<e[15], e[12], f[15], f[12]>>
        /\ r.d1 = <<e[13], e[14], f[13], f[14]>>
    BY <1>6 DEF FourInRows
  <2>3. /\ r.a0[1] = e[0] /\ r.a0[2] = e[1] /\ r.a0[3] = f[0] /\ r.a0[4] = f[1]
        /\ r.a1[1] = e[2] /\ r.a1[2] = e[3] /\ r.a1[3] = f[2] /\ r.a1[4] = f[3]
        /\ r.b0[1] = e[5] /\ r.b0[2] = e[6] /\ r.b0[3] = f[5] /\ r.b0[4] = f[6]
        /\ r.b1[1] = e[7] /\ r.b1[2] = e[4] /\ r.b1[3] = f[7] /\ r.b1[4] = f[4]
        /\ r.c0[1] = e[10] /\ r.c0[2] = e[11] /\ r.c0[3] = f[10] /\ r.c0[4] = f[11]
        /\ r.c1[1] = e[8] /\ r.c1[2] = e[9] /\ r.c1[3] = f[8] /\ r.c1[4] = f[9]
        /\ r.d0[1] = e[15] /\ r.d0[2] = e[12] /\ r.d0[3] = f[15] /\ r.d0[4] = f[12]
        /\ r.d1[1] = e[13] /\ r.d1[2] = e[14] /\ r.d1[3] = f[13] /\ r.d1[4] = f[14]
    BY <2>2
  <2>4. /\ lo[1] = <<e[0], e[5], e[10], e[15]>>
        /\ lo[2] = <<e[1], e[6], e[11], e[12]>>
        /\ lo[3] = <<f[0], f[5], f[10], f[15]>>
        /\ lo[4] = <<f[1], f[6], f[11], f[12]>>
        /\ hi[1] = <<e[2], e[7], e[8], e[13]>>
        /\ hi[2] = <<e[3], e[4], e[9], e[14]>>
        /\ hi[3] = <<f[2], f[7], f[8], f[13]>>
        /\ hi[4] = <<f[3], f[4], f[9], f[14]>>
    BY <2>1, <2>3
  <2>5. /\ FourG(e, d) = {lo[1], lo[2], hi[1], hi[2]}
        /\ FourG(f, d) = {lo[3], lo[4], hi[3], hi[4]}
    BY <1>6, <2>4 DEF FourG
  <2> QED BY <1>4, <2>5
<1> QED BY <1>5, <1>6

\* The lanes of AVX-512 make the G of all of its four rounds.
LEMMA EightsMix ==
  ASSUME Lane = 1 .. 8, NEW r, NEW e, NEW f, NEW g, NEW k, NEW d \in 0 .. 1, EightInTurn(r, e, f, g, k, d)
  PROVE  Quads(r) = FourG(e, d) \cup FourG(f, d) \cup FourG(g, d) \cup FourG(k, d)
<1>1. PICK lo : lo = [n \in 1 .. 8 |-> <<r.a0[n], r.b0[n], r.c0[n], r.d0[n]>>]
  OBVIOUS
<1>2. PICK hi : hi = [n \in 1 .. 8 |-> <<r.a1[n], r.b1[n], r.c1[n], r.d1[n]>>]
  OBVIOUS
<1>3. \A q : q \in Quads(r) <=> \E n \in 1 .. 8 : q = lo[n] \/ q = hi[n]
  BY <1>1, <1>2 DEF Quads
<1>4. Quads(r) = {lo[1], lo[2], lo[3], lo[4], lo[5], lo[6], lo[7], lo[8],
                  hi[1], hi[2], hi[3], hi[4], hi[5], hi[6], hi[7], hi[8]}
  BY <1>3
<1>5. CASE d = 0
  <2>1. /\ lo[1] = <<r.a0[1], r.b0[1], r.c0[1], r.d0[1]>>
        /\ lo[2] = <<r.a0[2], r.b0[2], r.c0[2], r.d0[2]>>
        /\ lo[3] = <<r.a0[3], r.b0[3], r.c0[3], r.d0[3]>>
        /\ lo[4] = <<r.a0[4], r.b0[4], r.c0[4], r.d0[4]>>
        /\ lo[5] = <<r.a0[5], r.b0[5], r.c0[5], r.d0[5]>>
        /\ lo[6] = <<r.a0[6], r.b0[6], r.c0[6], r.d0[6]>>
        /\ lo[7] = <<r.a0[7], r.b0[7], r.c0[7], r.d0[7]>>
        /\ lo[8] = <<r.a0[8], r.b0[8], r.c0[8], r.d0[8]>>
        /\ hi[1] = <<r.a1[1], r.b1[1], r.c1[1], r.d1[1]>>
        /\ hi[2] = <<r.a1[2], r.b1[2], r.c1[2], r.d1[2]>>
        /\ hi[3] = <<r.a1[3], r.b1[3], r.c1[3], r.d1[3]>>
        /\ hi[4] = <<r.a1[4], r.b1[4], r.c1[4], r.d1[4]>>
        /\ hi[5] = <<r.a1[5], r.b1[5], r.c1[5], r.d1[5]>>
        /\ hi[6] = <<r.a1[6], r.b1[6], r.c1[6], r.d1[6]>>
        /\ hi[7] = <<r.a1[7], r.b1[7], r.c1[7], r.d1[7]>>
        /\ hi[8] = <<r.a1[8], r.b1[8], r.c1[8], r.d1[8]>>
    BY <1>1, <1>2
  <2>2. /\ r.a0 = <<e[0], e[1], e[2], e[3], f[0], f[1], f[2], f[3]>>
        /\ r.a1 = <<g[0], g[1], g[2], g[3], k[0], k[1], k[2], k[3]>>
        /\ r.b0 = <<e[4], e[5], e[6], e[7], f[4], f[5], f[6], f[7]>>
        /\ r.b1 = <<g[4], g[5], g[6], g[7], k[4], k[5], k[6], k[7]>>
        /\ r.c0 = <<e[8], e[9], e[10], e[11], f[8], f[9], f[10], f[11]>>
        /\ r.c1 = <<g[8], g[9], g[10], g[11], k[8], k[9], k[10], k[11]>>
        /\ r.d0 = <<e[12], e[13], e[14], e[15], f[12], f[13], f[14], f[15]>>
        /\ r.d1 = <<g[12], g[13], g[14], g[15], k[12], k[13], k[14], k[15]>>
    BY <1>5 DEF EightInTurn
  <2>3. /\ r.a0[1] = e[0] /\ r.a0[2] = e[1] /\ r.a0[3] = e[2] /\ r.a0[4] = e[3] /\ r.a0[5] = f[0] /\ r.a0[6] = f[1] /\ r.a0[7] = f[2] /\ r.a0[8] = f[3]
        /\ r.a1[1] = g[0] /\ r.a1[2] = g[1] /\ r.a1[3] = g[2] /\ r.a1[4] = g[3] /\ r.a1[5] = k[0] /\ r.a1[6] = k[1] /\ r.a1[7] = k[2] /\ r.a1[8] = k[3]
        /\ r.b0[1] = e[4] /\ r.b0[2] = e[5] /\ r.b0[3] = e[6] /\ r.b0[4] = e[7] /\ r.b0[5] = f[4] /\ r.b0[6] = f[5] /\ r.b0[7] = f[6] /\ r.b0[8] = f[7]
        /\ r.b1[1] = g[4] /\ r.b1[2] = g[5] /\ r.b1[3] = g[6] /\ r.b1[4] = g[7] /\ r.b1[5] = k[4] /\ r.b1[6] = k[5] /\ r.b1[7] = k[6] /\ r.b1[8] = k[7]
        /\ r.c0[1] = e[8] /\ r.c0[2] = e[9] /\ r.c0[3] = e[10] /\ r.c0[4] = e[11] /\ r.c0[5] = f[8] /\ r.c0[6] = f[9] /\ r.c0[7] = f[10] /\ r.c0[8] = f[11]
        /\ r.c1[1] = g[8] /\ r.c1[2] = g[9] /\ r.c1[3] = g[10] /\ r.c1[4] = g[11] /\ r.c1[5] = k[8] /\ r.c1[6] = k[9] /\ r.c1[7] = k[10] /\ r.c1[8] = k[11]
        /\ r.d0[1] = e[12] /\ r.d0[2] = e[13] /\ r.d0[3] = e[14] /\ r.d0[4] = e[15] /\ r.d0[5] = f[12] /\ r.d0[6] = f[13] /\ r.d0[7] = f[14] /\ r.d0[8] = f[15]
        /\ r.d1[1] = g[12] /\ r.d1[2] = g[13] /\ r.d1[3] = g[14] /\ r.d1[4] = g[15] /\ r.d1[5] = k[12] /\ r.d1[6] = k[13] /\ r.d1[7] = k[14] /\ r.d1[8] = k[15]
    BY <2>2
  <2>4. /\ lo[1] = <<e[0], e[4], e[8], e[12]>>
        /\ lo[2] = <<e[1], e[5], e[9], e[13]>>
        /\ lo[3] = <<e[2], e[6], e[10], e[14]>>
        /\ lo[4] = <<e[3], e[7], e[11], e[15]>>
        /\ lo[5] = <<f[0], f[4], f[8], f[12]>>
        /\ lo[6] = <<f[1], f[5], f[9], f[13]>>
        /\ lo[7] = <<f[2], f[6], f[10], f[14]>>
        /\ lo[8] = <<f[3], f[7], f[11], f[15]>>
        /\ hi[1] = <<g[0], g[4], g[8], g[12]>>
        /\ hi[2] = <<g[1], g[5], g[9], g[13]>>
        /\ hi[3] = <<g[2], g[6], g[10], g[14]>>
        /\ hi[4] = <<g[3], g[7], g[11], g[15]>>
        /\ hi[5] = <<k[0], k[4], k[8], k[12]>>
        /\ hi[6] = <<k[1], k[5], k[9], k[13]>>
        /\ hi[7] = <<k[2], k[6], k[10], k[14]>>
        /\ hi[8] = <<k[3], k[7], k[11], k[15]>>
    BY <2>1, <2>3
  <2>5. /\ FourG(e, d) = {lo[1], lo[2], lo[3], lo[4]}
        /\ FourG(f, d) = {lo[5], lo[6], lo[7], lo[8]}
        /\ FourG(g, d) = {hi[1], hi[2], hi[3], hi[4]}
        /\ FourG(k, d) = {hi[5], hi[6], hi[7], hi[8]}
    BY <1>5, <2>4 DEF FourG
  <2> QED BY <1>4, <2>5
<1>6. CASE d = 1
  <2>1. /\ lo[1] = <<r.a0[1], r.b0[1], r.c0[1], r.d0[1]>>
        /\ lo[2] = <<r.a0[2], r.b0[2], r.c0[2], r.d0[2]>>
        /\ lo[3] = <<r.a0[3], r.b0[3], r.c0[3], r.d0[3]>>
        /\ lo[4] = <<r.a0[4], r.b0[4], r.c0[4], r.d0[4]>>
        /\ lo[5] = <<r.a0[5], r.b0[5], r.c0[5], r.d0[5]>>
        /\ lo[6] = <<r.a0[6], r.b0[6], r.c0[6], r.d0[6]>>
        /\ lo[7] = <<r.a0[7], r.b0[7], r.c0[7], r.d0[7]>>
        /\ lo[8] = <<r.a0[8], r.b0[8], r.c0[8], r.d0[8]>>
        /\ hi[1] = <<r.a1[1], r.b1[1], r.c1[1], r.d1[1]>>
        /\ hi[2] = <<r.a1[2], r.b1[2], r.c1[2], r.d1[2]>>
        /\ hi[3] = <<r.a1[3], r.b1[3], r.c1[3], r.d1[3]>>
        /\ hi[4] = <<r.a1[4], r.b1[4], r.c1[4], r.d1[4]>>
        /\ hi[5] = <<r.a1[5], r.b1[5], r.c1[5], r.d1[5]>>
        /\ hi[6] = <<r.a1[6], r.b1[6], r.c1[6], r.d1[6]>>
        /\ hi[7] = <<r.a1[7], r.b1[7], r.c1[7], r.d1[7]>>
        /\ hi[8] = <<r.a1[8], r.b1[8], r.c1[8], r.d1[8]>>
    BY <1>1, <1>2
  <2>2. /\ r.a0 = <<e[0], e[1], e[2], e[3], f[0], f[1], f[2], f[3]>>
        /\ r.a1 = <<g[0], g[1], g[2], g[3], k[0], k[1], k[2], k[3]>>
        /\ r.b0 = <<e[5], e[6], e[7], e[4], f[5], f[6], f[7], f[4]>>
        /\ r.b1 = <<g[5], g[6], g[7], g[4], k[5], k[6], k[7], k[4]>>
        /\ r.c0 = <<e[10], e[11], e[8], e[9], f[10], f[11], f[8], f[9]>>
        /\ r.c1 = <<g[10], g[11], g[8], g[9], k[10], k[11], k[8], k[9]>>
        /\ r.d0 = <<e[15], e[12], e[13], e[14], f[15], f[12], f[13], f[14]>>
        /\ r.d1 = <<g[15], g[12], g[13], g[14], k[15], k[12], k[13], k[14]>>
    BY <1>6 DEF EightInTurn
  <2>3. /\ r.a0[1] = e[0] /\ r.a0[2] = e[1] /\ r.a0[3] = e[2] /\ r.a0[4] = e[3] /\ r.a0[5] = f[0] /\ r.a0[6] = f[1] /\ r.a0[7] = f[2] /\ r.a0[8] = f[3]
        /\ r.a1[1] = g[0] /\ r.a1[2] = g[1] /\ r.a1[3] = g[2] /\ r.a1[4] = g[3] /\ r.a1[5] = k[0] /\ r.a1[6] = k[1] /\ r.a1[7] = k[2] /\ r.a1[8] = k[3]
        /\ r.b0[1] = e[5] /\ r.b0[2] = e[6] /\ r.b0[3] = e[7] /\ r.b0[4] = e[4] /\ r.b0[5] = f[5] /\ r.b0[6] = f[6] /\ r.b0[7] = f[7] /\ r.b0[8] = f[4]
        /\ r.b1[1] = g[5] /\ r.b1[2] = g[6] /\ r.b1[3] = g[7] /\ r.b1[4] = g[4] /\ r.b1[5] = k[5] /\ r.b1[6] = k[6] /\ r.b1[7] = k[7] /\ r.b1[8] = k[4]
        /\ r.c0[1] = e[10] /\ r.c0[2] = e[11] /\ r.c0[3] = e[8] /\ r.c0[4] = e[9] /\ r.c0[5] = f[10] /\ r.c0[6] = f[11] /\ r.c0[7] = f[8] /\ r.c0[8] = f[9]
        /\ r.c1[1] = g[10] /\ r.c1[2] = g[11] /\ r.c1[3] = g[8] /\ r.c1[4] = g[9] /\ r.c1[5] = k[10] /\ r.c1[6] = k[11] /\ r.c1[7] = k[8] /\ r.c1[8] = k[9]
        /\ r.d0[1] = e[15] /\ r.d0[2] = e[12] /\ r.d0[3] = e[13] /\ r.d0[4] = e[14] /\ r.d0[5] = f[15] /\ r.d0[6] = f[12] /\ r.d0[7] = f[13] /\ r.d0[8] = f[14]
        /\ r.d1[1] = g[15] /\ r.d1[2] = g[12] /\ r.d1[3] = g[13] /\ r.d1[4] = g[14] /\ r.d1[5] = k[15] /\ r.d1[6] = k[12] /\ r.d1[7] = k[13] /\ r.d1[8] = k[14]
    BY <2>2
  <2>4. /\ lo[1] = <<e[0], e[5], e[10], e[15]>>
        /\ lo[2] = <<e[1], e[6], e[11], e[12]>>
        /\ lo[3] = <<e[2], e[7], e[8], e[13]>>
        /\ lo[4] = <<e[3], e[4], e[9], e[14]>>
        /\ lo[5] = <<f[0], f[5], f[10], f[15]>>
        /\ lo[6] = <<f[1], f[6], f[11], f[12]>>
        /\ lo[7] = <<f[2], f[7], f[8], f[13]>>
        /\ lo[8] = <<f[3], f[4], f[9], f[14]>>
        /\ hi[1] = <<g[0], g[5], g[10], g[15]>>
        /\ hi[2] = <<g[1], g[6], g[11], g[12]>>
        /\ hi[3] = <<g[2], g[7], g[8], g[13]>>
        /\ hi[4] = <<g[3], g[4], g[9], g[14]>>
        /\ hi[5] = <<k[0], k[5], k[10], k[15]>>
        /\ hi[6] = <<k[1], k[6], k[11], k[12]>>
        /\ hi[7] = <<k[2], k[7], k[8], k[13]>>
        /\ hi[8] = <<k[3], k[4], k[9], k[14]>>
    BY <2>1, <2>3
  <2>5. /\ FourG(e, d) = {lo[1], lo[2], lo[3], lo[4]}
        /\ FourG(f, d) = {lo[5], lo[6], lo[7], lo[8]}
        /\ FourG(g, d) = {hi[1], hi[2], hi[3], hi[4]}
        /\ FourG(k, d) = {hi[5], hi[6], hi[7], hi[8]}
    BY <1>6, <2>4 DEF FourG
  <2> QED BY <1>4, <2>5
<1> QED BY <1>5, <1>6

\* In any kernel the lanes of a group of registers make the G of its rounds and no other.
LEMMA MixesRound ==
  ASSUME kernel \in Kernels, pass \in Passes, NEW i \in Nat, NEW r, NEW d \in 0 .. 1,
         Laid(r, i, d)
  PROVE  \A q : q \in Quads(r) <=> \E y \in RoundsOf(i), c \in 0 .. 3 : q = GWords(pass, y, c, d)
<1>0. DEFINE Of(y) == {GWords(pass, y, c, d) : c \in 0 .. 3}
<1>1. CASE kernel \in Narrow
  <2>1. PICK e : e = RowOf(pass, i)
    OBVIOUS
  <2>2. Two(r, e, d) /\ RoundsOf(i) = {i}
    BY <1>1, <2>1 DEF Laid, LaidAs, RoundsOf, Narrow, Fused
  <2>3. Lane = 1 .. 2
    BY <1>1, NarrowShape
  <2>4. Quads(r) = FourG(e, d)
    BY <2>2, <2>3, TwoMixes
  <2>5. FourG(e, d) = Of(i)
    BY <2>1, FourGOfRow
  <2> QED BY <2>2, <2>4, <2>5
<1>2. CASE kernel = "avx2"
  <2>1. PICK e, f : e = RowOf(pass, 2 * i) /\ f = RowOf(pass, 2 * i + 1)
    OBVIOUS
  <2>2. RoundsOf(i) = {2 * i, 2 * i + 1} /\ Lane = 1 .. 4
    BY <1>2, Avx2Shape DEF RoundsOf
  <2>3. Quads(r) = FourG(e, d) \cup FourG(f, d)
    <3>1. CASE pass = "columns"
      <4>1. FourInColumns(r, e, f, d)
        BY <1>2, <2>1, <3>1 DEF Laid, LaidAs
      <4> QED BY <2>2, <4>1, ColumnsMix
    <3>2. CASE pass = "rows"
      <4>1. FourInRows(r, e, f, d)
        BY <1>2, <2>1, <3>2 DEF Laid, LaidAs
      <4> QED BY <2>2, <4>1, RowsMix
    <3> QED BY <3>1, <3>2 DEF Passes
  <2>4. FourG(e, d) = Of(2 * i) /\ FourG(f, d) = Of(2 * i + 1)
    BY <2>1, FourGOfRow
  <2> QED BY <2>2, <2>3, <2>4
<1>3. CASE kernel = "avx512"
  <2>1. PICK e, f, g, k : /\ e = RowOf(pass, 4 * i) /\ f = RowOf(pass, 4 * i + 1)
                          /\ g = RowOf(pass, 4 * i + 2) /\ k = RowOf(pass, 4 * i + 3)
    OBVIOUS
  <2>2. RoundsOf(i) = {4 * i, 4 * i + 1, 4 * i + 2, 4 * i + 3} /\ Lane = 1 .. 8
    BY <1>3, Avx512Shape DEF RoundsOf
  <2>3. EightInTurn(r, e, f, g, k, d)
    BY <1>3, <2>1 DEF Laid, LaidAs
  <2>4. Quads(r) = FourG(e, d) \cup FourG(f, d) \cup FourG(g, d) \cup FourG(k, d)
    BY <2>2, <2>3, EightsMix
  <2>5. /\ FourG(e, d) = Of(4 * i) /\ FourG(f, d) = Of(4 * i + 1)
        /\ FourG(g, d) = Of(4 * i + 2) /\ FourG(k, d) = Of(4 * i + 3)
    BY <2>1, FourGOfRow
  <2> QED BY <2>2, <2>4, <2>5
<1> QED BY <1>1, <1>2, <1>3, KernelsAre

\* The rounds in flight are a group of the rounds of the scalar kernel.
LEMMA GroupShape ==
  ASSUME kernel \in Kernels, group \in 0 .. Groups - 1
  PROVE  /\ AtOnce \in {1, 2, 4} /\ AtOnce * Groups = 8 /\ Groups \in {2, 4, 8}
         /\ InFlight \in {1, 2, 4} /\ GroupRows \subseteq 0 .. 7
         /\ GroupRounds \subseteq 0 .. RoundsInPass - 1
         /\ \A j \in 1 .. InFlight : InFlight * group + j - 1 \in GroupRounds
         /\ \A i \in GroupRounds : \E j \in 1 .. InFlight : i = InFlight * group + j - 1
         /\ GroupRows = UNION {RoundsOf(i) : i \in GroupRounds}
<1>1. CASE kernel \in Narrow
  <2>1. PICK n \in {1, 2, 4}, t \in {2, 4, 8} : n = InFlight /\ t = Groups /\ n * t = 8
    BY <1>1, NarrowShape
  <2>2. AtOnce = n /\ RoundsInPass = 8
    BY <1>1, <2>1, NarrowShape
  <2>3. \A i : RoundsOf(i) = {i}
    BY <1>1 DEF RoundsOf, Narrow, Fused
  <2>4. GroupRows = n * group .. n * group + n - 1 /\ GroupRounds = n * group .. n * group + n - 1
    BY <2>1, <2>2 DEF GroupRows, GroupRounds
  <2>5. n * group \in Nat /\ n * group + n - 1 <= 7
    BY <2>1
  <2>6. PICK z \in 0 .. 7 : z = n * group
    BY <2>1
  <2>7. \A i \in z .. z + n - 1 : i - z + 1 \in 1 .. n /\ i = z + (i - z + 1) - 1
    BY <2>1, <2>6
  <2>8. /\ \A j \in 1 .. n : z + j - 1 \in z .. z + n - 1
        /\ z .. z + n - 1 \subseteq 0 .. 7
    BY <2>1, <2>5, <2>6
  <2>9. GroupRows = UNION {RoundsOf(i) : i \in GroupRounds}
    <3>1. GroupRows = GroupRounds
      BY <2>4
    <3> QED BY <2>3, <3>1
  <2> QED BY <2>1, <2>2, <2>4, <2>6, <2>7, <2>8, <2>9
<1>2. CASE kernel = "avx2"
  <2>1. InFlight = 1 /\ AtOnce = 2 /\ Groups = 4 /\ RoundsInPass = 4
    BY <1>2, Avx2Shape
  <2>2. GroupRounds = {group} /\ GroupRows = 2 * group .. 2 * group + 1
    BY <2>1 DEF GroupRows, GroupRounds
  <2>3. RoundsOf(group) = GroupRows
    BY <1>2, <2>2 DEF RoundsOf
  <2>4. GroupRows = UNION {RoundsOf(i) : i \in GroupRounds}
    BY <2>2, <2>3
  <2> QED BY <2>1, <2>2, <2>4
<1>3. CASE kernel = "avx512"
  <2>1. InFlight = 1 /\ AtOnce = 4 /\ Groups = 2 /\ RoundsInPass = 2
    BY <1>3, Avx512Shape
  <2>2. GroupRounds = {group} /\ GroupRows = 4 * group .. 4 * group + 3
    BY <2>1 DEF GroupRows, GroupRounds
  <2>3. RoundsOf(group) = GroupRows
    BY <1>3, <2>2 DEF RoundsOf
  <2>4. GroupRows = UNION {RoundsOf(i) : i \in GroupRounds}
    BY <2>2, <2>3
  <2> QED BY <2>1, <2>2, <2>4
<1> QED BY <1>1, <1>2, <1>3, KernelsAre

\* Every round in flight has its words in its lanes.
InRounds(d) == \A j \in 1 .. InFlight : Laid(rounds[j], InFlight * group + j - 1, d)

\* The G that a step makes are those of the rounds in flight.
LEMMA MixesGroup ==
  ASSUME kernel \in Kernels, pass \in Passes, group \in 0 .. Groups - 1, NEW d \in 0 .. 1,
         InRounds(d)
  PROVE  \A q : q \in UNION {Quads(rounds[j]) : j \in 1 .. InFlight}
                  <=> \E y \in GroupRows, c \in 0 .. 3 : q = GWords(pass, y, c, d)
<1>1. ASSUME NEW j \in 1 .. InFlight
      PROVE  \A q : q \in Quads(rounds[j])
                      <=> \E y \in RoundsOf(InFlight * group + j - 1), c \in 0 .. 3 :
                            q = GWords(pass, y, c, d)
  <2>1. PICK i : i = InFlight * group + j - 1
    OBVIOUS
  <2>2. i \in Nat
    BY <2>1, GroupShape DEF GroupRounds
  <2>3. Laid(rounds[j], i, d)
    BY <1>1, <2>1 DEF InRounds
  <2>4. \A q : q \in Quads(rounds[j])
                 <=> \E y \in RoundsOf(i), c \in 0 .. 3 : q = GWords(pass, y, c, d)
    BY <2>2, <2>3, MixesRound
  <2> QED BY <2>1, <2>4
<1>2. PICK at : at = [j \in 1 .. InFlight |-> InFlight * group + j - 1]
  OBVIOUS
<1>3. \A j \in 1 .. InFlight : \A q :
        q \in Quads(rounds[j]) <=> \E y \in RoundsOf(at[j]), c \in 0 .. 3 : q = GWords(pass, y, c, d)
  BY <1>1, <1>2
<1>4. /\ \A j \in 1 .. InFlight : at[j] \in GroupRounds
      /\ \A i \in GroupRounds : \E j \in 1 .. InFlight : i = at[j]
      /\ GroupRows = UNION {RoundsOf(i) : i \in GroupRounds}
  BY <1>2, GroupShape
<1>5. ASSUME NEW q, q \in UNION {Quads(rounds[j]) : j \in 1 .. InFlight}
      PROVE  \E y \in GroupRows, c \in 0 .. 3 : q = GWords(pass, y, c, d)
  <2>1. PICK j \in 1 .. InFlight : q \in Quads(rounds[j])
    BY <1>5
  <2>2. PICK y \in RoundsOf(at[j]), c \in 0 .. 3 : q = GWords(pass, y, c, d)
    BY <1>3, <2>1, Zenon
  <2>3. y \in GroupRows
    BY <1>4, <2>2, Zenon
  <2> QED BY <2>2, <2>3
<1>6. ASSUME NEW y \in GroupRows, NEW c \in 0 .. 3, NEW q, q = GWords(pass, y, c, d)
      PROVE  q \in UNION {Quads(rounds[j]) : j \in 1 .. InFlight}
  <2>1. PICK i \in GroupRounds : y \in RoundsOf(i)
    BY <1>4
  <2>2. PICK j \in 1 .. InFlight : i = at[j]
    BY <1>4, Zenon
  <2>3. q \in Quads(rounds[j])
    BY <1>3, <1>6, <2>1, <2>2, Zenon
  <2> QED BY <2>3
<1> QED BY <1>5, <1>6, Zenon

\* ... so that a word is in the G of its column, if its round is in flight, ...
LEMMA MixesWord ==
  ASSUME kernel \in Kernels, pass \in Passes, group \in 0 .. Groups - 1, NEW d \in 0 .. 1,
         InRounds(d), NEW w \in Word
  PROVE  {q \in UNION {Quads(rounds[j]) : j \in 1 .. InFlight} : \E n \in 1 .. 4 : q[n] = w}
           = IF RoundOf(pass, w) \in GroupRows
             THEN {GWords(pass, RoundOf(pass, w), ColumnIn(PlaceIn(pass, w), d), d)} ELSE {}
<1>1. PICK quads : quads = UNION {Quads(rounds[j]) : j \in 1 .. InFlight}
  OBVIOUS
<1>2. \A q : q \in quads <=> \E y \in GroupRows, c \in 0 .. 3 : q = GWords(pass, y, c, d)
  BY <1>1, MixesGroup
<1>3. ASSUME NEW y \in GroupRows, NEW c \in 0 .. 3
      PROVE  (\E n \in 1 .. 4 : GWords(pass, y, c, d)[n] = w)
               <=> y = RoundOf(pass, w) /\ c = ColumnIn(PlaceIn(pass, w), d)
  <2>1. y \in 0 .. 7
    BY GroupShape
  <2>2. ASSUME NEW n \in 1 .. 4, GWords(pass, y, c, d)[n] = w
        PROVE  y = RoundOf(pass, w) /\ c = ColumnIn(PlaceIn(pass, w), d)
    BY <2>1, <2>2, OnlyG
  <2>3. ASSUME y = RoundOf(pass, w), c = ColumnIn(PlaceIn(pass, w), d)
        PROVE  \E n \in 1 .. 4 : GWords(pass, y, c, d)[n] = w
    BY <2>3, OwnG
  <2> QED BY <2>2, <2>3
<1>4. PICK m \in 0 .. 3 : m = ColumnIn(PlaceIn(pass, w), d)
  BY PlaceOfWord, ColumnIsOne
<1>5. PICK in : in = {q \in quads : \E n \in 1 .. 4 : q[n] = w}
  OBVIOUS
<1>6. \A q : q \in in <=> RoundOf(pass, w) \in GroupRows /\ q = GWords(pass, RoundOf(pass, w), m, d)
  <2>1. ASSUME NEW q \in in
        PROVE  RoundOf(pass, w) \in GroupRows /\ q = GWords(pass, RoundOf(pass, w), m, d)
    <3>1. PICK y \in GroupRows, c \in 0 .. 3 : q = GWords(pass, y, c, d)
      BY <1>2, <1>5
    <3>2. \E n \in 1 .. 4 : GWords(pass, y, c, d)[n] = w
      BY <1>5, <3>1
    <3> QED BY <1>3, <1>4, <3>1, <3>2
  <2>2. ASSUME NEW q, RoundOf(pass, w) \in GroupRows, q = GWords(pass, RoundOf(pass, w), m, d)
        PROVE  q \in in
    <3>1. q \in quads
      BY <1>2, <2>2
    <3>2. \E n \in 1 .. 4 : q[n] = w
      BY <1>3, <1>4, <2>2
    <3> QED BY <1>5, <3>1, <3>2
  <2> QED BY <2>1, <2>2
<1>7. in = IF RoundOf(pass, w) \in GroupRows
           THEN {GWords(pass, RoundOf(pass, w), m, d)} ELSE {}
  BY <1>6, Zenon
<1> QED BY <1>1, <1>4, <1>5, <1>7, Zenon

-----------------------------------------------------------------------------
(* FillKernels: the history of a word                                        *)

\* The words of the scalar kernel's G, before (0) and after (1) the half round.
QuadsIn(d) == IF d = 0 THEN StraightQuads ELSE DiagonalQuads
Spread(p, i, s) == [k \in 1 .. 4 |-> WordOf(p, i, s[k])]

\* The words of a G, one by one.
LEMMA SpreadOf ==
  ASSUME NEW p, NEW i, NEW x, NEW y, NEW z, NEW v
  PROVE  Spread(p, i, <<x, y, z, v>>) =
           <<WordOf(p, i, x), WordOf(p, i, y), WordOf(p, i, z), WordOf(p, i, v)>>
BY DEF Spread

\* The scalar kernel's G of a round are its columns.
LEMMA SpreadIsG ==
  ASSUME NEW p, NEW i, NEW d \in 0 .. 1
  PROVE  \A q : (\E s \in QuadsIn(d) : q = Spread(p, i, s)) <=> \E c \in 0 .. 3 : q = GWords(p, i, c, d)
<1>1. CASE d = 0
  <2>1. Spread(p, i, <<0, 4, 8, 12>>) = GWords(p, i, 0, d)
    <3>1. GWords(p, i, 0, d) = <<WordOf(p, i, 0), WordOf(p, i, 4), WordOf(p, i, 8), WordOf(p, i, 12)>>
      BY <1>1 DEF GWords
    <3>2. Spread(p, i, <<0, 4, 8, 12>>) = <<WordOf(p, i, 0), WordOf(p, i, 4), WordOf(p, i, 8), WordOf(p, i, 12)>>
      BY SpreadOf
    <3> QED BY <3>1, <3>2
  <2>2. Spread(p, i, <<1, 5, 9, 13>>) = GWords(p, i, 1, d)
    <3>1. GWords(p, i, 1, d) = <<WordOf(p, i, 1), WordOf(p, i, 5), WordOf(p, i, 9), WordOf(p, i, 13)>>
      BY <1>1 DEF GWords
    <3>2. Spread(p, i, <<1, 5, 9, 13>>) = <<WordOf(p, i, 1), WordOf(p, i, 5), WordOf(p, i, 9), WordOf(p, i, 13)>>
      BY SpreadOf
    <3> QED BY <3>1, <3>2
  <2>3. Spread(p, i, <<2, 6, 10, 14>>) = GWords(p, i, 2, d)
    <3>1. GWords(p, i, 2, d) = <<WordOf(p, i, 2), WordOf(p, i, 6), WordOf(p, i, 10), WordOf(p, i, 14)>>
      BY <1>1 DEF GWords
    <3>2. Spread(p, i, <<2, 6, 10, 14>>) = <<WordOf(p, i, 2), WordOf(p, i, 6), WordOf(p, i, 10), WordOf(p, i, 14)>>
      BY SpreadOf
    <3> QED BY <3>1, <3>2
  <2>4. Spread(p, i, <<3, 7, 11, 15>>) = GWords(p, i, 3, d)
    <3>1. GWords(p, i, 3, d) = <<WordOf(p, i, 3), WordOf(p, i, 7), WordOf(p, i, 11), WordOf(p, i, 15)>>
      BY <1>1 DEF GWords
    <3>2. Spread(p, i, <<3, 7, 11, 15>>) = <<WordOf(p, i, 3), WordOf(p, i, 7), WordOf(p, i, 11), WordOf(p, i, 15)>>
      BY SpreadOf
    <3> QED BY <3>1, <3>2
  <2>5. QuadsIn(d) = {<<0, 4, 8, 12>>, <<1, 5, 9, 13>>, <<2, 6, 10, 14>>, <<3, 7, 11, 15>>}
    BY <1>1 DEF QuadsIn, StraightQuads
  <2>6. \A q : (\E s \in QuadsIn(d) : q = Spread(p, i, s))
                 <=> \/ q = GWords(p, i, 0, d) \/ q = GWords(p, i, 1, d)
                     \/ q = GWords(p, i, 2, d) \/ q = GWords(p, i, 3, d)
    BY <2>1, <2>2, <2>3, <2>4, <2>5, Zenon
  <2>7. 0 .. 3 = {0, 1, 2, 3}
    OBVIOUS
  <2> QED BY <2>6, <2>7, Zenon
<1>2. CASE d = 1
  <2>1. Spread(p, i, <<0, 5, 10, 15>>) = GWords(p, i, 0, d)
    <3>1. GWords(p, i, 0, d) = <<WordOf(p, i, 0), WordOf(p, i, 5), WordOf(p, i, 10), WordOf(p, i, 15)>>
      BY <1>2 DEF GWords
    <3>2. Spread(p, i, <<0, 5, 10, 15>>) = <<WordOf(p, i, 0), WordOf(p, i, 5), WordOf(p, i, 10), WordOf(p, i, 15)>>
      BY SpreadOf
    <3> QED BY <3>1, <3>2
  <2>2. Spread(p, i, <<1, 6, 11, 12>>) = GWords(p, i, 1, d)
    <3>1. GWords(p, i, 1, d) = <<WordOf(p, i, 1), WordOf(p, i, 6), WordOf(p, i, 11), WordOf(p, i, 12)>>
      BY <1>2 DEF GWords
    <3>2. Spread(p, i, <<1, 6, 11, 12>>) = <<WordOf(p, i, 1), WordOf(p, i, 6), WordOf(p, i, 11), WordOf(p, i, 12)>>
      BY SpreadOf
    <3> QED BY <3>1, <3>2
  <2>3. Spread(p, i, <<2, 7, 8, 13>>) = GWords(p, i, 2, d)
    <3>1. GWords(p, i, 2, d) = <<WordOf(p, i, 2), WordOf(p, i, 7), WordOf(p, i, 8), WordOf(p, i, 13)>>
      BY <1>2 DEF GWords
    <3>2. Spread(p, i, <<2, 7, 8, 13>>) = <<WordOf(p, i, 2), WordOf(p, i, 7), WordOf(p, i, 8), WordOf(p, i, 13)>>
      BY SpreadOf
    <3> QED BY <3>1, <3>2
  <2>4. Spread(p, i, <<3, 4, 9, 14>>) = GWords(p, i, 3, d)
    <3>1. GWords(p, i, 3, d) = <<WordOf(p, i, 3), WordOf(p, i, 4), WordOf(p, i, 9), WordOf(p, i, 14)>>
      BY <1>2 DEF GWords
    <3>2. Spread(p, i, <<3, 4, 9, 14>>) = <<WordOf(p, i, 3), WordOf(p, i, 4), WordOf(p, i, 9), WordOf(p, i, 14)>>
      BY SpreadOf
    <3> QED BY <3>1, <3>2
  <2>5. QuadsIn(d) = {<<0, 5, 10, 15>>, <<1, 6, 11, 12>>, <<2, 7, 8, 13>>, <<3, 4, 9, 14>>}
    BY <1>2 DEF QuadsIn, DiagonalQuads
  <2>6. \A q : (\E s \in QuadsIn(d) : q = Spread(p, i, s))
                 <=> \/ q = GWords(p, i, 0, d) \/ q = GWords(p, i, 1, d)
                     \/ q = GWords(p, i, 2, d) \/ q = GWords(p, i, 3, d)
    BY <2>1, <2>2, <2>3, <2>4, <2>5, Zenon
  <2>7. 0 .. 3 = {0, 1, 2, 3}
    OBVIOUS
  <2> QED BY <2>6, <2>7, Zenon
<1> QED BY <1>1, <1>2

\* The G of a word is the one that holds it.
TheG(w, p, d) == GWords(p, RoundOf(p, w), ColumnIn(PlaceIn(p, w), d), d)

\* S is the set of all the scalar kernel's G of a half pass, and which holds w.
SpreadsIn(S, p, d) ==
  \A q : q \in S <=> \E i \in 0 .. 7, s \in QuadsIn(d) : q = Spread(p, i, s)
HolderIn(S, w) == CHOOSE q \in S : \E k \in 1 .. 4 : q[k] = w

\* The G of that set that holds a word is the word's own.
LEMMA TheGHolds ==
  ASSUME NEW w \in Word, NEW p \in Passes, NEW d \in 0 .. 1, NEW S,
         SpreadsIn(S, p, d)
  PROVE  HolderIn(S, w) = TheG(w, p, d)
<1>1. ASSUME NEW q
      PROVE  q \in S <=> \E i \in 0 .. 7, c \in 0 .. 3 : q = GWords(p, i, c, d)
  <2>1. ASSUME NEW i \in 0 .. 7
        PROVE  (\E s \in QuadsIn(d) : q = Spread(p, i, s)) <=> \E c \in 0 .. 3 : q = GWords(p, i, c, d)
    <3>1. \A x : (\E s \in QuadsIn(d) : x = Spread(p, i, s)) <=> \E c \in 0 .. 3 : x = GWords(p, i, c, d)
      BY SpreadIsG
    <3> QED BY <3>1
  <2> QED BY <2>1 DEF SpreadsIn
<1>2. RoundOf(p, w) \in 0 .. 7 /\ ColumnIn(PlaceIn(p, w), d) \in 0 .. 3
  BY PlaceOfWord, ColumnIsOne
<1>3. TheG(w, p, d) \in S
  BY <1>1, <1>2 DEF TheG
<1>4. \E k \in 1 .. 4 : TheG(w, p, d)[k] = w
  BY OwnG DEF TheG
<1>5. ASSUME NEW q \in S, NEW k \in 1 .. 4, q[k] = w
      PROVE  q = TheG(w, p, d)
  <2>1. PICK i \in 0 .. 7, c \in 0 .. 3 : q = GWords(p, i, c, d)
    BY <1>1
  <2>2. GWords(p, i, c, d)[k] = w
    BY <1>5, <2>1
  <2>3. i = RoundOf(p, w) /\ c = ColumnIn(PlaceIn(p, w), d)
    BY <2>1, <2>2, OnlyG
  <2> QED BY <2>1, <2>3, Zenon DEF TheG
<1> QED BY <1>3, <1>4, <1>5, Zenon DEF HolderIn

\* The same sets in the words the reference kernel is written in.
ColumnSpread(i, s) == [k \in 1 .. 4 |-> ColumnWord(i, s[k])]
RowSpread(i, s) == [k \in 1 .. 4 |-> RowWord(i, s[k])]
ColumnSpreads(quads) == {ColumnSpread(i, s) : i \in 0 .. 7, s \in quads}
RowSpreads(quads) == {RowSpread(i, s) : i \in 0 .. 7, s \in quads}

\* The reference's G of a word, in all four half passes.
LEMMA QuadOfIsTheG ==
  ASSUME NEW w \in Word, NEW d \in 0 .. 1
  PROVE  /\ QuadOf(w, ColumnWord, QuadsIn(d)) = TheG(w, "columns", d)
         /\ QuadOf(w, RowWord, QuadsIn(d)) = TheG(w, "rows", d)
<1>1. ASSUME NEW i, NEW s
      PROVE  ColumnSpread(i, s) = Spread("columns", i, s) /\ RowSpread(i, s) = Spread("rows", i, s)
  BY DEF ColumnSpread, RowSpread, Spread, WordOf
<1>2. "columns" \in Passes /\ "rows" \in Passes
  BY DEF Passes
<1>3. QuadOf(w, ColumnWord, QuadsIn(d)) = TheG(w, "columns", d)
  <2>1. SpreadsIn(ColumnSpreads(QuadsIn(d)), "columns", d)
    BY <1>1 DEF ColumnSpreads, SpreadsIn
  <2>2. PICK S : S = ColumnSpreads(QuadsIn(d))
    OBVIOUS
  <2>3. HolderIn(S, w) = TheG(w, "columns", d)
    BY <1>2, <2>1, <2>2, TheGHolds
  <2>4. QuadOf(w, ColumnWord, QuadsIn(d)) = HolderIn(ColumnSpreads(QuadsIn(d)), w)
    BY DEF QuadOf, HolderIn, ColumnSpreads, ColumnSpread
  <2> QED BY <2>2, <2>3, <2>4
<1>4. QuadOf(w, RowWord, QuadsIn(d)) = TheG(w, "rows", d)
  <2>1. SpreadsIn(RowSpreads(QuadsIn(d)), "rows", d)
    BY <1>1 DEF RowSpreads, SpreadsIn
  <2>2. PICK S : S = RowSpreads(QuadsIn(d))
    OBVIOUS
  <2>3. HolderIn(S, w) = TheG(w, "rows", d)
    BY <1>2, <2>1, <2>2, TheGHolds
  <2>4. QuadOf(w, RowWord, QuadsIn(d)) = HolderIn(RowSpreads(QuadsIn(d)), w)
    BY DEF QuadOf, HolderIn, RowSpreads, RowSpread
  <2> QED BY <2>2, <2>3, <2>4
<1> QED BY <1>3, <1>4

\* What has happened to word w after k steps of the scalar kernel.
EventOf(w, k) ==
  IF k = 1 THEN Event("ref", <<w>>)
  ELSE Event(IF k \in {2, 4, 6, 8} THEN "g1" ELSE "g2",
             TheG(w, IF k \in 2 .. 5 THEN "columns" ELSE "rows", IF k \in {2, 3, 6, 7} THEN 0 ELSE 1))
History(w, n) == [k \in 1 .. n |-> EventOf(w, k)]

\* A step of the scalar kernel adds its event to a word's history.
LEMMA ReferenceGrows ==
  ASSUME NEW w, NEW n \in Nat
  PROVE  /\ Append(History(w, n), EventOf(w, n + 1)) = History(w, n + 1)
         /\ History(w, 0) = <<>>
         /\ History(w, 1) = <<Event("ref", <<w>>)>>
<1>1. PICK ev : ev = [k \in 1 .. n + 1 |-> EventOf(w, k)]
  OBVIOUS
<1>2. Append([k \in 1 .. n |-> ev[k]], ev[n + 1]) = ev
  BY <1>1
<1>3. History(w, n) = [k \in 1 .. n |-> ev[k]] /\ EventOf(w, n + 1) = ev[n + 1]
  BY <1>1 DEF History
<1>4. History(w, n + 1) = ev
  BY <1>1 DEF History
<1>5. History(w, 0) = <<>>
  BY DEF History
<1>6. EventOf(w, 1) = Event("ref", <<w>>)
  BY DEF EventOf
<1>7. History(w, 1) = <<EventOf(w, 1)>>
  <2>1. PICK one : one = EventOf(w, 1)
    OBVIOUS
  <2>2. History(w, 1) = [k \in 1 .. 1 |-> one]
    BY <2>1 DEF History
  <2> QED BY <2>1, <2>2
<1> QED BY <1>2, <1>3, <1>4, <1>5, <1>6, <1>7

\* The reference's history: its read, the column pass, the row pass.
JoinedThree(s, t, z) == s \o t \o z

\* Joined, they are the nine events in order.
LEMMA JoinNine ==
  ASSUME NEW S, NEW ev \in [1 .. 9 -> S]
  PROVE  JoinedThree(<<ev[1]>>, <<ev[2], ev[3], ev[4], ev[5]>>, <<ev[6], ev[7], ev[8], ev[9]>>) = ev
<1>1. PICK s, t, z : /\ s = <<ev[1]>> /\ t = <<ev[2], ev[3], ev[4], ev[5]>>
                     /\ z = <<ev[6], ev[7], ev[8], ev[9]>>
  OBVIOUS
<1>2. /\ s \in Seq(S) /\ Len(s) = 1 /\ s[1] = ev[1]
      /\ t \in Seq(S) /\ Len(t) = 4
      /\ t[1] = ev[2] /\ t[2] = ev[3] /\ t[3] = ev[4] /\ t[4] = ev[5]
      /\ z \in Seq(S) /\ Len(z) = 4
      /\ z[1] = ev[6] /\ z[2] = ev[7] /\ z[3] = ev[8] /\ z[4] = ev[9]
  BY <1>1
<1>3. PICK u : u = Joined8(s, t)
  OBVIOUS
<1>4. /\ Joined8(s, t) \in Seq(S) /\ Len(Joined8(s, t)) = Len(s) + Len(t)
      /\ \A i \in 1 .. Len(s) + Len(t) :
           Joined8(s, t)[i] = IF i <= Len(s) THEN s[i] ELSE t[i - Len(s)]
  BY <1>2, ConcatProperties, ZenonT(60) DEF Joined8
<1>5. u \in Seq(S) /\ Len(u) = 5 /\ \A i \in 1 .. 5 : u[i] = IF i <= 1 THEN s[i] ELSE t[i - 1]
  BY <1>2, <1>3, <1>4
<1>6. u[1] = ev[1] /\ u[2] = ev[2] /\ u[3] = ev[3] /\ u[4] = ev[4] /\ u[5] = ev[5]
  BY <1>2, <1>5
<1>7. PICK y : y = Joined8(u, z)
  OBVIOUS
<1>8. /\ Joined8(u, z) \in Seq(S) /\ Len(Joined8(u, z)) = Len(u) + Len(z)
      /\ \A i \in 1 .. Len(u) + Len(z) :
           Joined8(u, z)[i] = IF i <= Len(u) THEN u[i] ELSE z[i - Len(u)]
  BY <1>2, <1>5, ConcatProperties, ZenonT(60) DEF Joined8
<1>9. y \in Seq(S) /\ Len(y) = 9 /\ \A i \in 1 .. 9 : y[i] = IF i <= 5 THEN u[i] ELSE z[i - 5]
  BY <1>2, <1>5, <1>7, <1>8
<1>10. /\ y[1] = ev[1] /\ y[2] = ev[2] /\ y[3] = ev[3] /\ y[4] = ev[4] /\ y[5] = ev[5]
       /\ y[6] = ev[6] /\ y[7] = ev[7] /\ y[8] = ev[8] /\ y[9] = ev[9]
  BY <1>2, <1>6, <1>9
<1>11. y = ev
  <2>1. y = [i \in 1 .. 9 |-> y[i]] /\ ev = [i \in 1 .. 9 |-> ev[i]]
    BY <1>9
  <2>2. \A i \in 1 .. 9 : y[i] = ev[i]
    BY <1>10
  <2> QED BY <2>1, <2>2
<1> QED BY <1>1, <1>3, <1>7, <1>11, Zenon DEF JoinedThree, Joined8

\* The scalar kernel gives every word its history.
LEMMA ReferenceIs ==
  ASSUME NEW w \in Word
  PROVE  Reference[w] = History(w, 9)
<1>1. QuadsIn(0) = StraightQuads /\ QuadsIn(1) = DiagonalQuads
  BY DEF QuadsIn
<1>2. /\ QuadOf(w, ColumnWord, StraightQuads) = TheG(w, "columns", 0)
      /\ QuadOf(w, ColumnWord, DiagonalQuads) = TheG(w, "columns", 1)
      /\ QuadOf(w, RowWord, StraightQuads) = TheG(w, "rows", 0)
      /\ QuadOf(w, RowWord, DiagonalQuads) = TheG(w, "rows", 1)
  <2>1. \A d \in 0 .. 1 : /\ QuadOf(w, ColumnWord, QuadsIn(d)) = TheG(w, "columns", d)
                          /\ QuadOf(w, RowWord, QuadsIn(d)) = TheG(w, "rows", d)
    BY QuadOfIsTheG
  <2>2. 0 \in 0 .. 1 /\ 1 \in 0 .. 1
    OBVIOUS
  <2> QED BY <1>1, <2>1, <2>2, Zenon
<1>3. PICK ev : ev = History(w, 9)
  OBVIOUS
<1>4. DOMAIN ev = 1 .. 9 /\ \A k \in 1 .. 9 : ev[k] = EventOf(w, k)
  BY <1>3 DEF History
<1>5. /\ ev[1] = Event("ref", <<w>>)
      /\ ev[2] = Event("g1", TheG(w, "columns", 0)) /\ ev[3] = Event("g2", TheG(w, "columns", 0))
      /\ ev[4] = Event("g1", TheG(w, "columns", 1)) /\ ev[5] = Event("g2", TheG(w, "columns", 1))
      /\ ev[6] = Event("g1", TheG(w, "rows", 0)) /\ ev[7] = Event("g2", TheG(w, "rows", 0))
      /\ ev[8] = Event("g1", TheG(w, "rows", 1)) /\ ev[9] = Event("g2", TheG(w, "rows", 1))
  BY <1>4 DEF EventOf
<1>6. Round(w, ColumnWord) = <<ev[2], ev[3], ev[4], ev[5]>>
  BY <1>2, <1>5 DEF Round
<1>7. Round(w, RowWord) = <<ev[6], ev[7], ev[8], ev[9]>>
  BY <1>2, <1>5 DEF Round
<1>8. Reference[w] = JoinedThree(<<Event("ref", <<w>>)>>, Round(w, ColumnWord), Round(w, RowWord))
  BY DEF Reference, JoinedThree
<1>9. PICK S : ev \in [1 .. 9 -> S]
  <2>1. ev \in [1 .. 9 -> {ev[k] : k \in 1 .. 9}]
    BY <1>3 DEF History
  <2> QED BY <2>1
<1>10. JoinedThree(<<ev[1]>>, <<ev[2], ev[3], ev[4], ev[5]>>, <<ev[6], ev[7], ev[8], ev[9]>>) = ev
  BY <1>9, JoinNine
<1> QED BY <1>3, <1>5, <1>6, <1>7, <1>8, <1>10

-----------------------------------------------------------------------------
(* FillKernels: the inductive invariant                                      *)

\* How many steps of its round a word in flight has behind it, and whether the
\* round is rotated.
Mixings == [next |-> 0, g1 |-> 0, g2 |-> 1, diag |-> 2, g1d |-> 2, g2d |-> 3, undiag |-> 4, put |-> 4]
Turned == IF step \in {"g1d", "g2d", "undiag"} THEN 1 ELSE 0

\* How many steps of the scalar kernel a word has behind it.
Behind(w) ==
  IF pass = "load" THEN 0
  ELSE IF pass = "columns"
       THEN IF RoundOf("columns", w) < AtOnce * group THEN 5
            ELSE IF RoundOf("columns", w) \in GroupRows /\ step # "next" THEN 1 + Mixings[step]
            ELSE IF kernel \in Fused THEN 0 ELSE 1
  ELSE IF pass = "rows"
       THEN IF RoundOf("rows", w) < AtOnce * group THEN 9
            ELSE IF RoundOf("rows", w) \in GroupRows THEN 5 + Mixings[step] ELSE 5
  ELSE 9

\* What block_xy takes, and what is stored, at a place.
TakenAt(p) ==
  [word |-> p, done |-> <<Event("ref", <<p>>)>>, next |-> IF withXor THEN "old" ELSE "none"]
StoredAt(p) == [word |-> p, done |-> History(p, 9), xy |-> TakenAt(p)]

\* The registers of state that hold a block, and the words already stored.
Held(i) ==
  \/ Carries \/ pass \in {"rows", "store"}
  \/ pass = "columns" /\ (kernel = "wasm128" \/ i \div 8 < AtOnce * group)
Stored ==
  IF pass = "done" THEN Word
  ELSE IF kernel \in Fused /\ pass = "rows" THEN {p \in Word : RoundOf("rows", p) < AtOnce * group}
  ELSE {}

ControlInv ==
  /\ kernel \in Kernels /\ withXor \in BOOLEAN
  /\ pass \in {"load", "columns", "rows", "store", "done"}
  /\ group \in 0 .. Groups - 1 /\ step \in DOMAIN Mixings
  /\ pass \notin Passes => group = 0 /\ step = "next"
  /\ kernel \in Fused => pass \notin {"load", "store"}
FlightInv == step # "next" => InRounds(Turned)
StateInv == DOMAIN state = Registers /\ \A i \in Registers : Held(i) => state[i] = Home(i)
LiveInv ==
  Carries => live = IF pass = "done" THEN Registers
                    ELSE IF kernel \in Fused /\ pass = "rows"
                    THEN {i \in Registers : i % 8 < AtOnce * group} ELSE {}
MixedInv == mixed = [w \in Word |-> History(w, Behind(w))]
XyInv == DOMAIN xy = {p \in Word : Behind(p) > 0} /\ \A p \in DOMAIN xy : xy[p] = TakenAt(p)
NextInv == DOMAIN next = Stored /\ \A p \in DOMAIN next : next[p] = StoredAt(p)

KernelInv ==
  ControlInv /\ FlightInv /\ StateInv /\ LiveInv /\ MixedInv /\ XyInv /\ NextInv

-----------------------------------------------------------------------------
(* FillKernels: loading and storing                                          *)

\* The words of registers R in their places.
SlotsOf(R) == {Place(i, n) : i \in R, n \in Lane}

\* A word is in a set of registers when the register of its place is; each is the home of its words.
LEMMA SlotsByRegister ==
  ASSUME kernel \in Kernels, NEW R, R \subseteq Registers
  PROVE  /\ \A p : p \in SlotsOf(R) <=> p \in Word /\ p \div Width \in R
         /\ SlotsOf(Registers) = Word
         /\ \A p \in SlotsOf(R) : Home(p \div Width)[(p % Width) + 1] = p
<1>1. PICK v \in {2, 4, 8}, t \in {64, 32, 16} :
        v = Width /\ v * t = 128 /\ Registers = 0 .. t - 1 /\ Lane = 1 .. v
  <2>1. CASE kernel \in Narrow
    BY <2>1, NarrowShape
  <2>2. CASE kernel = "avx2"
    BY <2>2, Avx2Shape
  <2>3. CASE kernel = "avx512"
    BY <2>3, Avx512Shape
  <2> QED BY <2>1, <2>2, <2>3, KernelsAre
<1>2. ASSUME NEW i \in 0 .. t - 1, NEW n \in 1 .. v
      PROVE  /\ v * i + n - 1 \in Word
             /\ (v * i + n - 1) \div v = i /\ ((v * i + n - 1) % v) + 1 = n
  <2>1. CASE v = 2
    BY <1>1, <2>1 DEF Word
  <2>2. CASE v = 4
    BY <1>1, <2>2 DEF Word
  <2>3. CASE v = 8
    BY <1>1, <2>3 DEF Word
  <2> QED BY <2>1, <2>2, <2>3
<1>3. ASSUME NEW p \in Word
      PROVE  p \div v \in 0 .. t - 1 /\ (p % v) + 1 \in 1 .. v /\ p = v * (p \div v) + ((p % v) + 1) - 1
  <2>1. CASE v = 2
    BY <1>1, <2>1 DEF Word
  <2>2. CASE v = 4
    BY <1>1, <2>2 DEF Word
  <2>3. CASE v = 8
    BY <1>1, <2>3 DEF Word
  <2> QED BY <2>1, <2>2, <2>3
<1>4. ASSUME NEW T, T \subseteq Registers
      PROVE  SlotsOf(T) = {p \in Word : p \div Width \in T}
  <2>1. ASSUME NEW i \in T, NEW n \in Lane
        PROVE  Place(i, n) \in Word /\ Place(i, n) \div Width \in T
    BY <1>1, <1>2, <1>4 DEF Place
  <2>2. ASSUME NEW p \in Word, p \div Width \in T
        PROVE  \E i \in T, n \in Lane : p = Place(i, n)
    BY <1>1, <1>3, <2>2 DEF Place
  <2> QED BY <2>1, <2>2 DEF SlotsOf
<1>5. SlotsOf(Registers) = Word
  BY <1>1, <1>3, <1>4
<1>6. ASSUME NEW p \in Word
      PROVE  Home(p \div Width)[(p % Width) + 1] = p
  <2>1. PICK i \in 0 .. t - 1, n \in 1 .. v : i = p \div v /\ n = (p % v) + 1 /\ p = v * i + n - 1
    BY <1>3
  <2>2. Home(i)[n] = v * i + n - 1
    BY <1>1 DEF Home, Place
  <2> QED BY <1>1, <2>1, <2>2
<1> QED BY <1>4, <1>5, <1>6

\* Registers c hold the words of slots in their places.
PlacedIn(c, slots) == \A p \in slots : c[p \div Width][(p % Width) + 1] = p

\* Registers that hold their own words have them in their places.
LEMMA HomesPlaced ==
  ASSUME kernel \in Kernels, NEW R, R \subseteq Registers, NEW c, \A i \in R : c[i] = Home(i)
  PROVE  PlacedIn(c, SlotsOf(R))
<1>1. ASSUME NEW p \in SlotsOf(R) PROVE c[p \div Width][(p % Width) + 1] = p
  <2>1. p \div Width \in R /\ Home(p \div Width)[(p % Width) + 1] = p
    BY SlotsByRegister
  <2>2. c[p \div Width] = Home(p \div Width)
    BY <2>1
  <2> QED BY <2>1, <2>2, Zenon
<1> QED BY <1>1, Zenon DEF PlacedIn

\* state ^= ref_block, where every register holds its words, ...
LandsIn(c, slots, w) == slots \cap {p \in Word : c[p \div Width][(p % Width) + 1] = w}
AfterAbsorb(c, slots) ==
  [w \in Word |-> IF LandsIn(c, slots, w) = {} THEN mixed[w]
                  ELSE Append(mixed[w], RefRead(CHOOSE p \in LandsIn(c, slots, w) : TRUE))]
AbsorbAs(c, slots) ==
  /\ mixed' = AfterAbsorb(c, slots)
  /\ xy' = [p \in DOMAIN xy \cup slots |->
              IF p \in slots
              THEN LET w == c[p \div Width][(p % Width) + 1]
                   IN [word |-> w, done |-> AfterAbsorb(c, slots)[w], next |-> NextRead(p)]
              ELSE xy[p]]

\* Absorb, with the words of its registers named.
LEMMA AbsorbIs ==
  ASSUME NEW c, NEW R
  PROVE  Absorb(c, R) <=> AbsorbAs(c, SlotsOf(R))
BY DEF Absorb, AbsorbAs, LandsIn, AfterAbsorb, SlotsOf

AbsorbedIn(slots) ==
  /\ mixed' = [w \in Word |-> IF w \in slots THEN Append(mixed[w], Event("ref", <<w>>)) ELSE mixed[w]]
  /\ DOMAIN xy' = DOMAIN xy \cup slots
  /\ \A p \in slots : xy'[p] = [word |-> p, done |-> Append(mixed[p], Event("ref", <<p>>)),
                                next |-> IF withXor THEN "old" ELSE "none"]
  /\ \A p \in DOMAIN xy : p \notin slots => xy'[p] = xy[p]

\* XORing in ref_block gives each word, in its place, its first event and what block_xy takes.
LEMMA Absorbs ==
  ASSUME NEW c, NEW slots, slots \subseteq Word, DOMAIN next = {}, AbsorbAs(c, slots),
         PlacedIn(c, slots)
  PROVE  AbsorbedIn(slots)
<1>1. \A p : RefRead(p) = Event("ref", <<p>>) /\ NextRead(p) = IF withXor THEN "old" ELSE "none"
  BY DEF RefRead, NextRead
<1>2. \A w \in Word : LandsIn(c, slots, w) = IF w \in slots THEN {w} ELSE {}
  BY DEF LandsIn, PlacedIn
<1>3. \A w : (CHOOSE p \in {w} : TRUE) = w
  OBVIOUS
<1>4. PICK after : after = AfterAbsorb(c, slots)
  OBVIOUS
<1>5. ASSUME NEW w \in Word
      PROVE  after[w] = IF w \in slots THEN Append(mixed[w], Event("ref", <<w>>)) ELSE mixed[w]
  <2>1. after[w] = IF LandsIn(c, slots, w) = {} THEN mixed[w]
                   ELSE Append(mixed[w], RefRead(CHOOSE p \in LandsIn(c, slots, w) : TRUE))
    BY <1>4, Zenon DEF AfterAbsorb
  <2>2. CASE w \in slots
    <3>1. LandsIn(c, slots, w) = {w} /\ {w} # {}
      BY <1>2, <2>2
    <3>2. after[w] = Append(mixed[w], RefRead(CHOOSE p \in {w} : TRUE))
      BY <2>1, <3>1, Zenon
    <3> QED BY <1>1, <1>3, <2>2, <3>2, Zenon
  <2>3. CASE w \notin slots
    BY <1>2, <2>1, <2>3
  <2> QED BY <2>2, <2>3
<1>6. after = [w \in Word |-> IF w \in slots THEN Append(mixed[w], Event("ref", <<w>>))
                              ELSE mixed[w]]
  <2>1. after = [w \in Word |-> after[w]]
    BY <1>4 DEF AfterAbsorb
  <2> QED BY <1>5, <2>1
<1>7. mixed' = after
  BY <1>4 DEF AbsorbAs
<1>8. xy' = [p \in DOMAIN xy \cup slots |->
               IF p \in slots
               THEN [word |-> c[p \div Width][(p % Width) + 1],
                     done |-> after[c[p \div Width][(p % Width) + 1]], next |-> NextRead(p)]
               ELSE xy[p]]
  BY <1>4, Zenon DEF AbsorbAs
<1>9. DOMAIN xy' = DOMAIN xy \cup slots /\ \A p \in DOMAIN xy : p \notin slots => xy'[p] = xy[p]
  BY <1>8
<1>10. ASSUME NEW p \in slots
       PROVE  xy'[p] = [word |-> p, done |-> Append(mixed[p], Event("ref", <<p>>)),
                        next |-> IF withXor THEN "old" ELSE "none"]
  <2>1. xy'[p] = [word |-> p, done |-> after[p], next |-> NextRead(p)]
    BY <1>8 DEF PlacedIn
  <2> QED BY <1>1, <1>5, <2>1
<1> QED BY <1>6, <1>7, <1>9, <1>10 DEF AbsorbedIn

\* ... and next_block = state ^ block_xy.
EmitAs(c, slots) ==
  next' = [p \in DOMAIN next \cup slots |->
             IF p \in slots
             THEN LET w == c[p \div Width][(p % Width) + 1]
                  IN [word |-> w, done |-> mixed[w],
                      xy |-> IF p \in DOMAIN xy THEN xy[p] ELSE Uninit]
             ELSE next[p]]

\* Emit, with the words of its registers named.
LEMMA EmitIs ==
  ASSUME NEW c, NEW R
  PROVE  Emit(c, R) <=> EmitAs(c, SlotsOf(R))
BY DEF Emit, EmitAs, SlotsOf

\* Storing registers whose words are in place stores the finished words there, and no others.
LEMMA Emits ==
  ASSUME NEW c, NEW slots, slots \subseteq Word, EmitAs(c, slots),
         PlacedIn(c, slots),
         \A p \in slots : mixed[p] = History(p, 9) /\ p \in DOMAIN xy /\ xy[p] = TakenAt(p)
  PROVE  /\ DOMAIN next' = DOMAIN next \cup slots
         /\ \A p \in slots : next'[p] = StoredAt(p)
         /\ \A p \in DOMAIN next : p \notin slots => next'[p] = next[p]
<1>1. ASSUME NEW p \in slots PROVE next'[p] = StoredAt(p)
  <2>1. next'[p] = [word |-> p, done |-> mixed[p], xy |-> xy[p]]
    BY DEF EmitAs, PlacedIn
  <2> QED BY <2>1, Zenon DEF StoredAt
<1> QED BY <1>1 DEF EmitAs

\* What does not change while the call does not.
LEMMA SameShape ==
  ASSUME call' = call
  PROVE  /\ kernel' = kernel /\ withXor' = withXor /\ alias' = alias
         /\ InFlight' = InFlight /\ Groups' = Groups /\ AtOnce' = AtOnce /\ Width' = Width
         /\ Registers' = Registers /\ Lane' = Lane /\ Carries' = Carries
         /\ (\A i : Home(i)' = Home(i))
         /\ (\A p : TakenAt(p)' = TakenAt(p)) /\ (\A p : StoredAt(p)' = StoredAt(p))
<1>1. kernel' = kernel /\ withXor' = withXor /\ alias' = alias
  BY DEF call
<1>2. InFlight' = InFlight /\ Width' = Width /\ Carries' = Carries
  BY <1>1 DEF InFlight, Width, Carries
<1>3. AtOnce' = AtOnce /\ Registers' = Registers /\ Lane' = Lane
  BY <1>1, <1>2 DEF AtOnce, Registers, Lane
<1>4. Groups' = Groups
  BY <1>2 DEF Groups, RoundsInPass
<1>5. \A i : Home(i)' = Home(i)
  BY <1>2, <1>3 DEF Home, Place
<1>6. (\A p : TakenAt(p)' = TakenAt(p)) /\ (\A p : StoredAt(p)' = StoredAt(p))
  BY <1>1 DEF TakenAt, StoredAt
<1> QED BY <1>1, <1>2, <1>3, <1>4, <1>5, <1>6

\* The registers of a round are registers of state, ...
LEMMA GroupInState ==
  ASSUME kernel \in Kernels, pass \in Passes, group \in 0 .. Groups - 1
  PROVE  /\ \A i \in GroupRounds, s \in Slots : RegisterOf(i, s) \in GroupRegisters
         /\ GroupRegisters \subseteq Registers
<1>1. \A i \in GroupRounds : i \in 0 .. RoundsInPass - 1
  BY GroupShape
<1>2. ASSUME NEW i \in 0 .. RoundsInPass - 1, NEW s \in Slots
      PROVE  RegisterOf(i, s) \in Registers
  <2>0. PICK n \in 0 .. 7 : n = Nth(s)
    BY DEF Nth, Slots
  <2>1. CASE kernel \in Narrow
    <3>1. i \in 0 .. 7 /\ Registers = 0 .. 63
      BY <2>1, NarrowShape
    <3>2. RegisterOf(i, s) = IF pass = "columns" THEN 8 * i + n ELSE 8 * n + i
      BY <2>0, <2>1 DEF RegisterOf, Octets, Narrow, Fused
    <3> QED BY <3>1, <3>2
  <2>2. CASE kernel = "avx2"
    <3>1. i \in 0 .. 3 /\ Registers = 0 .. 31
      BY <2>2, Avx2Shape
    <3>2. PICK m \in 0 .. 7 : m = [a0 |-> 0, a1 |-> 4, b0 |-> 1, b1 |-> 5,
                                   c0 |-> 2, c1 |-> 6, d0 |-> 3, d1 |-> 7][s]
      BY DEF Slots
    <3>3. RegisterOf(i, s) = IF pass = "columns" THEN 8 * i + m ELSE 4 * n + i
      BY <2>0, <2>2, <3>2 DEF RegisterOf, Avx2Registers
    <3> QED BY <3>1, <3>3
  <2>3. CASE kernel = "avx512"
    <3>1. i \in 0 .. 1 /\ Registers = 0 .. 15
      BY <2>3, Avx512Shape
    <3>2. PICK m \in 0 .. 7 : m = [a0 |-> 0, c0 |-> 1, b0 |-> 2, d0 |-> 3,
                                   a1 |-> 4, c1 |-> 5, b1 |-> 6, d1 |-> 7][s]
      BY DEF Slots
    <3>3. RegisterOf(i, s) = IF pass = "columns" THEN 8 * i + m ELSE 2 * n + i
      BY <2>0, <2>3, <3>2 DEF RegisterOf, Avx512Registers
    <3> QED BY <3>1, <3>3
  <2> QED BY <2>1, <2>2, <2>3, KernelsAre
<1>3. \A i \in GroupRounds, s \in Slots : RegisterOf(i, s) \in GroupRegisters
  BY DEF GroupRegisters
<1>4. GroupRegisters \subseteq Registers
  BY <1>1, <1>2 DEF GroupRegisters
<1> QED BY <1>3, <1>4

\* ... and in the fused kernels hold whole rounds of the scalar kernel.
LEMMA FusedGroup ==
  ASSUME kernel \in Fused, pass \in Passes, group \in 0 .. Groups - 1
  PROVE  /\ GroupRegisters = {i \in Registers : (IF pass = "columns" THEN i \div 8 ELSE i % 8)
                                                  \in GroupRows}
         /\ SlotsOf(GroupRegisters) = {p \in Word : RoundOf(pass, p) \in GroupRows}
<1>1. kernel \in Narrow /\ kernel \in Kernels
  BY DEF Narrow, Kernels
<1>2. /\ Width = 2 /\ Registers = 0 .. 63 /\ GroupRounds = GroupRows /\ GroupRows \subseteq 0 .. 7
      /\ GroupRegisters \subseteq Registers
  BY <1>1, NarrowShape, GroupShape, GroupInState DEF GroupRounds, GroupRows
<1>3. PICK D : D = GroupRows
  OBVIOUS
<1>4. \A i, s : RegisterOf(i, s) = IF pass = "columns" THEN 8 * i + Nth(s) ELSE 8 * Nth(s) + i
  BY DEF RegisterOf, Octets, Fused
<1>5. (\A s \in Slots : Nth(s) \in 0 .. 7) /\ \A n \in 0 .. 7 : \E s \in Slots : Nth(s) = n
  <2>1. /\ Nth("a0") = 0 /\ Nth("a1") = 1 /\ Nth("b0") = 2 /\ Nth("b1") = 3
        /\ Nth("c0") = 4 /\ Nth("c1") = 5 /\ Nth("d0") = 6 /\ Nth("d1") = 7
    BY DEF Nth
  <2> QED BY <2>1 DEF Slots
<1>6. \A x : x \in GroupRegisters <=> \E i \in D, s \in Slots : x = RegisterOf(i, s)
  BY <1>2, <1>3 DEF GroupRegisters
<1>7. \A x : x \in GroupRegisters
               <=> \E i \in D, n \in 0 .. 7 : x = IF pass = "columns" THEN 8 * i + n ELSE 8 * n + i
  BY <1>4, <1>5, <1>6
<1>8. ASSUME NEW x \in 0 .. 63
      PROVE  x \in GroupRegisters <=> (IF pass = "columns" THEN x \div 8 ELSE x % 8) \in D
  <2>1. PICK y \in 0 .. 7, z \in 0 .. 7 : y = x \div 8 /\ z = x % 8 /\ x = 8 * y + z
    OBVIOUS
  <2>2. \A i \in 0 .. 7, n \in 0 .. 7 : x = 8 * i + n => i = y /\ n = z
    BY <2>1
  <2> QED BY <1>2, <1>3, <1>7, <2>1, <2>2
<1>9. GroupRegisters = {i \in Registers : (IF pass = "columns" THEN i \div 8 ELSE i % 8) \in GroupRows}
  BY <1>2, <1>3, <1>8
<1>10. SlotsOf(GroupRegisters) = {p \in Word : p \div 2 \in GroupRegisters}
  <2>1. PICK R : R = GroupRegisters
    OBVIOUS
  <2>2. \A p : p \in SlotsOf(R) <=> p \in Word /\ p \div Width \in R
    <3>1. R \subseteq Registers
      BY <1>2, <2>1
    <3> QED BY <1>1, <3>1, SlotsByRegister
  <2> QED BY <1>2, <2>1, <2>2
<1>11. ASSUME NEW p \in Word
       PROVE  p \div 2 \in GroupRegisters <=> RoundOf(pass, p) \in GroupRows
  <2>1. PICK x \in 0 .. 63, y \in 0 .. 1 : x = p \div 2 /\ y = p % 2 /\ p = 2 * x + y
    BY DEF Word
  <2>2. p \div 16 = x \div 8 /\ (p % 16) \div 2 = x % 8
    BY <2>1
  <2> QED BY <1>3, <1>8, <2>1, <2>2 DEF RoundOf, Passes
<1> QED BY <1>9, <1>10, <1>11

\* Which rounds a group makes, and where it ends.
LEMMA GroupEdges ==
  ASSUME kernel \in Kernels, group \in 0 .. Groups - 1
  PROVE  /\ AtOnce * group \in 0 .. 7
         /\ group = 0 => AtOnce * group = 0
         /\ \A y \in 0 .. 7 : y \in GroupRows <=> /\ y >= AtOnce * group
                                                  /\ y < AtOnce * (group + 1)
         /\ group + 1 = Groups => AtOnce * (group + 1) = 8
         /\ group + 1 < Groups => (group + 1) % Groups = group + 1
         /\ group + 1 = Groups => (group + 1) % Groups = 0
         /\ AtOnce * (group + 1) \in Nat /\ AtOnce * group < AtOnce * (group + 1)
<1>1. PICK n \in {1, 2, 4}, t \in {2, 4, 8} : n = AtOnce /\ t = Groups /\ n * t = 8
  BY GroupShape
<1>2. GroupRows = n * group .. n * group + n - 1
  BY <1>1 DEF GroupRows
<1>3. n * (group + 1) = n * group + n
  BY <1>1
<1>4. PICK z \in 0 .. 7 : z = n * group
  BY <1>1
<1>5. \A y \in 0 .. 7 : y \in GroupRows <=> y >= z /\ y < z + n
  BY <1>1, <1>2, <1>4
<1> QED BY <1>1, <1>3, <1>4, <1>5

-----------------------------------------------------------------------------
(* FillKernels: each step keeps the invariant                                *)

\* Within a group, a step that mixes nothing leaves every word as far as it was.
LEMMA PlacesKept ==
  ASSUME call' = call, pass' = pass, group' = group
  PROVE  /\ Stored' = Stored /\ GroupRows' = GroupRows /\ (\A i : Held(i)' = Held(i))
         /\ (step' # "next" /\ step # "next" /\ Mixings[step'] = Mixings[step])
              => \A w : Behind(w)' = Behind(w)
<1>1. kernel' = kernel /\ AtOnce' = AtOnce /\ Carries' = Carries
  BY SameShape
<1>2. Stored' = Stored /\ GroupRows' = GroupRows /\ (\A i : Held(i)' = Held(i))
  BY <1>1 DEF Stored, GroupRows, Held
<1>3. ASSUME step' # "next", step # "next", Mixings[step'] = Mixings[step], NEW w
      PROVE  Behind(w)' = Behind(w)
  BY <1>1, <1>2, <1>3 DEF Behind
<1> QED BY <1>2, <1>3

\* What a step leaves alone, with what it depends on, stays true.
LEMMA StateStays ==
  ASSUME StateInv, call' = call, state' = state, \A i \in Registers : Held(i)' => Held(i)
  PROVE  StateInv'
BY SameShape DEF StateInv

\* A part of the invariant is kept by a step that leaves its variables alone.
LEMMA LiveStays ==
  ASSUME LiveInv, call' = call, live' = live, group' = group, pass' = pass
  PROVE  LiveInv'
BY SameShape DEF LiveInv

\* So are the histories, while every word is as far as it was, ...
LEMMA MixedStays ==
  ASSUME MixedInv, mixed' = mixed, \A w \in Word : Behind(w)' = Behind(w)
  PROVE  MixedInv'
BY DEF MixedInv

\* ... what block_xy took, ...
LEMMA XyStays ==
  ASSUME XyInv, call' = call, xy' = xy, \A w \in Word : Behind(w)' > 0 <=> Behind(w) > 0
  PROVE  XyInv'
BY SameShape DEF XyInv

\* ... and what is stored.
LEMMA NextStays ==
  ASSUME NextInv, call' = call, next' = next, Stored' = Stored
  PROVE  NextInv'
BY SameShape DEF NextInv

\* Diagonalising rotates the rounds in flight and mixes nothing.
LEMMA DiagonalizeKeeps ==
  ASSUME KernelInv, Diagonalize
  PROVE  KernelInv'
<1>1. /\ step = "diag" /\ step' = "g1d" /\ call' = call /\ pass' = pass /\ group' = group
      /\ state' = state /\ live' = live /\ xy' = xy /\ mixed' = mixed /\ next' = next
  BY DEF Diagonalize
<1>2. /\ kernel' = kernel /\ withXor' = withXor /\ Groups' = Groups /\ InFlight' = InFlight
  BY <1>1, SameShape
<1>3. /\ kernel \in Kernels /\ pass \in Passes /\ group \in 0 .. Groups - 1 /\ InRounds(0)
  BY <1>1 DEF KernelInv, ControlInv, FlightInv, Turned
<1>4. ControlInv'
  BY <1>1, <1>2, <1>3 DEF KernelInv, ControlInv, Mixings
<1>5. FlightInv'
  <2>1. \A j \in 1 .. InFlight : rounds'[j] = Diagonalized(rounds[j])
    BY DEF Diagonalize
  <2>2. ASSUME NEW j \in 1 .. InFlight
        PROVE  LaidAs(kernel, pass, Diagonalized(rounds[j]), InFlight * group + j - 1, 1)
    <3>1. Laid(rounds[j], InFlight * group + j - 1, 0)
      BY <1>3 DEF InRounds
    <3> QED BY <1>3, <3>1, TurnsRound DEF Laid
  <2>3. InRounds(1)'
    BY <1>1, <1>2, <2>1, <2>2 DEF InRounds, Laid
  <2>4. Turned' = 1
    BY <1>1 DEF Turned
  <2> QED BY <2>3, <2>4 DEF FlightInv
<1>6. \A w : Behind(w)' = Behind(w)
  BY <1>1, PlacesKept DEF Mixings
<1>7. Stored' = Stored /\ \A i : Held(i)' = Held(i)
  BY <1>1, PlacesKept
<1>8. StateInv' /\ LiveInv' /\ MixedInv' /\ XyInv' /\ NextInv'
  BY <1>1, <1>6, <1>7, StateStays, LiveStays, MixedStays, XyStays, NextStays DEF KernelInv
<1> QED BY <1>4, <1>5, <1>8 DEF KernelInv

\* Undiagonalising turns them back.
LEMMA UndiagonalizeKeeps ==
  ASSUME KernelInv, Undiagonalize
  PROVE  KernelInv'
<1>1. /\ step = "undiag" /\ step' = "put" /\ call' = call /\ pass' = pass /\ group' = group
      /\ state' = state /\ live' = live /\ xy' = xy /\ mixed' = mixed /\ next' = next
  BY DEF Undiagonalize
<1>2. /\ kernel' = kernel /\ withXor' = withXor /\ Groups' = Groups /\ InFlight' = InFlight
  BY <1>1, SameShape
<1>3. /\ kernel \in Kernels /\ pass \in Passes /\ group \in 0 .. Groups - 1 /\ InRounds(1)
  BY <1>1 DEF KernelInv, ControlInv, FlightInv, Turned
<1>4. ControlInv'
  BY <1>1, <1>2, <1>3 DEF KernelInv, ControlInv, Mixings
<1>5. FlightInv'
  <2>1. \A j \in 1 .. InFlight : rounds'[j] = Undiagonalized(rounds[j])
    BY DEF Undiagonalize
  <2>2. ASSUME NEW j \in 1 .. InFlight
        PROVE  LaidAs(kernel, pass, Undiagonalized(rounds[j]), InFlight * group + j - 1, 0)
    <3>1. Laid(rounds[j], InFlight * group + j - 1, 1)
      BY <1>3 DEF InRounds
    <3> QED BY <1>3, <3>1, TurnsRoundBack DEF Laid
  <2>3. InRounds(0)'
    BY <1>1, <1>2, <2>1, <2>2 DEF InRounds, Laid
  <2>4. Turned' = 0
    BY <1>1 DEF Turned
  <2> QED BY <2>3, <2>4 DEF FlightInv
<1>6. \A w : Behind(w)' = Behind(w)
  BY <1>1, PlacesKept DEF Mixings
<1>7. Stored' = Stored /\ \A i : Held(i)' = Held(i)
  BY <1>1, PlacesKept
<1>8. StateInv' /\ LiveInv' /\ MixedInv' /\ XyInv' /\ NextInv'
  BY <1>1, <1>6, <1>7, StateStays, LiveStays, MixedStays, XyStays, NextStays DEF KernelInv
<1> QED BY <1>4, <1>5, <1>8 DEF KernelInv

\* A step that changes nothing keeps the invariant.
LEMMA StutterKeeps ==
  ASSUME KernelInv, UNCHANGED vars
  PROVE  KernelInv'
<1>1. /\ call' = call /\ pass' = pass /\ group' = group /\ step' = step /\ rounds' = rounds
      /\ state' = state /\ live' = live /\ xy' = xy /\ mixed' = mixed /\ next' = next
  BY DEF vars
<1>2. /\ kernel' = kernel /\ withXor' = withXor /\ Groups' = Groups /\ InFlight' = InFlight
  BY <1>1, SameShape
<1>3. ControlInv'
  BY <1>1, <1>2 DEF KernelInv, ControlInv
<1>4. FlightInv'
  BY <1>1, <1>2 DEF KernelInv, FlightInv, InRounds, Laid, Turned
<1>5. Stored' = Stored /\ GroupRows' = GroupRows /\ \A i : Held(i)' = Held(i)
  BY <1>1, PlacesKept
<1>6. \A w : Behind(w)' = Behind(w)
  BY <1>1, <1>5, SameShape DEF Behind
<1>7. StateInv' /\ LiveInv' /\ MixedInv' /\ XyInv' /\ NextInv'
  BY <1>1, <1>5, <1>6, StateStays, LiveStays, MixedStays, XyStays, NextStays DEF KernelInv
<1> QED BY <1>3, <1>4, <1>7 DEF KernelInv

\* The words a word is mixed with, and the history this gives it.
MixSet(w) == {q \in UNION {Quads(rounds[j]) : j \in 1 .. InFlight} : \E n \in 1 .. 4 : q[n] = w}
MixOp == IF step \in {"g1", "g1d"} THEN "g1" ELSE "g2"

\* A half of G, as what it does to a word.
LEMMA MixIs ==
  ASSUME Mix
  PROVE  mixed' = [w \in Word |-> IF MixSet(w) = {} THEN mixed[w]
                                  ELSE Append(mixed[w], Event(MixOp, CHOOSE q \in MixSet(w) : TRUE))]
BY DEF Mix, MixSet, MixOp

\* Its event is the next one of the scalar kernel.
LEMMA MixEvent ==
  ASSUME step \in {"g1", "g2", "g1d", "g2d"}, pass \in Passes, NEW w
  PROVE  EventOf(w, (IF pass = "columns" THEN 2 ELSE 6) + Mixings[step])
           = Event(MixOp, TheG(w, pass, Turned))
<1>1. CASE pass = "columns"
  <2>1. CASE step = "g1"
    BY <1>1, <2>1 DEF EventOf, Mixings, MixOp, Turned
  <2>2. CASE step = "g2"
    BY <1>1, <2>2 DEF EventOf, Mixings, MixOp, Turned
  <2>3. CASE step = "g1d"
    BY <1>1, <2>3 DEF EventOf, Mixings, MixOp, Turned
  <2>4. CASE step = "g2d"
    BY <1>1, <2>4 DEF EventOf, Mixings, MixOp, Turned
  <2> QED BY <2>1, <2>2, <2>3, <2>4
<1>2. CASE pass = "rows"
  <2>1. CASE step = "g1"
    BY <1>2, <2>1 DEF EventOf, Mixings, MixOp, Turned
  <2>2. CASE step = "g2"
    BY <1>2, <2>2 DEF EventOf, Mixings, MixOp, Turned
  <2>3. CASE step = "g1d"
    BY <1>2, <2>3 DEF EventOf, Mixings, MixOp, Turned
  <2>4. CASE step = "g2d"
    BY <1>2, <2>4 DEF EventOf, Mixings, MixOp, Turned
  <2> QED BY <2>1, <2>2, <2>3, <2>4
<1> QED BY <1>1, <1>2 DEF Passes

\* g1 and g2 take every word of the rounds in flight one step further, and no other word.
LEMMA MixKeeps ==
  ASSUME KernelInv, Mix
  PROVE  KernelInv'
<1>1. /\ step \in {"g1", "g2", "g1d", "g2d"} /\ call' = call /\ pass' = pass /\ group' = group
      /\ step' = [g1 |-> "g2", g2 |-> "diag", g1d |-> "g2d", g2d |-> "undiag"][step]
      /\ rounds' = rounds /\ state' = state /\ live' = live /\ xy' = xy /\ next' = next
  BY DEF Mix
<1>2. /\ kernel' = kernel /\ withXor' = withXor /\ Groups' = Groups /\ InFlight' = InFlight
      /\ AtOnce' = AtOnce
  BY <1>1, SameShape
<1>3. /\ kernel \in Kernels /\ pass \in Passes /\ group \in 0 .. Groups - 1 /\ InRounds(Turned)
  BY <1>1 DEF KernelInv, ControlInv, FlightInv
<1>4. /\ step' \in DOMAIN Mixings /\ step' # "next" /\ step # "next" /\ step' \in {"g2", "diag", "g2d", "undiag"}
      /\ Mixings[step'] = Mixings[step] + 1 /\ Mixings[step] \in 0 .. 3 /\ Turned' = Turned
      /\ Turned \in 0 .. 1
  <2>1. CASE step = "g1"
    BY <1>1, <2>1 DEF Mixings, Turned
  <2>2. CASE step = "g2"
    BY <1>1, <2>2 DEF Mixings, Turned
  <2>3. CASE step = "g1d"
    BY <1>1, <2>3 DEF Mixings, Turned
  <2>4. CASE step = "g2d"
    BY <1>1, <2>4 DEF Mixings, Turned
  <2> QED BY <1>1, <2>1, <2>2, <2>3, <2>4
<1>5. ControlInv'
  BY <1>1, <1>2, <1>3, <1>4 DEF KernelInv, ControlInv
<1>6. FlightInv'
  BY <1>1, <1>2, <1>3, <1>4 DEF FlightInv, InRounds, Laid
<1>7. Stored' = Stored /\ GroupRows' = GroupRows /\ \A i : Held(i)' = Held(i)
  BY <1>1, PlacesKept
<1>8. ASSUME NEW w \in Word
      PROVE  /\ Behind(w) \in Nat
             /\ RoundOf(pass, w) \in GroupRows
                  => /\ Behind(w) = (IF pass = "columns" THEN 1 ELSE 5) + Mixings[step]
                     /\ Behind(w)' = Behind(w) + 1 /\ Behind(w) > 0
             /\ RoundOf(pass, w) \notin GroupRows => Behind(w)' = Behind(w)
  <2>1. PICK y \in 0 .. 7 : y = RoundOf(pass, w)
    BY <1>3, PlaceOfWord
  <2>2. PICK z \in 0 .. 7 : z = AtOnce * group /\ (y \in GroupRows => ~ (y < z))
    <3>1. PICK z \in 0 .. 7 : z = AtOnce * group
      BY <1>3, GroupEdges
    <3>2. y \in GroupRows => y >= z
      BY <1>3, <2>1, <3>1, GroupEdges
    <3> QED BY <3>1, <3>2
  <2>3. CASE pass = "columns"
    <3>1. Behind(w) = IF y < z THEN 5 ELSE IF y \in GroupRows THEN 1 + Mixings[step]
                      ELSE IF kernel \in Fused THEN 0 ELSE 1
      BY <1>4, <2>1, <2>2, <2>3 DEF Behind
    <3>2. Behind(w)' = IF y < z THEN 5 ELSE IF y \in GroupRows THEN 1 + Mixings[step']
                       ELSE IF kernel \in Fused THEN 0 ELSE 1
      BY <1>1, <1>2, <1>4, <1>7, <2>1, <2>2, <2>3 DEF Behind
    <3> QED BY <1>4, <2>1, <2>2, <2>3, <3>1, <3>2
  <2>4. CASE pass = "rows"
    <3>1. Behind(w) = IF y < z THEN 9 ELSE IF y \in GroupRows THEN 5 + Mixings[step] ELSE 5
      BY <1>4, <2>1, <2>2, <2>4 DEF Behind
    <3>2. Behind(w)' = IF y < z THEN 9 ELSE IF y \in GroupRows THEN 5 + Mixings[step'] ELSE 5
      BY <1>1, <1>2, <1>4, <1>7, <2>1, <2>2, <2>4 DEF Behind
    <3> QED BY <1>4, <2>1, <2>2, <2>4, <3>1, <3>2
  <2> QED BY <1>3, <2>3, <2>4 DEF Passes
<1>9. ASSUME NEW w \in Word
      PROVE  mixed'[w] = History(w, Behind(w)')
  <2>1. mixed[w] = History(w, Behind(w))
    BY DEF KernelInv, MixedInv
  <2>2. mixed'[w] = IF MixSet(w) = {} THEN mixed[w]
                    ELSE Append(mixed[w], Event(MixOp, CHOOSE q \in MixSet(w) : TRUE))
    BY MixIs
  <2>3. MixSet(w) = IF RoundOf(pass, w) \in GroupRows THEN {TheG(w, pass, Turned)} ELSE {}
    BY <1>3, <1>4, MixesWord DEF MixSet, TheG
  <2>4. CASE RoundOf(pass, w) \in GroupRows
    <3>1. PICK one : one = TheG(w, pass, Turned)
      OBVIOUS
    <3>2. MixSet(w) = {one} /\ {one} # {} /\ (CHOOSE q \in {one} : TRUE) = one
      BY <2>3, <2>4, <3>1
    <3>3. mixed'[w] = Append(mixed[w], Event(MixOp, one))
      BY <2>2, <3>2, Zenon
    <3>4. PICK n \in Nat : n = Behind(w)
      BY <1>8
    <3>5. n + 1 = (IF pass = "columns" THEN 2 ELSE 6) + Mixings[step] /\ Behind(w)' = n + 1
      BY <1>4, <1>8, <2>4, <3>4
    <3>6. EventOf(w, n + 1) = Event(MixOp, one)
      BY <1>1, <1>3, <3>1, <3>5, MixEvent
    <3>7. Append(History(w, n), EventOf(w, n + 1)) = History(w, n + 1)
      BY ReferenceGrows
    <3> QED BY <2>1, <3>3, <3>4, <3>5, <3>6, <3>7
  <2>5. CASE RoundOf(pass, w) \notin GroupRows
    BY <1>8, <2>1, <2>2, <2>3, <2>5
  <2> QED BY <2>4, <2>5
<1>10. MixedInv'
  <2>1. mixed' = [w \in Word |-> mixed'[w]]
    BY MixIs
  <2> QED BY <1>9, <2>1 DEF MixedInv
<1>11. \A w \in Word : Behind(w)' > 0 <=> Behind(w) > 0
  BY <1>8
<1>12. StateInv' /\ LiveInv' /\ XyInv' /\ NextInv'
  BY <1>1, <1>7, <1>11, StateStays, LiveStays, XyStays, NextStays DEF KernelInv
<1> QED BY <1>5, <1>6, <1>10, <1>12 DEF KernelInv

\* Whatever a kernel reads as the previous block is the previous block.
LEMMA PreviousIsHome ==
  ASSUME StateInv
  PROVE  \A i \in Registers : Previous[i] = Home(i)
<1>1. CASE Carries
  BY <1>1 DEF StateInv, Held, Previous
<1>2. CASE ~Carries
  BY <1>2 DEF Previous
<1> QED BY <1>1, <1>2

\* The unfused kernels' prologue reads all of the block into place.
LEMMA LoadKeeps ==
  ASSUME KernelInv, LoadBlock
  PROVE  KernelInv'
<1>1. /\ pass = "load" /\ pass' = "columns" /\ call' = call /\ group' = group /\ step' = step
      /\ rounds' = rounds /\ live' = live /\ next' = next /\ state' = Previous
  BY DEF LoadBlock
<1>2. /\ kernel' = kernel /\ withXor' = withXor /\ Groups' = Groups /\ AtOnce' = AtOnce
      /\ Registers' = Registers /\ Carries' = Carries /\ \A i : Home(i)' = Home(i)
  BY <1>1, SameShape
<1>3. kernel \in Kernels /\ kernel \notin Fused /\ group = 0 /\ step = "next" /\ group \in 0 .. Groups - 1
  BY <1>1 DEF KernelInv, ControlInv, Passes
<1>4. AtOnce * group = 0
  BY <1>3, GroupEdges
<1>5. ControlInv'
  BY <1>1, <1>2, <1>3 DEF KernelInv, ControlInv
<1>6. FlightInv'
  BY <1>1, <1>3 DEF FlightInv
<1>7. StateInv'
  <2>1. DOMAIN Previous = Registers
    BY DEF KernelInv, StateInv, Previous
  <2>2. \A i \in Registers : Previous[i] = Home(i)
    BY PreviousIsHome DEF KernelInv
  <2> QED BY <1>1, <1>2, <2>1, <2>2 DEF StateInv
<1>8. LiveInv'
  BY <1>1, <1>2, <1>3 DEF KernelInv, LiveInv
<1>9. ASSUME NEW w \in Word
      PROVE  Behind(w) = 0 /\ Behind(w)' = 1
  <2>1. Behind(w) = 0
    BY <1>1 DEF Behind
  <2>2. RoundOf("columns", w) \in 0 .. 7
    BY PlaceOfWord DEF Passes
  <2>3. AtOnce' * group' = 0
    BY <1>1, <1>2, <1>4
  <2>4. Behind(w)' = 1
    BY <1>1, <1>2, <1>3, <2>2, <2>3 DEF Behind
  <2> QED BY <2>1, <2>4
<1>10. DOMAIN next = {} /\ Stored' = Stored
  BY <1>1, <1>3 DEF KernelInv, NextInv, Stored
<1>11. DOMAIN xy = {}
  BY <1>9 DEF KernelInv, XyInv
<1>12. AbsorbAs(Previous, Word)
  <2>1. SlotsOf(Registers) = Word
    BY <1>3, SlotsByRegister
  <2> QED BY <2>1, AbsorbIs DEF LoadBlock
<1>13. PlacedIn(Previous, Word)
  <2>1. PlacedIn(Previous, SlotsOf(Registers))
    <3>1. PICK c : c = Previous
      OBVIOUS
    <3>2. PlacedIn(c, SlotsOf(Registers))
      BY <1>3, <3>1, PreviousIsHome, HomesPlaced DEF KernelInv
    <3> QED BY <3>1, <3>2
  <2>2. SlotsOf(Registers) = Word
    BY <1>3, SlotsByRegister
  <2> QED BY <2>1, <2>2
<1>14. AbsorbedIn(Word)
  <2>1. PICK c : c = Previous
    OBVIOUS
  <2>2. AbsorbAs(c, Word) /\ PlacedIn(c, Word) /\ Word \subseteq Word
    BY <1>12, <1>13, <2>1
  <2> QED BY <1>10, <2>2, Absorbs
<1>15. ASSUME NEW w \in Word
       PROVE  /\ Append(mixed[w], Event("ref", <<w>>)) = History(w, 1)
              /\ Append(mixed[w], Event("ref", <<w>>)) = <<Event("ref", <<w>>)>>
  <2>1. mixed[w] = History(w, 0)
    BY <1>9 DEF KernelInv, MixedInv
  <2>2. mixed[w] = <<>> /\ History(w, 1) = <<Event("ref", <<w>>)>>
    BY <2>1, ReferenceGrows
  <2>3. PICK ev : ev = Event("ref", <<w>>)
    OBVIOUS
  <2>4. Append(<<>>, ev) = <<ev>>
    OBVIOUS
  <2> QED BY <2>2, <2>3, <2>4, Zenon
<1>16. MixedInv'
  BY <1>9, <1>14, <1>15 DEF MixedInv, AbsorbedIn
<1>17. XyInv'
  <2>1. DOMAIN xy' = {p \in Word : Behind(p)' > 0}
    BY <1>9, <1>11, <1>14 DEF AbsorbedIn
  <2>2. \A p \in Word : xy'[p] = TakenAt(p)'
    BY <1>2, <1>14, <1>15 DEF TakenAt, AbsorbedIn
  <2> QED BY <2>1, <2>2 DEF XyInv
<1>18. NextInv'
  BY <1>1, <1>10, NextStays DEF KernelInv
<1> QED BY <1>5, <1>6, <1>7, <1>8, <1>16, <1>17, <1>18 DEF KernelInv

\* The registers a group is taken from.
Fusing == kernel \in Fused /\ pass = "columns"
From == IF Fusing THEN Previous ELSE state
Taken(j) == [s \in Slots |-> From[RegisterOf(InFlight * group + j - 1, s)]]

\* Taking a group, with what its registers are taken from named.
LEMMA TakeIs ==
  ASSUME TakeGroup
  PROVE  /\ rounds' = [j \in 1 .. InFlight |-> Swapped(Taken(j))]
         /\ IF Fusing THEN Absorb(From, GroupRegisters) ELSE UNCHANGED <<mixed, xy>>
BY DEF TakeGroup, Taken, From, Fusing

\* Taking a group lays its rounds in their lanes; a fused column pass reads ref_block in it.
LEMMA TakeKeeps ==
  ASSUME KernelInv, TakeGroup
  PROVE  KernelInv'
<1>1. /\ pass \in Passes /\ step = "next" /\ step' = "g1" /\ call' = call /\ pass' = pass
      /\ group' = group /\ state' = state /\ live' = live /\ next' = next
  BY DEF TakeGroup, Passes
<1>2. /\ kernel' = kernel /\ withXor' = withXor /\ Groups' = Groups /\ InFlight' = InFlight
      /\ AtOnce' = AtOnce
  BY <1>1, SameShape
<1>3. kernel \in Kernels /\ group \in 0 .. Groups - 1 /\ StateInv
  BY DEF KernelInv, ControlInv
<1>4. ControlInv'
  BY <1>1, <1>2, <1>3 DEF KernelInv, ControlInv, Mixings
<1>5. \A i \in Registers : From[i] = Home(i)
  <2>1. CASE Fusing
    BY <1>3, <2>1, PreviousIsHome DEF From
  <2>2. CASE ~Fusing
    <3>1. \A i \in Registers : Held(i)
      BY <1>1, <2>2 DEF Held, Carries, Fusing, Passes, Fused
    <3> QED BY <1>3, <2>2, <3>1 DEF From, StateInv
  <2> QED BY <2>1, <2>2
<1>6. FlightInv'
  <2>1. \A j \in 1 .. InFlight : rounds'[j] = Swapped(Taken(j))
    BY TakeIs
  <2>2. ASSUME NEW j \in 1 .. InFlight
        PROVE  LaidAs(kernel, pass, Swapped(Taken(j)), InFlight * group + j - 1, 0)
    <3>1. PICK i : i = InFlight * group + j - 1
      OBVIOUS
    <3>2. i \in GroupRounds /\ i \in 0 .. RoundsInPass - 1
      BY <1>3, <3>1, GroupShape
    <3>3. \A s \in Slots : RegisterOf(i, s) \in Registers
      BY <1>1, <1>3, <3>2, GroupInState
    <3>4. PICK r : r = Taken(j)
      OBVIOUS
    <3>5. r = [s \in Slots |-> From[RegisterOf(i, s)]]
      BY <3>1, <3>4 DEF Taken
    <3>6. AtHome(r, i)
      BY <1>5, <3>3, <3>5 DEF AtHome
    <3>7. Laid(Swapped(r), i, 0)
      BY <1>1, <1>3, <3>2, <3>6, TakesRound
    <3> QED BY <3>1, <3>4, <3>7 DEF Laid
  <2>3. InRounds(0)'
    BY <1>1, <1>2, <2>1, <2>2 DEF InRounds, Laid
  <2>4. Turned' = 0
    BY <1>1 DEF Turned
  <2> QED BY <2>3, <2>4 DEF FlightInv
<1>7. Stored' = Stored /\ GroupRows' = GroupRows /\ \A i : Held(i)' = Held(i)
  BY <1>1, PlacesKept
<1>8. StateInv' /\ LiveInv' /\ NextInv'
  BY <1>1, <1>7, StateStays, LiveStays, NextStays DEF KernelInv
<1>9. ASSUME NEW w \in Word
      PROVE  /\ Fusing /\ RoundOf(pass, w) \in GroupRows => Behind(w) = 0 /\ Behind(w)' = 1
             /\ ~Fusing \/ RoundOf(pass, w) \notin GroupRows => Behind(w)' = Behind(w)
  <2>1. PICK y \in 0 .. 7 : y = RoundOf(pass, w)
    BY <1>1, PlaceOfWord
  <2>2. PICK z \in 0 .. 7 : z = AtOnce * group
    BY <1>3, GroupEdges
  <2>3. y \in GroupRows => ~ (y < z)
    <3>1. y \in GroupRows => y >= z
      BY <1>3, <2>1, <2>2, GroupEdges
    <3> QED BY <3>1
  <2>4. CASE pass = "columns"
    <3>1. Behind(w) = IF y < z THEN 5 ELSE IF kernel \in Fused THEN 0 ELSE 1
      BY <1>1, <2>1, <2>2, <2>4 DEF Behind
    <3>2. Behind(w)' = IF y < z THEN 5 ELSE IF y \in GroupRows THEN 1
                       ELSE IF kernel \in Fused THEN 0 ELSE 1
      BY <1>1, <1>2, <1>7, <2>1, <2>2, <2>4 DEF Behind, Mixings
    <3> QED BY <2>1, <2>3, <2>4, <3>1, <3>2 DEF Fusing
  <2>5. CASE pass = "rows"
    <3>1. Behind(w) = IF y < z THEN 9 ELSE 5
      BY <1>1, <2>1, <2>2, <2>5 DEF Behind, Mixings
    <3>2. Behind(w)' = IF y < z THEN 9 ELSE 5
      BY <1>1, <1>2, <1>7, <2>1, <2>2, <2>5 DEF Behind, Mixings
    <3> QED BY <2>5, <3>1, <3>2 DEF Fusing
  <2> QED BY <1>1, <2>4, <2>5 DEF Passes
<1>10. CASE ~Fusing
  <2>1. mixed' = mixed /\ xy' = xy
    BY <1>10, TakeIs
  <2>2. MixedInv' /\ XyInv'
    BY <1>1, <1>9, <1>10, <2>1, MixedStays, XyStays DEF KernelInv
  <2> QED BY <1>4, <1>6, <1>8, <2>2 DEF KernelInv
<1>11. CASE Fusing
  <2>1. PICK c : c = From
    OBVIOUS
  <2>2. PICK slots : slots = SlotsOf(GroupRegisters)
    OBVIOUS
  <2>3. GroupRegisters \subseteq Registers
    BY <1>1, <1>3, GroupInState
  <2>4. \A p : p \in slots <=> p \in Word /\ RoundOf(pass, p) \in GroupRows
    BY <1>1, <1>3, <1>11, <2>2, FusedGroup DEF Fusing
  <2>5. PlacedIn(c, slots)
    <3>1. PICK R : R = GroupRegisters
      OBVIOUS
    <3>2. PlacedIn(c, SlotsOf(R))
      BY <1>3, <1>5, <2>1, <2>3, <3>1, HomesPlaced
    <3> QED BY <2>2, <3>1, <3>2
  <2>6. AbsorbAs(c, slots)
    BY <1>11, <2>1, <2>2, TakeIs, AbsorbIs
  <2>7. DOMAIN next = {}
    BY <1>11 DEF KernelInv, NextInv, Stored, Fusing
  <2>8. AbsorbedIn(slots)
    <3>1. slots \subseteq Word
      BY <2>4
    <3> QED BY <2>5, <2>6, <2>7, <3>1, Absorbs
  <2>9. ASSUME NEW w \in slots
        PROVE  /\ w \in Word /\ Append(mixed[w], Event("ref", <<w>>)) = History(w, 1)
               /\ Append(mixed[w], Event("ref", <<w>>)) = <<Event("ref", <<w>>)>>
    <3>1. w \in Word /\ mixed[w] = History(w, 0)
      BY <1>9, <1>11, <2>4 DEF KernelInv, MixedInv
    <3>2. mixed[w] = <<>> /\ History(w, 1) = <<Event("ref", <<w>>)>>
      BY <3>1, ReferenceGrows
    <3>3. PICK ev : ev = Event("ref", <<w>>)
      OBVIOUS
    <3>4. Append(<<>>, ev) = <<ev>>
      OBVIOUS
    <3> QED BY <3>1, <3>2, <3>3, <3>4, Zenon
  <2>10. MixedInv'
    <3>1. ASSUME NEW w \in Word
          PROVE  (IF w \in slots THEN Append(mixed[w], Event("ref", <<w>>)) ELSE mixed[w])
                   = History(w, Behind(w)')
      <4>1. CASE w \in slots
        BY <1>9, <1>11, <2>4, <2>9, <4>1
      <4>2. CASE w \notin slots
        BY <1>9, <2>4, <4>2 DEF KernelInv, MixedInv
      <4> QED BY <4>1, <4>2
    <3> QED BY <2>8, <3>1 DEF MixedInv, AbsorbedIn
  <2>11. XyInv'
    <3>1. DOMAIN xy' = DOMAIN xy \cup slots
      BY <2>8 DEF AbsorbedIn
    <3>2. \A w \in Word : w \in DOMAIN xy \cup slots <=> Behind(w)' > 0
      BY <1>9, <1>11, <2>4 DEF KernelInv, XyInv
    <3>3. DOMAIN xy' = {p \in Word : Behind(p)' > 0}
      BY <2>4, <3>1, <3>2 DEF KernelInv, XyInv
    <3>4. \A p \in slots : xy'[p] = TakenAt(p)'
      BY <1>2, <2>8, <2>9 DEF TakenAt, AbsorbedIn
    <3>5. \A p \in DOMAIN xy : p \notin slots => xy'[p] = TakenAt(p)'
      BY <1>2, <2>8 DEF KernelInv, XyInv, TakenAt, AbsorbedIn
    <3> QED BY <3>1, <3>3, <3>4, <3>5 DEF XyInv
  <2> QED BY <1>4, <1>6, <1>8, <2>10, <2>11 DEF KernelInv
<1> QED BY <1>10, <1>11

\* state with a group put back, and whether the epilogue is in it.
After ==
  [i \in Registers |->
     IF i \in GroupRegisters
     THEN LET js == CHOOSE js \in (1 .. InFlight) \X Slots :
                      RegisterOf(InFlight * group + js[1] - 1, js[2]) = i
          IN Unswapped(rounds[js[1]])[js[2]]
     ELSE state[i]]
Emitting == kernel \in Fused /\ pass = "rows"

\* Putting a group back, with what it is put into named.
LEMMA PutIs ==
  ASSUME PutGroup
  PROVE  /\ state' = IF Emitting /\ ~Carries THEN state ELSE After
         /\ live' = IF Emitting /\ Carries THEN live \cup GroupRegisters ELSE live
         /\ IF Emitting THEN Emit(After, GroupRegisters) ELSE UNCHANGED next
BY DEF PutGroup, After, Emitting

\* A group that is put back is in its place again.
LEMMA AfterIsHome ==
  ASSUME kernel \in Kernels, pass \in Passes, group \in 0 .. Groups - 1, InRounds(0)
  PROVE  \A i \in GroupRegisters : After[i] = Home(i)
<1> SUFFICES ASSUME NEW i \in GroupRegisters PROVE After[i] = Home(i)
  OBVIOUS
<1>1. i \in Registers
  BY GroupInState
<1>2. PICK js : js = CHOOSE q \in (1 .. InFlight) \X Slots :
                       RegisterOf(InFlight * group + q[1] - 1, q[2]) = i
  OBVIOUS
<1>3. After[i] = Unswapped(rounds[js[1]])[js[2]]
  BY <1>1, <1>2, Zenon DEF After
<1>4. \E q \in (1 .. InFlight) \X Slots : RegisterOf(InFlight * group + q[1] - 1, q[2]) = i
  <2>1. PICK y \in GroupRounds, s \in Slots : i = RegisterOf(y, s)
    BY DEF GroupRegisters
  <2>2. PICK j \in 1 .. InFlight : y = InFlight * group + j - 1
    BY GroupShape
  <2>3. PICK q : q = <<j, s>>
    OBVIOUS
  <2>4. q \in (1 .. InFlight) \X Slots /\ q[1] = j /\ q[2] = s
    BY <2>3
  <2>5. RegisterOf(InFlight * group + q[1] - 1, q[2]) = i
    BY <2>1, <2>2, <2>4
  <2> QED BY <2>4, <2>5
<1>5. js \in (1 .. InFlight) \X Slots /\ RegisterOf(InFlight * group + js[1] - 1, js[2]) = i
  BY <1>2, <1>4, Zenon
<1>6. PICK j \in 1 .. InFlight, s \in Slots : j = js[1] /\ s = js[2]
  BY <1>5
<1>7. PICK y : y = InFlight * group + j - 1
  OBVIOUS
<1>8. y \in 0 .. RoundsInPass - 1 /\ RegisterOf(y, s) = i
  BY <1>5, <1>6, <1>7, GroupShape
<1>9. Laid(rounds[j], y, 0)
  BY <1>7 DEF InRounds
<1>10. AtHome(Unswapped(rounds[j]), y)
  BY <1>8, <1>9, PutsRound
<1> QED BY <1>3, <1>6, <1>8, <1>10 DEF AtHome

\* Where a group leads.
LEMMA PutMoves ==
  ASSUME ControlInv, PutGroup
  PROVE  /\ step = "put" /\ step' = "next" /\ call' = call /\ xy' = xy /\ mixed' = mixed
         /\ pass \in Passes /\ kernel \in Kernels /\ group \in 0 .. Groups - 1
         /\ group' \in 0 .. Groups - 1 /\ AtOnce' * group' \in 0 .. 7
         /\ \/ /\ pass' = pass /\ AtOnce' * group' = AtOnce * (group + 1)
            \/ /\ group' = 0 /\ AtOnce' * group' = 0 /\ AtOnce * (group + 1) = 8
               /\ pass' = IF pass = "columns" THEN "rows"
                          ELSE IF kernel \in Fused THEN "done" ELSE "store"
<1>1. /\ step = "put" /\ step' = "next" /\ call' = call /\ xy' = xy /\ mixed' = mixed
      /\ group' = (group + 1) % Groups
      /\ pass' = IF group + 1 < Groups THEN pass
                 ELSE IF pass = "columns" THEN "rows"
                 ELSE IF kernel \in Fused THEN "done" ELSE "store"
  BY DEF PutGroup
<1>2. kernel \in Kernels /\ group \in 0 .. Groups - 1 /\ pass \in Passes
  BY <1>1 DEF ControlInv
<1>3. Groups \in {2, 4, 8} /\ AtOnce' = AtOnce
  BY <1>1, <1>2, GroupShape, SameShape
<1>4. PICK t \in {2, 4, 8} : t = Groups
  BY <1>3
<1>5. CASE group + 1 < t
  <2>1. group' = group + 1
    BY <1>1, <1>2, <1>4, <1>5, GroupEdges
  <2>2. AtOnce' * group' = AtOnce * (group + 1) /\ pass' = pass
    BY <1>1, <1>3, <1>4, <1>5, <2>1
  <2>3. AtOnce * (group + 1) \in 0 .. 7
    <3>1. PICK n \in {1, 2, 4} : n = AtOnce /\ n * t = 8
      BY <1>2, <1>4, GroupShape
    <3> QED BY <1>2, <1>4, <1>5, <3>1
  <2> QED BY <1>1, <1>2, <1>4, <1>5, <2>1, <2>2, <2>3
<1>6. CASE ~ (group + 1 < t)
  <2>1. group + 1 = Groups
    BY <1>2, <1>4, <1>6
  <2>2. group' = 0 /\ AtOnce * (group + 1) = 8
    BY <1>1, <1>2, <2>1, GroupEdges
  <2>3. AtOnce' * group' = 0
    <3>1. PICK n \in {1, 2, 4} : n = AtOnce
      BY <1>2, GroupShape
    <3> QED BY <1>3, <2>2, <3>1
  <2> QED BY <1>1, <1>2, <1>3, <1>4, <1>6, <2>2, <2>3
<1> QED BY <1>5, <1>6

\* Putting a group back leaves its words one pass further; a fused row pass stores them.
LEMMA PutKeeps ==
  ASSUME KernelInv, PutGroup
  PROVE  KernelInv'
<1>1. /\ step = "put" /\ step' = "next" /\ call' = call /\ xy' = xy /\ mixed' = mixed
      /\ pass \in Passes /\ kernel \in Kernels /\ group \in 0 .. Groups - 1
      /\ group' \in 0 .. Groups - 1
  BY PutMoves DEF KernelInv
<1>2. /\ kernel' = kernel /\ withXor' = withXor /\ Groups' = Groups /\ AtOnce' = AtOnce
      /\ Registers' = Registers /\ Carries' = Carries
      /\ (\A i : Home(i)' = Home(i)) /\ (\A p : StoredAt(p)' = StoredAt(p))
  BY <1>1, SameShape
<1>3. PICK z \in 0 .. 7, e \in Nat, v \in 0 .. 7 :
        /\ z = AtOnce * group /\ e = AtOnce * (group + 1) /\ v = AtOnce' * group' /\ z < e
        /\ \/ pass' = pass /\ v = e
           \/ /\ group' = 0 /\ v = 0 /\ e = 8
              /\ pass' = IF pass = "columns" THEN "rows"
                         ELSE IF kernel \in Fused THEN "done" ELSE "store"
  <2>1. /\ AtOnce * group \in 0 .. 7 /\ AtOnce * (group + 1) \in Nat
        /\ AtOnce * group < AtOnce * (group + 1)
    BY <1>1, GroupEdges
  <2> QED BY <2>1, PutMoves, Zenon DEF KernelInv
<1>4. \A y \in 0 .. 7 : y \in GroupRows <=> y >= z /\ y < e
  BY <1>1, <1>3, GroupEdges
<1>5. InRounds(0)
  BY <1>1 DEF KernelInv, FlightInv, Turned
<1>6. \A i \in GroupRegisters : After[i] = Home(i)
  BY <1>1, <1>5, AfterIsHome
<1>7. GroupRegisters \subseteq Registers
  BY <1>1, GroupInState
<1>8. ControlInv'
  BY <1>1, <1>2, <1>3 DEF KernelInv, ControlInv, Mixings, Passes
<1>9. FlightInv'
  BY <1>1 DEF FlightInv
<1>10. ASSUME NEW w \in Word
       PROVE  /\ Behind(w)' = Behind(w)
              /\ RoundOf(pass, w) \in GroupRows => Behind(w) = IF pass = "columns" THEN 5 ELSE 9
  <2>1. PICK y \in 0 .. 7, x \in 0 .. 7 : y = RoundOf("columns", w) /\ x = RoundOf("rows", w)
    BY PlaceOfWord DEF Passes
  <2>2. CASE pass = "columns"
    <3>1. Behind(w) = IF y < z THEN 5 ELSE IF y \in GroupRows THEN 5 ELSE IF kernel \in Fused THEN 0 ELSE 1
      BY <1>1, <1>3, <2>1, <2>2 DEF Behind, Mixings
    <3>2. CASE pass' = pass /\ v = e
      <4>1. Behind(w)' = IF y < e THEN 5 ELSE IF kernel \in Fused THEN 0 ELSE 1
        BY <1>1, <1>2, <1>3, <2>1, <2>2, <3>2 DEF Behind
      <4> QED BY <1>3, <1>4, <2>1, <2>2, <3>1, <4>1
    <3>3. CASE v = 0 /\ e = 8 /\ pass' = "rows"
      <4>1. Behind(w)' = 5
        BY <1>1, <1>3, <2>1, <3>3 DEF Behind, Mixings
      <4> QED BY <1>4, <2>1, <2>2, <3>1, <3>3, <4>1
    <3> QED BY <1>3, <2>2, <3>2, <3>3
  <2>3. CASE pass = "rows"
    <3>1. Behind(w) = IF x < z THEN 9 ELSE IF x \in GroupRows THEN 9 ELSE 5
      BY <1>1, <1>3, <2>1, <2>3 DEF Behind, Mixings
    <3>2. CASE pass' = pass /\ v = e
      <4>1. Behind(w)' = IF x < e THEN 9 ELSE 5
        BY <1>1, <1>2, <1>3, <2>1, <2>3, <3>2 DEF Behind, Mixings
      <4> QED BY <1>3, <1>4, <2>1, <2>3, <3>1, <4>1
    <3>3. CASE e = 8 /\ pass' \in {"done", "store"}
      <4>1. Behind(w)' = 9
        BY <3>3 DEF Behind
      <4> QED BY <1>4, <2>1, <2>3, <3>1, <3>3, <4>1
    <3> QED BY <1>3, <2>3, <3>2, <3>3
  <2> QED BY <1>1, <2>2, <2>3 DEF Passes
<1>11. MixedInv' /\ XyInv'
  BY <1>1, <1>10, MixedStays, XyStays DEF KernelInv
<1>12. StateInv'
  <2>1. DOMAIN state' = Registers
    BY PutIs DEF KernelInv, StateInv, After
  <2>2. ASSUME NEW i \in Registers, Held(i)'
        PROVE  state'[i] = Home(i)
    <3>1. CASE i \in GroupRegisters /\ ~(Emitting /\ ~Carries)
      BY <1>6, <3>1, PutIs
    <3>2. CASE Held(i) /\ (i \notin GroupRegisters \/ (Emitting /\ ~Carries))
      <4>1. state'[i] = state[i]
        BY <3>2, PutIs DEF After
      <4> QED BY <3>2, <4>1 DEF KernelInv, StateInv
    <3>3. CASE ~Held(i)
      <4>1. pass = "columns" /\ kernel \in Fused /\ ~(i \div 8 < z) /\ ~Emitting
        BY <1>1, <1>3, <3>3 DEF Held, Carries, Fused, Passes, Emitting
      <4>2. i \div 8 < e
        <5>1. CASE pass' = pass /\ v = e
          BY <1>2, <1>3, <2>2, <3>3, <4>1, <5>1 DEF Held
        <5>2. CASE e = 8
          <6>1. Registers = 0 .. 63
            BY <4>1, NarrowShape DEF Narrow
          <6> QED BY <5>2, <6>1
        <5> QED BY <1>3, <5>1, <5>2
      <4>3. i \in GroupRegisters
        <5>1. i \div 8 \in 0 .. 7
          <6>1. Registers = 0 .. 63
            BY <4>1, NarrowShape DEF Narrow
          <6> QED BY <6>1
        <5>2. i \div 8 \in GroupRows
          BY <1>3, <1>4, <4>1, <4>2, <5>1
        <5> QED BY <1>1, <4>1, <5>2, FusedGroup
      <4> QED BY <1>6, <4>1, <4>3, PutIs
    <3>4. CASE Held(i) /\ i \in GroupRegisters /\ Emitting /\ ~Carries
      <4>1. state'[i] = state[i]
        BY <3>4, PutIs
      <4> QED BY <3>4, <4>1 DEF KernelInv, StateInv
    <3> QED BY <3>1, <3>2, <3>3, <3>4
  <2> QED BY <1>2, <2>1, <2>2 DEF StateInv
<1>13. ASSUME Emitting
       PROVE  /\ \A i \in Registers : i % 8 \in 0 .. 7 /\ (i \in GroupRegisters <=> i % 8 \in GroupRows)
              /\ \A p : p \in SlotsOf(GroupRegisters) <=> p \in Word /\ RoundOf("rows", p) \in GroupRows
  <2>1. kernel \in Fused /\ pass = "rows" /\ pass # "columns"
    BY <1>13 DEF Emitting
  <2>2. Registers = 0 .. 63
    BY <2>1, NarrowShape DEF Narrow
  <2>3. /\ GroupRegisters = {i \in Registers : (IF pass = "columns" THEN i \div 8 ELSE i % 8) \in GroupRows}
        /\ SlotsOf(GroupRegisters) = {p \in Word : RoundOf(pass, p) \in GroupRows}
    BY <1>1, <2>1, FusedGroup
  <2> QED BY <2>1, <2>2, <2>3
<1>14. LiveInv'
  <2> SUFFICES ASSUME Carries
               PROVE  live' = IF pass' = "done" THEN Registers
                              ELSE IF kernel \in Fused /\ pass' = "rows"
                              THEN {i \in Registers : i % 8 < v} ELSE {}
    BY <1>2, <1>3 DEF LiveInv
  <2>1. CASE Emitting
    <3>1. live = {i \in Registers : i % 8 < z} /\ live' = live \cup GroupRegisters
      BY <1>3, <2>1, PutIs DEF KernelInv, LiveInv, Emitting
    <3>2. live' = {i \in Registers : i % 8 < e}
      BY <1>3, <1>4, <1>7, <1>13, <2>1, <3>1
    <3>3. CASE pass' = pass /\ v = e
      BY <2>1, <3>2, <3>3 DEF Emitting
    <3>4. CASE e = 8 /\ pass' = "done"
      BY <1>13, <2>1, <3>2, <3>4
    <3> QED BY <1>3, <2>1, <3>3, <3>4 DEF Emitting
  <2>2. CASE ~Emitting
    <3>1. live' = {}
      BY <1>1, <2>2, PutIs DEF KernelInv, LiveInv, Emitting, Passes
    <3>2. pass' # "done"
      BY <1>1, <1>3, <2>2 DEF Emitting, Passes
    <3>3. kernel \in Fused /\ pass' = "rows" => {i \in Registers : i % 8 < v} = {}
      <4>1. ASSUME kernel \in Fused, pass' = "rows" PROVE {i \in Registers : i % 8 < v} = {}
        <5>1. v = 0
          BY <1>3, <2>2, <4>1 DEF Emitting
        <5>2. Registers = 0 .. 63
          BY <4>1, NarrowShape DEF Narrow
        <5> QED BY <5>1, <5>2
      <4> QED BY <4>1
    <3> QED BY <3>1, <3>2, <3>3
  <2> QED BY <2>1, <2>2
<1>15. NextInv'
  <2>1. CASE Emitting
    <3>1. PICK c, slots : c = After /\ slots = SlotsOf(GroupRegisters)
      OBVIOUS
    <3>2. PlacedIn(c, slots)
      <4>1. PICK R : R = GroupRegisters
        OBVIOUS
      <4>2. PlacedIn(c, SlotsOf(R))
        BY <1>1, <1>6, <1>7, <3>1, <4>1, HomesPlaced
      <4> QED BY <3>1, <4>1, <4>2
    <3>3. EmitAs(c, slots)
      BY <2>1, <3>1, PutIs, EmitIs
    <3>4. \A p : p \in slots <=> p \in Word /\ RoundOf("rows", p) \in GroupRows
      BY <1>13, <2>1, <3>1
    <3>5. \A p \in slots : mixed[p] = History(p, 9) /\ p \in DOMAIN xy /\ xy[p] = TakenAt(p)
      <4>1. \A p \in slots : p \in Word /\ Behind(p) = 9
        BY <1>10, <2>1, <3>4 DEF Emitting
      <4> QED BY <4>1 DEF KernelInv, MixedInv, XyInv
    <3>6. /\ DOMAIN next' = DOMAIN next \cup slots
          /\ \A p \in slots : next'[p] = StoredAt(p)
          /\ \A p \in DOMAIN next : p \notin slots => next'[p] = next[p]
      <4>1. slots \subseteq Word
        BY <3>4
      <4> QED BY <3>2, <3>3, <3>5, <4>1, Emits
    <3>7. DOMAIN next = {p \in Word : RoundOf("rows", p) < z}
      BY <1>3, <2>1 DEF KernelInv, NextInv, Stored, Emitting
    <3>8. \A p \in Word : RoundOf("rows", p) \in 0 .. 7
      BY PlaceOfWord DEF Passes
    <3>9. DOMAIN next' = {p \in Word : RoundOf("rows", p) < e}
      BY <1>3, <1>4, <3>4, <3>6, <3>7, <3>8
    <3>10. Stored' = {p \in Word : RoundOf("rows", p) < e}
      <4>1. CASE pass' = pass /\ v = e
        BY <1>2, <1>3, <2>1, <4>1 DEF Stored, Emitting
      <4>2. CASE e = 8 /\ pass' = "done"
        BY <3>8, <4>2 DEF Stored
      <4> QED BY <1>3, <2>1, <4>1, <4>2 DEF Emitting
    <3> QED BY <1>2, <3>6, <3>9, <3>10 DEF KernelInv, NextInv
  <2>2. CASE ~Emitting
    <3>1. next' = next
      BY <2>2, PutIs
    <3>2. Stored = {}
      BY <1>1, <2>2 DEF Stored, Emitting, Passes
    <3>3. Stored' = {}
      <4>1. pass' # "done"
        BY <1>1, <1>3, <2>2 DEF Emitting, Passes
      <4>2. \A p \in Word : RoundOf("rows", p) \in 0 .. 7
        BY PlaceOfWord DEF Passes
      <4>3. kernel \in Fused /\ pass' = "rows" => v = 0
        BY <1>3, <2>2 DEF Emitting
      <4> QED BY <1>2, <1>3, <4>1, <4>2, <4>3 DEF Stored
    <3> QED BY <1>1, <3>1, <3>2, <3>3, NextStays DEF KernelInv
  <2> QED BY <2>1, <2>2
<1> QED BY <1>8, <1>9, <1>11, <1>12, <1>14, <1>15 DEF KernelInv

\* The unfused kernels' epilogue stores every word, all of them finished.
LEMMA StoreKeeps ==
  ASSUME KernelInv, StoreBlock
  PROVE  KernelInv'
<1>1. /\ pass = "store" /\ pass' = "done" /\ call' = call /\ group' = group /\ step' = step
      /\ rounds' = rounds /\ state' = state /\ xy' = xy /\ mixed' = mixed
      /\ live' = IF Carries THEN Registers ELSE live
  BY DEF StoreBlock
<1>2. /\ kernel' = kernel /\ withXor' = withXor /\ Groups' = Groups /\ AtOnce' = AtOnce
      /\ Registers' = Registers /\ Carries' = Carries
      /\ (\A i : Home(i)' = Home(i)) /\ (\A p : StoredAt(p)' = StoredAt(p))
  BY <1>1, SameShape
<1>3. kernel \in Kernels /\ kernel \notin Fused /\ group = 0 /\ step = "next" /\ StateInv
  BY <1>1 DEF KernelInv, ControlInv, Passes
<1>4. ControlInv'
  BY <1>1, <1>2, <1>3 DEF KernelInv, ControlInv
<1>5. FlightInv' /\ LiveInv'
  BY <1>1, <1>2, <1>3 DEF FlightInv, LiveInv
<1>6. \A i \in Registers : state[i] = Home(i)
  BY <1>1, <1>3 DEF StateInv, Held
<1>7. StateInv'
  BY <1>1, <1>2, <1>3, <1>6 DEF StateInv
<1>8. \A w \in Word : Behind(w) = 9 /\ Behind(w)' = 9
  BY <1>1 DEF Behind
<1>9. MixedInv' /\ XyInv'
  BY <1>1, <1>8, MixedStays, XyStays DEF KernelInv
<1>10. NextInv'
  <2>1. PICK c, slots : c = state /\ slots = SlotsOf(Registers)
    OBVIOUS
  <2>2. slots = Word
    BY <1>3, <2>1, SlotsByRegister
  <2>3. PlacedIn(c, slots)
    BY <1>3, <1>6, <2>1, HomesPlaced
  <2>4. EmitAs(c, slots)
    BY <2>1, EmitIs DEF StoreBlock
  <2>5. \A p \in slots : mixed[p] = History(p, 9) /\ p \in DOMAIN xy /\ xy[p] = TakenAt(p)
    BY <1>8, <2>2 DEF KernelInv, MixedInv, XyInv
  <2>6. /\ DOMAIN next' = DOMAIN next \cup slots
        /\ \A p \in slots : next'[p] = StoredAt(p)
    BY <2>2, <2>3, <2>4, <2>5, Emits
  <2>7. DOMAIN next = {}
    BY <1>1, <1>3 DEF KernelInv, NextInv, Stored
  <2>8. Stored' = Word
    BY <1>1 DEF Stored
  <2> QED BY <1>2, <2>2, <2>6, <2>7, <2>8 DEF NextInv
<1> QED BY <1>4, <1>5, <1>7, <1>9, <1>10 DEF KernelInv

\* The next call finds its previous block in the registers only where the kernel carries it.
LEMMA CallKeeps ==
  ASSUME KernelInv, CallAgain
  PROVE  KernelInv'
<1>1. /\ pass = "done" /\ pass' = (IF kernel \in Fused THEN "columns" ELSE "load")
      /\ call' = call /\ group' = group /\ step' = step /\ rounds' = rounds
      /\ state' = [i \in Registers |-> IF i \in live THEN state[i] ELSE Other]
      /\ live' = {} /\ xy' = <<>> /\ next' = <<>> /\ mixed' = [w \in Word |-> <<>>]
  BY DEF CallAgain
<1>2. /\ kernel' = kernel /\ withXor' = withXor /\ Groups' = Groups /\ AtOnce' = AtOnce
      /\ Registers' = Registers /\ Carries' = Carries /\ \A i : Home(i)' = Home(i)
  BY <1>1, SameShape
<1>3. kernel \in Kernels /\ group = 0 /\ step = "next" /\ StateInv /\ LiveInv /\ group \in 0 .. Groups - 1
  BY <1>1 DEF KernelInv, ControlInv, Passes
<1>4. AtOnce' * group' = 0
  <2>1. AtOnce * group = 0
    BY <1>3, GroupEdges
  <2> QED BY <1>1, <1>2, <2>1
<1>5. ControlInv'
  BY <1>1, <1>2, <1>3 DEF KernelInv, ControlInv, Passes
<1>6. FlightInv'
  BY <1>1, <1>3 DEF FlightInv
<1>7. StateInv'
  <2>1. ASSUME NEW i \in Registers, Held(i)'
        PROVE  state'[i] = Home(i)
    <3>1. CASE Carries
      <4>1. live = Registers /\ state[i] = Home(i)
        BY <1>1, <1>3, <3>1 DEF LiveInv, StateInv, Held
      <4> QED BY <1>1, <4>1
    <3>2. CASE ~Carries
      <4>1. pass' = "columns" /\ (kernel = "wasm128" \/ i \div 8 < 0)
        BY <1>1, <1>2, <1>4, <2>1, <3>2 DEF Held
      <4>2. i \in Nat
        <5>1. kernel \in Narrow
          BY <3>2 DEF Carries, Narrow, Fused
        <5> QED BY <5>1, NarrowShape
      <4>3. FALSE
        BY <1>1, <4>1, <4>2 DEF Fused
      <4> QED BY <4>3
    <3> QED BY <3>1, <3>2
  <2> QED BY <1>1, <1>2, <2>1 DEF StateInv
<1>8. LiveInv'
  BY <1>1 DEF LiveInv
<1>9. ASSUME NEW w \in Word PROVE Behind(w)' = 0
  <2>1. RoundOf("columns", w) \in 0 .. 7
    BY PlaceOfWord DEF Passes
  <2> QED BY <1>1, <1>2, <1>3, <1>4, <2>1 DEF Behind
<1>10. MixedInv'
  <2>1. ASSUME NEW w \in Word PROVE History(w, Behind(w)') = <<>>
    <3>1. 0 \in Nat
      OBVIOUS
    <3>2. History(w, 0) = <<>>
      BY <3>1, ReferenceGrows
    <3>3. Behind(w)' = 0
      BY <1>9
    <3> QED BY <3>2, <3>3
  <2>2. mixed' = [w \in Word |-> History(w, Behind(w)')]
    BY <1>1, <2>1
  <2> QED BY <2>2 DEF MixedInv
<1>11. XyInv'
  <2>1. DOMAIN xy' = {}
    BY <1>1
  <2> QED BY <1>9, <2>1 DEF XyInv
<1>12. NextInv'
  <2>1. DOMAIN next' = {} /\ Stored' = {}
    BY <1>1 DEF Stored
  <2> QED BY <2>1 DEF NextInv
<1> QED BY <1>5, <1>6, <1>7, <1>8, <1>10, <1>11, <1>12 DEF KernelInv

\* The first call starts in the invariant.
LEMMA InitKernel ==
  ASSUME Init
  PROVE  KernelInv
<1>1. /\ kernel \in Kernels /\ withXor \in BOOLEAN
      /\ pass = (IF kernel \in Fused THEN "columns" ELSE "load")
      /\ group = 0 /\ step = "next"
      /\ state = [i \in Registers |-> IF Carries THEN Home(i) ELSE Other]
      /\ live = {} /\ xy = <<>> /\ next = <<>> /\ mixed = [w \in Word |-> <<>>]
  <2>1. withXor \in BOOLEAN
    <3>1. PICK flags \in Calls : withXor = flags[1] /\ alias = flags[2]
      BY DEF Init
    <3>2. \A c \in Calls : c[1] = TRUE \/ c[1] = FALSE
      <4>1. ASSUME NEW c, c = <<FALSE, FALSE>> \/ c = <<TRUE, FALSE>> \/ c = <<FALSE, TRUE>>
            PROVE  c[1] = TRUE \/ c[1] = FALSE
        <5>1. CASE c = <<FALSE, FALSE>>
          BY <5>1
        <5>2. CASE c = <<TRUE, FALSE>>
          BY <5>2
        <5>3. CASE c = <<FALSE, TRUE>>
          BY <5>3
        <5> QED BY <4>1, <5>1, <5>2, <5>3
      <4>2. \A c \in Calls : c = <<FALSE, FALSE>> \/ c = <<TRUE, FALSE>> \/ c = <<FALSE, TRUE>>
        BY DEF Calls
      <4> QED BY <4>1, <4>2, Zenon
    <3>3. flags[1] = TRUE \/ flags[1] = FALSE
      BY <3>2
    <3>4. withXor = TRUE \/ withXor = FALSE
      BY <3>1, <3>3, Zenon
    <3> QED BY <3>4, Zenon
  <2>2. /\ kernel \in Kernels
        /\ pass = (IF kernel \in Fused THEN "columns" ELSE "load")
        /\ group = 0 /\ step = "next"
    BY DEF Init
  <2>3. /\ state = [i \in Registers |-> IF Carries THEN Home(i) ELSE Other]
        /\ live = {} /\ xy = <<>> /\ next = <<>> /\ mixed = [w \in Word |-> <<>>]
    BY Zenon DEF Init
  <2> QED BY <2>1, <2>2, <2>3
<1>2. Groups \in {2, 4, 8}
  <2>1. CASE kernel \in Narrow
    BY <2>1, NarrowShape
  <2>2. CASE kernel = "avx2"
    BY <2>2, Avx2Shape
  <2>3. CASE kernel = "avx512"
    BY <2>3, Avx512Shape
  <2> QED BY <1>1, <2>1, <2>2, <2>3, KernelsAre
<1>3. AtOnce * group = 0 /\ group \in 0 .. Groups - 1
  <2>1. group \in 0 .. Groups - 1
    BY <1>1, <1>2
  <2> QED BY <1>1, <2>1, GroupEdges
<1>4. ControlInv
  BY <1>1, <1>3 DEF ControlInv, Mixings, Passes
<1>5. FlightInv /\ LiveInv
  BY <1>1 DEF FlightInv, LiveInv
<1>6. StateInv
  <2>1. ASSUME NEW i \in Registers, Held(i)
        PROVE  state[i] = Home(i)
    <3>1. CASE Carries
      BY <1>1, <3>1
    <3>2. CASE ~Carries
      <4>1. pass = "columns" /\ (kernel = "wasm128" \/ i \div 8 < 0)
        BY <1>1, <1>3, <2>1, <3>2 DEF Held
      <4>2. i \in Nat
        <5>1. kernel \in Narrow
          BY <3>2 DEF Carries, Narrow, Fused
        <5> QED BY <5>1, NarrowShape
      <4>3. FALSE
        BY <1>1, <4>1, <4>2 DEF Fused
      <4> QED BY <4>3
    <3> QED BY <3>1, <3>2
  <2> QED BY <1>1, <2>1 DEF StateInv
<1>7. ASSUME NEW w \in Word PROVE Behind(w) = 0
  <2>1. RoundOf("columns", w) \in 0 .. 7
    BY PlaceOfWord DEF Passes
  <2> QED BY <1>1, <1>3, <2>1 DEF Behind
<1>8. MixedInv
  BY <1>1, <1>7, ReferenceGrows DEF MixedInv
<1>9. XyInv
  <2>1. DOMAIN xy = {}
    BY <1>1
  <2> QED BY <1>7, <2>1 DEF XyInv
<1>10. NextInv
  <2>1. DOMAIN next = {} /\ Stored = {}
    BY <1>1 DEF Stored
  <2> QED BY <2>1 DEF NextInv
<1> QED BY <1>4, <1>5, <1>6, <1>8, <1>9, <1>10 DEF KernelInv

\* The inductive invariant of the kernels: in every layout the rounds in flight hold the
\* words of their rounds, before or after the rotation, in the lanes where g1 and g2
\* expect them; the registers of state that hold a block hold it in place; and every word
\* has the history of the scalar kernel up to where its round has come.
THEOREM KernelInvariant == Spec => []KernelInv
<1>1. Init => KernelInv
  BY InitKernel
<1>2. KernelInv /\ [Next]_vars => KernelInv'
  <2> SUFFICES ASSUME KernelInv, [Next]_vars PROVE KernelInv'
    OBVIOUS
  <2>1. CASE LoadBlock
    BY <2>1, LoadKeeps
  <2>2. CASE TakeGroup
    BY <2>2, TakeKeeps
  <2>3. CASE Mix
    BY <2>3, MixKeeps
  <2>4. CASE Diagonalize
    BY <2>4, DiagonalizeKeeps
  <2>5. CASE Undiagonalize
    BY <2>5, UndiagonalizeKeeps
  <2>6. CASE PutGroup
    BY <2>6, PutKeeps
  <2>7. CASE StoreBlock
    BY <2>7, StoreKeeps
  <2>8. CASE CallAgain
    BY <2>8, CallKeeps
  <2>9. CASE UNCHANGED vars
    BY <2>9, StutterKeeps
  <2> QED BY <2>1, <2>2, <2>3, <2>4, <2>5, <2>6, <2>7, <2>8, <2>9 DEF Next
<1> QED BY <1>1, <1>2, PTL DEF Spec

\* In every vector backend, however often its kernel is called, every word stored is the
\* scalar kernel's word of that place, XORed with what block_xy took there, nothing is
\* read uninitialised or after it was overwritten, and a call stores the whole block.
THEOREM KernelsStoreReference == Spec => []StoresReference
<1>1. KernelInv => StoresReference
  <2> SUFFICES ASSUME KernelInv PROVE StoresReference
    OBVIOUS
  <2>1. ASSUME NEW p \in DOMAIN next
        PROVE  next[p] = [word |-> p, done |-> Reference[p],
                          xy |-> [word |-> p, done |-> <<Event("ref", <<p>>)>>,
                                  next |-> IF withXor THEN "old" ELSE "none"]]
    <3>1. p \in Word
      BY DEF KernelInv, NextInv, Stored
    <3>2. next[p] = StoredAt(p)
      BY DEF KernelInv, NextInv
    <3>3. Reference[p] = History(p, 9)
      BY <3>1, ReferenceIs
    <3> QED BY <3>2, <3>3 DEF StoredAt, TakenAt
  <2>2. pass = "done" => DOMAIN next = Word
    BY DEF KernelInv, NextInv, Stored
  <2> QED BY <2>1, <2>2 DEF StoresReference
<1> QED BY <1>1, KernelInvariant, PTL

=============================================================================
