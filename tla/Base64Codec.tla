----------------------------- MODULE Base64Codec -----------------------------
(***************************************************************************)
(* The Base64 codec of the PHC strings: the scalar loops of encoding.rs,   *)
(* the blocks of the vector backends under base64/, and the loops that run *)
(* blocks while there is input for a whole load and leave the rest to the  *)
(* scalar loop.  Bytes are numbers and every vector operation computes its *)
(* lanes, so that a shuffle index, a mask or a signed comparison counts.   *)
(***************************************************************************)
EXTENDS Integers, Sequences, Bits

CONSTANTS
  Backends,   \* the values of Base64Backend that are exercised
  Plains,     \* the byte strings encoded, each with a capacity of dst
  Texts       \* the byte strings decoded, each with a capacity of dst

Byte == 0 .. 255

ASSUME CodecAssumption ==
  /\ Backends \subseteq {"scalar", "neon", "ssse3", "avx2", "wasm128"}
  /\ Plains \subseteq [bytes : Seq(Byte), capacity : Nat]
  /\ Texts \subseteq [bytes : Seq(Byte), capacity : Nat]

VARIABLES
  coding,     \* "encode" or "decode"
  backend,
  src, dstLen,
  loop,       \* which of the backend's block loops runs, 0 before the first
  consumed,   \* bytes of src taken by the block loops
  out,        \* what is written to dst so far
  loadEnd,    \* the end of the furthest load from src
  result      \* Pending, then what the call returns

codecVars == <<coding, backend, src, dstLen, loop, consumed, out, loadEnd, result>>

\* The u32 of the scalar code, of which only the low 16 bits are ever used.
Word16 == 2^16
ShiftLeft(x, n) == (x * 2^n) % Word16
ShiftRight(x, n) == x \div 2^n
Sub(x, y) == (x - y) % Word16

B64Len(n) == (n \div 3) * 4 + (IF n % 3 = 0 THEN 0 ELSE (n % 3) + 1)

Ok(bytes, end) == [ok |-> TRUE, bytes |-> bytes, consumed |-> end]
Err == [ok |-> FALSE]
Pending == [pending |-> TRUE]

-----------------------------------------------------------------------------
(* The branch-free classification, on masks of 0 and \hFF.                  *)

Eq(x, y) == (ShiftRight(Sub(0, x ^^ y), 8) & \hFF) ^^ \hFF
Gt(x, y) == ShiftRight(Sub(y, x), 8) & \hFF
Ge(x, y) == Gt(y, x) ^^ \hFF
Lt(x, y) == Gt(y, x)
Le(x, y) == Ge(y, x)

B64ByteToChar(x) ==
  (Lt(x, 26) & (x + 65)) | (Ge(x, 26) & Lt(x, 52) & (x + 71))
    | (Ge(x, 52) & Lt(x, 62) & Sub(x, 4)) | (Eq(x, 62) & 43) | (Eq(x, 63) & 47)

B64CharToByte(c) ==
  LET x == (Ge(c, 65) & Le(c, 90) & Sub(c, 65)) | (Ge(c, 97) & Le(c, 122) & Sub(c, 71))
             | (Ge(c, 48) & Le(c, 57) & (c + 4)) | (Eq(c, 43) & 62) | (Eq(c, 47) & 63)
  IN x | (Eq(x, 0) & (Eq(c, 65) ^^ \hFF))

CharOf == [x \in 0 .. 63 |-> B64ByteToChar(x)]
ByteOf == [c \in Byte |-> B64CharToByte(c)]

-----------------------------------------------------------------------------
(* The scalar loops.                                                        *)

EncodeByte(s, byte) ==
  LET acc  == ShiftLeft(s.acc, 8) | byte
      bits == s.bits + 8
  IN [bits |-> bits % 6, acc |-> acc,
      out |-> s.out \o [k \in 1 .. bits \div 6 |->
                          CharOf[ShiftRight(acc, bits - 6 * k) & \h3F]]]

\* to_base64_scalar, from the place the blocks end.
EncodeScalar(done, bytes) ==
  LET after[k \in 0 .. Len(bytes)] ==
        IF k = 0 THEN [bits |-> 0, acc |-> 0, out |-> done]
        ELSE EncodeByte(after[k - 1], bytes[k])
      s == after[Len(bytes)]
  IN IF s.bits > 0
     THEN Append(s.out, CharOf[ShiftLeft(s.acc, 6 - s.bits) & \h3F])
     ELSE s.out

\* One turn of from_base64's loop, which ends at the first character outside
\* the alphabet, or when a byte does not fit.
DecodeChar(s, c) ==
  LET d    == ByteOf[c]
      acc  == ShiftLeft(s.acc, 6) | d
      bits == s.bits + 6
  IN IF s.end # "no" THEN s
     ELSE IF d = \hFF THEN [s EXCEPT !.end = "char"]
     ELSE IF bits < 8 THEN [s EXCEPT !.acc = acc, !.bits = bits, !.used = @ + 1]
     ELSE IF Len(s.out) >= dstLen THEN [s EXCEPT !.end = "full"]
     ELSE [s EXCEPT !.acc = acc, !.bits = bits - 8, !.used = @ + 1,
                    !.out = Append(@, ShiftRight(acc, bits - 8) & \hFF)]

\* from_base64_scalar: past the end of src comes the NUL the C would read.
DecodeScalar(done, start, bytes) ==
  LET text == Append(bytes, 0)
      after[k \in 0 .. Len(text)] ==
        IF k = 0
        THEN [acc |-> 0, bits |-> 0, used |-> start, out |-> done, end |-> "no"]
        ELSE DecodeChar(after[k - 1], text[k])
      s == after[Len(text)]
  IN IF s.end = "full" \/ s.bits > 4 \/ (s.acc & (2^s.bits - 1)) # 0
     THEN Err ELSE Ok(s.out, s.used)

-----------------------------------------------------------------------------
(* Vector registers: sequences of bytes, the lowest first.                  *)

\* pshufb and swizzle: an index with its high bit set gives 0.
Shuffle(x, sel) == [i \in DOMAIN sel |-> IF sel[i] < 0 THEN 0 ELSE x[sel[i] + 1]]

\* permutevar8x32: whole doublewords, across the halves of the register.
PermuteDwords(x, sel) ==
  [i \in 1 .. 32 |-> x[4 * sel[((i - 1) \div 4) + 1] + ((i - 1) % 4) + 1]]

\* The 16-bit and 32-bit lanes of a register of 16 bytes, and back.
Half(x, i) == x[2 * i + 1] + 256 * x[2 * i + 2]
FromHalves(h) ==
  [n \in 1 .. 16 |-> ShiftRight(h[(n - 1) \div 2], 8 * ((n - 1) % 2)) % 256]
FromDwords(w) ==
  [n \in 1 .. 16 |-> ShiftRight(w[(n - 1) \div 4], 8 * ((n - 1) % 4)) % 256]

Low(x) == SubSeq(x, 1, 16)
High(x) == SubSeq(x, 17, 32)

Twos == <<1, 0, 2, 1, 4, 3, 5, 4, 7, 6, 8, 7, 10, 9, 11, 10>>
Triples == <<2, 1, 0, 6, 5, 4, 10, 9, 8, 14, 13, 12, -1, -1, -1, -1>>

\* Lanes alternate: an operand of _mm_set1_epi32 is its low and its high half.
Alternate(i, low, high) == IF i % 2 = 0 THEN low ELSE high

\* encode_reshuffle of x86: mulhi and mullo move the six-bit fields apart.
EncodeReshuffle(x, sel) ==
  LET y == Shuffle(x, sel)
      a(i) == ((Half(y, i) & Alternate(i, \hFC00, \h0FC0))
                 * Alternate(i, \h0040, \h0400)) \div 2^16
      b(i) == ((Half(y, i) & Alternate(i, \h03F0, \h003F))
                 * Alternate(i, \h0010, \h0100)) % 2^16
  IN FromHalves([i \in 0 .. 7 |-> a(i) | b(i)])

SubSaturating(x, y) == IF x > y THEN x - y ELSE 0

\* encode_translate of x86: subs, the comparison's -1, and a table of offsets.
EncodeTranslate(x) ==
  LET lut == <<65, 71>> \o [i \in 1 .. 10 |-> -4] \o <<-19, -16, 0, 0>>
      index(v) == SubSaturating(v, 51) + IF v > 25 THEN 1 ELSE 0
  IN [i \in DOMAIN x |-> (x[i] + lut[index(x[i]) + 1]) % 256]

EncodeBlock12(x) == EncodeTranslate(EncodeReshuffle(x, Twos))

\* A plausible bug, which no specification uses: both halves shuffled alike.
EncodeBlock24Mutant(x) ==
  LET y == PermuteDwords(x, <<0, 0, 1, 2, 3, 4, 5, 6>>)
  IN EncodeTranslate(EncodeReshuffle(Low(y), Twos))
       \o EncodeTranslate(EncodeReshuffle(High(y), Twos))

\* encode_block_24: the low half is shuffled from bytes 4 on.
EncodeBlock24(x) ==
  LET y == PermuteDwords(x, <<0, 0, 1, 2, 3, 4, 5, 6>>)
  IN EncodeTranslate(EncodeReshuffle(Low(y), [i \in 1 .. 16 |-> Twos[i] + 4]))
       \o EncodeTranslate(EncodeReshuffle(High(y), Twos))

\* The vector comparisons of x86 are signed.
Signed(b) == IF b >= 128 THEN b - 256 ELSE b
Above(x, y) == Signed(x) > Signed(y)

\* decode_translate of x86; a lane that is not in the alphabet is Invalid.
Invalid == 255
DecodeTranslate(x) ==
  LET in(c, lo, hi) == Above(c, lo - 1) /\ Above(hi + 1, c)
      value(c) == CASE in(c, 65, 90)  -> c - 65
                    [] in(c, 97, 122) -> c - 97 + 26
                    [] in(c, 48, 57)  -> c - 48 + 52
                    [] c = 43 -> 62 [] c = 47 -> 63 [] OTHER -> Invalid
  IN [i \in DOMAIN x |-> value(x[i])]

\* decode_reshuffle of x86: maddubs joins two values, madd two of those.
DecodeReshuffle(x) ==
  LET merged(i) == x[2 * i + 1] * \h40 + x[2 * i + 2]
      dword(i)  == merged(2 * i) * \h1000 + merged(2 * i + 1)
  IN Shuffle(FromDwords([i \in 0 .. 3 |-> dword(i)]), Triples)

\* store_12 writes eight bytes and four, store_24 sixteen and eight.
DecodeBlock16(values) == SubSeq(DecodeReshuffle(values), 1, 12)

\* A plausible bug: the two halves are stored with the gap between them.
DecodeBlock32Mutant(values) ==
  SubSeq(DecodeReshuffle(Low(values)) \o DecodeReshuffle(High(values)), 1, 24)

DecodeBlock32(values) ==
  SubSeq(PermuteDwords(DecodeReshuffle(Low(values)) \o DecodeReshuffle(High(values)),
                       <<0, 1, 2, 4, 5, 6, 7, 7>>), 1, 24)

-----------------------------------------------------------------------------
(* NEON: vld3, vld4, vst3 and vst4 take the streams apart and interleave.   *)

Stream(x, n, k) == [i \in 1 .. Len(x) \div n |-> x[n * (i - 1) + k]]
Weave(n, S) == [i \in 1 .. 8 * n |-> S[((i - 1) \div n) + 1][((i - 1) % n) + 1]]

NeonEncodeValue(x) ==
  IF x = 63 THEN 47 ELSE IF x = 62 THEN 43
  ELSE IF x >= 52 THEN (x - (52 - 48)) % 256
  ELSE IF x >= 26 THEN x + (97 - 26) ELSE x + 65

\* encode of neon.rs; vshl drops the bits past a byte.
NeonEncode(x) ==
  LET a == Stream(x, 3, 1)  b == Stream(x, 3, 2)  c == Stream(x, 3, 3)
      shl(v, n) == (v * 2^n) % 256
      field(i, k) == CASE k = 1 -> ShiftRight(a[i], 2)
                       [] k = 2 -> (shl(a[i], 4) | ShiftRight(b[i], 4)) & \h3F
                       [] k = 3 -> (shl(b[i], 2) | ShiftRight(c[i], 6)) & \h3F
                       [] k = 4 -> c[i] & \h3F
  IN Weave(4, [i \in 1 .. 8 |-> [k \in 1 .. 4 |-> NeonEncodeValue(field(i, k))]])

\* decode_values of neon.rs and of wasm128.rs compare unsigned bytes.
UnsignedDecodeValues(x) ==
  LET in(c, lo, hi) == lo <= c /\ c <= hi
      value(c) == CASE c = 47 -> 63 [] c = 43 -> 62
                    [] in(c, 48, 57) -> (c - 48) + 52 [] in(c, 97, 122) -> (c - 97) + 26
                    [] in(c, 65, 90) -> c - 65 [] OTHER -> Invalid
  IN [i \in DOMAIN x |-> value(x[i])]

NeonDecode(values) ==
  LET v(i, k) == values[4 * (i - 1) + k]
      shl(w, n) == (w * 2^n) % 256
  IN Weave(3, [i \in 1 .. 8 |-> [k \in 1 .. 3 |->
       CASE k = 1 -> shl(v(i, 1), 2) | ShiftRight(v(i, 2), 4)
         [] k = 2 -> shl(v(i, 2), 4) | ShiftRight(v(i, 3), 2)
         [] k = 3 -> shl(v(i, 3), 6) | v(i, 4)]])

-----------------------------------------------------------------------------
(* wasm32: shifts in place of the multiplications.                          *)

SplitBits(x) ==
  LET y == Shuffle(x, Twos)
      h(i) == Half(y, i)
  IN FromHalves([i \in 0 .. 7 |->
       Alternate(i, ShiftRight(h(i) & \hFC00, 10) | ShiftLeft(h(i) & \h03F0, 4),
                    ShiftRight(h(i) & \h0FC0, 6) | ShiftLeft(h(i) & \h003F, 8))])

WasmEncodeValues(x) ==
  LET shift == <<97 - 26>> \o [i \in 1 .. 10 |-> (48 - 52) % 256]
                 \o <<(43 - 62) % 256, (47 - 63) % 256, 65, 128, 128>>
      index(v) == SubSaturating(v, 51) | (IF v < 26 THEN 13 ELSE 0)
  IN [i \in DOMAIN x |-> (x[i] + shift[index(x[i]) + 1]) % 256]

\* The last mask keeps 24 bits of each 32-bit lane; the shifts keep no more.
MergeBits(x) ==
  LET at(i, k) == x[4 * i + k]
      shl(w, n) == (w % 2^(24 - n)) * 2^n
      odd(i)  == (at(i, 1) & \h3F) + 2^16 * (at(i, 3) & \h3F)
      even(i) == 2^8 * (at(i, 2) & \h3F) + 2^24 * (at(i, 4) & \h3F)
      merged(i) == (shl(odd(i), 18) | ShiftRight(odd(i), 10))
                     | (shl(even(i), 4) | ShiftRight(even(i), 24))
  IN SubSeq(Shuffle(FromDwords([i \in 0 .. 3 |-> merged(i)]), Triples), 1, 12)

-----------------------------------------------------------------------------
(* The block loops.                                                         *)

Wide(load) == [load |-> load, bytes |-> 24, chars |-> 32]
Narrow(load) == [load |-> load, bytes |-> 12, chars |-> 16]

\* A plausible bug, which no specification uses: AVX2 loads 32 and asks for 24.
EncodeLoopsMutant ==
  [scalar |-> <<>>, neon |-> <<Wide(24)>>, ssse3 |-> <<Narrow(16)>>,
   avx2 |-> <<Wide(24), Narrow(16)>>, wasm128 |-> <<Narrow(16)>>]

\* How much an encoder's loops ask for: a 16-byte load takes 12 bytes.
EncodeLoops ==
  [scalar |-> <<>>, neon |-> <<Wide(24)>>, ssse3 |-> <<Narrow(16)>>,
   avx2 |-> <<Wide(32), Narrow(16)>>, wasm128 |-> <<Narrow(16)>>]

DecodeLoops ==
  [scalar |-> <<>>, neon |-> <<Wide(32)>>, ssse3 |-> <<Narrow(16)>>,
   avx2 |-> <<Wide(32), Narrow(16)>>, wasm128 |-> <<Narrow(16)>>]

\* encode_prefix and decode_prefix.
Loops == (IF coding = "encode" THEN EncodeLoops ELSE DecodeLoops)[backend]

\* MIN_ENCODE_LEN and MIN_DECODE_LEN of the backend's architecture.
MinEncodeLen == [scalar |-> 16, neon |-> 24, ssse3 |-> 16, avx2 |-> 16, wasm128 |-> 16]
MinDecodeLen == [scalar |-> 16, neon |-> 32, ssse3 |-> 16, avx2 |-> 16, wasm128 |-> 16]

EncodeBlock(x) ==
  CASE backend = "neon"    -> NeonEncode(x)
    [] backend = "wasm128" -> WasmEncodeValues(SplitBits(x))
    [] Len(x) = 32         -> EncodeBlock24(x)
    [] OTHER               -> EncodeBlock12(x)

BlockValues(x) ==
  IF backend \in {"neon", "wasm128"} THEN UnsignedDecodeValues(x) ELSE DecodeTranslate(x)

DecodeBlock(values) ==
  CASE backend = "neon"    -> NeonDecode(values)
    [] backend = "wasm128" -> MergeBits(values)
    [] Len(values) = 32    -> DecodeBlock32(values)
    [] OTHER               -> DecodeBlock16(values)

\* What lies past the end of src is not src; it happens to be zero here.
Load(n) == [i \in 1 .. n |-> IF consumed + i <= Len(src) THEN src[consumed + i] ELSE 0]
Rest == SubSeq(src, consumed + 1, Len(src))

CodecInit ==
  /\ backend \in Backends
  /\ \/ coding = "encode" /\ \E p \in Plains : src = p.bytes /\ dstLen = p.capacity
     \/ coding = "decode" /\ \E t \in Texts : src = t.bytes /\ dstLen = t.capacity
  /\ loop = 0 /\ consumed = 0 /\ out = <<>> /\ loadEnd = 0 /\ result = Pending

\* The length and capacity checks before any block, to_base64_raw and
\* from_base64_raw; short inputs go to the scalar loop at once.
StartEncode ==
  /\ coding = "encode" /\ loop = 0 /\ result = Pending
  /\ IF dstLen <= B64Len(Len(src))
     THEN result' = Err /\ UNCHANGED loop
     ELSE /\ loop' = IF Len(src) < MinEncodeLen[backend] THEN Len(Loops) + 1 ELSE 1
          /\ UNCHANGED result
  /\ UNCHANGED <<coding, backend, src, dstLen, consumed, out, loadEnd>>

StartDecode ==
  /\ coding = "decode" /\ loop = 0
  /\ loop' = IF Len(src) < MinDecodeLen[backend] THEN Len(Loops) + 1 ELSE 1
  /\ UNCHANGED <<coding, backend, src, dstLen, consumed, out, loadEnd, result>>

InLoop == result = Pending /\ loop \in 1 .. Len(Loops)

\* The condition of the loop: input for a load and, decoding, room for a store.
BlockFits ==
  /\ Len(src) - consumed >= Loops[loop].load
  /\ coding = "decode" => dstLen - Len(out) >= Loops[loop].bytes

\* The load is as long as the register, whatever the condition asked for.
EncodeStep ==
  /\ coding = "encode" /\ InLoop /\ BlockFits
  /\ LET reads == IF backend = "neon" THEN 24 ELSE Loops[loop].chars
     IN out' = out \o EncodeBlock(Load(reads)) /\ loadEnd' = consumed + reads
  /\ consumed' = consumed + Loops[loop].bytes
  /\ UNCHANGED <<coding, backend, src, dstLen, loop, result>>

\* A vector with one invalid character is left to the scalar loop, and no
\* narrower block is tried on it.
DecodeStep ==
  /\ coding = "decode" /\ InLoop /\ BlockFits
  /\ loadEnd' = consumed + Loops[loop].chars
  /\ LET values == BlockValues(Load(Loops[loop].chars))
     IN IF \E i \in DOMAIN values : values[i] = Invalid
        THEN loop' = Len(Loops) + 1 /\ UNCHANGED <<consumed, out>>
        ELSE /\ out' = out \o DecodeBlock(values)
             /\ consumed' = consumed + Loops[loop].chars
             /\ UNCHANGED loop
  /\ UNCHANGED <<coding, backend, src, dstLen, result>>

LeaveLoop ==
  /\ InLoop /\ ~BlockFits
  /\ loop' = loop + 1
  /\ UNCHANGED <<coding, backend, src, dstLen, consumed, out, loadEnd, result>>

ScalarTail ==
  /\ result = Pending /\ loop = Len(Loops) + 1
  /\ result' = IF coding = "encode" THEN Ok(EncodeScalar(out, Rest), Len(src))
               ELSE DecodeScalar(out, consumed, Rest)
  /\ UNCHANGED <<coding, backend, src, dstLen, loop, consumed, out, loadEnd>>

CodecNext == StartEncode \/ StartDecode \/ EncodeStep \/ DecodeStep \/ LeaveLoop \/ ScalarTail

CodecSpec == CodecInit /\ [][CodecNext]_codecVars

-----------------------------------------------------------------------------
(* The reference: bits, six at a time, of RFC 4648 without padding.          *)

Alphabet ==
  [v \in 0 .. 63 |-> CASE v < 26 -> 65 + v [] v \in 26 .. 51 -> 97 + v - 26
                       [] v \in 52 .. 61 -> 48 + v - 52 [] v = 62 -> 43 [] v = 63 -> 47]
AlphabetChars == {Alphabet[v] : v \in 0 .. 63}
ValueOfChar == [c \in AlphabetChars |-> CHOOSE v \in 0 .. 63 : Alphabet[v] = c]

\* Digit i of the number with these digits of w bits, cut again into n bits.
Regroup(s, w, n, count) ==
  LET bit(j) == IF j >= w * Len(s) THEN 0
                ELSE (s[(j \div w) + 1] \div 2^(w - 1 - (j % w))) % 2
      digit(i) == LET first[k \in 0 .. n] ==
                        IF k = 0 THEN 0 ELSE 2 * first[k - 1] + bit(n * i + k - 1)
                  IN first[n]
  IN [i \in 1 .. count |-> digit(i - 1)]

ReferenceEncode(bytes) ==
  LET sextets == Regroup(bytes, 8, 6, (8 * Len(bytes) + 5) \div 6)
  IN [i \in DOMAIN sextets |-> Alphabet[sextets[i]]]

ReferenceDecode(text, capacity) ==
  LET n == CHOOSE n \in 0 .. Len(text) :
             /\ \A i \in 1 .. n : text[i] \in AlphabetChars
             /\ n = Len(text) \/ text[n + 1] \notin AlphabetChars
      sextets == [i \in 1 .. n |-> ValueOfChar[text[i]]]
      bytes == Regroup(sextets, 6, 8, (6 * n) \div 8)
  IN IF n % 4 = 1 \/ Len(bytes) > capacity
        \/ (n % 4 = 2 /\ sextets[n] % 16 # 0) \/ (n % 4 = 3 /\ sextets[n] % 4 # 0)
     THEN Err ELSE Ok(bytes, n)

\* Whatever the backend and wherever its blocks end, encoding gives the text
\* RFC 4648 gives, and an error exactly when dst has no room for it and the
\* C's terminating NUL.
EncodesAsReference ==
  coding = "encode" /\ result # Pending =>
    result = IF dstLen > Len(ReferenceEncode(src))
             THEN Ok(ReferenceEncode(src), Len(src)) ELSE Err

\* Whatever the backend, decoding stops at the first byte outside the alphabet,
\* wherever in a vector it is, and fails exactly when the text before it has an
\* impossible length, bits left over that are not zero, or more bytes than dst.
DecodesAsReference ==
  coding = "decode" /\ result # Pending => result = ReferenceDecode(src, dstLen)

\* No block reads past src, although an encoder's load is longer than what it
\* takes, and none writes past dst, although blocks are stored whole.
StaysInBounds ==
  /\ loadEnd <= Len(src)
  /\ Len(out) <= dstLen
  /\ coding = "encode" /\ result = Pending /\ loop > 0 => Len(out) < dstLen
=============================================================================
