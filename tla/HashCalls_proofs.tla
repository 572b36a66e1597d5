-------------------------- MODULE HashCalls_proofs --------------------------
(***************************************************************************)
(* The functions under a hash, for blocks, digests, counters and streams   *)
(* of any size: the digest of BLAKE2b is one of the stream, whatever the   *)
(* calls of update were, and blake2b_long produces what RFC 9106 defines.  *)
(* Then what holds of a call for every configuration, every input and      *)
(* every width of the hashed lengths: no two sources that may be hashed    *)
(* are one message, a verification is exact, and no digest stays behind.   *)
(***************************************************************************)
EXTENDS Blake2b, Argon2Calls, SequenceTheorems, Numbers, TLAPS

(* Arithmetic and sequences                                                  *)

\* A small summand goes into a remainder, and at most one into the quotient.
LEMMA RemainderOfSum ==
  ASSUME NEW n \in Nat, NEW m \in Nat \ {0}, NEW i \in 0 .. m - 1
  PROVE  /\ ((n % m) + i) % m = (n + i) % m
         /\ (n + i) % m < i => (n + i) \div m = n \div m + 1
         /\ ~ ((n + i) % m < i) => (n + i) \div m = n \div m
<1> DEFINE q == n \div m
           r == n % m
<1>1. q \in Nat /\ r \in 0 .. m - 1 /\ n = q * m + r
  BY DivisionOf
<1>0. n \div m = q /\ n % m = r
  OBVIOUS
<1> HIDE DEF q, r
<1>2. CASE r + i < m
  <2>1. n + i = q * m + (r + i) /\ r + i \in 0 .. m - 1
    BY <1>1, <1>2, SMT
  <2>2. (n + i) \div m = q /\ (n + i) % m = r + i
    <3> DEFINE w == n + i
               v == r + i
    <3>1. w = q * m + v /\ v \in 0 .. m - 1
      BY <2>1
    <3> HIDE DEF w, v
    <3>2. w \div m = q /\ w % m = v
      BY <1>1, <3>1, QuotientIs
    <3> QED BY <3>2 DEF w, v
  <2>3. (r + i) % m = r + i
    <3>1. r + i = 0 * m + (r + i)
      BY <1>1, SMT
    <3> QED BY <2>1, <3>1, QuotientIs
  <2>4. ~ (r + i < i)
    BY <1>1, SMT
  <2>5. ((n % m) + i) % m = (n + i) % m
    BY <1>0, <2>2, <2>3, Zenon
  <2>6. ~ ((n + i) % m < i)
    BY <2>2, <2>4, Zenon
  <2>7. (n + i) \div m = n \div m
    BY <1>0, <2>2, Zenon
  <2> QED BY <2>5, <2>6, <2>7, Zenon
<1>3. CASE ~ (r + i < m)
  <2>1. n + i = (q + 1) * m + (r + i - m) /\ r + i - m \in 0 .. m - 1 /\ q + 1 \in Nat
    <3>1. (q + 1) * m = q * m + m
      BY <1>1, SMT
    <3> QED BY <1>1, <1>3, <3>1, SMT
  <2>2. (n + i) \div m = q + 1 /\ (n + i) % m = r + i - m
    <3> DEFINE w == n + i
               v == r + i - m
               p == q + 1
    <3>1. w = p * m + v /\ v \in 0 .. m - 1 /\ p \in Nat
      BY <2>1
    <3> HIDE DEF w, v, p
    <3>2. w \div m = p /\ w % m = v
      BY <3>1, QuotientIs
    <3> QED BY <3>2 DEF w, v, p
  <2>3. (r + i) % m = r + i - m
    <3>1. r + i = 1 * m + (r + i - m)
      BY <1>1, SMT
    <3> QED BY <2>1, <3>1, QuotientIs
  <2>4. r + i - m < i
    BY <1>1, SMT
  <2>5. ((n % m) + i) % m = (n + i) % m
    BY <1>0, <2>2, <2>3, Zenon
  <2>6. (n + i) % m < i
    BY <2>2, <2>4, Zenon
  <2>7. (n + i) \div m = n \div m + 1
    BY <1>0, <2>2, Zenon
  <2> QED BY <2>5, <2>6, <2>7, Zenon
<1> QED BY <1>2, <1>3

\* Appending to a sequence that is given by its elements.
LEMMA AppendTo ==
  ASSUME NEW k \in Nat, NEW s, s = [i \in 1 .. k |-> s[i]], NEW x
  PROVE  /\ Len(s) = k
         /\ Append(s, x) = [i \in 1 .. k + 1 |-> IF i <= k THEN s[i] ELSE x]
<1> DEFINE X == {s[i] : i \in 1 .. k} \cup {x}
<1>1. s \in [1 .. k -> X]
  <2>1. \A i \in 1 .. k : s[i] \in X
    OBVIOUS
  <2> HIDE DEF X
  <2> QED BY <2>1
<1> HIDE DEF X
<1>2. s \in Seq(X) /\ Len(s) = k
  BY <1>1
<1>3. x \in X
  BY DEF X
<1>4. /\ Append(s, x) \in Seq(X) /\ Len(Append(s, x)) = k + 1
      /\ \A i \in 1 .. k : Append(s, x)[i] = s[i]
      /\ Append(s, x)[k + 1] = x
  BY <1>2, <1>3, AppendProperties
<1>5. Append(s, x) = [i \in 1 .. k + 1 |-> Append(s, x)[i]]
  BY <1>4
<1>6. \A i \in 1 .. k + 1 : Append(s, x)[i] = IF i <= k THEN s[i] ELSE x
  BY <1>4, SMT
<1> DEFINE a == Append(s, x)
<1> HIDE DEF a
<1> QED BY <1>2, <1>5, <1>6 DEF a

-----------------------------------------------------------------------------
(* The invariant of the stream                                               *)

CounterAt(n) == <<n % Word, (n \div Word) % Word>>

\* The i-th block of a stream that goes on after it.
CompressedAt(i) ==
  [block |-> [o \in Offset |-> StreamByte((i - 1) * BlockBytes + o + 1)],
   t     |-> CounterAt(i * BlockBytes),
   last  |-> FALSE]

StreamTypes ==
  /\ keyLen \in Nat
  /\ taken \in Nat
  /\ pin \in Nat
  /\ buflen \in 0 .. BlockBytes
  /\ buf = [o \in Offset |-> buf[o]]
  /\ phase \in {"open", "loop", "long", "done"}

\* After k blocks: all of them were complete and went in with their place in the
\* stream, and what has been taken since is at the start of the buffer.
StreamAt(k) ==
  /\ k \in Nat
  /\ taken = k * BlockBytes + buflen
  /\ h = [i \in 1 .. k |-> CompressedAt(i)]
  /\ t = CounterAt(k * BlockBytes)
  /\ \A o \in Offset : o < buflen => buf[o] = StreamByte(k * BlockBytes + o + 1)

\* The last block is never compressed before finalize: once there was a block the
\* buffer is not empty, or the loop has more input to fill it with.
HoldsBack(k) ==
  /\ phase = "open" => (k > 0 => buflen > 0)
  /\ phase = "loop" => buflen = 0 /\ pin > 0

StreamInvariant ==
  /\ StreamTypes
  /\ phase \in {"open", "loop"} => \E k \in Nat : StreamAt(k) /\ HoldsBack(k)
  /\ CutsDoNotMatter

LEMMA BlockIs ==
  /\ BlockBytes \in Nat \ {0} /\ Word \in Nat \ {0} /\ BlockBytes < Word
  /\ \A o : o \in Offset <=> o \in Nat /\ o < BlockBytes
  BY Blake2bAssumption, SMT DEF Offset

\* The two words count what was compressed.
LEMMA Counts ==
  ASSUME NEW k \in Nat, t = CounterAt(k * BlockBytes), NEW i \in 0 .. BlockBytes
  PROVE  Increment(i) = CounterAt(k * BlockBytes + i)
<1> DEFINE n == k * BlockBytes
           hi == n \div Word
<1>1. n \in Nat /\ i \in 0 .. Word - 1 /\ Word > 1 /\ 1 \in 0 .. Word - 1 /\ 0 \in 0 .. Word - 1
  <2>1. n \in Nat
    BY BlockIs, SMT
  <2> QED BY <2>1, BlockIs, SMT
<1> HIDE DEF n
<1>2. hi \in Nat
  BY <1>1, BlockIs, DivisionOf
<1>3. t[1] = n % Word /\ t[2] = hi % Word
  BY DEF CounterAt, n
<1>4. (t[1] + i) % Word = (n + i) % Word
  BY <1>1, <1>3, BlockIs, RemainderOfSum
<1>5. Increment(i) = <<(n + i) % Word, (t[2] + IF (n + i) % Word < i THEN 1 ELSE 0) % Word>>
  BY <1>4 DEF Increment
<1>6. CASE (n + i) % Word < i
  <2>1. (n + i) \div Word = hi + 1
    BY <1>1, <1>6, BlockIs, RemainderOfSum
  <2>2. ((hi % Word) + 1) % Word = (hi + 1) % Word
    BY <1>1, <1>2, BlockIs, RemainderOfSum
  <2> QED BY <1>3, <1>5, <1>6, <2>1, <2>2 DEF CounterAt, n
<1>7. CASE ~ ((n + i) % Word < i)
  <2>1. (n + i) \div Word = hi
    BY <1>1, <1>7, BlockIs, RemainderOfSum
  <2>2. ((hi % Word) + 0) % Word = hi % Word
    <3>1. ((hi % Word) + 0) % Word = (hi + 0) % Word
      BY <1>1, <1>2, BlockIs, RemainderOfSum
    <3>2. hi + 0 = hi
      BY <1>2
    <3> QED BY <3>1, <3>2
  <2> QED BY <1>3, <1>5, <1>7, <2>1, <2>2 DEF CounterAt, n
<1> QED BY <1>6, <1>7

LEMMA StreamStarts == Init => StreamInvariant
<1> SUFFICES ASSUME Init PROVE StreamInvariant
  OBVIOUS
<1>1. keyLen \in Nat
  BY BlockIs, SMT DEF Init
<1>2. StreamTypes
  BY <1>1, BlockIs DEF Init, StreamTypes
<1>3. StreamAt(0) /\ HoldsBack(0)
  <2>1. 0 * BlockBytes = 0 /\ 0 \div Word = 0 /\ 0 % Word = 0
    BY BlockIs, SMT
  <2>2. h = [i \in 1 .. 0 |-> CompressedAt(i)]
    BY DEF Init
  <2>3. t = CounterAt(0 * BlockBytes)
    BY <2>1 DEF Init, CounterAt
  <2>4. taken = 0 * BlockBytes + buflen
    BY <2>1, BlockIs DEF Init
  <2>5. ASSUME NEW o \in Offset, o < buflen
        PROVE  buf[o] = StreamByte(0 * BlockBytes + o + 1)
    <3>1. keyLen # 0
      BY <2>5, BlockIs DEF Init
    <3>2. 0 * BlockBytes + o + 1 = o + 1
      BY <2>1, BlockIs
    <3> QED BY <3>1, <3>2 DEF Init
  <2> QED BY <2>2, <2>3, <2>4, <2>5 DEF StreamAt, HoldsBack, Init
<1> QED BY <1>2, <1>3 DEF StreamInvariant, CutsDoNotMatter, Init

\* The buffer once n bytes of the stream have come in.
LEMMA FilledIs ==
  ASSUME StreamTypes, NEW k \in Nat, StreamAt(k), NEW n \in Nat
  PROVE  \A o \in Offset : o < buflen + n => Filled(n)[o] = StreamByte(k * BlockBytes + o + 1)
<1> SUFFICES ASSUME NEW o \in Offset, o < buflen + n
    PROVE  Filled(n)[o] = StreamByte(k * BlockBytes + o + 1)
  OBVIOUS
<1> DEFINE b == k * BlockBytes
<1>1. b \in Nat /\ taken = b + buflen /\ o \in Nat /\ buflen \in Nat
  BY BlockIs DEF StreamAt, StreamTypes
<1>2. CASE o < buflen
  BY <1>1, <1>2 DEF Filled, StreamAt
<1>3. CASE ~ (o < buflen)
  <2>1. taken + o - buflen + 1 = b + o + 1
    <3> HIDE DEF b
    <3> QED BY <1>1, SMT
  <2>2. Filled(n)[o] = StreamByte(taken + o - buflen + 1)
    BY <1>1, <1>3 DEF Filled
  <2> QED BY <2>1, <2>2
<1> QED BY <1>2, <1>3
-----------------------------------------------------------------------------
(* The steps of the stream                                                   *)

\* The stream is the same as long as the key is.
LEMMA StreamStays ==
  ASSUME keyLen' = keyLen
  PROVE  /\ \A p : StreamByte(p)' = StreamByte(p)
         /\ \A i : CompressedAt(i)' = CompressedAt(i)
         /\ \A n : Reference(n)' = Reference(n)
<1>1. \A p : StreamByte(p)' = StreamByte(p)
  BY DEF StreamByte
<1>2. \A i : CompressedAt(i)' = CompressedAt(i)
  BY DEF StreamByte, CompressedAt, Offset, CounterAt
<1>3. \A n : Reference(n)' = Reference(n)
  BY DEF StreamByte, Reference, Offset, BlocksOf, Upto
<1> QED BY <1>1, <1>2, <1>3

\* A complete block goes in.
LEMMA BlockGoesIn ==
  ASSUME NEW k \in Nat, h = [i \in 1 .. k |-> CompressedAt(i)], t = CounterAt(k * BlockBytes),
         keyLen' = keyLen, t' = Increment(BlockBytes),
         NEW block, block = [o \in Offset |-> StreamByte(k * BlockBytes + o + 1)],
         h' = Append(h, [block |-> block, t |-> t', last |-> FALSE])
  PROVE  /\ h' = [i \in 1 .. k + 1 |-> CompressedAt(i)']
         /\ t' = CounterAt((k + 1) * BlockBytes)
<1>1. k * BlockBytes + BlockBytes = (k + 1) * BlockBytes /\ (k + 1) - 1 = k
  BY BlockIs, SMT
<1>2. t' = CounterAt((k + 1) * BlockBytes)
  <2>1. BlockBytes \in 0 .. BlockBytes
    BY BlockIs
  <2> QED BY <1>1, <2>1, Counts
<1>3. [block |-> block, t |-> t', last |-> FALSE] = CompressedAt(k + 1)
  BY <1>1, <1>2 DEF CompressedAt
<1> DEFINE s == h
           x == CompressedAt(k + 1)
<1>4. s = [i \in 1 .. k |-> s[i]] /\ \A i \in 1 .. k : s[i] = CompressedAt(i)
  OBVIOUS
<1>5. h' = Append(s, x)
  BY <1>3
<1> HIDE DEF s, x
<1>6. h' = [i \in 1 .. k + 1 |-> IF i <= k THEN s[i] ELSE x]
  BY <1>4, <1>5, AppendTo
<1>7. \A i \in 1 .. k + 1 : (IF i <= k THEN s[i] ELSE x) = CompressedAt(i)'
  <2> SUFFICES ASSUME NEW i \in 1 .. k + 1
      PROVE  (IF i <= k THEN s[i] ELSE x) = CompressedAt(i)'
    OBVIOUS
  <2>1. CompressedAt(i)' = CompressedAt(i)
    BY StreamStays
  <2>2. CASE i <= k
    <3>1. i \in 1 .. k
      BY <2>2, SMT
    <3> QED BY <1>4, <2>1, <2>2, <3>1
  <2>3. CASE i = k + 1
    <3>1. ~ (i <= k)
      BY <2>3, SMT
    <3> QED BY <2>1, <2>3, <3>1 DEF x
  <2> QED BY <2>2, <2>3, SMT
<1> QED BY <1>2, <1>6, <1>7

LEMMA BufferStep ==
  ASSUME StreamInvariant, NEW n \in Nat, UpdateBuffers(n)
  PROVE  StreamInvariant'
<1>1. PICK k \in Nat : StreamAt(k) /\ HoldsBack(k)
  BY DEF StreamInvariant, UpdateBuffers, Offered
<1>2. StreamTypes
  BY DEF StreamInvariant
<1>3. /\ keyLen' = keyLen /\ pin' = pin /\ t' = t /\ h' = h /\ phase' = phase
      /\ phase = "open" /\ buflen + n <= BlockBytes
      /\ buf' = Filled(n) /\ buflen' = buflen + n /\ taken' = taken + n
  BY DEF UpdateBuffers, Offered
<1>4. buflen \in Nat /\ taken \in Nat /\ k * BlockBytes \in Nat
  BY <1>2, BlockIs, SMT DEF StreamTypes
<1>5. StreamTypes'
  <2>1. buflen' \in 0 .. BlockBytes /\ taken' \in Nat
    BY <1>2, <1>3, <1>4, BlockIs, SMT
  <2>2. buf' = [o \in Offset |-> buf'[o]]
    BY <1>3 DEF Filled
  <2> QED BY <1>2, <1>3, <2>1, <2>2 DEF StreamTypes
<1>6. StreamAt(k)'
  <2>1. taken' = k * BlockBytes + buflen'
    <3> DEFINE b == k * BlockBytes
    <3>1. b \in Nat /\ taken = b + buflen
      BY <1>1, <1>4 DEF StreamAt
    <3> HIDE DEF b
    <3>2. taken' = b + buflen'
      BY <1>3, <1>4, <3>1, SMT
    <3> QED BY <3>2 DEF b
  <2>2. \A o \in Offset : o < buflen' => buf'[o] = StreamByte(k * BlockBytes + o + 1)'
    BY <1>1, <1>2, <1>3, FilledIs, StreamStays
  <2>3. h' = [i \in 1 .. k |-> CompressedAt(i)']
    BY <1>1, <1>3, StreamStays DEF StreamAt
  <2> QED BY <1>1, <1>3, <2>1, <2>2, <2>3 DEF StreamAt, CounterAt
<1>7. HoldsBack(k)'
  BY <1>1, <1>3, <1>4, SMT DEF HoldsBack
<1> QED BY <1>3, <1>5, <1>6, <1>7 DEF StreamInvariant, CutsDoNotMatter

LEMMA CompleteStep ==
  ASSUME StreamInvariant, NEW n \in Nat, UpdateCompletes(n)
  PROVE  StreamInvariant'
<1>1. PICK k \in Nat : StreamAt(k) /\ HoldsBack(k)
  BY DEF StreamInvariant, UpdateCompletes, Offered
<1>2. StreamTypes
  BY DEF StreamInvariant
<1>3. /\ keyLen' = keyLen /\ phase = "open" /\ phase' = "loop" /\ buflen + n > BlockBytes
      /\ buf' = Filled(n) /\ t' = Increment(BlockBytes)
      /\ h' = Append(h, [block |-> buf', t |-> t', last |-> FALSE])
      /\ taken' = taken + BlockBytes - buflen
      /\ pin' = n - (BlockBytes - buflen) /\ buflen' = 0
  BY DEF UpdateCompletes, Offered
<1> DEFINE b == k * BlockBytes
<1>4. /\ b \in Nat /\ taken = b + buflen /\ buflen \in Nat /\ buflen <= BlockBytes
      /\ (k + 1) * BlockBytes = b + BlockBytes
  BY <1>1, <1>2, BlockIs, SMT DEF StreamAt, StreamTypes
<1>5. buf' = [o \in Offset |-> StreamByte(k * BlockBytes + o + 1)]
  <2>1. \A o \in Offset : o < buflen + n
    BY <1>3, <1>4, BlockIs, SMT
  <2>2. \A o \in Offset : Filled(n)[o] = StreamByte(k * BlockBytes + o + 1)
    BY <1>1, <1>2, <2>1, FilledIs
  <2>3. Filled(n) = [o \in Offset |-> Filled(n)[o]]
    BY DEF Filled
  <2> QED BY <1>3, <2>2, <2>3
<1>6. /\ h' = [i \in 1 .. k + 1 |-> CompressedAt(i)']
      /\ t' = CounterAt((k + 1) * BlockBytes)
  BY <1>1, <1>3, <1>5, BlockGoesIn DEF StreamAt
<1>7. pin' \in Nat /\ pin' > 0 /\ taken' \in Nat /\ taken' = (k + 1) * BlockBytes + buflen'
  <2> HIDE DEF b
  <2> QED BY <1>3, <1>4, BlockIs, SMT
<1>8. StreamTypes'
  <2>1. buf' = [o \in Offset |-> buf'[o]]
    BY <1>5
  <2>2. 0 \in 0 .. BlockBytes
    BY BlockIs
  <2> QED BY <1>2, <1>3, <1>7, <2>1, <2>2 DEF StreamTypes
<1>9. StreamAt(k + 1)' /\ HoldsBack(k + 1)'
  <2>1. \A o \in Offset : ~ (o < 0)
    BY BlockIs, SMT
  <2> QED BY <1>3, <1>6, <1>7, <2>1 DEF StreamAt, HoldsBack, CounterAt
<1>10. \E j \in Nat : StreamAt(j)' /\ HoldsBack(j)'
  <2>1. k + 1 \in Nat
    OBVIOUS
  <2> QED BY <1>9, <2>1
<1> QED BY <1>3, <1>8, <1>10 DEF StreamInvariant, CutsDoNotMatter

LEMMA InputStep ==
  ASSUME StreamInvariant, CompressInput
  PROVE  StreamInvariant'
<1>1. PICK k \in Nat : StreamAt(k) /\ HoldsBack(k)
  BY DEF StreamInvariant, CompressInput
<1>2. StreamTypes
  BY DEF StreamInvariant
<1> DEFINE block == [o \in Offset |-> StreamByte(taken + o + 1)]
<1>3. /\ keyLen' = keyLen /\ phase = "loop" /\ phase' = "loop" /\ pin > BlockBytes
      /\ buf' = buf /\ buflen' = buflen /\ t' = Increment(BlockBytes)
      /\ h' = Append(h, [block |-> block, t |-> t', last |-> FALSE])
      /\ taken' = taken + BlockBytes /\ pin' = pin - BlockBytes
  BY DEF CompressInput
<1>4. buflen = 0
  BY <1>1, <1>3 DEF HoldsBack
<1>5. taken = k * BlockBytes /\ taken \in Nat
  BY <1>1, <1>4, BlockIs, SMT DEF StreamAt
<1>6. block = [o \in Offset |-> StreamByte(k * BlockBytes + o + 1)]
  BY <1>5
<1>7. /\ h' = [i \in 1 .. k + 1 |-> CompressedAt(i)']
      /\ t' = CounterAt((k + 1) * BlockBytes)
  <2> HIDE DEF block
  <2> QED BY <1>1, <1>3, <1>6, BlockGoesIn DEF StreamAt
<1>8. pin' \in Nat /\ pin' > 0 /\ taken' \in Nat /\ taken' = (k + 1) * BlockBytes + buflen'
  BY <1>2, <1>3, <1>4, <1>5, BlockIs, SMT DEF StreamTypes
<1>9. StreamTypes'
  BY <1>2, <1>3, <1>8 DEF StreamTypes, Offset
<1>10. StreamAt(k + 1)' /\ HoldsBack(k + 1)'
  <2>1. \A o \in Offset : ~ (o < 0)
    BY BlockIs, SMT
  <2> QED BY <1>3, <1>4, <1>7, <1>8, <2>1 DEF StreamAt, HoldsBack, CounterAt
<1>11. \E j \in Nat : StreamAt(j)' /\ HoldsBack(j)'
  <2>1. k + 1 \in Nat
    OBVIOUS
  <2> QED BY <1>10, <2>1
<1> QED BY <1>3, <1>9, <1>11 DEF StreamInvariant, CutsDoNotMatter

LEMMA RestStep ==
  ASSUME StreamInvariant, BufferRest
  PROVE  StreamInvariant'
<1>1. PICK k \in Nat : StreamAt(k) /\ HoldsBack(k)
  BY DEF StreamInvariant, BufferRest
<1>2. StreamTypes
  BY DEF StreamInvariant
<1>3. /\ keyLen' = keyLen /\ phase = "loop" /\ phase' = "open" /\ pin <= BlockBytes
      /\ buf' = Filled(pin) /\ buflen' = pin /\ taken' = taken + pin /\ pin' = 0
      /\ t' = t /\ h' = h
  BY DEF BufferRest
<1>4. buflen = 0 /\ pin > 0 /\ pin \in Nat
  BY <1>1, <1>2, <1>3 DEF HoldsBack, StreamTypes
<1>5. taken = k * BlockBytes /\ taken \in Nat
  BY <1>1, <1>4, BlockIs, SMT DEF StreamAt
<1>6. StreamTypes'
  <2>1. buflen' \in 0 .. BlockBytes /\ taken' \in Nat
    BY <1>3, <1>4, <1>5, BlockIs, SMT
  <2>2. buf' = [o \in Offset |-> buf'[o]]
    BY <1>3 DEF Filled
  <2> QED BY <1>2, <1>3, <2>1, <2>2 DEF StreamTypes
<1>7. StreamAt(k)'
  <2>1. \A o \in Offset : o < buflen' => buf'[o] = StreamByte(k * BlockBytes + o + 1)'
    <3>1. buflen + pin = pin
      BY <1>4
    <3> QED BY <1>1, <1>2, <1>3, <1>4, <3>1, FilledIs, StreamStays
  <2>2. h' = [i \in 1 .. k |-> CompressedAt(i)']
    BY <1>1, <1>3, StreamStays DEF StreamAt
  <2> QED BY <1>1, <1>3, <1>5, <2>1, <2>2 DEF StreamAt, CounterAt
<1>8. HoldsBack(k)'
  BY <1>3, <1>4 DEF HoldsBack
<1> QED BY <1>3, <1>6, <1>7, <1>8 DEF StreamInvariant, CutsDoNotMatter

\* With the last block the list is the one of the RFC.
LEMMA FinalizeStep ==
  ASSUME StreamInvariant, Finalize
  PROVE  StreamInvariant'
<1>1. PICK k \in Nat : StreamAt(k) /\ HoldsBack(k)
  BY DEF StreamInvariant, Finalize
<1>2. StreamTypes
  BY DEF StreamInvariant
<1> DEFINE b == k * BlockBytes
           x == [block |-> buf', t |-> t', last |-> TRUE]
<1>3. /\ keyLen' = keyLen /\ taken' = taken /\ pin' = pin /\ buflen' = buflen /\ phase = "open"
      /\ phase' \in {"long", "done"} /\ t' = Increment(buflen)
      /\ buf' = [o \in Offset |-> IF o < buflen THEN buf[o] ELSE 0]
      /\ h' = Append(h, x)
  BY DEF Finalize, FirstPiece
<1>4. /\ b \in Nat /\ taken = b + buflen /\ buflen \in Nat /\ buflen <= BlockBytes
      /\ (k + 1) * BlockBytes = b + BlockBytes
      /\ k > 0 => buflen > 0
  <2>1. taken = b + buflen /\ (k > 0 => buflen > 0)
    BY <1>1, <1>3 DEF StreamAt, HoldsBack
  <2>2. buflen \in Nat /\ buflen <= BlockBytes
    BY <1>2, BlockIs, SMT DEF StreamTypes
  <2>3. b \in Nat /\ (k + 1) * BlockBytes = b + BlockBytes
    BY BlockIs, SMT
  <2> QED BY <2>1, <2>2, <2>3
<1>5. BlocksOf(taken) = k + 1
  <2>1. CASE taken = 0
    <3>1. k = 0
      <4> SUFFICES ASSUME k > 0 PROVE FALSE
        BY SMT
      <4> HIDE DEF b
      <4> QED BY <1>4, <2>1, SMT
    <3> QED BY <2>1, <3>1 DEF BlocksOf
  <2>2. CASE taken # 0
    <3> DEFINE w == taken + BlockBytes - 1
               r == buflen - 1
               q == k + 1
    <3>1. buflen > 0
      <4>1. CASE k = 0
        <5>1. b = 0
          BY <4>1, BlockIs, SMT
        <5> HIDE DEF b
        <5> QED BY <1>4, <2>2, <5>1, SMT
      <4>2. CASE k > 0
        BY <1>4, <4>2
      <4> QED BY <4>1, <4>2
    <3>2. w = q * BlockBytes + r /\ r \in 0 .. BlockBytes - 1 /\ q \in Nat
      <4> HIDE DEF b
      <4> QED BY <1>4, <3>1, BlockIs, SMT
    <3> HIDE DEF w, r, q
    <3>3. w \div BlockBytes = q
      BY <3>2, BlockIs, QuotientIs
    <3> QED BY <2>2, <3>3 DEF BlocksOf, w, q
  <2> QED BY <2>1, <2>2
<1>6. x = Reference(taken)[k + 1]
  <2>1. Upto(k + 1, taken) = taken
    <3>1. ~ ((k + 1) * BlockBytes < taken)
      <4> HIDE DEF b
      <4> QED BY <1>4, BlockIs, SMT
    <3> QED BY <3>1 DEF Upto
  <2>2. t' = CounterAt(taken)
    <3>1. buflen \in 0 .. BlockBytes
      BY <1>2 DEF StreamTypes
    <3> QED BY <1>1, <1>3, <1>4, <3>1, Counts DEF StreamAt
  <2>3. ASSUME NEW o \in Offset
        PROVE  (IF o < buflen THEN buf[o] ELSE 0) =
                 LET p == ((k + 1) - 1) * BlockBytes + o + 1
                 IN IF p <= taken THEN StreamByte(p) ELSE 0
    <3>1. ((k + 1) - 1) * BlockBytes + o + 1 = b + o + 1
      BY BlockIs, SMT
    <3>2. b + o + 1 <= taken <=> o < buflen
      <4> HIDE DEF b
      <4> QED BY <1>4, BlockIs, SMT
    <3>3. o < buflen => buf[o] = StreamByte(b + o + 1)
      BY <1>1 DEF StreamAt
    <3> QED BY <3>1, <3>2, <3>3
  <2>4. buf' = [o \in Offset |-> LET p == ((k + 1) - 1) * BlockBytes + o + 1
                                 IN IF p <= taken THEN StreamByte(p) ELSE 0]
    BY <1>3, <2>3
  <2>5. k + 1 \in 1 .. k + 1
    BY SMT
  <2> QED BY <1>5, <2>1, <2>2, <2>4, <2>5 DEF Reference, CounterAt
<1>7. ASSUME NEW i \in 1 .. k
      PROVE  CompressedAt(i) = Reference(taken)[i]
  <2>1. i * BlockBytes < taken /\ i # k + 1 /\ i \in 1 .. k + 1
    <3>1. i * BlockBytes <= b
      BY BlockIs, SMT
    <3>2. i * BlockBytes \in Nat /\ k > 0
      BY BlockIs, SMT
    <3> HIDE DEF b
    <3> QED BY <1>4, <3>1, <3>2, SMT
  <2>2. Upto(i, taken) = i * BlockBytes
    BY <2>1 DEF Upto
  <2>3. ASSUME NEW o \in Offset
        PROVE  (i - 1) * BlockBytes + o + 1 <= taken
    <3> DEFINE a == i * BlockBytes
    <3>1. (i - 1) * BlockBytes = a - BlockBytes /\ a \in Nat /\ a < taken
      BY <2>1, BlockIs, SMT
    <3> HIDE DEF a
    <3>2. a - BlockBytes + o + 1 <= taken
      BY <1>4, <3>1, BlockIs, SMT
    <3> QED BY <3>1, <3>2
  <2>4. [o \in Offset |-> StreamByte((i - 1) * BlockBytes + o + 1)] =
          [o \in Offset |-> LET p == (i - 1) * BlockBytes + o + 1
                            IN IF p <= taken THEN StreamByte(p) ELSE 0]
    BY <2>3
  <2> QED BY <1>5, <2>1, <2>2, <2>4 DEF CompressedAt, Reference, CounterAt
<1>8. h' = Reference(taken)
  <2> DEFINE s == h
  <2>1. s = [i \in 1 .. k |-> s[i]] /\ \A i \in 1 .. k : s[i] = CompressedAt(i)
    BY <1>1 DEF StreamAt
  <2>2. h' = Append(s, x)
    BY <1>3
  <2> HIDE DEF s, x
  <2>3. h' = [i \in 1 .. k + 1 |-> IF i <= k THEN s[i] ELSE x]
    BY <2>1, <2>2, AppendTo
  <2>4. Reference(taken) = [i \in 1 .. k + 1 |-> Reference(taken)[i]]
    BY <1>5 DEF Reference
  <2>5. ASSUME NEW i \in 1 .. k + 1
        PROVE  (IF i <= k THEN s[i] ELSE x) = Reference(taken)[i]
    <3>1. CASE i <= k
      <4>1. i \in 1 .. k
        BY <3>1, SMT
      <4> QED BY <1>7, <2>1, <3>1, <4>1
    <3>2. CASE i = k + 1
      <4>1. ~ (i <= k)
        BY <3>2, SMT
      <4> QED BY <1>6, <3>2, <4>1
    <3> QED BY <3>1, <3>2, SMT
  <2> QED BY <2>3, <2>4, <2>5
<1>9. StreamTypes'
  <2>1. buf' = [o \in Offset |-> buf'[o]]
    BY <1>3
  <2> QED BY <1>2, <1>3, <2>1 DEF StreamTypes
<1>10. CutsDoNotMatter'
  BY <1>3, <1>8, StreamStays DEF CutsDoNotMatter
<1> QED BY <1>3, <1>9, <1>10 DEF StreamInvariant

\* What the output is made of no longer touches the stream.
LEMMA StreamRests ==
  ASSUME StreamInvariant, UNCHANGED stream, phase' = phase \/ {phase, phase'} \subseteq {"long", "done"}
  PROVE  StreamInvariant'
<1>1. /\ keyLen' = keyLen /\ taken' = taken /\ pin' = pin /\ buf' = buf /\ buflen' = buflen
      /\ t' = t /\ h' = h
  BY DEF stream
<1>2. StreamTypes'
  BY <1>1 DEF StreamTypes, StreamInvariant
<1>3. CutsDoNotMatter'
  <2>1. Reference(taken)' = Reference(taken)
    BY <1>1, StreamStays
  <2> QED BY <1>1, <2>1 DEF StreamInvariant, CutsDoNotMatter
<1>4. ASSUME phase' \in {"open", "loop"}
      PROVE  \E k \in Nat : (StreamAt(k) /\ HoldsBack(k))'
  <2>1. phase' = phase
    BY <1>4
  <2>2. PICK k \in Nat : StreamAt(k) /\ HoldsBack(k)
    BY <1>4, <2>1 DEF StreamInvariant
  <2>3. HoldsBack(k)'
    BY <1>1, <2>1, <2>2 DEF HoldsBack
  <2>4. StreamAt(k)'
    <3>1. \A o \in Offset : o < buflen' => buf'[o] = StreamByte(k * BlockBytes + o + 1)'
      BY <1>1, <2>2 DEF StreamAt, StreamByte
    <3>2. h' = [i \in 1 .. k |-> CompressedAt(i)']
      BY <1>1, <2>2, StreamStays DEF StreamAt
    <3> QED BY <1>1, <2>2, <3>1, <3>2 DEF StreamAt, CounterAt
  <2> QED BY <2>3, <2>4
<1> QED BY <1>2, <1>3, <1>4 DEF StreamInvariant

\* Every block of the stream goes in complete and at its place, whatever the calls of
\* update were, and the last one waits for finalize (Blake2b::update, finalize).
THEOREM StreamIsKept == Spec => []StreamInvariant
<1>1. StreamInvariant /\ [Next]_vars => StreamInvariant'
  <2> SUFFICES ASSUME StreamInvariant, [Next]_vars
               PROVE  StreamInvariant'
    OBVIOUS
  <2>1. ASSUME NEW n \in 0 .. MaxStream, UpdateBuffers(n)
        PROVE  StreamInvariant'
    BY <2>1, BufferStep
  <2>2. ASSUME NEW n \in 0 .. MaxStream, UpdateCompletes(n)
        PROVE  StreamInvariant'
    BY <2>2, CompleteStep
  <2>3. CASE CompressInput
    BY <2>3, InputStep
  <2>4. CASE BufferRest
    BY <2>4, RestStep
  <2>5. CASE Finalize
    BY <2>5, FinalizeStep
  <2>6. CASE RehashHalf
    BY <2>6, StreamRests DEF RehashHalf
  <2>7. CASE RehashTail
    BY <2>7, StreamRests DEF RehashTail
  <2>8. CASE UNCHANGED vars
    BY <2>8, StreamRests DEF vars
  <2> QED BY <2>1, <2>2, <2>3, <2>4, <2>5, <2>6, <2>7, <2>8 DEF Next
<1> QED BY <1>1, StreamStarts, PTL DEF Spec

\* The digest is a function of the bytes of the stream: how initial_hash_into cuts
\* them into calls of update, and what a block left in the buffer, leave no trace.
THEOREM DigestIsOfTheStream == Spec => []CutsDoNotMatter
BY StreamIsKept, PTL DEF StreamInvariant

-----------------------------------------------------------------------------
(* The output of blake2b_long                                                *)

\* Half of each of the first n digests.
Halves(n) == [i \in 1 .. n |-> [digest |-> i, size |-> OutBytes, take |-> HalfBytes]]

\* After n halves, n at least 1, more than half a digest is left: the loop stops
\* in time.
LongAt(n) ==
  /\ n \in Nat \ {0}
  /\ pieces = Halves(n)
  /\ tail = outLen - n * HalfBytes
  /\ tail > HalfBytes

OutputInvariant ==
  /\ outLen \in Nat \ {0}
  /\ phase \in {"open", "loop"} => pieces = <<>> /\ tail = outLen
  /\ phase = "long" => outLen > OutBytes /\ \E n \in Nat : LongAt(n)
  /\ LongFollowsRFC

LEMMA HalvesAre ==
  /\ HalfBytes \in Nat \ {0}
  /\ OutBytes = HalfBytes + HalfBytes
BY Blake2bAssumption, SMT DEF HalfBytes

LEMMA OutputStarts == Init => OutputInvariant
BY Blake2bAssumption, SMT DEF Init, OutputInvariant, LongFollowsRFC

LEMMA FirstPieceStep ==
  ASSUME OutputInvariant, Finalize
  PROVE  OutputInvariant'
<1>1. /\ outLen' = outLen /\ FirstPiece /\ outLen \in Nat \ {0}
  BY DEF Finalize, OutputInvariant
<1>2. CASE outLen <= OutBytes
  <2>1. pieces' = <<[digest |-> 1, size |-> outLen, take |-> outLen]>> /\ phase' = "done"
    BY <1>1, <1>2 DEF FirstPiece
  <2> QED BY <1>1, <1>2, <2>1 DEF OutputInvariant, LongFollowsRFC
<1>3. CASE ~ (outLen <= OutBytes)
  <2>1. /\ pieces' = <<[digest |-> 1, size |-> OutBytes, take |-> HalfBytes]>>
        /\ tail' = outLen - HalfBytes /\ phase' = "long"
    BY <1>1, <1>3 DEF FirstPiece
  <2>2. pieces' = Halves(1)
    BY <2>1, SMT DEF Halves
  <2>3. outLen > OutBytes /\ tail' = outLen - 1 * HalfBytes /\ tail' > HalfBytes
    BY <1>1, <1>3, <2>1, HalvesAre, SMT
  <2>4. LongAt(1)'
    BY <1>1, <2>2, <2>3 DEF LongAt
  <2> QED BY <1>1, <2>1, <2>3, <2>4 DEF OutputInvariant, LongFollowsRFC
<1> QED BY <1>2, <1>3

LEMMA HalfStep ==
  ASSUME OutputInvariant, RehashHalf
  PROVE  OutputInvariant'
<1> DEFINE x(i) == [digest |-> i, size |-> OutBytes, take |-> HalfBytes]
<1>1. PICK n \in Nat : LongAt(n)
  BY DEF OutputInvariant, RehashHalf
<1>2. /\ outLen' = outLen /\ phase' = phase /\ phase = "long" /\ outLen > OutBytes
      /\ outLen \in Nat \ {0} /\ tail > OutBytes /\ tail' = tail - HalfBytes
      /\ pieces' = Append(pieces, x(Len(pieces) + 1))
  BY DEF OutputInvariant, RehashHalf
<1>3. pieces = [i \in 1 .. n |-> x(i)] /\ n \in Nat \ {0} /\ tail = outLen - n * HalfBytes
  BY <1>1 DEF LongAt, Halves
<1>4. Len(pieces) = n
  BY <1>3, LenProperties, SMT
<1>5. pieces' = Halves(n + 1)
  <2> DEFINE s == pieces
             y == x(n + 1)
  <2>1. s = [i \in 1 .. n |-> s[i]] /\ (\A i \in 1 .. n : s[i] = x(i)) /\ pieces' = Append(s, y)
    BY <1>2, <1>3, <1>4
  <2> HIDE DEF s, y
  <2>2. pieces' = [i \in 1 .. n + 1 |-> IF i <= n THEN s[i] ELSE y]
    BY <2>1, AppendTo
  <2>3. ASSUME NEW i \in 1 .. n + 1
        PROVE  (IF i <= n THEN s[i] ELSE y) = x(i)
    <3>1. CASE i <= n
      <4>1. i \in 1 .. n
        BY <3>1, SMT
      <4> QED BY <2>1, <3>1, <4>1
    <3>2. CASE ~ (i <= n)
      <4>1. i = n + 1
        BY <3>2, SMT
      <4> QED BY <3>2, <4>1 DEF y
    <3> QED BY <3>1, <3>2
  <2> QED BY <2>2, <2>3 DEF Halves
<1>6. tail' = outLen - (n + 1) * HalfBytes /\ tail' > HalfBytes
  BY <1>2, <1>3, HalvesAre, SMT
<1>7. LongAt(n + 1)'
  BY <1>2, <1>5, <1>6, SMT DEF LongAt
<1> QED BY <1>2, <1>7 DEF OutputInvariant, LongFollowsRFC

LEMMA TailStep ==
  ASSUME OutputInvariant, RehashTail
  PROVE  OutputInvariant'
<1> DEFINE r == (outLen + HalfBytes - 1) \div HalfBytes - 2
           rest == outLen - HalfBytes * r
           y == [digest |-> Len(pieces) + 1, size |-> tail, take |-> tail]
<1>1. PICK n \in Nat : LongAt(n)
  BY DEF OutputInvariant, RehashTail
<1>2. /\ outLen' = outLen /\ phase' = "done" /\ outLen > OutBytes
      /\ outLen \in Nat \ {0} /\ tail <= OutBytes /\ pieces' = Append(pieces, y)
  BY DEF OutputInvariant, RehashTail
<1>3. /\ pieces = Halves(n) /\ n \in Nat \ {0}
      /\ tail = outLen - n * HalfBytes /\ tail > HalfBytes
  BY <1>1 DEF LongAt
<1>4. Len(pieces) = n
  BY <1>3, LenProperties, SMT DEF Halves
<1>5. r = n
  <2> DEFINE w == outLen + HalfBytes - 1
             s == tail - HalfBytes - 1
             q == n + 2
  <2>1. w = q * HalfBytes + s /\ s \in 0 .. HalfBytes - 1 /\ q \in Nat
    BY <1>2, <1>3, HalvesAre, SMT
  <2> HIDE DEF w, s, q
  <2>2. w \div HalfBytes = q
    BY <2>1, HalvesAre, QuotientIs
  <2> QED BY <2>2, SMT DEF w, q
<1>6. rest = tail
  BY <1>2, <1>3, <1>5, HalvesAre, SMT
<1>7. pieces' = [j \in 1 .. n + 1 |->
                  [digest |-> j, size |-> IF j <= n THEN OutBytes ELSE tail,
                   take |-> IF j <= n THEN HalfBytes ELSE tail]]
  <2> DEFINE s == pieces
  <2>1. s = [i \in 1 .. n |-> s[i]] /\ (\A i \in 1 .. n : s[i] = Halves(n)[i]) /\ pieces' = Append(s, y)
    BY <1>2, <1>3 DEF Halves
  <2>2. y = [digest |-> n + 1, size |-> tail, take |-> tail]
    BY <1>4
  <2> HIDE DEF s, y
  <2>3. pieces' = [i \in 1 .. n + 1 |-> IF i <= n THEN s[i] ELSE y]
    BY <2>1, AppendTo
  <2>4. ASSUME NEW i \in 1 .. n + 1
        PROVE  (IF i <= n THEN s[i] ELSE y) =
                 [digest |-> i, size |-> IF i <= n THEN OutBytes ELSE tail,
                  take |-> IF i <= n THEN HalfBytes ELSE tail]
    <3>1. CASE i <= n
      <4>1. i \in 1 .. n
        BY <3>1, SMT
      <4> QED BY <2>1, <3>1, <4>1 DEF Halves
    <3>2. CASE ~ (i <= n)
      <4>1. i = n + 1
        BY <3>2, SMT
      <4> QED BY <2>2, <3>2, <4>1
    <3> QED BY <3>1, <3>2
  <2> QED BY <2>3, <2>4
<1>8. LongFollowsRFC'
  <2> HIDE DEF r, rest, y
  <2>1. r' = r /\ rest' = rest
    BY <1>2 DEF r, rest
  <2>2. ~ (outLen <= OutBytes)
    BY <1>2, HalvesAre, SMT
  <2>3. pieces' = [j \in 1 .. r + 1 |->
                  [digest |-> j, size |-> IF j <= r THEN OutBytes ELSE rest,
                   take |-> IF j <= r THEN HalfBytes ELSE rest]]
    BY <1>5, <1>6, <1>7
  <2> QED BY <1>2, <2>2, <2>3 DEF LongFollowsRFC, r, rest
<1> QED BY <1>2, <1>8 DEF OutputInvariant

\* blake2b_long produces the output RFC 9106 defines: its loop goes round as often
\* as the formula with the ceiling says, and the last digest is as long as what is left.
THEOREM OutputIsLong == Spec => []LongFollowsRFC
<1>1. OutputInvariant /\ [Next]_vars => OutputInvariant'
  <2> SUFFICES ASSUME OutputInvariant, [Next]_vars
               PROVE  OutputInvariant'
    OBVIOUS
  <2>1. ASSUME UNCHANGED output, phase' = phase \/ {phase, phase'} \subseteq {"open", "loop"}
        PROVE  OutputInvariant'
    BY <2>1 DEF OutputInvariant, LongFollowsRFC, LongAt, output
  <2>2. ASSUME NEW n \in 0 .. MaxStream, UpdateBuffers(n) \/ UpdateCompletes(n)
        PROVE  OutputInvariant'
    BY <2>1, <2>2 DEF UpdateBuffers, UpdateCompletes, Offered
  <2>3. CASE CompressInput \/ BufferRest
    BY <2>1, <2>3 DEF CompressInput, BufferRest
  <2>4. CASE Finalize
    BY <2>4, FirstPieceStep
  <2>5. CASE RehashHalf
    BY <2>5, HalfStep
  <2>6. CASE RehashTail
    BY <2>6, TailStep
  <2>7. CASE UNCHANGED vars
    BY <2>1, <2>7 DEF vars
  <2> QED BY <2>2, <2>3, <2>4, <2>5, <2>6, <2>7 DEF Next
<1>2. OutputInvariant => LongFollowsRFC
  BY DEF OutputInvariant
<1> QED BY <1>1, <1>2, OutputStarts, PTL DEF Spec

-----------------------------------------------------------------------------
(* The message                                                               *)

\* Where the elements of a concatenation come from.
LEMMA ElementsOfParts ==
  ASSUME NEW a \in Seq(Nat), NEW b \in Seq(Nat)
  PROVE  /\ \A i \in 1 .. Len(a) : (a \o b)[i] = a[i]
         /\ \A i \in 1 .. Len(b) : (a \o b)[Len(a) + i] = b[i]
<1>1. Len(a) \in Nat /\ Len(b) \in Nat
  BY LenProperties
<1>2. \A i \in 1 .. Len(a) + Len(b) :
        (a \o b)[i] = IF i <= Len(a) THEN a[i] ELSE b[i - Len(a)]
  BY ConcatProperties
<1>3. ASSUME NEW i \in 1 .. Len(b)
      PROVE  (a \o b)[Len(a) + i] = b[i]
  <2>1. Len(a) + i \in 1 .. Len(a) + Len(b) /\ ~(Len(a) + i <= Len(a)) /\ Len(a) + i - Len(a) = i
    BY <1>1
  <2> QED BY <1>2, <2>1
<1> QED BY <1>1, <1>2, <1>3

\* Two equal concatenations whose first parts are equally long have equal parts.
LEMMA EqualParts ==
  ASSUME NEW a \in Seq(Nat), NEW b \in Seq(Nat), NEW c \in Seq(Nat), NEW d \in Seq(Nat),
         a \o b = c \o d, Len(a) = Len(c)
  PROVE  a = c /\ b = d
<1>1. Len(a \o b) = Len(a) + Len(b) /\ Len(c \o d) = Len(c) + Len(d)
  BY ConcatProperties
<1>2. Len(b) = Len(d)
  BY <1>1, LenProperties
<1>3. \A i \in 1 .. Len(a) : a[i] = c[i]
  <2> TAKE i \in 1 .. Len(a)
  <2>1. (a \o b)[i] = a[i] /\ (c \o d)[i] = c[i]
    BY ElementsOfParts
  <2> QED BY <2>1
<1>4. \A i \in 1 .. Len(b) : b[i] = d[i]
  <2> TAKE i \in 1 .. Len(b)
  <2>1. i \in 1 .. Len(d)
    BY <1>2
  <2>2. (a \o b)[Len(a) + i] = b[i]
    BY ElementsOfParts
  <2>3. (c \o d)[Len(c) + i] = d[i]
    BY <2>1, ElementsOfParts
  <2>4. (a \o b)[Len(a) + i] = (c \o d)[Len(c) + i]
    OBVIOUS
  <2> QED BY <2>2, <2>3, <2>4
<1> QED BY <1>2, <1>3, <1>4, SeqEqual

\* An input and its length are a sequence of numbers, the length first.
LEMMA PrefixedIs ==
  ASSUME NEW data \in Seq(Nat), Len(data) < LengthWord
  PROVE  /\ Prefixed(data) \in Seq(Nat)
         /\ Prefixed(data) = <<Len(data)>> \o data
         /\ Len(Prefixed(data)) = Len(data) + 1
         /\ Prefixed(data)[1] = Len(data)
<1>1. Len(data) \in Nat /\ Len(data) % LengthWord = Len(data)
  BY LenProperties, Argon2CallsAssumption
<1>2. Prefixed(data) = <<Len(data)>> \o data
  BY <1>1 DEF Prefixed
<1>3. <<Len(data)>> \in Seq(Nat) /\ Len(<<Len(data)>>) = 1
  BY <1>1
<1>4. /\ Prefixed(data) \in Seq(Nat) /\ Len(Prefixed(data)) = Len(data) + 1
      /\ Prefixed(data)[1] = <<Len(data)>>[1]
  BY <1>1, <1>2, <1>3, ConcatProperties
<1> QED BY <1>2, <1>4

\* So the input can be told from what follows it.
LEMMA PrefixedParts ==
  ASSUME NEW a \in Seq(Nat), NEW b \in Seq(Nat), NEW c \in Seq(Nat), NEW d \in Seq(Nat),
         Len(a) < LengthWord, Len(c) < LengthWord, Prefixed(a) \o b = Prefixed(c) \o d
  PROVE  a = c /\ b = d
<1>1. /\ Prefixed(a) \in Seq(Nat) /\ Len(Prefixed(a)) = Len(a) + 1 /\ Prefixed(a)[1] = Len(a)
      /\ Prefixed(a) = <<Len(a)>> \o a
  BY PrefixedIs
<1>2. /\ Prefixed(c) \in Seq(Nat) /\ Len(Prefixed(c)) = Len(c) + 1 /\ Prefixed(c)[1] = Len(c)
      /\ Prefixed(c) = <<Len(c)>> \o c
  BY PrefixedIs
<1>3. Len(a) \in Nat /\ Len(c) \in Nat
  BY LenProperties
<1>4. (Prefixed(a) \o b)[1] = Prefixed(a)[1] /\ (Prefixed(c) \o d)[1] = Prefixed(c)[1]
  <2>1. 1 \in 1 .. Len(Prefixed(a)) /\ 1 \in 1 .. Len(Prefixed(c))
    BY <1>1, <1>2, <1>3
  <2> QED BY <1>1, <1>2, <2>1, ElementsOfParts
<1>5. Len(a) = Len(c)
  BY <1>1, <1>2, <1>4
<1>6. Prefixed(a) = Prefixed(c) /\ b = d
  BY <1>1, <1>2, <1>5, EqualParts
<1>7. a = c
  <2>1. <<Len(a)>> \in Seq(Nat) /\ <<Len(a)>> \o a = <<Len(a)>> \o c
    BY <1>1, <1>2, <1>3, <1>5, <1>6
  <2> QED BY <2>1, EqualParts
<1> QED BY <1>6, <1>7

\* A message is a sequence of numbers and is never empty.
LEMMA StreamIs ==
  ASSUME NEW s \in Hashable
  PROVE  /\ s.pwd \in Seq(Nat) /\ s.salt \in Seq(Nat) /\ s.secret \in Seq(Nat) /\ s.ad \in Seq(Nat)
         /\ Len(s.pwd) < LengthWord /\ Len(s.salt) < LengthWord
         /\ Len(s.secret) < LengthWord /\ Len(s.ad) < LengthWord
         /\ CostWords(s.config) \in Seq(Nat) /\ Len(CostWords(s.config)) = 6
<1>1. /\ s.pwd \in Passwords /\ s.salt \in Salts /\ s.secret \in Secrets /\ s.ad \in Datas
      /\ s.config \in Configs /\ LengthError(s) = "none"
  BY DEF Hashable, Source
<1>2. /\ s.pwd \in Seq(Nat) /\ s.salt \in Seq(Nat) /\ s.secret \in Seq(Nat) /\ s.ad \in Seq(Nat)
  BY <1>1, Argon2CallsAssumption
<1>3. /\ Len(s.pwd) < LengthWord /\ Len(s.salt) < LengthWord
      /\ Len(s.secret) < LengthWord /\ Len(s.ad) < LengthWord
  BY <1>1, <1>2, LenProperties, Argon2CallsAssumption DEF LengthError
<1>4. \A k \in Costs : s.config[k] \in Nat
  BY <1>1, Argon2CallsAssumption
<1>5. CostWords(s.config) \in Seq(Nat) /\ Len(CostWords(s.config)) = 6
  BY <1>4 DEF CostWords, Costs
<1> QED BY <1>2, <1>3, <1>5

\* What counts of a source: everything but the thread budget.
Same(a, b) ==
  /\ \A k \in Costs : a.config[k] = b.config[k]
  /\ \A k \in {"pwd", "salt", "secret", "ad"} : a[k] = b[k]

\* No two sources that pass validation are one message to the initial hash, for any
\* inputs: the lengths of initial_hash_into leave nothing to choose.
THEOREM StreamInjective ==
  ASSUME NEW a \in Hashable, NEW b \in Hashable, Stream(a) = Stream(b)
  PROVE  Same(a, b)
<1> DEFINE Last(s) == Prefixed(s.ad)
           Third(s) == Prefixed(s.secret) \o Last(s)
           Second(s) == Prefixed(s.salt) \o Third(s)
           First(s) == Prefixed(s.pwd) \o Second(s)
<1>1. \A s \in Hashable : /\ Last(s) \in Seq(Nat) /\ Third(s) \in Seq(Nat)
                          /\ Second(s) \in Seq(Nat) /\ First(s) \in Seq(Nat)
  <2> TAKE s \in Hashable
  <2>1. /\ Prefixed(s.pwd) \in Seq(Nat) /\ Prefixed(s.salt) \in Seq(Nat)
        /\ Prefixed(s.secret) \in Seq(Nat) /\ Prefixed(s.ad) \in Seq(Nat)
    BY StreamIs, PrefixedIs
  <2> QED BY <2>1, ConcatProperties
<1>2. /\ First(a) \in Seq(Nat) /\ Second(a) \in Seq(Nat) /\ Third(a) \in Seq(Nat)
      /\ First(b) \in Seq(Nat) /\ Second(b) \in Seq(Nat) /\ Third(b) \in Seq(Nat)
      /\ Last(a) \in Seq(Nat) /\ Last(b) \in Seq(Nat)
  BY <1>1
<1>3. CostWords(a.config) = CostWords(b.config) /\ First(a) = First(b)
  <2>1. CostWords(a.config) \o First(a) = CostWords(b.config) \o First(b)
    BY DEF Stream
  <2>2. /\ CostWords(a.config) \in Seq(Nat) /\ CostWords(b.config) \in Seq(Nat)
        /\ Len(CostWords(a.config)) = Len(CostWords(b.config))
    BY StreamIs
  <2> HIDE DEF First
  <2> QED BY <1>2, <2>1, <2>2, EqualParts
<1>4. a.pwd = b.pwd /\ Second(a) = Second(b)
  <2>1. Prefixed(a.pwd) \o Second(a) = Prefixed(b.pwd) \o Second(b)
    BY <1>3
  <2>2. /\ a.pwd \in Seq(Nat) /\ b.pwd \in Seq(Nat)
        /\ Len(a.pwd) < LengthWord /\ Len(b.pwd) < LengthWord
    BY StreamIs
  <2> HIDE DEF Second
  <2> QED BY <1>2, <2>1, <2>2, PrefixedParts
<1>5. a.salt = b.salt /\ Third(a) = Third(b)
  <2>1. Prefixed(a.salt) \o Third(a) = Prefixed(b.salt) \o Third(b)
    BY <1>4
  <2>2. /\ a.salt \in Seq(Nat) /\ b.salt \in Seq(Nat)
        /\ Len(a.salt) < LengthWord /\ Len(b.salt) < LengthWord
    BY StreamIs
  <2> HIDE DEF Third
  <2> QED BY <1>2, <2>1, <2>2, PrefixedParts
<1>6. a.secret = b.secret /\ Last(a) = Last(b)
  <2>1. Prefixed(a.secret) \o Last(a) = Prefixed(b.secret) \o Last(b)
    BY <1>5
  <2>2. /\ a.secret \in Seq(Nat) /\ b.secret \in Seq(Nat)
        /\ Len(a.secret) < LengthWord /\ Len(b.secret) < LengthWord
    BY StreamIs
  <2> HIDE DEF Last
  <2> QED BY <1>2, <2>1, <2>2, PrefixedParts
<1>7. a.ad = b.ad
  <2>1. a.ad \in Seq(Nat) /\ b.ad \in Seq(Nat) /\ Len(a.ad) < LengthWord /\ Len(b.ad) < LengthWord
    BY StreamIs
  <2>2. Prefixed(a.ad) \o <<>> = Prefixed(b.ad) \o <<>>
    BY <1>6
  <2> QED BY <2>1, <2>2, EmptySeq, PrefixedParts
<1>8. \A k \in Costs : a.config[k] = b.config[k]
  BY <1>3 DEF CostWords, Costs
<1> QED BY <1>4, <1>5, <1>6, <1>7, <1>8 DEF Same

-----------------------------------------------------------------------------
(* The call                                                                  *)

Errors == {"PwdTooLong", "SaltTooShort", "SaltTooLong", "SecretTooLong", "AdTooLong",
           "OutPtrMismatch", "MemoryAllocationError"}

\* From the validation to the tag.
Hashing == {"valid", "arena", "seeded", "firsts", "filled"}

Args ==
  /\ call.api \in Apis
  /\ call.inputs \in Source
  /\ call.expected \subseteq Hashable
  /\ call.api # "verify_encoded" => call.inputs.config = call.own
  /\ zeroizeMemory \in BOOLEAN

\* What is hashed is what the caller means, and it is not hashed unless it is legal.
UsesInputs ==
  /\ call.api # "verify_encoded" \/ stage \notin {"called", "over"} => used = call.inputs
  /\ stage \in Hashing => LengthError(used) = "none"

\* Until the tag is there the buffer is as it was.
TagComesLast ==
  /\ stage = "hashed" => inner \in Errors \cup {"Ok"}
  /\ stage = "hashed" /\ inner = "Ok" => tagBuf = Stream(used) /\ LengthError(used) = "none"
  /\ stage # "over" /\ ~(stage = "hashed" /\ inner = "Ok")
       => tagBuf = IF call.api \in Allocating THEN Zeros ELSE Theirs

SeedsAreCleared ==
  /\ zeroizeMemory /\ stage # "seeded" => seed = Zeros
  /\ call.api # "hash_traced" => copy = Zeros

CallInvariant ==
  Args /\ UsesInputs /\ TagComesLast /\ SeedsAreCleared /\ VerifiesExactly /\ LeavesNoSecret

\* Sources that count as the same are one message.
LEMMA SameStream ==
  ASSUME NEW a, NEW b, Same(a, b)
  PROVE  Stream(a) = Stream(b)
<1>1. CostWords(a.config) = CostWords(b.config)
  BY DEF Same, Costs, CostWords
<1>2. a.pwd = b.pwd /\ a.salt = b.salt /\ a.secret = b.secret /\ a.ad = b.ad
  BY DEF Same
<1> QED BY <1>1, <1>2 DEF Stream

LEMMA CallStarts ==
  ASSUME CallInit
  PROVE  CallInvariant
<1>1. PICK api \in Apis, inputs \in Source :
        call \in [api : {api}, inputs : {inputs},
                 own : IF api = "verify_encoded" THEN Configs ELSE {inputs.config},
                 fits : IF api \in Allocating THEN {TRUE} ELSE BOOLEAN,
                 decodes : IF api = "verify_encoded" THEN BOOLEAN ELSE {TRUE},
                 expected : IF api \in Verifying THEN {{}} \cup {{s} : s \in Hashable} ELSE {{}}]
  BY DEF CallInit
<1>2. call.api = api /\ call.inputs = inputs
  BY <1>1
<1>3. call.expected \in {{}} \cup {{s} : s \in Hashable}
  BY <1>1
<1>4. call.expected \subseteq Hashable
  BY <1>3
<1>5. call.api # "verify_encoded" => call.inputs.config = call.own
  BY <1>1, <1>2
<1>6. Args
  BY <1>2, <1>4, <1>5 DEF Args, CallInit
<1>7. ASSUME call.api # "verify_encoded"
      PROVE  used = call.inputs
  <2>1. used = [call.inputs EXCEPT !.config = call.inputs.config]
    BY <1>5, <1>7 DEF CallInit
  <2>2. call.inputs \in [config : Configs, pwd : Passwords, salt : Salts, secret : Secrets,
                        ad : Datas]
    BY <1>2 DEF Source
  <2> QED BY <2>1, <2>2
<1>8. UsesInputs
  BY <1>7 DEF UsesInputs, CallInit, Hashing
<1>9. TagComesLast /\ SeedsAreCleared /\ VerifiesExactly /\ LeavesNoSecret
  BY DEF TagComesLast, SeedsAreCleared, VerifiesExactly, LeavesNoSecret, CallInit
<1> QED BY <1>6, <1>8, <1>9 DEF CallInvariant

\* A verification that is decided by the comparison is decided rightly.
LEMMA ComparesExactly ==
  ASSUME CallInvariant, CompareTags
  PROVE  VerifiesExactly'
<1> USE DEF CallInvariant
<1>1. used = call.inputs /\ call.inputs \in Source /\ call.expected \subseteq Hashable
  BY DEF CompareTags, UsesInputs, Args
<1>2. ASSUME inner = "Ok"
      PROVE  (\E source \in call.expected : Stream(source) = tagBuf)
               <=> \E source \in call.expected : Same(source, call.inputs)
  <2>1. tagBuf = Stream(call.inputs) /\ call.inputs \in Hashable
    BY <1>1, <1>2 DEF CompareTags, TagComesLast, Hashable
  <2>2. \A source \in call.expected :
          Stream(source) = Stream(call.inputs) <=> Same(source, call.inputs)
    BY <1>1, <2>1, StreamInjective, SameStream
  <2> QED BY <2>1, <2>2
<1>3. outcome' \in {"Ok", "VerifyMismatch"} => inner = "Ok" /\ (outcome' = "Ok" <=> Matched)
  BY DEF CompareTags, Over, TagComesLast, Errors
<1>4. call' = call
  BY DEF CompareTags
<1>5. /\ outcome' = "Ok" => \E source \in call.expected : Same(source, call.inputs)
      /\ outcome' = "VerifyMismatch" =>
           ~\E source \in call.expected : Same(source, call.inputs)
  BY <1>2, <1>3 DEF Matched
<1> QED BY <1>4, <1>5 DEF VerifiesExactly, Same

\* Steps of the call that do not end it.
LEMMA GoesOn ==
  ASSUME CallInvariant, CallNext, stage' # "over"
  PROVE  CallInvariant'
<1> USE DEF CallInvariant
<1>1. call' = call /\ zeroizeMemory' = zeroizeMemory /\ outcome' = outcome /\ Args'
  BY DEF CallNext, RefusePwd, DecodeText, Begin, TryZeroedVec, ValidateAndSize, GetArena,
         InitialHash, FillFirst, Fill, FinalizeTag, ReturnHash, ReturnTraced, EncodeTag,
         CompareTags, Over, callVars, Args
<1>2. VerifiesExactly' /\ LeavesNoSecret'
  BY DEF VerifiesExactly, LeavesNoSecret
<1>3. CASE DecodeText
  BY <1>1, <1>2, <1>3 DEF DecodeText, Over, UsesInputs, TagComesLast, SeedsAreCleared, Hashing
<1>4. CASE Begin
  BY <1>1, <1>2, <1>4 DEF Begin, UsesInputs, TagComesLast, SeedsAreCleared, Hashing
<1>5. CASE TryZeroedVec
  BY <1>1, <1>2, <1>5 DEF TryZeroedVec, Over, UsesInputs, TagComesLast, SeedsAreCleared, Hashing
<1>6. CASE ValidateAndSize
  <2>1. LengthError(used) # "none" => LengthError(used) \in Errors
    BY DEF LengthError, Errors
  <2> QED BY <1>1, <1>2, <1>6, <2>1
      DEF ValidateAndSize, Fails, UsesInputs, TagComesLast, SeedsAreCleared, Hashing, Errors
<1>7. CASE GetArena
  BY <1>1, <1>2, <1>7
     DEF GetArena, Fails, UsesInputs, TagComesLast, SeedsAreCleared, Hashing, Errors
<1>8. CASE InitialHash
  BY <1>1, <1>2, <1>8 DEF InitialHash, UsesInputs, TagComesLast, SeedsAreCleared, Hashing
<1>9. CASE FillFirst
  BY <1>1, <1>2, <1>9
     DEF FillFirst, Cleared, UsesInputs, TagComesLast, SeedsAreCleared, Hashing
<1>10. CASE Fill
  BY <1>1, <1>2, <1>10 DEF Fill, Over, UsesInputs, TagComesLast, SeedsAreCleared, Hashing
<1>11. CASE FinalizeTag
  BY <1>1, <1>2, <1>11 DEF FinalizeTag, UsesInputs, TagComesLast, SeedsAreCleared, Hashing
<1>12. CASE stage = "over" /\ UNCHANGED callVars
  BY <1>12 DEF callVars
<1> QED
  BY <1>3, <1>4, <1>5, <1>6, <1>7, <1>8, <1>9, <1>10, <1>11, <1>12
     DEF CallNext, RefusePwd, ReturnHash, ReturnTraced, EncodeTag, CompareTags, Over

\* Steps that end it.
LEMMA Ends ==
  ASSUME CallInvariant, CallNext, stage # "over", stage' = "over"
  PROVE  CallInvariant'
<1> USE DEF CallInvariant
<1>1. call' = call /\ zeroizeMemory' = zeroizeMemory /\ Args'
  BY DEF CallNext, RefusePwd, DecodeText, Begin, TryZeroedVec, ValidateAndSize, GetArena,
         InitialHash, FillFirst, Fill, FinalizeTag, ReturnHash, ReturnTraced, EncodeTag,
         CompareTags, Over, callVars, Args
<1>2. UsesInputs' /\ TagComesLast'
  BY <1>1 DEF UsesInputs, TagComesLast, Hashing, CallNext, Begin, RefusePwd, DecodeText,
              TryZeroedVec, ValidateAndSize, GetArena, InitialHash, FillFirst, Fill,
              FinalizeTag, ReturnHash, ReturnTraced, EncodeTag, CompareTags, Over, callVars
<1>3. CASE RefusePwd
  BY <1>1, <1>2, <1>3 DEF RefusePwd, Over, TagComesLast, SeedsAreCleared, VerifiesExactly,
                          LeavesNoSecret, Allocating, Verifying
<1>4. CASE DecodeText
  BY <1>1, <1>2, <1>4 DEF DecodeText, Over, TagComesLast, SeedsAreCleared, VerifiesExactly,
                          LeavesNoSecret, Allocating, Verifying
<1>5. CASE TryZeroedVec
  BY <1>1, <1>2, <1>5 DEF TryZeroedVec, Over, TagComesLast, SeedsAreCleared, VerifiesExactly,
                          LeavesNoSecret, Allocating, Verifying
<1>6. CASE Fill
  BY <1>1, <1>2, <1>6 DEF Fill, Over, TagComesLast, SeedsAreCleared, VerifiesExactly,
                          LeavesNoSecret
<1>7. CASE ReturnHash
  BY <1>1, <1>2, <1>7 DEF ReturnHash, Over, TagComesLast, SeedsAreCleared, VerifiesExactly,
                          LeavesNoSecret, Allocating, Verifying, Errors
<1>8. CASE ReturnTraced
  BY <1>1, <1>2, <1>8 DEF ReturnTraced, Over, Cleared, TagComesLast, SeedsAreCleared,
                          VerifiesExactly, LeavesNoSecret, Allocating, Verifying, Errors
<1>9. CASE EncodeTag
  BY <1>1, <1>2, <1>9 DEF EncodeTag, Over, Cleared, TagComesLast, SeedsAreCleared,
                          VerifiesExactly, LeavesNoSecret, Allocating, Verifying, Errors
<1>10. CASE CompareTags
  <2>1. VerifiesExactly'
    BY <1>10, ComparesExactly
  <2>2. SeedsAreCleared' /\ LeavesNoSecret'
    BY <1>1, <1>10 DEF CompareTags, Over, Cleared, SeedsAreCleared, LeavesNoSecret,
                       Allocating, Verifying
  <2> QED BY <1>1, <1>2, <2>1, <2>2
<1> QED
  BY <1>3, <1>4, <1>5, <1>6, <1>7, <1>8, <1>9, <1>10
     DEF CallNext, Begin, ValidateAndSize, GetArena, InitialHash, FillFirst, FinalizeTag, Fails

LEMMA Stutters ==
  ASSUME CallInvariant, UNCHANGED callVars
  PROVE  CallInvariant'
BY DEF CallInvariant, callVars, Args, UsesInputs, TagComesLast, SeedsAreCleared,
       VerifiesExactly, LeavesNoSecret, Cleared

THEOREM CallIsSound == CallSpec => []CallInvariant
<1>1. CallInit => CallInvariant
  BY CallStarts
<1>2. CallInvariant /\ [CallNext]_callVars => CallInvariant'
  <2> SUFFICES ASSUME CallInvariant, [CallNext]_callVars PROVE CallInvariant'
    OBVIOUS
  <2>1. CASE UNCHANGED callVars
    BY <2>1, Stutters
  <2>2. CASE CallNext /\ stage' # "over"
    BY <2>2, GoesOn
  <2>3. CASE CallNext /\ stage' = "over" /\ stage # "over"
    BY <2>3, Ends
  <2>4. ASSUME CallNext, stage = "over"
        PROVE  UNCHANGED callVars
    BY <2>4 DEF CallNext, RefusePwd, DecodeText, Begin, TryZeroedVec, ValidateAndSize, GetArena,
                InitialHash, FillFirst, Fill, FinalizeTag, ReturnHash, ReturnTraced, EncodeTag,
                CompareTags
  <2> QED BY <2>1, <2>2, <2>3, <2>4
<1> QED BY <1>1, <1>2, PTL DEF CallSpec

\* A verification succeeds for exactly what the expected tag was made from, for any
\* inputs and any costs.
THEOREM VerificationIsExact == CallSpec => []VerifiesExactly
<1>1. CallInvariant => VerifiesExactly
  BY DEF CallInvariant
<1> QED BY <1>1, CallIsSound, PTL

\* No call leaves a digest behind that it does not hand over.
THEOREM NoSecretIsLeft == CallSpec => []LeavesNoSecret
<1>1. CallInvariant => LeavesNoSecret
  BY DEF CallInvariant
<1> QED BY <1>1, CallIsSound, PTL

=============================================================================
