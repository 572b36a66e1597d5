------------------------------ MODULE Blake2b ------------------------------
(***************************************************************************)
(* The streaming BLAKE2b state of src/src/blake2b.rs, and blake2b_long on  *)
(* top of it.  initial_hash_into feeds a dozen pieces of any length into   *)
(* one state; the digest must not depend on where the pieces are cut.      *)
(*                                                                         *)
(* The compression function is a one-way street, so h is the list of what  *)
(* was compressed: block, counter and last-block flag.  The bytes of the   *)
(* stream are told apart by their position.                                *)
(***************************************************************************)
EXTENDS Integers, Sequences

CONSTANTS
  BlockBytes,   \* BLOCKBYTES, 128 in the code
  OutBytes,     \* OUTBYTES, 64 in the code
  Word,         \* the words of the counter wrap here, at 2^64 in the code
  MaxStream,    \* bound on the length of the stream
  MaxOut        \* bound on the length of the output

HalfBytes == OutBytes \div 2

ASSUME Blake2bAssumption ==
  /\ BlockBytes \in Nat \ {0}
  /\ OutBytes \in Nat \ {0}
  /\ OutBytes = 2 * HalfBytes
  /\ Word \in Nat
  /\ Word > BlockBytes
  /\ MaxStream \in Nat
  /\ MaxOut \in Nat \ {0}

VARIABLES
  keyLen,  \* the length of the key, 0 for an unkeyed state
  taken,   \* how many bytes of the stream have been taken
  pin,     \* how many bytes of the input of update are left to take
  buf,     \* Blake2b::buf
  buflen,  \* Blake2b::buflen
  t,       \* Blake2b::t, two words
  h,       \* Blake2b::h
  phase,   \* between calls, in the loop of update, in the one of blake2b_long
  outLen,  \* the length of the output
  tail,    \* how much of it is still to be produced
  pieces   \* the pieces of it, in order: which digest of the chain V[1], V[2], ...
           \* each comes from, how long that digest is and how much of it is used

stream == <<keyLen, taken, pin, buf, buflen, t, h>>
output == <<outLen, tail, pieces>>
vars == <<stream, phase, output>>

Offset == 0 .. BlockBytes - 1

\* The byte at a position of the stream, which a keyed state starts with the key
\* padded to one block.
StreamByte(p) == IF keyLen > 0 /\ p > keyLen /\ p <= BlockBytes THEN 0 ELSE p

\* increment_counter: the carry compares the new low word with the increment.
Increment(inc) ==
  LET low == (t[1] + inc) % Word
  IN <<low, (t[2] + IF low < inc THEN 1 ELSE 0) % Word>>

\* The buffer with n bytes of the input copied to its free part.
Filled(n) ==
  [o \in Offset |-> IF o >= buflen /\ o < buflen + n
                    THEN StreamByte(taken + o - buflen + 1) ELSE buf[o]]

\* new, or with_key, which absorbs the padded key as an ordinary update.
Init ==
  /\ keyLen \in 0 .. BlockBytes \div 2
  /\ taken = IF keyLen = 0 THEN 0 ELSE BlockBytes
  /\ pin = 0
  /\ buf = [o \in Offset |-> IF keyLen = 0 THEN 0 ELSE StreamByte(o + 1)]
  /\ buflen = taken
  /\ t = <<0, 0>>
  /\ h = <<>>
  /\ phase = "open"
  /\ outLen \in 1 .. MaxOut
  /\ keyLen > 0 => outLen <= OutBytes
  /\ tail = outLen
  /\ pieces = <<>>

Offered(n) == phase = "open" /\ taken + n <= MaxStream

\* update, when everything fits into the buffer (an empty input included).
UpdateBuffers(n) ==
  /\ Offered(n)
  /\ buflen + n <= BlockBytes
  /\ buf' = Filled(n)
  /\ buflen' = buflen + n
  /\ taken' = taken + n
  /\ UNCHANGED <<keyLen, pin, t, h, phase, output>>

\* update, when it does not: complete the current block and compress it.
UpdateCompletes(n) ==
  /\ Offered(n)
  /\ buflen + n > BlockBytes
  /\ buf' = Filled(n)
  /\ t' = Increment(BlockBytes)
  /\ h' = Append(h, [block |-> buf', t |-> t', last |-> FALSE])
  /\ taken' = taken + BlockBytes - buflen
  /\ pin' = n - (BlockBytes - buflen)
  /\ buflen' = 0
  /\ phase' = "loop"
  /\ UNCHANGED <<keyLen, output>>

\* `while pin.len() > BLOCKBYTES`: compress from the input, past the buffer.
CompressInput ==
  /\ phase = "loop"
  /\ pin > BlockBytes
  /\ t' = Increment(BlockBytes)
  /\ h' = Append(h, [block |-> [o \in Offset |-> StreamByte(taken + o + 1)],
                     t |-> t', last |-> FALSE])
  /\ taken' = taken + BlockBytes
  /\ pin' = pin - BlockBytes
  /\ UNCHANGED <<keyLen, buf, buflen, phase, output>>

\* ... and the rest of the input stays in the buffer.
BufferRest ==
  /\ phase = "loop"
  /\ pin <= BlockBytes
  /\ buf' = Filled(pin)
  /\ buflen' = pin
  /\ taken' = taken + pin
  /\ pin' = 0
  /\ phase' = "open"
  /\ UNCHANGED <<keyLen, t, h, output>>

\* The digest V[1], or the first half of it when the output is longer.
FirstPiece ==
  IF outLen <= OutBytes
  THEN /\ pieces' = <<[digest |-> 1, size |-> outLen, take |-> outLen]>>
       /\ tail' = 0
       /\ phase' = "done"
  ELSE /\ pieces' = <<[digest |-> 1, size |-> OutBytes, take |-> HalfBytes]>>
       /\ tail' = outLen - HalfBytes
       /\ phase' = "long"

\* Leaves in the buffer what an earlier block wrote there.
FinalizeMutant ==
  /\ phase = "open"
  /\ t' = Increment(buflen)
  /\ h' = Append(h, [block |-> buf, t |-> t', last |-> TRUE])
  /\ FirstPiece
  /\ UNCHANGED <<keyLen, taken, pin, buf, buflen, outLen>>

\* finalize: pad with zeros, and compress with the flag set.
Finalize ==
  /\ phase = "open"
  /\ t' = Increment(buflen)
  /\ buf' = [o \in Offset |-> IF o < buflen THEN buf[o] ELSE 0]
  /\ h' = Append(h, [block |-> buf', t |-> t', last |-> TRUE])
  /\ FirstPiece
  /\ UNCHANGED <<keyLen, taken, pin, buflen, outLen>>

-----------------------------------------------------------------------------
(* blake2b_long, after the digest of the length and the input *)

\* Goes on as long as the tail would fill a digest.
RehashHalfMutant ==
  /\ phase = "long"
  /\ tail >= OutBytes
  /\ pieces' = Append(pieces, [digest |-> Len(pieces) + 1, size |-> OutBytes,
                               take |-> HalfBytes])
  /\ tail' = tail - HalfBytes
  /\ UNCHANGED <<stream, phase, outLen>>

\* `while tail.len() > OUTBYTES`: hash the last digest, and use half of the result.
RehashHalf ==
  /\ phase = "long"
  /\ tail > OutBytes
  /\ pieces' = Append(pieces, [digest |-> Len(pieces) + 1, size |-> OutBytes,
                               take |-> HalfBytes])
  /\ tail' = tail - HalfBytes
  /\ UNCHANGED <<stream, phase, outLen>>

\* A digest as long as what is left.
RehashTail ==
  /\ phase = "long"
  /\ tail <= OutBytes
  /\ pieces' = Append(pieces, [digest |-> Len(pieces) + 1, size |-> tail, take |-> tail])
  /\ tail' = 0
  /\ phase' = "done"
  /\ UNCHANGED <<stream, outLen>>

Next ==
  \/ \E n \in 0 .. MaxStream : UpdateBuffers(n) \/ UpdateCompletes(n)
  \/ CompressInput
  \/ BufferRest
  \/ Finalize
  \/ RehashHalf
  \/ RehashTail
  \/ phase = "done" /\ UNCHANGED vars

Spec == Init /\ [][Next]_vars

-----------------------------------------------------------------------------
\* What RFC 7693 compresses for a stream of n bytes, however it arrived.
BlocksOf(n) == IF n = 0 THEN 1 ELSE (n + BlockBytes - 1) \div BlockBytes
Upto(i, n) == IF i * BlockBytes < n THEN i * BlockBytes ELSE n

Reference(n) ==
  [i \in 1 .. BlocksOf(n) |->
     [block |-> [o \in Offset |-> LET p == (i - 1) * BlockBytes + o + 1
                                  IN IF p <= n THEN StreamByte(p) ELSE 0],
      t     |-> <<Upto(i, n) % Word, (Upto(i, n) \div Word) % Word>>,
      last  |-> i = BlocksOf(n)]]

\* The digest is a function of the stream: not of how it was cut into calls of
\* update, nor of what the buffer held before.
CutsDoNotMatter == phase \in {"long", "done"} => h = Reference(taken)

\* The output of blake2b_long as RFC 9106 defines it: with r = ceil(n / 32) - 2,
\* half of each of r digests, then one digest of the n - 32 * r bytes left.
LongFollowsRFC ==
  LET r == (outLen + HalfBytes - 1) \div HalfBytes - 2
      rest == outLen - HalfBytes * r
  IN phase = "done" =>
       pieces = IF outLen <= OutBytes
                THEN <<[digest |-> 1, size |-> outLen, take |-> outLen]>>
                ELSE [j \in 1 .. r + 1 |->
                        [digest |-> j, size |-> IF j <= r THEN OutBytes ELSE rest,
                         take |-> IF j <= r THEN HalfBytes ELSE rest]]
=============================================================================
