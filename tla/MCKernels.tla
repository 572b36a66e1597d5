----------------------------- MODULE MCKernels -----------------------------
(* The vector code, one part of it in each behaviour: the data movement of the *)
(* block fill and of BLAKE2b, the arithmetic of their G, and the Base64 codec. *)
(* The other parts stay where they begin.                                     *)
EXTENDS FillKernels, Blake2bKernels, VectorWords, Base64Codec, TLC

VARIABLE part   \* which one: "fill", "compress", "words" or "codec"

-----------------------------------------------------------------------------
\* Sixty-four words in each place, from all over their range.
FourLanes(k) ==
  [n \in 1 .. 4 |-> LET j == (k + 67 * n) % 256
                    IN [a |-> (37 * j + 11) % 256, b |-> (91 * j + 200) % 256,
                        c |-> (57 * j) % 256, d |-> 255 - j]]
ModelStarts == {FourLanes(k) : k \in 0 .. 63}
ModelMessage == <<201, 77>>

\* Lengths on both sides of every load, and of two blocks and a half.
PlainLengths == {0, 1, 2, 3, 11, 12, 13, 15, 16, 17, 23, 24, 25, 27, 28, 29, 31, 32, 33,
                 39, 40, 43, 44, 48, 55, 56, 60, 64}
Pattern(k, c, n) == [i \in 1 .. n |-> (k * i + c) % 256]
Patterns == {<<5, 0>>, <<67, 101>>, <<255, 3>>, <<0, 255>>, <<0, 0>>, <<97, 190>>}

ModelPlains ==
  UNION {{[bytes |-> Pattern(p[1], p[2], n), capacity |-> c]
            : c \in {B64Len(n), B64Len(n) + 1}} : n \in PlainLengths, p \in Patterns}

\* Texts of every length class, whole, or with one byte from just outside each
\* range of the alphabet, above 127, or of another place in the alphabet.
TextLengths == {0, 1, 2, 3, 6, 15, 16, 17, 18, 22, 31, 32, 33, 34, 43, 47, 48, 50, 64, 66}
Wrong == {0, 42, 44, 46, 58, 61, 64, 91, 96, 123, 127, 128, 171, 193, 255, 103}
Text(k, c, n) == [i \in 1 .. n |-> Alphabet[(k * i + c) % 64]]
Places(n) == {1, 8, 16, 17, 25, 32, 33, 48, n} \cap 1 .. n
GoodTexts == {Text(k[1], k[2], n) : k \in {<<0, 0>>, <<16, 0>>, <<5, 7>>, <<11, 60>>},
                                   n \in TextLengths}
BadTexts == UNION {{[Text(5, 7, n) EXCEPT ![i] = w] : i \in Places(n), w \in Wrong}
                     : n \in TextLengths \ {6, 15, 18, 31, 43, 47}}

ModelTexts ==
  {[bytes |-> t, capacity |-> (Len(t) * 3) \div 4] : t \in BadTexts}
    \cup UNION {{[bytes |-> t, capacity |-> c] : c \in {(Len(t) * 3) \div 4, 11, 23}}
                  : t \in GoodTexts}

-----------------------------------------------------------------------------
NoFill == kernel = "avx2" /\ withXor = FALSE /\ alias = FALSE /\ Init
NoCompress == compress = "scalar" /\ LoadInit
NoWords == unit = [of |-> "sse2"] /\ given = FourLanes(0) /\ WordsInit
NoCodec == coding = "encode" /\ backend = "scalar" /\ src = <<>> /\ dstLen = 1 /\ CodecInit

KernelsInit ==
  \/ part = "fill" /\ Init /\ NoCompress /\ NoWords /\ NoCodec
  \/ part = "compress" /\ LoadInit /\ NoFill /\ NoWords /\ NoCodec
  \/ part = "words" /\ WordsInit /\ NoFill /\ NoCompress /\ NoCodec
  \/ part = "codec" /\ CodecInit /\ NoFill /\ NoCompress /\ NoWords

KernelsNext ==
  \/ part = "fill" /\ Next /\ UNCHANGED <<part, compressVars, wordVars, codecVars>>
  \/ part = "compress" /\ CompressNext
       /\ UNCHANGED <<part, vars, wordVars, codecVars>>
  \/ part = "words" /\ WordsNext
       /\ UNCHANGED <<part, vars, compressVars, codecVars>>
  \/ part = "codec" /\ CodecNext /\ UNCHANGED <<part, vars, compressVars, wordVars>>

KernelsSpec ==
  KernelsInit /\ [][KernelsNext]_<<part, vars, compressVars, wordVars, codecVars>>

=============================================================================
