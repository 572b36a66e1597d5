--------------------------- MODULE Blake2bKernels ---------------------------
(***************************************************************************)
(* The BLAKE2b compression function in its four backends: the scalar one   *)
(* of blake2b.rs and those of blake2b/ for SSE4.1, AVX2 and AVX-512.  The  *)
(* vector ones hold a row of the 4x4 state in one register or in a pair,   *)
(* rotate rows into diagonals and back, and gather the message words of a  *)
(* half-round, SSE4.1 by a schedule of its own.                            *)
(*                                                                         *)
(* As in FillKernels a word is named by its place in v, and history[w] is    *)
(* what has been done to it: the calls of G, each with the words and the   *)
(* message words it took.  What G computes does not matter here.           *)
(***************************************************************************)
EXTENDS Integers, Sequences, SequencesExt

VARIABLES
  compress,   \* the backend
  stage,      \* "load", "straight", "diag", "diagonal", "undiag", "store", "done"
  round,      \* 0 .. 11
  rows,       \* a, b, c, d: the registers of each row, the low one first
  loaded,     \* what each word of v was made of
  history,    \* the history of every word of v
  h           \* what each word of h is made of

compressVars == <<compress, stage, round, rows, loaded, history, h>>

Compressors == {"scalar", "sse41", "avx2", "avx512"}
V == 0 .. 15

\* SIGMA
Schedule == <<
  << 0,  1,  2,  3,  4,  5,  6,  7,  8,  9, 10, 11, 12, 13, 14, 15>>,
  <<14, 10,  4,  8,  9, 15, 13,  6,  1, 12,  0,  2, 11,  7,  5,  3>>,
  <<11,  8, 12,  0,  5,  2, 15, 13, 10, 14,  3,  6,  7,  1,  9,  4>>,
  << 7,  9,  3,  1, 13, 12, 11, 14,  2,  6,  5, 10,  4,  0, 15,  8>>,
  << 9,  0,  5,  7,  2,  4, 10, 15, 14,  1, 11, 12,  6,  8,  3, 13>>,
  << 2, 12,  6, 10,  0, 11,  8,  3,  4, 13,  7,  5, 15, 14,  1,  9>>,
  <<12,  5,  1, 15, 14, 13,  4, 10,  0,  7,  6,  3,  9,  2,  8, 11>>,
  <<13, 11,  7, 14, 12,  1,  3,  9,  5,  0, 15,  4,  8,  6,  2, 10>>,
  << 6, 15, 14,  9, 11,  3,  0,  8, 12,  2, 13,  7,  1,  4, 10,  5>>,
  <<10,  2,  8,  4,  7,  6,  1,  5, 15, 11,  9, 14,  3, 12, 13,  0>>,
  << 0,  1,  2,  3,  4,  5,  6,  7,  8,  9, 10, 11, 12, 13, 14, 15>>,
  <<14, 10,  4,  8,  9, 15, 13,  6,  1, 12,  0,  2, 11,  7,  5,  3>> >>
Sigma(r, k) == Schedule[r + 1][k + 1]

-----------------------------------------------------------------------------
(* The message registers of SSE4.1: m[i] holds words 2i and 2i + 1.          *)

Lo(i, j) == <<2 * i, 2 * j>>               \* unpacklo
Hi(i, j) == <<2 * i + 1, 2 * j + 1>>       \* unpackhi
Align8(i, j) == <<2 * j + 1, 2 * i>>       \* alignr, eight bytes
BlendHi(i, j) == <<2 * i, 2 * j + 1>>      \* blend_epi16, 0xf0
Swap(i) == <<2 * i + 1, 2 * i>>
Whole(i) == <<2 * i, 2 * i + 1>>

\* message: for each round and quarter, the registers of the two calls of g.
QuarterTable == <<
  << <<Lo(0, 1), Lo(2, 3)>>, <<Hi(0, 1), Hi(2, 3)>>,
     <<Lo(4, 5), Lo(6, 7)>>, <<Hi(4, 5), Hi(6, 7)>> >>,
  << <<Lo(7, 2), Hi(4, 6)>>, <<Lo(5, 4), Align8(3, 7)>>,
     <<Swap(0), Hi(5, 2)>>, <<Lo(6, 1), Hi(3, 1)>> >>,
  << <<Align8(6, 5), Hi(2, 7)>>, <<Lo(4, 0), BlendHi(1, 6)>>,
     <<BlendHi(5, 1), Hi(3, 4)>>, <<Lo(7, 3), Align8(2, 0)>> >>,
  << <<Hi(3, 1), Hi(6, 5)>>, <<Hi(4, 0), Lo(6, 7)>>,
     <<BlendHi(1, 2), BlendHi(2, 7)>>, <<Lo(3, 5), Lo(0, 4)>> >>,
  << <<Hi(4, 2), Lo(1, 5)>>, <<BlendHi(0, 3), BlendHi(2, 7)>>,
     <<BlendHi(7, 5), BlendHi(3, 1)>>, <<Align8(6, 0), BlendHi(4, 6)>> >>,
  << <<Lo(1, 3), Lo(0, 4)>>, <<Lo(6, 5), Hi(5, 1)>>,
     <<BlendHi(2, 3), Hi(7, 0)>>, <<Hi(6, 2), BlendHi(7, 4)>> >>,
  << <<BlendHi(6, 0), Lo(7, 2)>>, <<Hi(2, 7), Align8(5, 6)>>,
     <<Lo(0, 3), Swap(4)>>, <<Hi(3, 1), BlendHi(1, 5)>> >>,
  << <<Hi(6, 3), BlendHi(6, 1)>>, <<Align8(7, 5), Hi(0, 4)>>,
     <<Hi(2, 7), Lo(4, 1)>>, <<Lo(0, 2), Lo(3, 5)>> >>,
  << <<Lo(3, 7), Align8(0, 5)>>, <<Hi(7, 4), Align8(4, 1)>>,
     <<Whole(6), Align8(5, 0)>>, <<BlendHi(1, 3), Whole(2)>> >>,
  << <<Lo(5, 4), Hi(3, 0)>>, <<Lo(1, 2), BlendHi(3, 2)>>,
     <<Hi(7, 4), Hi(1, 6)>>, <<Align8(7, 5), Lo(6, 0)>> >> >>

\* A plausible bug, which no specification uses: the halves of align8 exchanged.
MessageMutant(r, quarter) ==
  LET q == QuarterTable[(IF r < 10 THEN r ELSE r - 10) + 1][quarter + 1]
  IN IF r % 10 = 2 /\ quarter = 3 THEN <<q[1], Align8(0, 2)>> ELSE q

\* Rounds 10 and 11 are rounds 0 and 1 again.
Message(r, quarter) == QuarterTable[(IF r < 10 THEN r ELSE r - 10) + 1][quarter + 1]

-----------------------------------------------------------------------------
(* Rows and diagonals.                                                       *)

Align(x, y) == <<y[2], x[1]>>
Left(x, n) == [k \in 1 .. 4 |-> x[((k - 1 + n) % 4) + 1]]   \* permute4x64

DiagonalizePair(r) ==
  [r EXCEPT !.b = <<Align(r.b[2], r.b[1]), Align(r.b[1], r.b[2])>>,
            !.c = <<r.c[2], r.c[1]>>,
            !.d = <<Align(r.d[1], r.d[2]), Align(r.d[2], r.d[1])>>]

UndiagonalizePair(r) ==
  [r EXCEPT !.b = <<Align(r.b[1], r.b[2]), Align(r.b[2], r.b[1])>>,
            !.c = <<r.c[2], r.c[1]>>,
            !.d = <<Align(r.d[2], r.d[1]), Align(r.d[1], r.d[2])>>]

DiagonalizeRow(r) ==
  [r EXCEPT !.b = <<Left(r.b[1], 1)>>, !.c = <<Left(r.c[1], 2)>>, !.d = <<Left(r.d[1], 3)>>]
UndiagonalizeRow(r) ==
  [r EXCEPT !.b = <<Left(r.b[1], 3)>>, !.c = <<Left(r.c[1], 2)>>, !.d = <<Left(r.d[1], 1)>>]

-----------------------------------------------------------------------------
(* The calls of G in a half-round: the words of v, and the two of m.         *)

Call(words, x, y) == [v |-> words, x |-> x, y |-> y]

\* compress_scalar: s * 4 is the first column index i of the half-round.
ScalarColumns ==
  << <<0, 4, 8, 12>>, <<1, 5, 9, 13>>, <<2, 6, 10, 14>>, <<3, 7, 11, 15>>,
     <<0, 5, 10, 15>>, <<1, 6, 11, 12>>, <<2, 7, 8, 13>>, <<3, 4, 9, 14>> >>
ScalarCalls(r, half) ==
  {Call(ScalarColumns[i + 1], Sigma(r, 2 * i), Sigma(r, 2 * i + 1))
     : i \in 4 * half .. 4 * half + 3}

Quad(r, j, k) == <<r.a[j][k], r.b[j][k], r.c[j][k], r.d[j][k]>>

PairCalls(r, half) ==
  {Call(Quad(rows, j, k), Message(r, 2 * half)[j][k], Message(r, 2 * half + 1)[j][k])
     : j \in 1 .. 2, k \in 1 .. 2}

\* set4 of every other entry of the row of SIGMA.
RowCalls(r, half) ==
  {Call(Quad(rows, 1, k), Sigma(r, 8 * half + 2 * (k - 1)),
                          Sigma(r, 8 * half + 2 * (k - 1) + 1)) : k \in 1 .. 4}

CallsOf(half) ==
  CASE compress = "scalar" -> ScalarCalls(round, half)
    [] compress = "sse41"  -> PairCalls(round, half)
    [] OTHER               -> RowCalls(round, half)

-----------------------------------------------------------------------------
\* A row in registers of the backend's width, from consecutive words.
RowRegisters(first) ==
  IF compress = "sse41" THEN << <<first, first + 1>>, <<first + 2, first + 3>> >>
  ELSE << <<first, first + 1, first + 2, first + 3>> >>

\* The words of a row, in order.
InOrder(row) == IF Len(row) = 2 THEN <<row[1][1], row[1][2], row[2][1], row[2][2]>> ELSE row[1]

LoadInit ==
  /\ compress \in Compressors
  /\ stage = "load" /\ round = 0
  /\ rows = [a |-> <<>>, b |-> <<>>, c |-> <<>>, d |-> <<>>]
  /\ loaded = [w \in V |-> {}]
  /\ history = [w \in V |-> <<>>]
  /\ h = [i \in 0 .. 7 |-> {<<"h", i>>}]

\* What is XORed to the last row: t and f loaded two by two, or set together.
Flags ==
  IF compress = "sse41" THEN << << <<"t", 0>>, <<"t", 1>> >>, << <<"f", 0>>, <<"f", 1>> >> >>
  ELSE << << <<"t", 0>>, <<"t", 1>>, <<"f", 0>>, <<"f", 1>> >> >>

\* The rows: h, then the IV, its second half with the counter and the flags.
LoadState ==
  /\ stage = "load"
  /\ stage' = "straight"
  /\ rows' = [a |-> RowRegisters(0), b |-> RowRegisters(4), c |-> RowRegisters(8), d |-> RowRegisters(12)]
  /\ loaded' = [w \in V |-> CASE w < 8         -> h[w]
                              [] w \in 8 .. 11  -> {<<"IV", w - 8>>}
                              [] w \in 12 .. 15 -> {<<"IV", w - 8>>, InOrder(Flags)[w - 11]}]
  /\ UNCHANGED <<compress, round, history, h>>

\* The four calls of G, one after another, as two vectors, or as one.
HalfRound ==
  /\ stage \in {"straight", "diagonal"}
  /\ stage' = IF stage = "straight" THEN "diag" ELSE "undiag"
  /\ LET calls == CallsOf(IF stage = "straight" THEN 0 ELSE 1)
         with(w) == {c \in calls : \E n \in 1 .. 4 : c.v[n] = w}
     IN history' = [w \in V |-> IF with(w) = {} THEN history[w]
                              ELSE Append(history[w], CHOOSE c \in with(w) : TRUE)]
  /\ UNCHANGED <<compress, round, rows, loaded, h>>

RotateRows ==
  /\ stage = "diag"
  /\ stage' = "diagonal"
  /\ rows' = CASE compress = "scalar" -> rows
               [] compress = "sse41"  -> DiagonalizePair(rows)
               [] OTHER               -> DiagonalizeRow(rows)
  /\ UNCHANGED <<compress, round, loaded, history, h>>

RotateBack ==
  /\ stage = "undiag"
  /\ rows' = CASE compress = "scalar" -> rows
               [] compress = "sse41"  -> UndiagonalizePair(rows)
               [] OTHER               -> UndiagonalizeRow(rows)
  /\ round' = IF round = 11 THEN round ELSE round + 1
  /\ stage' = IF round = 11 THEN "store" ELSE "straight"
  /\ UNCHANGED <<compress, loaded, history, h>>

\* h ^= v[i] ^ v[i + 8], lane by lane: rows a and c, then rows b and d.
StoreState ==
  /\ stage = "store"
  /\ stage' = "done"
  /\ LET lanes(row) == InOrder(rows[row])
         words(i) == IF i < 4 THEN {lanes("a")[i + 1], lanes("c")[i + 1]}
                     ELSE {lanes("b")[i - 3], lanes("d")[i - 3]}
     IN h' = [i \in 0 .. 7 |-> h[i] \cup {<<"v", w>> : w \in words(i)}]
  /\ UNCHANGED <<compress, round, rows, loaded, history>>

CompressNext ==
  LoadState \/ HalfRound \/ RotateRows \/ RotateBack \/ StoreState

CompressSpec == LoadInit /\ [][CompressNext]_compressVars

-----------------------------------------------------------------------------
\* What the scalar compression does to each word, in order.
ScalarHistory ==
  LET callOn(w, r, half) ==
        CHOOSE c \in ScalarCalls(r, half) : \E n \in 1 .. 4 : c.v[n] = w
  IN [w \in V |-> [n \in 1 .. 24 |-> callOn(w, (n - 1) \div 2, (n - 1) % 2)]]

\* At every moment of every backend each word of v has been through the calls of
\* G of the scalar compression, with the same partners and the same message
\* words, from the same start; and when it returns, all twelve rounds are done and
\* each word of h has taken in the two words of v it must.
CompressesAsScalar ==
  /\ stage # "load" =>
       /\ \A w \in 0 .. 7 : loaded[w] = {<<"h", w>>}
       /\ \A w \in 8 .. 15 : <<"IV", w - 8>> \in loaded[w]
       /\ <<"t", 0>> \in loaded[12] /\ <<"t", 1>> \in loaded[13]
       /\ <<"f", 0>> \in loaded[14] /\ <<"f", 1>> \in loaded[15]
  /\ \A w \in V : IsPrefix(history[w], ScalarHistory[w])
  /\ stage = "done" =>
       /\ history = ScalarHistory
       /\ h = [i \in 0 .. 7 |-> {<<"h", i>>, <<"v", i>>, <<"v", i + 8>>}]
=============================================================================
