----------------------------- MODULE FillKernels -----------------------------
(***************************************************************************)
(* The compression function fill_block in the register layouts of its      *)
(* vector backends.  Each holds the 128 words of a block in registers of   *)
(* two, four or eight words, rounds several columns or rows of words at a  *)
(* time, and shuffles words between registers so that one vector operation *)
(* mixes the words the scalar round mixes.                                 *)
(*                                                                         *)
(* Words are not numbers here: a word is named by its place in the         *)
(* previous block, a register is the sequence of the words it holds, and   *)
(* mixed[w] is what has happened to word w since the call started.  Two    *)
(* kernels with the same history for every word compute the same block,    *)
(* whatever the arithmetic of g1 and g2 does.                              *)
(***************************************************************************)
EXTENDS Integers, Sequences

VARIABLES
  kernel,    \* the backend, or for NEON the shape of its fill_block
  withXor,   \* the parameter with_xor
  alias,     \* ref_block and next_block are one block, as in next_addresses
  pass,      \* "load", "columns", "rows", "store" or "done"
  group,     \* the rounds taken next, or in flight
  step,      \* "next" between two groups, else where in the round
  rounds,    \* the rounds in flight: for each slot of a round, its register
  state,     \* the array state
  live,      \* the registers of state that hold the block just stored
  xy,        \* the slots of block_xy that are initialised
  mixed,     \* the history of every word
  next       \* the words of next_block that are stored

call == <<kernel, withXor, alias>>
vars == <<call, pass, group, step, rounds, state, live, xy, mixed, next>>

Word == 0 .. 127
Slots == {"a0", "a1", "b0", "b1", "c0", "c1", "d0", "d1"}

\* fill_block and the shapes FUSED, FUSED2, FUSED2_PREV and FUSED4 of NEON.
Fused == {"fused", "fused2", "fused2prev", "fused4"}
Kernels == Fused \cup {"sse2", "ssse3", "avx2", "avx512", "wasm128"}

\* Whether state holds the previous block when the function is called.
Carries == kernel \notin {"fused2prev", "wasm128"}

Width ==
  CASE kernel = "avx512" -> 8 [] kernel = "avx2" -> 4 [] OTHER -> 2
Registers == 0 .. 128 \div Width - 1
Lane == 1 .. Width

\* The words of register i when every word is in its place.
Place(i, n) == Width * i + n - 1
Home(i) == [n \in Lane |-> Place(i, n)]

\* Rounds of a pass, and how many are interleaved.
RoundsInPass == 16 \div Width
InFlight ==
  CASE kernel \in {"fused2", "fused2prev"} -> 2 [] kernel = "fused4" -> 4 [] OTHER -> 1
Groups == RoundsInPass \div InFlight

-----------------------------------------------------------------------------
\* Which register of state a round works on.
Nth(s) == [a0 |-> 0, a1 |-> 1, b0 |-> 2, b1 |-> 3, c0 |-> 4, c1 |-> 5, d0 |-> 6, d1 |-> 7][s]

Octets(i, s) == IF pass = "columns" THEN 8 * i + Nth(s) ELSE 8 * Nth(s) + i

Avx2Registers(i, s) ==
  IF pass = "columns"
  THEN 8 * i + [a0 |-> 0, a1 |-> 4, b0 |-> 1, b1 |-> 5,
                c0 |-> 2, c1 |-> 6, d0 |-> 3, d1 |-> 7][s]
  ELSE 4 * Nth(s) + i

Avx512Registers(i, s) ==
  IF pass = "columns"
  THEN 8 * i + [a0 |-> 0, c0 |-> 1, b0 |-> 2, d0 |-> 3,
                a1 |-> 4, c1 |-> 5, b1 |-> 6, d1 |-> 7][s]
  ELSE 2 * Nth(s) + i

RegisterOf(i, s) ==
  CASE kernel = "avx512" -> Avx512Registers(i, s)
    [] kernel = "avx2"   -> Avx2Registers(i, s)
    [] OTHER             -> Octets(i, s)

GroupRounds == InFlight * group .. InFlight * group + InFlight - 1
GroupRegisters == {RegisterOf(i, s) : i \in GroupRounds, s \in Slots}

-----------------------------------------------------------------------------
\* Shuffles.  A selector gives for each lane the lane it is taken from, the
\* lowest digit of the immediate first.
Permute(x, sel) ==   \* _mm256_permute4x64_epi64, _mm512_permutex_epi64
  [n \in DOMAIN x |-> x[4 * ((n - 1) \div 4) + sel[((n - 1) % 4) + 1] + 1]]
Left1 == <<1, 2, 3, 0>>
Left2 == <<2, 3, 0, 1>>
Left3 == <<3, 0, 1, 2>>

BlendOdd(x, y) == <<x[1], y[2], x[3], y[4]>>     \* _mm256_blend_epi32, 0xCC
BlendEven(x, y) == <<y[1], x[2], y[3], x[4]>>    \* 0x33
Cross == <<1, 0, 3, 2>>

Alignr(hi, lo) == <<lo[2], hi[1]>>   \* _mm_alignr_epi8 by 8, EXT, i64x2_shuffle
UnpackHi(x, y) == <<x[2], y[2]>>
UnpackLo(x, y) == <<x[1], y[1]>>

\* _mm512_shuffle_i64x2 on a pair of registers, and QUARTER_IDX.
SwapHalves(x, y) ==
  <<SubSeq(x, 1, 4) \o SubSeq(y, 1, 4), SubSeq(x, 5, 8) \o SubSeq(y, 5, 8)>>
Quarters(x) == <<x[1], x[2], x[5], x[6], x[3], x[4], x[7], x[8]>>
SwapQuarters(x, y) ==
  LET t == SwapHalves(x, y) IN <<Quarters(t[1]), Quarters(t[2])>>

\* A plausible bug, which no specification uses: the halves swapped first.
UnswapQuartersMutant(x, y) == SwapQuarters(x, y)

UnswapQuarters(x, y) == SwapHalves(Quarters(x), Quarters(y))

\* diagonalize and undiagonalize rotate b, c and d by one, two and three words.
\* Where b0 and b1 hold one row of the round, they rotate across the pair.
Rotate(r, b, c, d) ==
  [r EXCEPT !.b0 = Permute(@, b), !.b1 = Permute(@, b), !.c0 = Permute(@, c),
            !.c1 = Permute(@, c), !.d0 = Permute(@, d), !.d1 = Permute(@, d)]

Diagonalize2(r) ==
  [r EXCEPT !.b1 = Permute(BlendOdd(r.b0, r.b1), Cross),
            !.b0 = Permute(BlendEven(r.b0, r.b1), Cross),
            !.c0 = r.c1, !.c1 = r.c0,
            !.d0 = Permute(BlendOdd(r.d0, r.d1), Cross),
            !.d1 = Permute(BlendEven(r.d0, r.d1), Cross)]

Undiagonalize2(r) ==
  [r EXCEPT !.b0 = Permute(BlendOdd(r.b0, r.b1), Cross),
            !.b1 = Permute(BlendEven(r.b0, r.b1), Cross),
            !.c0 = r.c1, !.c1 = r.c0,
            !.d0 = Permute(BlendEven(r.d0, r.d1), Cross),
            !.d1 = Permute(BlendOdd(r.d0, r.d1), Cross)]

AlignrDiagonalize(r) ==
  [r EXCEPT !.b0 = Alignr(r.b1, r.b0), !.b1 = Alignr(r.b0, r.b1),
            !.c0 = r.c1, !.c1 = r.c0,
            !.d0 = Alignr(r.d0, r.d1), !.d1 = Alignr(r.d1, r.d0)]

AlignrUndiagonalize(r) ==
  [r EXCEPT !.b0 = Alignr(r.b0, r.b1), !.b1 = Alignr(r.b1, r.b0),
            !.c0 = r.c1, !.c1 = r.c0,
            !.d0 = Alignr(r.d1, r.d0), !.d1 = Alignr(r.d0, r.d1)]

UnpackDiagonalize(r) ==
  [r EXCEPT !.d0 = UnpackHi(r.d1, UnpackLo(r.d0, r.d0)),
            !.d1 = UnpackHi(r.d0, UnpackLo(r.d1, r.d1)),
            !.c0 = r.c1, !.c1 = r.c0,
            !.b0 = UnpackHi(r.b0, UnpackLo(r.b1, r.b1)),
            !.b1 = UnpackHi(r.b1, UnpackLo(r.b0, r.b0))]

UnpackUndiagonalize(r) ==
  [r EXCEPT !.b0 = UnpackHi(r.b1, UnpackLo(r.b0, r.b0)),
            !.b1 = UnpackHi(r.b0, UnpackLo(r.b1, r.b1)),
            !.c0 = r.c1, !.c1 = r.c0,
            !.d0 = UnpackHi(r.d0, UnpackLo(r.d1, r.d1)),
            !.d1 = UnpackHi(r.d1, UnpackLo(r.d0, r.d0))]

Diagonalized(r) ==
  CASE kernel = "avx512" -> Rotate(r, Left1, Left2, Left3)
    [] kernel = "avx2" /\ pass = "columns" -> Rotate(r, Left1, Left2, Left3)
    [] kernel = "avx2" /\ pass = "rows" -> Diagonalize2(r)
    [] kernel = "sse2" -> UnpackDiagonalize(r)
    [] OTHER -> AlignrDiagonalize(r)

Undiagonalized(r) ==
  CASE kernel = "avx512" -> Rotate(r, Left3, Left2, Left1)
    [] kernel = "avx2" /\ pass = "columns" -> Rotate(r, Left3, Left2, Left1)
    [] kernel = "avx2" /\ pass = "rows" -> Undiagonalize2(r)
    [] kernel = "sse2" -> UnpackUndiagonalize(r)
    [] OTHER -> AlignrUndiagonalize(r)

\* blake2_round_1 and blake2_round_2 of AVX-512 swap around a round.
Pairwise(r, Op(_, _), p) ==   \* p: the pairs of slots that exchange words
  [s \in Slots |->
     LET ij == CHOOSE ij \in p : s \in {ij[1], ij[2]}
         t  == Op(r[ij[1]], r[ij[2]])
     IN IF s = ij[1] THEN t[1] ELSE t[2]]

HalfPairs == {<<"a0", "b0">>, <<"c0", "d0">>, <<"a1", "b1">>, <<"c1", "d1">>}
QuarterPairs == {<<"a0", "a1">>, <<"b0", "b1">>, <<"c0", "c1">>, <<"d0", "d1">>}

Swapped(r) ==
  IF kernel # "avx512" THEN r
  ELSE IF pass = "columns" THEN Pairwise(r, SwapHalves, HalfPairs)
  ELSE Pairwise(r, SwapQuarters, QuarterPairs)

Unswapped(r) ==
  IF kernel # "avx512" THEN r
  ELSE IF pass = "columns" THEN Pairwise(r, SwapHalves, HalfPairs)
  ELSE Pairwise(r, UnswapQuarters, QuarterPairs)

-----------------------------------------------------------------------------
\* The words g1 and g2 mix: lane by lane, in both halves of the round.
Quads(r) ==
  {<<r.a0[n], r.b0[n], r.c0[n], r.d0[n]>> : n \in Lane}
    \cup {<<r.a1[n], r.b1[n], r.c1[n], r.d1[n]>> : n \in Lane}

Event(op, words) == [op |-> op, words |-> words]

\* A word of ref_block read after it was overwritten through next_block, and a
\* word of next_block read after the store, are not what the caller passed.
RefRead(p) == Event(IF alias /\ p \in DOMAIN next THEN "clobbered" ELSE "ref", <<p>>)
NextRead(p) ==
  IF ~withXor THEN "none" ELSE IF p \in DOMAIN next THEN "clobbered" ELSE "old"

\* state ^= ref_block in registers R of c, and block_xy = state (^ next_block).
Absorb(c, R) ==
  LET at(w) == {Place(i, n) : i \in R, n \in Lane} \cap
               {p \in Word : c[p \div Width][(p % Width) + 1] = w}
      after == [w \in Word |-> IF at(w) = {} THEN mixed[w]
                               ELSE Append(mixed[w], RefRead(CHOOSE p \in at(w) : TRUE))]
      slots == {Place(i, n) : i \in R, n \in Lane}
  IN /\ mixed' = after
     /\ xy' = [p \in DOMAIN xy \cup slots |->
                 IF p \in slots
                 THEN LET w == c[p \div Width][(p % Width) + 1]
                      IN [word |-> w, done |-> after[w], next |-> NextRead(p)]
                 ELSE xy[p]]

Uninit == [word |-> -1, done |-> <<>>, next |-> "none"]

\* next_block = state ^ block_xy, in registers R of c.
Emit(c, R) ==
  LET slots == {Place(i, n) : i \in R, n \in Lane}
  IN next' = [p \in DOMAIN next \cup slots |->
                IF p \in slots
                THEN LET w == c[p \div Width][(p % Width) + 1]
                     IN [word |-> w, done |-> mixed[w],
                         xy |-> IF p \in DOMAIN xy THEN xy[p] ELSE Uninit]
                ELSE next[p]]

\* The previous block: carried in state, or read through prev_block.
Previous == IF Carries THEN state ELSE [i \in Registers |-> Home(i)]

-----------------------------------------------------------------------------
\* fill_segment passes with_xor and three distinct blocks; next_addresses calls
\* twice, the second time with the address block as ref_block and next_block.
Calls == {<<FALSE, FALSE>>, <<TRUE, FALSE>>, <<FALSE, TRUE>>}

\* A register that does not hold the previous block.
Other == Home(0)

Init ==
  /\ kernel \in Kernels
  /\ \E c \in Calls : withXor = c[1] /\ alias = c[2]
  /\ pass = IF kernel \in Fused THEN "columns" ELSE "load"
  /\ group = 0 /\ step = "next" /\ rounds = <<>>
  /\ state = [i \in Registers |-> IF Carries THEN Home(i) ELSE Other]
  /\ live = {}
  /\ xy = <<>> /\ next = <<>>
  /\ mixed = [w \in Word |-> <<>>]

\* The prologue loop.
LoadBlock ==
  /\ pass = "load"
  /\ pass' = "columns"
  /\ state' = Previous
  /\ Absorb(Previous, Registers)
  /\ UNCHANGED <<call, group, step, rounds, live, next>>

\* The registers of the next rounds; a fused column group has the prologue in it.
TakeGroup ==
  /\ pass \in {"columns", "rows"} /\ step = "next"
  /\ step' = "g1"
  /\ LET fusing == kernel \in Fused /\ pass = "columns"
         from   == IF fusing THEN Previous ELSE state
     IN /\ rounds' = [j \in 1 .. InFlight |->
                        Swapped([s \in Slots |->
                                   from[RegisterOf(InFlight * group + j - 1, s)]])]
        /\ IF fusing THEN Absorb(from, GroupRegisters) ELSE UNCHANGED <<mixed, xy>>
  /\ UNCHANGED <<call, pass, group, state, live, next>>

\* g1 and g2, before and after the shuffle.
Mix ==
  /\ step \in {"g1", "g2", "g1d", "g2d"}
  /\ step' = [g1 |-> "g2", g2 |-> "diag", g1d |-> "g2d", g2d |-> "undiag"][step]
  /\ LET quads == UNION {Quads(rounds[j]) : j \in 1 .. InFlight}
         with(w) == {q \in quads : \E n \in 1 .. 4 : q[n] = w}
         op == IF step \in {"g1", "g1d"} THEN "g1" ELSE "g2"
     IN mixed' = [w \in Word |->
                    IF with(w) = {} THEN mixed[w]
                    ELSE Append(mixed[w], Event(op, CHOOSE q \in with(w) : TRUE))]
  /\ UNCHANGED <<call, pass, group, rounds, state, live, xy, next>>

Diagonalize ==
  /\ step = "diag"
  /\ step' = "g1d"
  /\ rounds' = [j \in 1 .. InFlight |-> Diagonalized(rounds[j])]
  /\ UNCHANGED <<call, pass, group, state, live, xy, mixed, next>>

Undiagonalize ==
  /\ step = "undiag"
  /\ step' = "put"
  /\ rounds' = [j \in 1 .. InFlight |-> Undiagonalized(rounds[j])]
  /\ UNCHANGED <<call, pass, group, state, live, xy, mixed, next>>

\* Back into state; a fused row group has the epilogue in it.
PutGroup ==
  /\ step = "put"
  /\ step' = "next" /\ rounds' = <<>>
  /\ LET after == [i \in Registers |->
                     IF i \in GroupRegisters
                     THEN LET js == CHOOSE js \in (1 .. InFlight) \X Slots :
                                      RegisterOf(InFlight * group + js[1] - 1, js[2]) = i
                          IN Unswapped(rounds[js[1]])[js[2]]
                     ELSE state[i]]
         fusing == kernel \in Fused /\ pass = "rows"
     IN /\ state' = IF fusing /\ ~Carries THEN state ELSE after
        /\ live' = IF fusing /\ Carries THEN live \cup GroupRegisters ELSE live
        /\ IF fusing THEN Emit(after, GroupRegisters) ELSE UNCHANGED next
  /\ group' = (group + 1) % Groups
  /\ pass' = IF group + 1 < Groups THEN pass
             ELSE IF pass = "columns" THEN "rows"
             ELSE IF kernel \in Fused THEN "done" ELSE "store"
  /\ UNCHANGED <<call, xy, mixed>>

\* The epilogue loop.
StoreBlock ==
  /\ pass = "store"
  /\ pass' = "done"
  /\ Emit(state, Registers)
  /\ live' = IF Carries THEN Registers ELSE live
  /\ UNCHANGED <<call, group, step, rounds, state, xy, mixed>>

\* The next iteration of fill_segment: the block stored is now the previous one.
CallAgain ==
  /\ pass = "done" /\ ~alias
  /\ pass' = IF kernel \in Fused THEN "columns" ELSE "load"
  /\ state' = [i \in Registers |-> IF i \in live THEN state[i] ELSE Other]
  /\ live' = {}
  /\ xy' = <<>> /\ next' = <<>>
  /\ mixed' = [w \in Word |-> <<>>]
  /\ UNCHANGED <<call, group, step, rounds>>

Next ==
  \/ LoadBlock \/ TakeGroup \/ Mix \/ Diagonalize \/ Undiagonalize
  \/ PutGroup \/ StoreBlock \/ CallAgain

Spec == Init /\ [][Next]_vars

-----------------------------------------------------------------------------
\* The scalar kernel: blake2_round_nomsg over eight columns, then eight rows.
ColumnWord(i, n) == 16 * i + n
RowWord(i, n) == 2 * i + 16 * (n \div 2) + (n % 2)

StraightQuads == {<<0, 4, 8, 12>>, <<1, 5, 9, 13>>, <<2, 6, 10, 14>>, <<3, 7, 11, 15>>}
DiagonalQuads == {<<0, 5, 10, 15>>, <<1, 6, 11, 12>>, <<2, 7, 8, 13>>, <<3, 4, 9, 14>>}

QuadOf(w, WordAt(_, _), quads) ==
  CHOOSE q \in {[k \in 1 .. 4 |-> WordAt(i, s[k])] : i \in 0 .. 7, s \in quads} :
    \E k \in 1 .. 4 : q[k] = w

Round(w, WordAt(_, _)) ==
  LET straight == QuadOf(w, WordAt, StraightQuads)
      diagonal == QuadOf(w, WordAt, DiagonalQuads)
  IN <<Event("g1", straight), Event("g2", straight),
       Event("g1", diagonal), Event("g2", diagonal)>>

Reference ==
  [w \in Word |->
     <<Event("ref", <<w>>)>> \o Round(w, ColumnWord) \o Round(w, RowWord)]

\* Every word stored is the word of that place, XORed and mixed with the words the
\* scalar kernel takes, in its order (no shuffle brings a wrong word into a lane, and
\* a carried register holds the previous block when it is read), XORed with what
\* block_xy took at that place before the rounds; no slot of block_xy is read
\* uninitialised, and where ref_block is next_block no word was overwritten
\* before it was read.
StoresReference ==
  /\ \A p \in DOMAIN next :
       next[p] = [word |-> p, done |-> Reference[p],
                  xy |-> [word |-> p, done |-> <<Event("ref", <<p>>)>>,
                          next |-> IF withXor THEN "old" ELSE "none"]]
  /\ pass = "done" => DOMAIN next = Word
=============================================================================
