# Verification of argon2-rust

TLA+ modules that model the parts of this crate whose correctness depends on
interleavings, on long sequences of calls or on arithmetic at a boundary; TLC
configurations that check them on small instances; and proofs, checked by TLAPS,
that the most important properties hold for every value of the constants.

Paths below are those of the repository (`src/core.rs` and so on); in
`PROJECT.json` the same files are prefixed once more with `src/`.

## 1. Inventory

| Component | State it keeps | Operations | Interacts through |
|---|---|---|---|
| Fill pool (`src/core.rs`: `fill_memory_blocks_traced`, `fill_slice_st`, `fill_pooled`, `drain_lanes`, `FillSync`) | four atomics (`next_lane`, `arrived`, `lost`, `generation`), the flag `stop`, a counter per helper | claim a lane, fill a segment, arrive, park, publish the next slice, trace a pass, abort, join | atomics with Relaxed, Release and Acquire accesses; `thread::scope`; one arena shared by all workers |
| Block fill and indexing (`index_alpha`, `fill_first_blocks`, `finalize` in `src/core.rs`, `src/fill_block/scalar.rs`, `src/block.rs`) | the matrix of blocks; the block of pseudo-random addresses | first blocks, one block of a segment, finalize | reads blocks of other lanes while they are being filled |
| Arena, Workspace, ArenaGuard (`src/memory.rs`) | capacity, visible window, contents, `zeroed`, `workers`; one parked arena | new, reserve, acquire, take, release, clear, drop | the guard's destructor, the allocator, `thread::panicking` |
| Striped wipe (`stripe_over` in `src/memory.rs`) | the next stripe | claim, wipe, join | scoped threads over one region |
| Hasher and the one-shot pipeline (`src/core.rs`) | configuration, pooled workspace | hash, verify, verify bounded, reserve, clear, reconfigure | Workspace |
| One-shot API (`hash_into`, `hash`, `hash_encoded`, `verify`, `verify_encoded`, `hash_traced`, of an `Argon2` and of a `Hasher`) | the arguments; the buffer of the tag, the seed, the copy of H0 | check the lengths, hash the inputs, fill, finalize, compare or encode, clear | all of the above; the allocator; a trace that may panic |
| Bounded verification (`verify_encoded_bounded`, `decode_bounded`) | none | gate, decode, compare, clamp, hash | decoder, parameters |
| PHC strings (`src/encoding.rs`) | none | encode, strict decode, lenient decode | validation |
| Parameters (`src/params.rs`) | none | validate, build, layout | everything |
| CPU detection caches (`src/fill_block/mod.rs`, `src/blake2b.rs`, `src/base64.rs`, `src/fill_block/sse2.rs`) | four process-wide relaxed atomics | detect, cache, answer | any thread |
| BLAKE2b (`src/blake2b.rs`) | chaining value, two-word counter, buffer | init, update, finalize, `blake2b_long` | H0, first blocks, tag |
| fill_block SIMD kernels (`src/fill_block/{avx2,avx512,neon,sse2,wasm128}.rs`) | 128 words in registers, carried from block to block; `block_xy` | load, round, shuffle, store, for x86, Arm and wasm | called by their own segment loops; the dispatch above |
| BLAKE2b SIMD compression (`src/blake2b/`) | the 4x4 state in rows of registers | load, half-round, diagonalise, undo, feed forward | `blake2b.rs` |
| Base64 (`src/encoding.rs`, `src/base64/`) | none | scalar loops, vector blocks, remainders | the encoder and the decoders of PHC strings |
| OS mapping (`os` in `src/memory.rs`) | none of its own; the mappings of the process | map more than is needed, trim both ends, advise, unmap, or the heap | `mmap`, `munmap`, the allocator; other threads of the process |
| OS randomness (`src/random.rs`) | none | fill a buffer through getrandom, a fallback file, or the platform's call | system calls |

### What is hard here

* **Concurrency.** The pool hands the `&mut` of a segment to whoever wins a relaxed
  counter, and orders the slices with three atomics of which one is relaxed on the
  way in. Threads may be refused after they were planned for, and any of them, or the
  callback, may panic at any moment; nobody may then wait for ever.
* **Sequences of calls.** An arena lives through many hashes with windows of different
  sizes, errors, panics, leaked guards, refused growth. What a flag says about its
  contents is trusted when it is freed.
* **Boundaries.** `index_alpha` works in wrapping `u32`; BLAKE2b holds back a full
  buffer; stripes are rounded to an alignment; the length gate counts digits.
* **The operating system.** It may refuse memory and threads, return fewer random bytes
  than asked or a signal, and unmaps whole pages, whoever they belong to.
* **Many spellings of one function.** The block fill, the BLAKE2b compression and Base64
  exist up to nine times; test vectors run only those the machine at hand has.
* **Secrets.** Whatever the order of events, memory with the content of a hash is wiped
  before it is handed out or freed (feature `zeroize-memory`).

Correctness of each component, in one line:

* pool: no data race, each segment once and after the slices before it, quiescence for
  the callback, a normal return only with a full matrix, no hang;
* block fill: only finished blocks of the documented window are read, the tag does not
  depend on the schedule or on what the arena held before;
* arena: contents, flag and window always tell the truth, nothing is freed dirty;
* wipe: complete, in bounds, no byte twice and no cache line from two sides at once,
  whatever threads were refused;
* hasher: foreign strings never grow what it holds, at rest it holds nothing secret;
* bounded verification: never above the ceiling, never refuses the library's own
  strings of up to `u32::MAX` characters; the decoders never disagree;
* caches: an answer is executable, and detection happens at most once per caller;
* BLAKE2b: the digest depends on the bytes, not on how they were cut;
* calls: a verification succeeds exactly for the source of the tag, and a call leaves no
  digest behind but the one it hands over;
* kernels and codec: every backend computes what the scalar code does, within its buffers;
* OS mapping: an arena stays mapped until it is dropped, and nothing else does;
* OS randomness: no salt is used of which a byte was not drawn, and a draw ends.

`PROJECT.json` lists the individual hazards with their lines and the properties that
would catch each.

## 2. Modules

| Module | Models | Composes |
|---|---|---|
| `FillSpec` | what both the sequential nest and the pool promise | |
| `FillPool` | `fill_pooled` with its memory model | refines `FillSpec` |
| `IndexAlpha` | `index_alpha` and the offsets of `fill_segment`, as operators | |
| `MatrixFill` | the whole fill, block by block | extends `IndexAlpha` |
| `FillKernels` | `fill_block` of every vector backend, on named words | |
| `Workspace` | arena, workspace and guard, with an arbitrary client | |
| `Hasher` | the calls of a `Hasher`, as the client | extends `Workspace`, implements it |
| `StripeWipe` | `stripe_over`; justifies the atomic wipe of `Workspace` | |
| `OsMemory` | `os::map_aligned`, `advise_huge`, `unmap` and the heap, for several threads | |
| `OsRandom` | `os_random` on every platform, and the salt drawn with it | |
| `BackendCache` | the four detection caches | |
| `Blake2b` | the streaming state and `blake2b_long` | |
| `Blake2bKernels` | the compression function of the scalar code and of every vector backend, on named words | |
| `VectorWords` | the arithmetic of `g1`, `g2` and of BLAKE2b's `G` in every backend, on small words | |
| `Base64Codec` | the codec, with its vector backends | extends `Bits` |
| `Bits` | bitwise and, or and exclusive or of numbers, by tables of four bits | |
| `Argon2Calls` | one call of the interface, from its arguments to its result | |
| `Params` | validation, build and layout, as operators | |
| `PhcString` | strings and the two decoders, as operators | extends `Params` |
| `BoundedVerify` | `verify_encoded_bounded` | extends `PhcString` |
| `FillPool_proofs`, `MatrixFill_proofs`, `BoundedVerify_proofs` | theorems | the module of that name |
| `Memory_proofs`, `HashCalls_proofs`, `Kernels_proofs`, `Backends_proofs` | theorems | `Workspace`, `Hasher`, `StripeWipe`, `OsMemory`, `OsRandom`; `Blake2b`, `Argon2Calls`; `VectorWords`, `Blake2bKernels`, `FillKernels`; `BackendCache`, `Base64Codec` |
| `Numbers` | induction over the naturals, iteration, sums, quotients and bits, for the proofs | extends `Bits` |
| `MCFillPool`, `MCMatrixFill`, `MCWorkspace`, `MCHasher`, `MCBackendCache` | values of the constants for TLC | the module of that name |
| `MCBoundedVerify` | the strings and the ceilings of `MCSingles` | `BoundedVerify` |
| `MCKernels`, `MCSingles`, `MCHashCalls` | the same, for parts that share no state: `part` picks one at the start of a behaviour, and the others never move | `FillKernels`, `Blake2bKernels`, `VectorWords`, `Base64Codec`; `StripeWipe`, `OsMemory`, `OsRandom`, `BoundedVerify`; `Blake2b`, `Argon2Calls` |

Definitions whose name ends in `Mutant` are plausible bugs of the code. No
specification uses them; each is there to show that a property fails when the
definition after it is replaced by it.

### FillPool

One worker is the leader, the others are helpers. `pc`, `step`, `lane` and `count` are
the program counters and locals of `fill_pooled` and `drain_lanes`; one action stands
for one atomic access or for one call of `fill_segment` or of the callback. Because a
segment has a begin (`ClaimLane` into `"fill"`) and an end (`FillSegment`), two
accesses to the arena that overlap are visible as two workers in `"fill"`.

The memory model is explicit where the code relies on it. Read-modify-writes act on the
latest value. `generation` is the log of its writes, and a load may return any write
not older than the last one its thread read. `hb[w]` is the set of segments that happen
before the next action of `w`: a Release write attaches it to the message, an Acquire
load joins it, a Relaxed access does neither. `knowsStop` does the same for `stop`.
Stale loads of `arrived` and `lost` need no model of their own: the counters only grow
within a slice, so a stale load is an earlier interleaving or a retry of the wait. The
views that `lost` carries are not tracked, so the model relies on less than the code
has. `generation` wraps at `GenModulus`; the code's `generation += 1` would panic
after 2^32 steps in a build with overflow checks and wraps in a release build. The
trace is always present; `TraceReturns` stands for the absent one too, for it then does
nothing.

`FillSpec` says what a caller may rely on: each segment is computed once and after all
segments of the earlier steps, the callback sees whole passes, and the call returns
only with all of them or unwinds. `ImplementsFillSpec` is the refinement.

### IndexAlpha and MatrixFill

`IndexAlpha` translates the arithmetic, with `Word` for 2^32. The window a reference
may fall into is stated separately, from the comments (`ReferenceWindow`).
`MatrixFill` fills the matrix block by block with the lanes of a slice interleaved in
any order. The compression function and the addresses are fixed mixing functions on
small numbers, so that two different histories of a block give different values; the
leftovers of an earlier hash are in the matrix at the start, because the code does not
zero it. `TagIsDeterministic` compares the matrix with the one computed without any
interleaving. `PrevIndex` is `(curr - 1) mod lane_length`; the loop increments and
rotates `prev_offset` instead. Six files repeat this loop around their own `fill_block`.
The scalar one, wasm128 and a NEON shape read the previous block from memory, the
others load it once per segment and carry it in registers (`carries`), which is right
only while the registers hold what `prev_offset` points at (`CarriedIsPrevious`). As
the loops are otherwise the same, the map takes each definition from one of the files.

### FillKernels

The kernels differ in width (two, four or eight words in a register), in which
registers a round takes, in how they rotate rows, and in NEON also in how many rounds
are interleaved and whether prologue and epilogue are fused into them. A word is
named by its place in the previous block, a register is the sequence of its words, and
every word has a history: the word of `ref_block` XORed in, then the four words each
`g1` and `g2` mixed it with. Equal histories mean equal blocks, whatever the arithmetic
does, so comparing them with the scalar order (`Reference`) needs no numbers. The
intrinsics are modelled by what they do to whole words: a selector is the immediate
operand, lowest digit first.

The hazards are a shuffle that brings in a wrong word or is undone wrongly, a slot of
`block_xy` read before it is written (it is uninitialised), a store that precedes a
read of the same block where `ref_block` is `next_block` (`alias`), and a register that
does not hold the block just stored when the next call starts (`live`).

### Blake2bKernels

The same method for the compression function. A word of the state is named by its place
in `v`; its history is the list of the calls of `G` it took part in, each with its four
words, in order, and the two words of the message. SSE4.1 has a message schedule of its
own, written out as shuffles in the source and so in `QuarterTable`; AVX2 and AVX-512
gather by `SIGMA`. `rows` are the registers, and a diagonal step only moves words.

### VectorWords

What the two modules above leave out: the statements of `G` themselves. A word has eight
bits instead of 64, so that a byte of the code is one bit of the model and a rotation by
32, 24, 16 or 63 is one by 4, 3, 2 or 7; a half word has four bits, and the widened
product of two of them fits in a word as it does in the code. Rotations by shifts, by
byte tables, by exchanging halves, by insertion and by doubling, and the products by
`umull`, `umlal`, `uzp1` and shuffles are computed lane by lane, so a table with one
wrong entry, or two lanes exchanged by a shared `uzp1`, changes a result. A statement
reads and writes registers in the order of the source. Each NEON shape is combined
with each way to rotate, as the macros do.

### Base64Codec

Bytes are real here. The scalar loops are recursive functions of the accumulator, the
branch-free comparisons are computed in the low sixteen bits of the word, and a block is the lane
by lane effect of its intrinsics: shuffles, multiply-shifts, saturating subtractions,
signed comparisons and the nibble tables of the decoder. `Bits` spells the bitwise
operators without recursion, so that the codec can be proved about. `loadEnd` is the end of the
furthest load, since a block of twelve bytes loads sixteen.

### Argon2Calls

Everything after the initial hash is a function of it, so a digest is the sequence of
bytes that was hashed: two tags are equal exactly if the same bytes were, which is what
BLAKE2b is trusted for. `stage` is the program counter; the refusals of the allocator, a
text that does not decode, an output of the wrong length and a panic of the fill
are alternatives of the steps where they happen. `seed`, `copy` and `tagBuf` are the
buffers whose contents must not survive a call; the arena is `Workspace`'s. `expected`
is the source of the tag that is verified against, or nothing for a tag no source has.

A panic of the trace callback unwinds through `hash_traced` past the lines that clear
its copy of H0. The caller, whose callback it is, has been given H0 anyway on
success; `LeavesNoSecret` does not ask for it there.

### Workspace and Hasher

The content of an arena is the set of its blocks that are not zero. A client may hold
a guard and an owned arena at once, may leak the guard, and may panic at any time; the
allocator may refuse any request; the feature `zeroize-memory` is a variable that never
changes, so that one run covers both builds. In `Hasher` the same actions are the steps
of a call: acquire, size the wipe workers, write, then leave normally, with an error or
by a panic that the owner catches. `NoRatchet` is about the sizes a string may cause;
`Memory_proofs` shows that every step of a `Hasher` is a step of a `Workspace`.

### StripeWipe

Threads claim stripes of a region from a relaxed counter. The region begins at an address
that the unit divides, which is what `wipe_visible` gives (`ARENA_ALIGN`), and not
necessarily at a page; `Stripe(i)` is `per.min(len - off)` bytes from `base + off`, as the
code passes them to `secure_wipe_raw`, and nothing in the model cuts them to the region.
It shows what `Workspace` assumes of `wipe_visible`: when it returns, all of the visible
window is zero, nothing else has been touched, and no thread is still writing.

How far apart the workers are is `Apart(size)`. They are apart by the unit, that is by
cache lines (`StripesApart`), and not by pages, which is what the comments on `StripeBase`
and `stripe_over` say (`StripesOwnPages`, section 6).

### OsMemory

Addresses count blocks; `mapper` says who mapped each. `map_aligned` maps a huge page
more than it needs and unmaps the head and the tail in two further calls, between
which the other thread maps, trims and unmaps in the same address space. `munmap` is
modelled by what POSIX says: it works on the pages the range touches, mapped by whomever,
refuses an address inside a page, and may fail for want of a mapping to split.

### OsRandom

A byte of the salt is known by who wrote it last. What a system call answers and what
the loop makes of it are two steps. `done` is the count of the loop, which a wrong one
would let run ahead of the bytes; the fallback to `/dev/urandom` begins again at the
start of the buffer. The number of signals is bounded by `MaxInterrupts`.

### BackendCache

One action per relaxed load, detection and relaxed store of a caller; a load may return
any value of the log that is not older than what the thread has seen. The four caches
do not interact. Hosts differ in what their CPU can do and in whether the NEON backend
is chosen by timing, which is a nondeterministic outcome.

### Blake2b

The chaining value is the list of what has been compressed (block, counter, last flag),
so two streams have the same digest exactly if the compression function is called with
the same inputs; what it does with them is `Blake2bKernels`. The two-word counter has a
small word so that its carry happens.

### Params, PhcString and BoundedVerify

A string is what its characters spell: name, version, fields, and the lengths that its
Base64 decodes to. Fields are kept in order and with repetitions, for the two decoders
differ there; lengths in characters are kept because the gate of `decode_bounded` is
about them. Every error of the decoders is kept in its order, including that
`decode_string` validates before it looks for trailing junk and `decode_phc` after.
Both refuse a text longer than `u32::MAX` first of all (`TooLong`), which `encode_string`
does not ask: `Encoded` is what `validate_for_string` has accepted, of any length. A
tag of some 3 GiB, under a ceiling that allows it, is therefore written, passes the gate
and is refused by the decoder. `OwnStringsPass` says both: a text within the limit is
hashed (or memory is refused), a longer one ends with `DecodingFail`. `DecodersAgree`
has the same exception for the text written for what `decode_phc` accepted, which may
spell a version that the original left out. No doc of the library promises more.
`BoundedVerify` is the sequence gate, decode, compare, clamp, hash of the source with
what each step takes of the machine (`spent`). The constants `MIN_*` and the base 10
of numbers are the real ones; `Word`, `MAX_LANES` and `BOUNDED_MAX_SALT_LEN` are
scaled down.

The doc of `BOUNDED_MAX_SALT_LEN` (`src/core.rs:1032`) says that a longer salt is
rejected. The gate bounds the whole string, so a salt that is longer by what the tag
and the numbers leave free is accepted; the model has that behaviour. The total, which
is what the gate is for, is bounded either way (`DecodeIsGated`).

## 3. Runs

| Run | What it shows | Bounds |
|---|---|---|
| `fill_pool` | safety of the pool and the refinement of `FillSpec` | 2 helpers, 3 lanes, 2 passes, generation modulo 2, symmetric helpers |
| `fill_pool_live` | termination under fairness | 2 helpers, 3 lanes, 1 pass |
| `kernels` | the vector code does what the scalar code does, and stays within its buffers | fill: 9 kernels, 128 words, all calls; BLAKE2b: 4 backends, all 12 rounds; arithmetic: 28 kernels, 64 starts of 4 lanes; codec: 5 backends, 28 lengths up to 64 in 6 patterns, texts up to 66 with a wrong byte at each place that matters |
| `matrix_fill` | reference window, settled reads, carried registers, determinism | 2 lanes of 4 segments of 4 blocks, 2 passes, all three types and both versions, 32-value word |
| `workspace` | arena invariants with an arbitrary client | 3 blocks, wipe threshold 2, 1 or 2 threads |
| `workspace_unwind` | violation, see section 6 | as `workspace` |
| `hasher` | call sequences of a hasher | as `workspace` |
| `singles` | a wipe is complete, its stripes disjoint and inside; arenas stay mapped; a salt is drawn whole, and the draw ends; ceiling, gate and decoders of a bounded verification | wipe: length up to 7 from 0, 4 or 6, up to 3 workers, units 1, 2 and 4; memory: 2 threads, 24 addresses, pages of 2, huge pages of 4, one failed `munmap`; random: lengths 0, 1, 4, 5, `getentropy` by 2, 2 signals; verification: 4 ceilings, some 3700 strings around every bound and of every shape, a word of 1024 |
| `stripe_pages` | violation, see section 6 | 12 bytes, 2 workers, unit 1, pages of 4 |
| `backend_cache` | relaxed caches | 3 threads with 2 calls each |
| `backend_cache_timed` | violation, see section 6 | as `backend_cache` |
| `hash_calls` | cuts of a stream and long outputs; what a verification means, and what a call leaves behind | BLAKE2b: blocks and digests of 4 bytes, streams of 18, outputs of 13, words of 6; calls: 3 configurations, 3 passwords, 4 salts, 2 secrets, 2 associated data, a length word of 4 |

Why the bounds are enough to reach the cases. With three lanes and three workers every
split of the lanes occurs, including a worker that gets none and one that gets all;
two passes are eight steps, so the barrier is passed, reset and reused and the
callback runs in the middle and at the end; a generation modulo 2 makes a helper one
lap behind see an equal counter, which is the worst case of wrapping. Three blocks are
the smallest size with a window strictly inside of a larger capacity, and with
windows on both sides of the wipe threshold. Segments of four blocks are twice the
minimum, so that index 0, 1 and later positions differ; the word of 32 is larger than
a lane, and seeds were chosen so that references reach both ends of the window.
Streams of four and a half blocks have a cut before, on and after every block boundary.
Sixteen bits per product and eight per word let every carry of an addition and every
bit position of a rotation occur; 256 starting quadruples are spread over the range.
Base64 lengths lie on both sides of each load, of each block and of two blocks and a
half, and the wrong bytes are those next to each range of the alphabet and above 127. Two
huge pages of four blocks with pages of two give heads of zero and of one page, tails of
one page and of two, arenas that fill their last page and that do not; a size of 60
makes the sum wrap. In the calls, inputs of equal length and different split (`<<0>>` as
secret or as associated data, a length byte that looks like data) are the ones that an
ambiguous message would confuse, one password is too long for the length word and one
salt too short. Strings cover each side of each bound of `validate_inputs` including the lane count at
which `8 * lanes` wraps, and each way two decoders could differ. The word of 1024 is the
limit of a text too: texts of 1023 and of 1024 characters occur, those that pass it only
once a version is written, and a ceiling whose gate lets longer ones through, so both
branches of `OwnStringsPass` and of `DecodersAgree` are taken.

### Fairness

`fill_pool_live` assumes weak fairness of the leader's own steps and of
each helper's. It says that the OS schedules every thread, that `fill_segment` and the
callback return or panic, and that a spinning load eventually sees the latest write,
which C++20 and Rust ask of an implementation. Spawning is covered because either it
succeeds or it fails. Nothing is assumed about reading an older write, and no panic
is fair, so termination is not owed to one.

`DrawEnds` assumes weak fairness of the draw as a whole: system calls return and the
thread runs. It assumes nothing about what they return. Signals are finitely many,
since the loop repeats an interrupted call without a limit and would not end
otherwise; that a call which returns zero is not repeated is what the property tests.

`CHECK_DEADLOCK FALSE` stands in `kernels` only, whose behaviours end when the kernel has
returned. In `singles` a draw that is over stutters (`DrawIsOver`), as the other parts do
when they have returned, so that a part that gets stuck before is found.

## 4. What is proved

Each theorem holds for every value of the constants under the named `ASSUME` of its
module, which TLC also evaluates in the runs.

**FillPool_proofs** (any finite set of helpers, any lanes and passes, any modulus from
2): `Types`, `SegmentsDisjoint`, `EarlierStepsAcquired`, `TracesQuiescent`,
`ReturnsFilledMatrix` and the refinement `PoolImplementsPromise`. None of the properties
is inductive, because each speaks of workers in `"fill"` and is true only because of
what the barrier has counted. The invariant `Inv` says in parts: the log of
`generation` has exactly one message per completed step, carrying the view of all
segments before it, then only messages that carry `stop` (`MessagesOK`); a helper is in
the leader's step or parked in it or in the one before (`HelperOK`); `lost` and
`arrived` are the numbers of the helpers that are lost, refused or parked (`LostOK`,
`ArrivedOK`); every lane below `next_lane` is held by exactly one worker, or done, or
was dropped by one that is lost (`LanesOK`); so when the two loads of the leader cover
all helpers (`BarrierOK`), which it needs because they happen at different moments,
all segments of the step are done or somebody is lost. There is one lemma per action.

**MatrixFill_proofs** (any lanes, passes, length of segments and of the address block from
2, any word above a lane): `ReferenceInWindow`, the block `index_alpha` chooses is in the
documented window at every position the loop visits and for every number. It goes by
cases on the pass and the slice: no subtraction in the size of the area wraps, the
relative position is below that size, and start plus position is less than two lanes
long, so that the modulo takes off at most one lane. `WindowIsFollowed` says which block
of the window it is: ordered by age the window is an interval that wraps around the lane,
so the k-th oldest is `start + k` modulo the lane. `ReadsSettled` and `CarriedHolds`
need the first together with the invariant that `prev_offset` and the carried registers
agree with the position of each lane (`FillInvariant`), among whose parts is that a
segment of the first slice begins at block 2: at a smaller index the area would be empty.

`TagDetermined` compares with `Matrix`, the fill of the blocks one after the other in the
order of the sequential nest. The tag at the end says nothing about the middle, so the
invariant (`FollowsSequential`) says of each lane at each moment that it holds what
`Matrix` has in that lane on coming to the same position, though the other lanes may be
elsewhere, and that its block of addresses is the one its index needs. A lane takes its step
as `Matrix` does because what it reads is either in its own segment or in one that no lane
writes in this slice; nothing depends on what another lane has done meanwhile, or on what
the arena held before the first pass, which is overwritten without being read.
The address block has to hold two addresses (128 in the code): a segment of the
first slice starts at index 2 with block 1 of the addresses already generated, and with
one address to a block it would be the third.

**Memory_proofs.** Of `Workspace` and `Hasher` (any sizes, thresholds and thread counts): `WorkspaceTypes`,
`KnownZeroed`, `TailZero`, `NothingFreed`; then `HasherImplementsWorkspace`, by which
the same holds of a hasher, `HasherNoRatchet` and `HasherAtRest`. The invariant `Sound`
of an arena links window, capacity, contents and flag; it holds of the parked one, of
the guard's and of the owned one. The action properties follow from it: `AcquireZero`
(whatever is handed out is zero, because the parked arena is zero in its capacity and a
window only moves inside of that), `ShrinksOnPurpose` (the largest arena around gets
smaller by the two named actions only; `release` keeps the larger of two), and
`HasherKeepsPool`, which needs the ratchet of `HasherInv` to know that a growth asks for no
more than the owner did.

Of `StripeWipe` (any lengths, starts, workers and units): `WipeIsComplete`,
`WorkersApart`, `OffsetsInRegion`. Facts about rounding division say that the stripes lie
inside of the region (`StripeInside`), cover it (`StripesCover`) and share no byte
(`StripesDisjoint`), nor, since start and length of a stripe are whole units, a unit
(`StripesApartInOrder`). The invariant says that each stripe below the counter is wiped
or held by the worker that claimed it, and that of a stripe not yet run over no byte has
been wiped (`Untouched`), which is the half of `StripesApart` about time.

Of `OsMemory` (any threads, sizes of arenas, pages, huge pages that consist of
pages, any number of failed unmaps): `ArenaStaysWhole` and `NoSlackStays`. The invariant
says what a thread must have mapped at each step of `map_aligned` and of the drop
(`Holding`): all of the mapping before the head is cut off, the aligned rest after that,
then the arena. It has at least that, and exactly that while none of its unmaps has
failed. The step lemmas rest on `PiecesArePages`: head, arena and tail are whole pages
and add up to what was mapped, so that rounding by `munmap` reaches nobody else's.

Of `OsRandom` (any lengths, any limit of `getentropy`, any number of signals):
`SaltIsWhole`. The invariant is that the first `done` bytes, and those an answer is about
to add to it, were written by the system (`CountedIsWritten`); the fallback, which does
not look at `done`, is whole by itself.

**BoundedVerify_proofs** (any word, lane limit, set of strings and ceilings):
`LayoutFits` (accepted parameters give a layout without overflow and no larger than the
memory asked for), `BoundedVerifyTypes`, `CeilingHolds`, whose invariant adds that
nothing is spent before the costs were compared and the threads clamped, and
`DecodersNeverDisagree`, in which each decoder refuses what is longer than the word
before it reads anything. `DecodeGated`: a decoder sees a string only after the gate, and
what it reserves is bounded by the length the gate lets through; the length is a sum over
the fields, of which the salt and the tag are parts. `OwnStringsAccepted`: for a string
that `encode_string` writes within the ceiling the sum has three numbers and two Base64
texts, and `NumLen` and `B64Len` grow with what they measure, so that the gate, computed
from the ceiling's own numbers, is never the smaller (`OwnFits`, for texts of any length);
one that is not too long the decoder then accepts, for `validate_for_string` has made the
decoder's checks (`OwnDecodes`), and the others it refuses before it reserves anything.
`NumLen` counts the powers of ten a number reaches, which is what the code's loop counts
for a `u32`.

**HashCalls_proofs.** Of `Blake2b` (any block and digest sizes, any streams and cuts, any
word above a block): `StreamIsKept`, by the invariant that after any update the chaining
value is the list of the first k complete blocks with their counters, the counter
is k blocks in its two words, the buffer begins with the rest (`StreamAt`), and the last
complete block is still in the buffer (`HoldsBack`). The last part is what makes
`DigestIsOfTheStream` true: without it a stream that ends on a block boundary would have
two digests. `OutputIsLong`: `blake2b_long` gives the halves and the last digest that
RFC 9106 asks for, for every length; after n halves of the loop more than half a digest
is left to write (`LongAt`), so it stops in time and the rest fits in one.

Of `Argon2Calls` (any inputs, any length word, any least salt): `StreamInjective`,
two sources that may be hashed and give the same message to the initial hash have the
same costs, password, salt, secret and associated data. The lengths are hashed modulo
the length word, so this rests on what `validate_for` refuses; the inputs are peeled off
from the left, each by the length before it. Then `VerificationIsExact` and
`NoSecretIsLeft`. The invariant says that what is hashed is what the caller means and is
legal (`UsesInputs`), that the buffer of the tag is as it was until the tag is in it
(`TagComesLast`), and that the seeds do not outlive the step that needs them
(`SeedsAreCleared`). `LeavesNoSecret` speaks of calls that are over, so it needs what is
true of the buffers on the way to each return.

**Kernels_proofs.** Of `VectorWords` (any words to start from, any message, each of the 20 NEON kernels and
the eight others): `KernelsComputeScalar`, in three layers.

* An instruction against arithmetic. A word is eight bits (`WordHasBits`, `BitsOfEight`),
  and a shift, an insertion, a table or an exclusive or is said by which bit goes where,
  so every way to turn a register turns each of its words by the scalar amount
  (`EveryRotation`). A gather puts the low halves of two registers side by side
  (`EvensAre`), each product takes its own two back, and the additions commute and
  associate modulo the word (`SumsAre`), so every `f_blamka` is the scalar one in each
  lane (`EveryMulAdd`).
* A statement against a lane (`StepsLanes`): it changes one row of the lanes of its sets,
  to what the scalar operation makes of their own words, and no other.
* A program against `G`. There are four shapes of programs (`ProgramIs`); the invariant
  `WordsInv` says that each lane holds what the statements behind it make of the words
  it began with, and running them all makes what the scalar `G` makes (`RanThrough`):
  half a `G` is six statements (`HalfRuns`), BLAKE2b's is fourteen (`BlakeRuns`), and
  statements of the other set pass a lane by (`RunsPast`). The last is why AVX2 may
  finish one set before the other, and SSE4.1 one pair of rows.

`WordsAssumption` asks of the constants only that they are words.

Of `Blake2bKernels`: `CompressionAsScalar`. Words are names here, so nothing is left to
quantify over, and what the run enumerates gets an argument. The registers are either
where they were loaded or rotated (`RowsToDiagonals`, `DiagonalsToRows`), and a lane across
the four rows is then a column or a diagonal of `compress_scalar` (`QuadsOfPairs`,
`QuadsOfWhole`). The shuffles of SSE4.1 give the words that `SIGMA` names for those lanes,
in each of its ten rows (`QuartersAre`). So the calls of a half-round are the scalar ones
(`CallsAsScalar`), each word is in exactly one (`OneCall`), and its history grows by the
scalar call (`HistoryGrows`). `CompressInv` counts the half-rounds behind (`CallsDone`).

Of `FillKernels`: `KernelsStoreReference`, for all nine kernels, with and without the XOR
with the old block, aliased or not, call after call. Words are names here too; what the run
enumerates gets an argument in three layers.

* A round against registers. Any word has one round, one place in it and one column of
  `G` in each half of a pass (`PlaceOfWord`, `InOneG`). `Laid` says which lane of which register
  holds which place, straight or rotated, for registers of two words, for AVX2's two
  layouts and for AVX-512's four rounds in one. Every diagonalisation, by `alignr`, by
  unpacking, by blends or by permutations, takes `Laid` straight to `Laid` rotated and its
  counterpart takes it back (`TurnsRound`, `TurnsRoundBack`), from any contents; the swaps
  of halves and of quarters make a loaded group `Laid` and put it back where it was
  (`TakesRound`, `PutsRound`); and the lanes across the registers of a `Laid` group are
  the `G` of its rounds and no other (`MixesRound`).
* The scalar kernel as a history. `Reference` gives a word nine events: its read, and in
  either pass two halves of `G` in its column and two in its diagonal (`ReferenceIs`).
  `History(w, n)` is the first n.
* A kernel against that history. `Behind(w)` counts the events behind a word from `pass`,
  `group` and `step`. The invariant `KernelInv` says: the rounds in flight are `Laid`
  (`FlightInv`); a register of the block not in flight holds the words of its own
  place once it was read, or carried from the last call (`StateInv`, `LiveInv`: it is
  what makes a read of an overwritten or uninitialised register impossible); a word has
  exactly its first `Behind(w)` events (`MixedInv`); `block_xy` took each word read
  at its own place, before the place was stored (`XyInv`); and `next` has
  the finished words of the groups behind and nothing more (`NextInv`). Each action keeps
  it (`KernelInvariant`). That a group's rounds are whole, and the groups a partition of
  the block, is what lets the words of other groups alone (`FusedGroup`, `GroupEdges`).

**Backends_proofs.** Of `BackendCache` (any threads, hosts and numbers of calls):
`AnswersRun` and `AnswersAgree`. What any load can see is the sentinel or an answer of
detection, because what a thread is about to store is such an answer (`StoresAnswers`);
each entry of a cascade asks for the features its backend needs, and a cascade ends in an
entry that asks for none. Without a measurement detection has one answer.

Of `Base64Codec` (any inputs of bytes, any capacity, any of the five backends):
`CodecInBounds`, no load passes `src` and no store `dst`. Every register operation keeps
its number of bytes (`Measures`), so a block writes what its loop says; a decoder asks for
that room before each block. An encoder does not: it asked once, for the whole text. The
invariant (`CodecInv`) therefore keeps threes and fours in step (`InStep`), and the whole
threes of the input never need more than `B64Len` of it.

`EncodesTheText`: whatever the backend, the bytes and the capacity, the encoder returns
the text of the specification, `ReferenceEncode`, which regroups the bits of the input by
six and looks each group up in the alphabet. Four facts make it up. The letter of a
number below 64 is the alphabet's, for the branch-free scalar arithmetic and for the
saturating subtractions, comparisons and tables of each instruction set
(`ScalarAlphabet`, `X86Alphabet`, `WasmAlphabet`, `NeonAlphabet`). The shuffles, masks
and multiply-shifts of a block cut three bytes into the four numbers that the reference
cuts them into (`SextetOf`), so a block of any backend writes the text of its bytes
(`NarrowText`, `WideText`, `NeonText`). The scalar loop, a recursion over an accumulator,
has a closed form (`ScalarText`): after n bytes it holds the bits not yet written, which
are at most four. And the text of a whole number of threes is the beginning of the text
of anything longer (`ReferenceText`), so the invariant `TextInv` may say that after 3k
bytes the first 4k letters are written, and the scalar code, which gets the rest, ends the
text with the letters that remain.

`DecodesTheText` is the same for the decoders, whose result is more than bytes: where they
stop, and whether they fail. A block takes only letters, and computes of each four the
three bytes of the reference (`X86Bytes`, `NeonBytes`, `WasmBytes`): what the tables, the
comparisons and the saturating subtractions give for a byte is its value in the alphabet, or
marks the whole block as refused. So the invariant `BytesInv` says that the first 4k
characters are letters and `out` has their 3k bytes; a block that is refused changes
neither. `Takes` lists what one turn of the scalar loop may do, and `HasRead` says where
the loop is after k characters of which the first n are letters: still reading, stopped
at a character, or full. The last six bits of the accumulator are those of the last
letter, so the bits left over can be judged at the end (`ScalarDecodes`). The reference
looks for the place where the letters stop, which is one (`StopsOnce`), and regroups six
bits to eight (`RegroupedValues`); `Refused` is when it answers an error (`ReferenceIs`).
What is left after 4k letters is refused exactly when the whole text is (`RestStops`), and
that gives the result of every decoder (`BytesEnd`).

**Numbers.** The library's induction takes a predicate as an operator, which the provers
cannot instantiate. Here a predicate is a set of numbers: `SetInduction` says that a set
with zero and all successors has every natural number, and follows from the pigeonhole
principle (moving the members up by one would map `0 .. n` into `1 .. n`). From it come
`BoundedInduction`, `IterationExists` (a step function determines the recursive
function; this is how `Matrix` is unfolded) and sums over finite
sets (`SummingDefines`), by which lengths of strings are computed. Quotients of sums and
of products, and the bitwise operators of `Bits`, digit by digit: a mask is a remainder,
a disjunction of numbers that share no bit is their sum (`Masks`, `Ors`, `Xors`).

The type invariants `WorkspaceTypeOK`, `BoundedVerifyTypeOK`, `TypeOK` of the pool and
`DrawTypeOK` are parts of these invariants, so the runs do not repeat them.

### Only model-checked

* `Terminates` and `DrawEnds`, which need fairness. The safety properties and the action
  properties of the passing runs are all theorems.

## 5. Not modelled

* the number of bits of a word in the vector arithmetic: `VectorWords` has eight of the
  64, which keeps the structure of bytes and halves and loses nothing else;
* the prefetching of AVX-512, which changes no state;
* constant-time comparison and the compiler barriers of the wipe: not properties of
  states;
* system call numbers, symbol lookups and ABI details of `src/random.rs` and `os`;
* `bump-alloc`: a wrapper of an external crate's arena behind a feature;
* `src/error.rs`: a table of codes and texts; `Debug`, the getters and the newtypes of
  units, which neither change nor decide anything;
* tests, benchmarks, fuzz targets and the C reference, which are not the program.

## 6. Where documentation and code differ

* `workspace_unwind`: `Drop for Arena` never spawns threads while unwinding and says
  why (`src/memory.rs:982`); the guard of a pooled arena, dropped by the same panic,
  goes through `Workspace::release` and `wipe_visible` with all its workers.
* `stripe_pages`: the comments on `StripeBase` (`src/memory.rs:507`) and on `stripe_over`
  (`src/memory.rs:550`) say that stripes are whole pages, so that two workers never touch
  one page. `wipe_visible` passes `ARENA_ALIGN`, 64 bytes, for the unit (`:922`), so
  workers do meet in a page wherever the stripe's length is no multiple of one, as for two
  workers and 65540 KiB. They share no cache line, so every byte is wiped all the same.
* `backend_cache_timed`: `detect_and_cache` says that racing threads compute the same
  answer (`src/fill_block/mod.rs:427`); where the NEON kernel is chosen by a
  measurement they may not. Both backends give the same tag.

## 7. Plan

Done, in this order, the most important behaviour first: `FillSpec`, `FillPool` and
its proofs; `IndexAlpha`, `MatrixFill`, `FillKernels`; `Workspace`, `Hasher` and their
proofs; `StripeWipe` and its proofs; `BackendCache`; `Blake2b`; `Params`, `PhcString`,
`BoundedVerify` and their proofs; `Blake2bKernels`, `VectorWords`, `Base64Codec`;
`OsRandom`, `Argon2Calls`, and their proofs; the proofs of `MatrixFill` and `OsMemory`;
`Numbers`, and with it the proofs that compare with recursive computations
(`TagDetermined`, `DigestIsOfTheStream`, `OutputIsLong`) and sums (`OwnStringsAccepted`);
the action properties of `Workspace` and `Hasher`; the proofs of `BackendCache` and of the
bounds of `Base64Codec`; the text that its encoders write and the bytes that its decoders
give; the proofs of `VectorWords`, for every word, of `Blake2bKernels` and of
`FillKernels`.

Next: `VectorWords` for words of any multiple of eight bits.
3. Composition: the pool over the per-block fill, so that the schedule of `MatrixFill`
   is the one `FillPool` allows.
