----------------------------- MODULE StripeWipe -----------------------------
(***************************************************************************)
(* stripe_over of src/src/memory.rs, as wipe_visible calls it: a region is *)
(* cut into stripes of whole units, and the caller and the threads it      *)
(* manages to spawn claim stripes from one relaxed counter.                *)
(*                                                                         *)
(* Module Workspace takes a wipe for one step that zeroes the whole        *)
(* window; this module is what justifies that.  Addresses matter here: a   *)
(* region begins where the unit says it may, not where a page does.        *)
(***************************************************************************)
EXTENDS Integers

CONSTANTS
  Lengths,      \* the lengths a region may have
  MaxWorkers,   \* the largest number of workers
  Units,        \* what a stripe may have to be a multiple of: ARENA_ALIGN
  Starts,       \* the addresses a region may begin at, if its unit divides them
  PageBytes     \* the bytes of a page

ASSUME StripeAssumption ==
  /\ Lengths \subseteq Nat \ {0}
  /\ MaxWorkers \in Nat \ {0}
  /\ Units \subseteq Nat \ {0}
  /\ Starts \subseteq Nat
  /\ PageBytes \in Nat \ {0}

Caller == 1
Thread == 1 .. MaxWorkers

VARIABLES
  start, len, workers, unit,  \* the arguments; start is base
  next,    \* the counter stripes are claimed from
  pc,      \* where each thread is
  stripe,  \* the stripe it claimed last
  wiped    \* the addresses f has run over

arguments == <<start, len, workers, unit>>
stripeVars == <<arguments, next, pc, stripe, wiped>>

Bytes(from, length) == from .. from + length - 1

\* What the caller has given away: [base, base + len).
Region == Bytes(start, len)

CeilDiv(a, b) == (a + b - 1) \div b
NextMultipleOf(a, b) == CeilDiv(a, b) * b

\* The length of a stripe.
Per == NextMultipleOf(CeilDiv(len, workers), unit)

Stripes == CeilDiv(len, Per)

\* A plausible bug, which no specification uses: the last stripe is not cut.
StripeMutant(i) == Bytes(start + i * Per, Per)

\* What f runs over for stripe i: min(per, len - off) bytes from base + off.
Stripe(i) ==
  LET off == i * Per
  IN  Bytes(start + off, IF Per < len - off THEN Per ELSE len - off)

\* The regions of wipe_visible begin on a multiple of ARENA_ALIGN.
StripeInit ==
  /\ start \in Starts
  /\ len \in Lengths
  /\ workers \in 1 .. MaxWorkers
  /\ unit \in Units
  /\ start % unit = 0
  /\ next = 0
  /\ pc = [t \in Thread |-> IF t = Caller THEN "start" ELSE "unborn"]
  /\ stripe = [t \in Thread |-> 0]
  /\ wiped = {}

-----------------------------------------------------------------------------
\* One stripe: no scope, no threads.
WipeWhole ==
  /\ pc[Caller] = "start"
  /\ workers = 1 \/ Per >= len
  /\ wiped' = Region
  /\ pc' = [pc EXCEPT ![Caller] = "returned"]
  /\ UNCHANGED <<arguments, next, stripe>>

EnterScope ==
  /\ pc[Caller] = "start"
  /\ ~(workers = 1 \/ Per >= len)
  /\ pc' = [pc EXCEPT ![Caller] = "spawn"]
  /\ UNCHANGED <<arguments, next, stripe, wiped>>

\* spawn_scoped succeeds, or its error is ignored.
Spawn(t) ==
  /\ pc[Caller] = "spawn"
  /\ t \in 2 .. workers
  /\ pc[t] = "unborn"
  /\ \/ pc' = [pc EXCEPT ![t] = "claim"]
     \/ pc' = [pc EXCEPT ![t] = "refused"]
  /\ UNCHANGED <<arguments, next, stripe, wiped>>

SpawnLoopEnds ==
  /\ pc[Caller] = "spawn"
  /\ \A t \in 2 .. workers : pc[t] # "unborn"
  /\ pc' = [pc EXCEPT ![Caller] = "claim"]
  /\ UNCHANGED <<arguments, next, stripe, wiped>>

\* next.fetch_add(1, Relaxed) returns a stripe that exists.
ClaimStripe(t) ==
  /\ pc[t] = "claim"
  /\ next < Stripes
  /\ next' = next + 1
  /\ stripe' = [stripe EXCEPT ![t] = next]
  /\ pc' = [pc EXCEPT ![t] = "wipe"]
  /\ UNCHANGED <<arguments, wiped>>

StripesExhausted(t) ==
  /\ pc[t] = "claim"
  /\ next >= Stripes
  /\ next' = next + 1
  /\ pc' = [pc EXCEPT ![t] = IF t = Caller THEN "join" ELSE "done"]
  /\ UNCHANGED <<arguments, stripe, wiped>>

\* f has run over the stripe.
WipeStripe(t) ==
  /\ pc[t] = "wipe"
  /\ wiped' = wiped \cup Stripe(stripe[t])
  /\ pc' = [pc EXCEPT ![t] = "claim"]
  /\ UNCHANGED <<arguments, next, stripe>>

\* Detached threads: nobody waits for them.
JoinMutant ==
  /\ pc[Caller] = "join"
  /\ pc' = [pc EXCEPT ![Caller] = "returned"]
  /\ UNCHANGED <<arguments, next, stripe, wiped>>

\* thread::scope waits for every thread it started.
Join ==
  /\ pc[Caller] = "join"
  /\ \A t \in 2 .. workers : pc[t] \in {"refused", "done"}
  /\ pc' = [pc EXCEPT ![Caller] = "returned"]
  /\ UNCHANGED <<arguments, next, stripe, wiped>>

StripeNext ==
  \/ WipeWhole
  \/ EnterScope
  \/ \E t \in Thread : Spawn(t) \/ ClaimStripe(t) \/ StripesExhausted(t) \/ WipeStripe(t)
  \/ SpawnLoopEnds
  \/ Join
  \/ pc[Caller] = "returned" /\ UNCHANGED stripeVars

StripeSpec == StripeInit /\ [][StripeNext]_stripeVars

-----------------------------------------------------------------------------
StripeTypeOK ==
  /\ start \in Starts
  /\ len \in Lengths
  /\ workers \in 1 .. MaxWorkers
  /\ unit \in Units
  /\ start % unit = 0
  /\ next \in Nat
  /\ pc \in [Thread -> {"start", "unborn", "refused", "spawn", "claim", "wipe",
                        "join", "done", "returned"}]
  /\ stripe \in [Thread -> Nat]
  /\ wiped \subseteq Region

\* Every byte has been wiped when the call returns, and none outside of the region,
\* whichever threads were refused, and nobody is still at work on memory that may
\* now be unmapped.
WipesEverything ==
  pc[Caller] = "returned" =>
    /\ wiped = Region
    /\ \A t \in Thread : pc[t] # "wipe"

BlocksOf(t, size) == {b \div size : b \in Stripe(stripe[t])}

\* No two workers are within the same size bytes, from a multiple of size on, at once.
Apart(size) ==
  \A t, u \in Thread :
    pc[t] = "wipe" /\ pc[u] = "wipe" /\ t # u => BlocksOf(t, size) \cap BlocksOf(u, size) = {}

\* No two workers are in the same cache line at once, no byte is given to a second one
\* later, and each stays inside of the region it was given (the SAFETY comments of
\* stripe_over and of wipe_visible: disjoint sub-ranges of a live allocation).
StripesApart ==
  /\ Apart(unit)
  /\ \A t \in Thread : pc[t] = "wipe" => Stripe(stripe[t]) \subseteq Region \ wiped

\* What the comments on StripeBase and stripe_over say beyond that: "no two workers
\* ever touch the same byte or the same page-table entry", and a boundary is kept
\* "off the middle of a page, so two workers can never fault the same page".  The
\* code's one caller gives it cache lines for a unit.
StripesOwnPages == Apart(PageBytes)

\* A claimed stripe is never empty: the offset i * per lies inside of the region
\* (what the SAFETY comment on `base.at(off)` says, and why `len - off` cannot
\* wrap).
OffsetInRegion ==
  \A t \in Thread : pc[t] = "wipe" => stripe[t] * Per < len
=============================================================================
