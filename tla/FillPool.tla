------------------------------ MODULE FillPool ------------------------------
(***************************************************************************)
(* fill_pooled of src/src/core.rs: the pass / slice / lane nest of the     *)
(* fill on a pool of threads that lives for the whole hash.                *)
(*                                                                         *)
(* The thread that called into the hash (Leader) tries to spawn Helpers,   *)
(* any of which the OS may refuse.  In every step (pass * 4 + slice) each  *)
(* worker claims lanes from next_lane until none is left; a helper then    *)
(* adds itself to arrived and waits for generation to reach its own count; *)
(* the leader waits until arrived + lost covers every helper, resets the   *)
(* counters and publishes the next generation.  fill_segment and the trace *)
(* callback may panic: a helper's Bail guard adds it to lost, the leader's *)
(* ReleaseHelpers guard sets stop and bumps generation, and thread::scope  *)
(* joins everybody before it re-raises the panic.                          *)
(*                                                                         *)
(* Memory model.  Atomic read-modify-writes act on the latest value.  A    *)
(* plain load may return any write not older than the last one its thread  *)
(* has read of that location; so the writes of generation are kept as a    *)
(* log, in modification order.  happens-before is tracked for what the     *)
(* code relies on: hb[w] is the set of segments whose computation (reads   *)
(* and writes of the arena) happens before what w does next, and           *)
(* knowsStop[w] says that the store to stop does.  A Release write         *)
(* attaches its thread's view to the message, an Acquire load joins the    *)
(* view of the message it reads, a Relaxed access does neither.            *)
(***************************************************************************)
EXTENDS Integers, Sequences, FiniteSets

CONSTANTS
  Leader,      \* the thread that called fill_pooled
  Helpers,     \* the threads it tries to spawn: workers - 1 of them
  Lanes,       \* Instance::lanes
  Passes,      \* Instance::passes
  GenModulus   \* generation is a u32 that wraps: 2^32 in the code

ASSUME FillPoolAssumption ==
  /\ IsFiniteSet(Helpers)
  /\ Leader \notin Helpers
  /\ Lanes \in Nat \ {0}
  /\ Passes \in Nat \ {0}
  /\ GenModulus \in Nat
  /\ GenModulus >= 2

VARIABLES
  nextLane,    \* FillSync::next_lane
  arrived,     \* FillSync::arrived
  lost,        \* FillSync::lost
  stop,        \* FillSync::stop, its latest value
  generation,  \* the writes of FillSync::generation, in modification order
  arrivedHb,   \* the view an Acquire load of arrived joins
  pc,          \* where each worker is
  step,        \* the pass and slice it is in, as pass * 4 + slice
  lane,        \* the lane it claimed last
  count,       \* its local `generation`
  lastRead,    \* the index of the last write of generation it read
  hb,          \* its view: the segments that happen before its next action
  knowsStop,   \* whether the store to stop happens before its next action
  got,         \* what the leader's last load of arrived returned
  unwinding,   \* whether the leader is unwinding
  filled,      \* the segments that have been computed
  traced       \* the passes the trace callback has been shown

atomics == <<nextLane, arrived, lost, stop, generation, arrivedHb>>
workers == <<step, lane, count, lastRead, hb, knowsStop>>
leads   == <<got, unwinding, traced>>
vars == <<atomics, pc, workers, leads, filled>>

Workers == Helpers \cup {Leader}

SyncPoints == 4
Steps == SyncPoints * Passes
Segment == (0 .. Steps - 1) \X (0 .. Lanes - 1)
Before(n) == {s \in Segment : s[1] < n}

GenValue == 0 .. GenModulus - 1
WrapInc(v) == IF v = GenModulus - 1 THEN 0 ELSE v + 1

\* A write of generation: its value, and the view a Release attaches to it.
Message == [val : GenValue, hb : SUBSET Segment, stop : BOOLEAN]

\* The threads the OS refused, and the `helpers - spawned` that stands for them.
Refused == {h \in Helpers : pc[h] = "refused"}

\* The segment a worker holds.
Held(w) == <<step[w], lane[w]>>

LeaderPC == {"spawn", "charge", "drain", "fill", "loadArrived", "loadLost",
             "decide", "abortStop", "abortBump", "trace", "reset", "publish",
             "dropStop", "dropBump", "join", "returned", "unwound"}
HelperPC == {"unborn", "refused", "drain", "fill", "arrive", "park", "check",
             "bail", "lost", "done"}

TypeOK ==
  /\ nextLane \in Nat
  /\ arrived \in Nat
  /\ lost \in Nat
  /\ stop \in BOOLEAN
  /\ generation \in Seq(Message)
  /\ generation # <<>>
  /\ arrivedHb \subseteq Segment
  /\ pc \in [Workers -> LeaderPC \cup HelperPC]
  /\ pc[Leader] \in LeaderPC
  /\ \A h \in Helpers : pc[h] \in HelperPC
  /\ step \in [Workers -> 0 .. Steps]
  /\ lane \in [Workers -> 0 .. Lanes - 1]
  /\ count \in [Workers -> GenValue]
  /\ lastRead \in [Workers -> Nat]
  /\ hb \in [Workers -> SUBSET Segment]
  /\ knowsStop \in [Workers -> BOOLEAN]
  /\ got \in Nat
  /\ unwinding \in BOOLEAN
  /\ filled \subseteq Segment
  /\ traced \in 0 .. Passes

Init ==
  /\ nextLane = 0
  /\ arrived = 0
  /\ lost = 0
  /\ stop = FALSE
  /\ generation = <<[val |-> 0, hb |-> {}, stop |-> FALSE]>>
  /\ arrivedHb = {}
  /\ pc = [w \in Workers |-> IF w = Leader THEN "spawn" ELSE "unborn"]
  /\ step = [w \in Workers |-> 0]
  /\ lane = [w \in Workers |-> 0]
  /\ count = [w \in Workers |-> 0]
  /\ lastRead = [w \in Workers |-> 1]
  /\ hb = [w \in Workers |-> {}]
  /\ knowsStop = [w \in Workers |-> FALSE]
  /\ got = 0
  /\ unwinding = FALSE
  /\ filled = {}
  /\ traced = 0

-----------------------------------------------------------------------------
(* drain_lanes, which every worker runs *)

\* Definitions named ...Mutant are plausible bugs; no specification uses them.

\* fetch_add on next_lane hands out a lane that exists.
ClaimLane(w) ==
  /\ pc[w] = "drain"
  /\ nextLane < Lanes
  /\ nextLane' = nextLane + 1
  /\ lane' = [lane EXCEPT ![w] = nextLane]
  /\ pc' = [pc EXCEPT ![w] = "fill"]
  /\ UNCHANGED <<arrived, lost, stop, generation, arrivedHb, step, count,
                 lastRead, hb, knowsStop, leads, filled>>

\* fetch_add on next_lane returns a number past the last lane: the worker is
\* done with the step.
LanesExhausted(w) ==
  /\ pc[w] = "drain"
  /\ nextLane >= Lanes
  /\ nextLane' = nextLane + 1
  /\ pc' = [pc EXCEPT ![w] = IF w = Leader THEN "loadArrived" ELSE "arrive"]
  /\ UNCHANGED <<arrived, lost, stop, generation, arrivedHb, workers, leads,
                 filled>>

\* fill_segment returns.
FillSegment(w) ==
  /\ pc[w] = "fill"
  /\ filled' = filled \cup {Held(w)}
  /\ hb' = [hb EXCEPT ![w] = @ \cup {Held(w)}]
  /\ pc' = [pc EXCEPT ![w] = "drain"]
  /\ UNCHANGED <<atomics, step, lane, count, lastRead, knowsStop, leads>>

\* fill_segment panics: a helper starts to unwind towards its Bail guard, the
\* leader towards ReleaseHelpers.
FillPanics(w) ==
  /\ pc[w] = "fill"
  /\ pc' = [pc EXCEPT ![w] = IF w = Leader THEN "dropStop" ELSE "bail"]
  /\ unwinding' = (unwinding \/ w = Leader)
  /\ UNCHANGED <<atomics, workers, got, traced, filled>>

-----------------------------------------------------------------------------
(* A helper thread *)

\* arrived.fetch_add(1, Relaxed): the segments of the helper are not published.
ArriveMutant(h) ==
  /\ pc[h] = "arrive"
  /\ arrived' = arrived + 1
  /\ count' = [count EXCEPT ![h] = WrapInc(@)]
  /\ pc' = [pc EXCEPT ![h] = "park"]
  /\ UNCHANGED <<nextLane, lost, stop, generation, arrivedHb, step, lane,
                 lastRead, hb, knowsStop, leads, filled>>

\* arrived.fetch_add(1, Release), then the helper's own count.
Arrive(h) ==
  /\ pc[h] = "arrive"
  /\ arrived' = arrived + 1
  /\ arrivedHb' = arrivedHb \cup hb[h]
  /\ count' = [count EXCEPT ![h] = WrapInc(@)]
  /\ pc' = [pc EXCEPT ![h] = "park"]
  /\ UNCHANGED <<nextLane, lost, stop, generation, step, lane, lastRead, hb,
                 knowsStop, leads, filled>>

\* park_until ends because generation.load(Acquire) returned the i-th write and
\* its value is the one the helper waits for.
WakeByGeneration(h, i) ==
  /\ pc[h] = "park"
  /\ i >= lastRead[h]
  /\ generation[i].val = count[h]
  /\ lastRead' = [lastRead EXCEPT ![h] = i]
  /\ hb' = [hb EXCEPT ![h] = @ \cup generation[i].hb]
  /\ knowsStop' = [knowsStop EXCEPT ![h] = @ \/ generation[i].stop]
  /\ pc' = [pc EXCEPT ![h] = "check"]
  /\ UNCHANGED <<atomics, step, lane, count, leads, filled>>

\* park_until ends because stop.load(Relaxed) returned true.  Nothing is
\* acquired, but a later load of stop cannot return the older value.
WakeByStop(h) ==
  /\ pc[h] = "park"
  /\ stop
  /\ knowsStop' = [knowsStop EXCEPT ![h] = TRUE]
  /\ pc' = [pc EXCEPT ![h] = "check"]
  /\ UNCHANGED <<atomics, step, lane, count, lastRead, hb, leads, filled>>

\* stop.load(Relaxed) returns true: break out of the nest, disarm Bail, return.
CheckStopped(h) ==
  /\ pc[h] = "check"
  /\ stop
  /\ pc' = [pc EXCEPT ![h] = "done"]
  /\ UNCHANGED <<atomics, workers, leads, filled>>

\* stop.load(Relaxed) returns false, which it may do even after the store to
\* stop as long as that store does not happen before the load.
CheckContinues(h) ==
  /\ pc[h] = "check"
  /\ ~knowsStop[h]
  /\ step' = [step EXCEPT ![h] = @ + 1]
  /\ pc' = [pc EXCEPT ![h] = IF step[h] + 1 < Steps THEN "drain" ELSE "done"]
  /\ UNCHANGED <<atomics, lane, count, lastRead, hb, knowsStop, leads, filled>>

\* Bail::drop on the way out of an unwind.
BailDrop(h) ==
  /\ pc[h] = "bail"
  /\ lost' = lost + 1
  /\ pc' = [pc EXCEPT ![h] = "lost"]
  /\ UNCHANGED <<nextLane, arrived, stop, generation, arrivedHb, workers, leads,
                 filled>>

-----------------------------------------------------------------------------
(* The leader *)

SpawnHelper(h) ==
  /\ pc[Leader] = "spawn"
  /\ pc[h] = "unborn"
  /\ pc' = [pc EXCEPT ![h] = "drain"]
  /\ UNCHANGED <<atomics, workers, leads, filled>>

\* spawn_scoped returns an error, which the leader tolerates.
SpawnRefused(h) ==
  /\ pc[Leader] = "spawn"
  /\ pc[h] = "unborn"
  /\ pc' = [pc EXCEPT ![h] = "refused"]
  /\ UNCHANGED <<atomics, workers, leads, filled>>

SpawnLoopEnds ==
  /\ pc[Leader] = "spawn"
  /\ \A h \in Helpers : pc[h] # "unborn"
  /\ pc' = [pc EXCEPT ![Leader] = "charge"]
  /\ UNCHANGED <<atomics, workers, leads, filled>>

\* lost.fetch_add(helpers - spawned, Relaxed)
ChargeRefused ==
  /\ pc[Leader] = "charge"
  /\ lost' = lost + Cardinality(Refused)
  /\ pc' = [pc EXCEPT ![Leader] = "drain"]
  /\ UNCHANGED <<nextLane, arrived, stop, generation, arrivedHb, workers, leads,
                 filled>>

\* The wait condition reads arrived (Acquire) first ...
LoadArrived ==
  /\ pc[Leader] = "loadArrived"
  /\ got' = arrived
  /\ hb' = [hb EXCEPT ![Leader] = @ \cup arrivedHb]
  /\ pc' = [pc EXCEPT ![Leader] = "loadLost"]
  /\ UNCHANGED <<atomics, step, lane, count, lastRead, knowsStop, unwinding,
                 traced, filled>>

\* The leader counts itself among the helpers it waits for.
LoadLostMutant ==
  /\ pc[Leader] = "loadLost"
  /\ pc' = [pc EXCEPT ![Leader] = IF got + lost + 1 >= Cardinality(Helpers)
                                  THEN "decide" ELSE "loadArrived"]
  /\ UNCHANGED <<atomics, workers, leads, filled>>

\* ... and lost next, and starts over unless the sum covers every helper.
LoadLost ==
  /\ pc[Leader] = "loadLost"
  /\ pc' = [pc EXCEPT ![Leader] = IF got + lost >= Cardinality(Helpers)
                                  THEN "decide" ELSE "loadArrived"]
  /\ UNCHANGED <<atomics, workers, leads, filled>>

\* Goes on although a helper unwound.
DecideMutant ==
  /\ pc[Leader] = "decide"
  /\ pc' = [pc EXCEPT ![Leader] =
              IF step[Leader] % SyncPoints = SyncPoints - 1 THEN "trace"
              ELSE "reset"]
  /\ UNCHANGED <<atomics, workers, leads, filled>>

\* A helper unwound if more are lost than were refused; otherwise the last
\* slice of a pass runs the trace callback.
Decide ==
  /\ pc[Leader] = "decide"
  /\ pc' = [pc EXCEPT ![Leader] =
              IF lost > Cardinality(Refused) THEN "abortStop"
              ELSE IF step[Leader] % SyncPoints = SyncPoints - 1 THEN "trace"
              ELSE "reset"]
  /\ UNCHANGED <<atomics, workers, leads, filled>>

\* Relies on the bump of generation alone to release the helpers.
StoreStopMutant ==
  /\ \/ pc[Leader] = "abortStop" /\ pc' = [pc EXCEPT ![Leader] = "abortBump"]
     \/ pc[Leader] = "dropStop"  /\ pc' = [pc EXCEPT ![Leader] = "dropBump"]
  /\ UNCHANGED <<atomics, workers, leads, filled>>

\* stop.store(true, Relaxed), on the abort path and in ReleaseHelpers::drop.
StoreStop ==
  /\ \/ pc[Leader] = "abortStop" /\ pc' = [pc EXCEPT ![Leader] = "abortBump"]
     \/ pc[Leader] = "dropStop"  /\ pc' = [pc EXCEPT ![Leader] = "dropBump"]
  /\ stop' = TRUE
  /\ knowsStop' = [knowsStop EXCEPT ![Leader] = TRUE]
  /\ UNCHANGED <<nextLane, arrived, lost, generation, arrivedHb, step, lane,
                 count, lastRead, hb, leads, filled>>

\* The message a Release write of v to generation leaves behind.
GenMessage(v) == [val |-> v, hb |-> hb[Leader], stop |-> knowsStop[Leader]]

\* generation.fetch_add(1, Release), on the abort path and in
\* ReleaseHelpers::drop.
BumpGeneration ==
  /\ \/ pc[Leader] = "abortBump" /\ pc' = [pc EXCEPT ![Leader] = "dropStop"]
     \/ pc[Leader] = "dropBump"  /\ pc' = [pc EXCEPT ![Leader] = "join"]
  /\ generation' =
       Append(generation, GenMessage(WrapInc(generation[Len(generation)].val)))
  /\ UNCHANGED <<nextLane, arrived, lost, stop, arrivedHb, workers, leads, filled>>

TraceReturns ==
  /\ pc[Leader] = "trace"
  /\ traced' = traced + 1
  /\ pc' = [pc EXCEPT ![Leader] = "reset"]
  /\ UNCHANGED <<atomics, workers, got, unwinding, filled>>

TracePanics ==
  /\ pc[Leader] = "trace"
  /\ unwinding' = TRUE
  /\ pc' = [pc EXCEPT ![Leader] = "dropStop"]
  /\ UNCHANGED <<atomics, workers, got, traced, filled>>

\* Forgets to reset arrived.
ResetCountersMutant ==
  /\ pc[Leader] = "reset"
  /\ nextLane' = 0
  /\ pc' = [pc EXCEPT ![Leader] = "publish"]
  /\ UNCHANGED <<arrived, arrivedHb, lost, stop, generation, workers, leads,
                 filled>>

\* next_lane.store(0, Relaxed); arrived.store(0, Relaxed).  Only parked helpers
\* are left, and none of them touches either.
ResetCounters ==
  /\ pc[Leader] = "reset"
  /\ nextLane' = 0
  /\ arrived' = 0
  /\ arrivedHb' = {}
  /\ pc' = [pc EXCEPT ![Leader] = "publish"]
  /\ UNCHANGED <<lost, stop, generation, workers, leads, filled>>

\* generation.store(generation, Release) and the next iteration of the nest; the
\* last one leaves the closure and runs ReleaseHelpers::drop.
PublishGeneration ==
  /\ pc[Leader] = "publish"
  /\ count' = [count EXCEPT ![Leader] = WrapInc(@)]
  /\ generation' = Append(generation, GenMessage(count'[Leader]))
  /\ step' = [step EXCEPT ![Leader] = @ + 1]
  /\ pc' = [pc EXCEPT ![Leader] =
              IF step[Leader] + 1 < Steps THEN "drain" ELSE "dropStop"]
  /\ UNCHANGED <<nextLane, arrived, lost, stop, arrivedHb, lane, lastRead, hb,
                 knowsStop, leads, filled>>

\* Swallows the panic of a helper.
JoinScopeMutant ==
  /\ pc[Leader] = "join"
  /\ \A h \in Helpers : pc[h] \in {"refused", "lost", "done"}
  /\ hb' = [hb EXCEPT ![Leader] = UNION {hb[w] : w \in Workers}]
  /\ pc' = [pc EXCEPT ![Leader] = IF unwinding THEN "unwound" ELSE "returned"]
  /\ UNCHANGED <<atomics, step, lane, count, lastRead, knowsStop, leads, filled>>

\* thread::scope joins every thread it spawned, which orders all they did before
\* what follows, and re-raises the leader's panic or a helper's.
JoinScope ==
  /\ pc[Leader] = "join"
  /\ \A h \in Helpers : pc[h] \in {"refused", "lost", "done"}
  /\ hb' = [hb EXCEPT ![Leader] = UNION {hb[w] : w \in Workers}]
  /\ pc' = [pc EXCEPT ![Leader] =
              IF unwinding \/ \E h \in Helpers : pc[h] = "lost"
              THEN "unwound" ELSE "returned"]
  /\ UNCHANGED <<atomics, step, lane, count, lastRead, knowsStop, leads, filled>>

-----------------------------------------------------------------------------
LeaderStep ==
  \/ \E h \in Helpers : SpawnHelper(h) \/ SpawnRefused(h)
  \/ SpawnLoopEnds
  \/ ChargeRefused
  \/ ClaimLane(Leader)
  \/ LanesExhausted(Leader)
  \/ FillSegment(Leader)
  \/ LoadArrived
  \/ LoadLost
  \/ Decide
  \/ StoreStop
  \/ BumpGeneration
  \/ TraceReturns
  \/ ResetCounters
  \/ PublishGeneration
  \/ JoinScope

HelperStep(h) ==
  \/ ClaimLane(h)
  \/ LanesExhausted(h)
  \/ FillSegment(h)
  \/ Arrive(h)
  \/ WakeByStop(h)
  \/ CheckStopped(h)
  \/ CheckContinues(h)
  \/ BailDrop(h)

\* The call is over.
Over == pc[Leader] \in {"returned", "unwound"}

Next ==
  \/ LeaderStep
  \/ \E h \in Helpers : HelperStep(h)
  \/ \E h \in Helpers, i \in DOMAIN generation : WakeByGeneration(h, i)
  \/ \E w \in Workers : FillPanics(w)
  \/ TracePanics
  \/ Over /\ UNCHANGED vars

Spec == Init /\ [][Next]_vars

\* Threads are scheduled, fill_segment and the callback return unless they
\* panic, and a load in a spin loop eventually returns the latest value.  No
\* helper may count on reading an older write, and nothing has to panic.
Fairness ==
  /\ WF_vars(LeaderStep)
  /\ \A h \in Helpers :
       WF_vars(HelperStep(h) \/ WakeByGeneration(h, Len(generation)))

FairSpec == Spec /\ Fairness
-----------------------------------------------------------------------------
\* No data race on the arena: two workers inside fill_segment are in the same
\* slice of the same pass and hold different lanes (what `unsafe impl Send for
\* SharedInstance` argues).
DisjointSegments ==
  \A v, w \in Workers :
    v # w /\ pc[v] = "fill" /\ pc[w] = "fill"
      => step[v] = step[w] /\ lane[v] # lane[w]

\* A worker inside fill_segment reads blocks of every lane that earlier steps
\* wrote, and overwrites blocks that earlier steps read: all of them happen
\* before it starts, through the Release and Acquire pairs of the barrier.
EarlierStepsHappenBefore ==
  \A w \in Workers : pc[w] = "fill" => Before(step[w]) \subseteq hb[w]

\* The trace callback gets a shared slice of the whole arena: no worker is
\* inside fill_segment or can still enter it, and all that was ever computed is
\* one whole number of passes and happens before the callback.
TraceIsQuiescent ==
  pc[Leader] = "trace" =>
    /\ \A h \in Helpers : pc[h] \in {"refused", "park"}
    /\ filled = Before(step[Leader] + 1)
    /\ filled \subseteq hb[Leader]

\* fill_pooled returns normally only when every segment has been computed and
\* every computation happens before the return, whichever threads were refused.
ReturnsOnlyWhenFilled ==
  pc[Leader] = "returned" => filled = Segment /\ hb[Leader] = Segment

\* The pool implements the sequential promise: each segment is computed once,
\* after every segment of the earlier steps, and the callback sees pass ends.
Outcome == IF Over THEN pc[Leader] ELSE "running"
Promise == INSTANCE FillSpec WITH outcome <- Outcome
ImplementsFillSpec == Promise!Spec

\* The barrier never hangs: the call ends whichever threads were refused,
\* whoever panics and whenever, and however stale the helpers' loads are.
Terminates == <>Over
=============================================================================
