---------------------------- MODULE BackendCache ----------------------------
(***************************************************************************)
(* The process-wide caches of CPU detection: backend() in                  *)
(* src/src/fill_block/mod.rs, blake2b_backend() in src/src/blake2b.rs,     *)
(* base64_backend() in src/src/base64.rs and have_ssse3() in               *)
(* src/src/fill_block/sse2.rs.  Each is one AtomicU8 that is loaded and    *)
(* stored with Relaxed ordering and starts out as a sentinel.              *)
(*                                                                         *)
(* The writes of the atomic are a log, in modification order; a Relaxed    *)
(* load returns any write that is not older than the last one its thread   *)
(* read or made.  The caches do not interact, so a behaviour is about one  *)
(* of them.  Running an implementation on a CPU without the instructions   *)
(* it is compiled to is undefined behaviour.                               *)
(***************************************************************************)
EXTENDS Integers, Sequences

CONSTANTS
  Threads,
  Hosts,      \* the sets of CPU features a process may find
  MaxCalls    \* bound on the calls of each thread

ASSUME BackendAssumption ==
  /\ Hosts \subseteq SUBSET {"sse2", "ssse3", "sse4.1", "avx2", "avx512f",
                             "avx512vl", "neon", "simd128"}
  /\ MaxCalls \in Nat

VARIABLES
  cache,     \* which of the four statics
  host,      \* what the CPU (or the target) has
  timed,     \* whether neon_wins_here is a measurement in this build
  writes,    \* the writes of the atomic
  pc,        \* where each thread is in its call
  lastRead,  \* the index of the last write each thread read or made
  detected,  \* what its detect() returned
  answers    \* history: what its calls returned, in order

setting == <<cache, host, timed>>
vars == <<setting, writes, pc, lastRead, detected, answers>>

Caches == {"fill", "blake2b", "base64", "ssse3"}
Uninit == "uninit"

\* What each cascade tries, in order, and the features its probes ask for.
Cascade ==
  [fill    |-> <<<<"avx512", {"avx512f"}>>, <<"avx2", {"avx2"}>>,
                 <<"sse2", {"sse2"}>>, <<"neon", {"neon"}>>,
                 <<"wasm128", {"simd128"}>>, <<"scalar", {}>>>>,
   blake2b |-> <<<<"avx512", {"avx2", "avx512f", "avx512vl"}>>, <<"avx2", {"avx2"}>>,
                 <<"sse41", {"sse4.1"}>>, <<"scalar", {}>>>>,
   base64  |-> <<<<"avx2", {"avx2", "ssse3"}>>, <<"ssse3", {"ssse3"}>>,
                 <<"neon", {"neon"}>>, <<"wasm128", {"simd128"}>>, <<"scalar", {}>>>>,
   ssse3   |-> <<<<"yes", {"ssse3"}>>, <<"no", {}>>>>]

\* The features that the functions behind a value are compiled with.
Needs(value) ==
  CASE value = "avx512"  -> IF cache = "fill" THEN {"avx512f"}
                            ELSE {"avx2", "avx512f", "avx512vl"}
    [] value = "avx2"    -> IF cache = "base64" THEN {"avx2", "ssse3"} ELSE {"avx2"}
    [] value = "sse41"   -> {"sse4.1"}
    [] value = "ssse3"   -> {"ssse3"}
    [] value = "yes"     -> {"ssse3"}
    [] value = "sse2"    -> {"sse2"}
    [] value = "neon"    -> {"neon"}
    [] value = "wasm128" -> {"simd128"}
    [] OTHER             -> {}

Values == {c[1] : c \in UNION {{Cascade[k][i] : i \in DOMAIN Cascade[k]} : k \in Caches}}

\* Definitions named ...Mutant are plausible bugs; no specification uses them.
\* This one asks about the baseline only.
ProbeMutant(i) == Cascade[cache][i][2] \cap host # {} \/ Cascade[cache][i][2] = {}

\* A probe of the cascade succeeds.
Probe(i) == Cascade[cache][i][2] \subseteq host

\* The shootout may turn the NEON of the fill down, however often it is run.
SkippedByTiming(i) == timed /\ cache = "fill" /\ Cascade[cache][i][1] = "neon"

First(S) == CHOOSE i \in S : \A j \in S : i <= j

\* What detect() may return.
Detectable ==
  LET hits == {i \in DOMAIN Cascade[cache] : Probe(i)}
      cold == {i \in hits : ~SkippedByTiming(i)}
  IN {Cascade[cache][First(hits)][1], Cascade[cache][First(cold)][1]}

Init ==
  /\ cache \in Caches
  /\ host \in Hosts
  /\ timed \in BOOLEAN /\ (timed => "neon" \in host)
  /\ writes = <<Uninit>>
  /\ pc = [t \in Threads |-> "idle"]
  /\ lastRead = [t \in Threads |-> 1]
  /\ detected = [t \in Threads |-> Uninit]
  /\ answers = [t \in Threads |-> <<>>]

-----------------------------------------------------------------------------
\* The Relaxed load returns a value that somebody cached ...
LoadCached(t, i) ==
  /\ pc[t] = "idle"
  /\ Len(answers[t]) < MaxCalls
  /\ i >= lastRead[t]
  /\ writes[i] # Uninit
  /\ lastRead' = [lastRead EXCEPT ![t] = i]
  /\ answers' = [answers EXCEPT ![t] = Append(@, writes[i])]
  /\ UNCHANGED <<setting, writes, pc, detected>>

\* The sentinel goes through from_u8 as any other value.
LoadSentinelMutant(t, i) ==
  /\ pc[t] = "idle"
  /\ Len(answers[t]) < MaxCalls
  /\ i >= lastRead[t]
  /\ writes[i] = Uninit
  /\ lastRead' = [lastRead EXCEPT ![t] = i]
  /\ \/ pc' = [pc EXCEPT ![t] = "detect"] /\ UNCHANGED answers
     \/ /\ cache # "ssse3"
        /\ answers' = [answers EXCEPT ![t] = Append(@, "scalar")]
        /\ UNCHANGED pc
  /\ UNCHANGED <<setting, writes, detected>>

\* ... or the sentinel, even after a store by another thread.
LoadSentinel(t, i) ==
  /\ pc[t] = "idle"
  /\ Len(answers[t]) < MaxCalls
  /\ i >= lastRead[t]
  /\ writes[i] = Uninit
  /\ lastRead' = [lastRead EXCEPT ![t] = i]
  /\ pc' = [pc EXCEPT ![t] = "detect"]
  /\ UNCHANGED <<setting, writes, detected, answers>>

Detect(t) ==
  /\ pc[t] = "detect"
  /\ \E d \in Detectable : detected' = [detected EXCEPT ![t] = d]
  /\ pc' = [pc EXCEPT ![t] = "store"]
  /\ UNCHANGED <<setting, writes, lastRead, answers>>

\* The Relaxed store, and the return of detect_and_cache.
Store(t) ==
  /\ pc[t] = "store"
  /\ writes' = Append(writes, detected[t])
  /\ lastRead' = [lastRead EXCEPT ![t] = Len(writes) + 1]
  /\ answers' = [answers EXCEPT ![t] = Append(@, detected[t])]
  /\ pc' = [pc EXCEPT ![t] = "idle"]
  /\ UNCHANGED <<setting, detected>>

\* Every thread has used up its calls.
Finished == \A t \in Threads : pc[t] = "idle" /\ Len(answers[t]) = MaxCalls

Next ==
  \/ \E t \in Threads, i \in DOMAIN writes : LoadCached(t, i) \/ LoadSentinel(t, i)
  \/ \E t \in Threads : Detect(t) \/ Store(t)
  \/ Finished /\ UNCHANGED vars

Spec == Init /\ [][Next]_vars

-----------------------------------------------------------------------------
AnswersOf(t) == {answers[t][i] : i \in DOMAIN answers[t]}
AllAnswers == UNION {AnswersOf(t) : t \in Threads}

\* Every value that a call returns is one the CPU can execute, whoever detected
\* it and however stale the load was: what the SAFETY comment in
\* fill_memory_blocks relies on.
AnswersCanRun == \A v \in AllAnswers : v \in Values /\ Needs(v) \subseteq host

\* Without a measurement all calls of all threads give the same answer, whatever
\* the interleaving.
AgreeUnlessTimed ==
  ~timed => \A v, w \in AllAnswers : v = w

\* "Every thread that races here computes the same answer", as the comments on
\* detect_and_cache have it.
RacersAgree == \A t, u \in Threads :
  detected[t] # Uninit /\ detected[u] # Uninit => detected[t] = detected[u]
=============================================================================
